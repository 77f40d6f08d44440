------------------------------- MODULE CpuHwm -------------------------------
(***************************************************************************)
(* The x86 CPU of the hardware model, hwm/xmhfhwm_cpu.c: what every        *)
(* instruction that a CASM function may use does to the registers and to   *)
(* the memory.  A machine m is a record                                    *)
(*   r    the general purpose registers and eip                            *)
(*   fl   EFLAGS                                                           *)
(*   sys  every other register: descriptor tables, control, segment and    *)
(*        model specific registers, the fields of the VMCS, the address    *)
(*        port of the PCI configuration space, and whether the CPU halted  *)
(*   mem  the bytes of the memory a CASM function can reach                *)
(* An instruction is an operator from a machine to the machine after it.   *)
(* Where an operator stands for the same instruction on several registers, *)
(* the register is its parameter.                                          *)
(*                                                                         *)
(* A byte has ByteBits bits (8 in the machine; fewer keep a word within    *)
(* the integers of the model checker).  Model specific registers and VMCS  *)
(* fields are numbered by the order of Msr and Vmcs below.                 *)
(***************************************************************************)
EXTENDS Naturals, Sequences

CONSTANT ByteBits
ASSUME ByteBitsAssumption == ByteBits \in {7, 8}   \* 8 in the machine, 7 for the model checker

Byte  == 2 ^ ByteBits
Half  == Byte * Byte
Word  == Half * Half
WordBits == 4 * ByteBits
Low8(w)  == w % Byte
Low16(w) == w % Half
Wrap(n)  == n % Word

Gprs == {"eax", "ebx", "ecx", "edx", "esi", "edi", "ebp", "esp", "eip"}
Selectors == {"cs", "ds", "es", "fs", "gs", "ss"}

(* The bits of EFLAGS the model and the CASM functions use. *)
EFLAGS_CF == 0
EFLAGS_ZF == 6
EFLAGS_IF == 9
EFLAGS_DF == 10

Bit(w, i)      == (w \div 2 ^ i) % 2
SetBit(w, i)   == IF Bit(w, i) = 1 THEN w ELSE w + 2 ^ i
ClearBit(w, i) == IF Bit(w, i) = 1 THEN w - 2 ^ i ELSE w
Flag(m, i)     == Bit(m.fl, i) = 1

(* The model specific registers the hardware model knows, by number. *)
Msr == [efer |-> 1, apic_base |-> 2, sysenter_cs |-> 3, sysenter_eip |-> 4,
        sysenter_esp |-> 5, procbased_ctls2 |-> 6, mtrrcap |-> 7]
WritableMsrs == {"efer", "apic_base", "sysenter_cs", "sysenter_eip", "sysenter_esp"}
Vmcs == [host_rip |-> 1, host_rsp |-> 2, host_cr3 |-> 3]
PCI_CONFIG_ADDR_PORT == 3320   \* 0xCF8

(* What cpuid answers: a vendor, and the three feature bits. *)
INTEL_STRING == [ebx |-> 1, edx |-> 2, ecx |-> 3]
FeatureVMX == 5
FeatureXSAVE == 26
FeatureMTRR == 12

(* 0xFEE00000: of its upper half, 65248, a narrower word keeps what fits. *)
MMIO_APIC_BASE == (65248 % Half) * Half
(* The registers as the hardware model initializes them. *)
InitSys ==
  [gdtr |-> [limit |-> 0, base |-> 0], idtr |-> [limit |-> 0, base |-> 0],
   tr |-> 0, cr0 |-> 0, cr2 |-> 0, cr3 |-> 0, cr4 |-> 0,
   sel |-> [s \in Selectors |-> 0], xcr0 |-> <<0, 0>>, halted |-> FALSE,
   msr |-> [i \in DOMAIN Msr |-> CASE i = "apic_base" -> <<0, MMIO_APIC_BASE>>
                                   [] i = "procbased_ctls2" -> <<130, 0>>
                                   [] i = "mtrrcap" -> <<0, 3338>>
                                   [] OTHER -> <<0, 0>>],
   rdtsc |-> <<0, 0>>, vmcs |-> [f \in DOMAIN Vmcs |-> 0], pci_addr |-> 0]

Read16(m, a) == m.mem[a] + Byte * m.mem[a + 1]
Read32(m, a) == Read16(m, a) + Half * Read16(m, a + 2)
Write16(m, a, v) == [m EXCEPT !.mem[a] = Low8(v), !.mem[a + 1] = Low8(v \div Byte)]
Write32(m, a, v) == Write16(Write16(m, a, Low16(v)), a + 2, v \div Half)

(* The bits that are one in both, in either. *)
And(v, w) ==
  LET low[i \in 0..WordBits] ==
        IF i = 0 THEN 0 ELSE low[i - 1] + 2 ^ (i - 1) * Bit(v, i - 1) * Bit(w, i - 1)
  IN  low[WordBits]
Or(v, w) == v + w - And(v, w)

SetReg(m, reg, v) == [m EXCEPT !.r[reg] = Wrap(v)]
At(m, base, n) == m.r[base] + n
-----------------------------------------------------------------------------
(* Moves to esp. *)
addl_imm_esp(m, n) == SetReg(m, "esp", m.r.esp + n)
SublUnwrapped(m, n) ==   \* mutant of subl_imm_esp: a wider register
  [m EXCEPT !.r.esp = @ + Word - n]
subl_imm_esp(m, n) == SetReg(m, "esp", m.r.esp + Word - n)
movl_reg_esp(m, reg) == SetReg(m, "esp", m.r[reg])

hlt(m) == [m EXCEPT !.sys.halted = TRUE]

(* The stack. *)
pushl_mem(m, v) == LET d == subl_imm_esp(m, 4) IN Write32(d, d.r.esp, v)
pushl_mesp(m, n) == pushl_mem(m, Read32(m, At(m, "esp", n)))
popl_mem(m) == Read32(m, m.r.esp)
movl_mesp(m, n, reg) == SetReg(m, reg, Read32(m, At(m, "esp", n)))
mov_eax(m, reg) == SetReg(m, reg, m.r.eax)

(* A comparison sets ZF on equality and never clears it. *)
cmpl_imm_meax(m, v, n) ==
  IF Read32(m, At(m, "eax", n)) = v THEN [m EXCEPT !.fl = SetBit(@, EFLAGS_ZF)] ELSE m
movl_imm_meax(m, v, n) == Write32(m, At(m, "eax", n), v)
movl_meax(m, n, reg) == SetReg(m, reg, Read32(m, At(m, "eax", n)))
movl_reg_meax(m, n, reg) == Write32(m, At(m, "eax", n), m.r[reg])

(* The highest bit set; the loop of the model does not end on zero. *)
bsrl_ends(m, n) == Read32(m, At(m, "esp", n)) # 0
bsrl_mesp_eax(m, n) ==
  LET value == Read32(m, At(m, "esp", n))
      set == {i \in 0..(WordBits - 1) : Bit(value, i) = 1}
  IN  SetReg(m, "eax", CHOOSE i \in set : \A j \in set : j <= i)

pushl_saved(m, reg) == pushl_mem(m, m.r[reg])
movl_self(m, n, reg) == SetReg(m, reg, Read32(m, At(m, reg, n)))

cpuid(m) ==
  CASE m.r.eax = 0 -> [m EXCEPT !.r.ebx = INTEL_STRING.ebx, !.r.ecx = INTEL_STRING.ecx,
                               !.r.edx = INTEL_STRING.edx]
    [] m.r.eax = 1 -> [m EXCEPT !.r.ecx = 2 ^ FeatureVMX + 2 ^ FeatureXSAVE,
                               !.r.edx = 2 ^ FeatureMTRR]
    [] OTHER       -> [m EXCEPT !.r.ebx = 0, !.r.edx = 0]

movl_mesp_esi(m, n) == SetReg(m, "esi", Read32(m, At(m, "esp", n)))
movl_reg_mesi(m, n, reg) == Write32(m, At(m, "esi", n), m.r[reg])
popl(m, reg) == SetReg(addl_imm_esp(m, 4), reg, Read32(m, m.r.esp))

cli(m) == [m EXCEPT !.fl = ClearBit(@, EFLAGS_IF)]
sti(m) == [m EXCEPT !.fl = SetBit(@, EFLAGS_IF)]
cld(m) == [m EXCEPT !.fl = ClearBit(@, EFLAGS_DF)]

(* The store of the GDT register packs the limit before the base; that of
   the IDT register leaves a gap of two bytes between them. *)
sgdt_mesp(m, n) ==
  LET a == At(m, "esp", n)
  IN  Write32(Write16(m, a, m.sys.gdtr.limit), a + 2, m.sys.gdtr.base)
sidt_mesp(m, n) ==
  LET a == At(m, "esp", n)
  IN  Write32(Write16(m, a, m.sys.idtr.limit), a + 4, m.sys.idtr.base)
xorl(m, reg) == [m EXCEPT !.r[reg] = 0]
getsec(m) == IF m.r.ebx = 0 THEN [m EXCEPT !.r.eax = 0] ELSE m
str_ax(m) == SetReg(m, "eax", (m.r.eax - Low16(m.r.eax)) + Low16(m.sys.tr))
(* Arithmetic, on words. *)
addl_reg(m, src, dst) == SetReg(m, dst, m.r[dst] + m.r[src])
movl_mecx(m, n, reg) == SetReg(m, reg, Read32(m, At(m, "ecx", n)))
addl_imm(m, v, reg) == SetReg(m, reg, m.r[reg] + v)
movl_to_ecx(m, src) == SetReg(m, "ecx", m.r[src])
andl_imm(m, v, reg) == SetReg(m, reg, And(m.r[reg], v))
shl_imm_ecx(m, n) == SetReg(m, "ecx", (m.r.ecx % 2 ^ (WordBits - n)) * 2 ^ n)
orl_imm_eax(m, v) == SetReg(m, "eax", Or(m.r.eax, v))
shr_imm_eax(m, n) == SetReg(m, "eax", m.r.eax \div 2 ^ n)
orl_eax(m, src) == SetReg(m, "eax", Or(m.r.eax, m.r[src]))

(* Port input: only the address port of the PCI configuration space has a
   value in the model, every other port reads zero. *)
inb_dx_al(m) == SetReg(m, "eax", m.r.eax - Low8(m.r.eax))
inw_dx_ax(m) == SetReg(m, "eax", m.r.eax - Low16(m.r.eax))
inl_dx_eax(m) ==
  SetReg(m, "eax", IF Low16(m.r.edx) = PCI_CONFIG_ADDR_PORT THEN m.sys.pci_addr ELSE 0)
movl_eax_mesp(m, n) == Write32(m, At(m, "esp", n), m.r.eax)
movl_imm_mesp(m, v, n) == Write32(m, At(m, "esp", n), v)

(* Invalidations have no effect in the model; invept leaves the flags as it
   found them, invvpid clears them. *)
invept_mesp_edx(m) == m
invvpid_mesp_ecx(m) == [m EXCEPT !.fl = ClearBit(ClearBit(@, EFLAGS_CF), EFLAGS_ZF)]
movw_mesp_ax(m, n) ==
  SetReg(m, "eax", (m.r.eax - Low16(m.r.eax)) + Read16(m, At(m, "esp", n)))
movl_imm(m, v, reg) == SetReg(m, reg, v)

lgdt_mecx(m, n) ==
  LET a == At(m, "ecx", n)
  IN  [m EXCEPT !.sys.gdtr = [limit |-> Read16(m, a), base |-> Read32(m, a + 2)]]
lidt_mecx(m, n) ==
  LET a == At(m, "ecx", n)
  IN  [m EXCEPT !.sys.idtr = [limit |-> Read16(m, a), base |-> Read32(m, a + 2)]]
ltr_ax(m) == [m EXCEPT !.sys.tr = Low16(m.r.eax)]

(* Port output: only the PCI address port keeps what is written. *)
outl_eax_dx(m) ==
  IF Low16(m.r.edx) = PCI_CONFIG_ADDR_PORT THEN [m EXCEPT !.sys.pci_addr = m.r.eax] ELSE m
no_effect(m) == m   \* outb, outw, pause

(* The register a model specific register number names, if any. *)
MsrsOf(n) == {i \in DOMAIN Msr : Msr[i] = n}
wrmsr(m) ==
  [m EXCEPT !.sys.msr = [i \in DOMAIN Msr |->
     IF i \in MsrsOf(m.r.ecx) \cap WritableMsrs THEN <<m.r.edx, m.r.eax>> ELSE @[i]]]
(* The boot processor flag of the APIC base always reads one; a register
   that is not modelled leaves edx:eax as they are. *)
rdmsr(m) ==
  LET value(i) == IF i = "apic_base" THEN <<m.sys.msr[i][1], SetBit(m.sys.msr[i][2], 8)>>
                  ELSE m.sys.msr[i]
  IN  IF MsrsOf(m.r.ecx) = {} THEN m
      ELSE LET v == value(CHOOSE i \in MsrsOf(m.r.ecx) : TRUE)
           IN  [m EXCEPT !.r.edx = v[1], !.r.eax = v[2]]
(* The time stamp counter, of two words, counts its reads. *)
Successor(p) == IF p[2] = Word - 1 THEN <<Wrap(p[1] + 1), 0>> ELSE <<p[1], p[2] + 1>>
rdtsc(m) ==
  [m EXCEPT !.r.edx = m.sys.rdtsc[1], !.r.eax = m.sys.rdtsc[2], !.sys.rdtsc = Successor(@)]

(* Reads of system registers into eax. *)
movl_cr_eax(m, cr) == SetReg(m, "eax", m.sys[cr])
movl_esp(m, dst) == SetReg(m, dst, m.r.esp)
pushfl(m) == pushl_mem(m, m.fl)
movl_seg_eax(m, s) == SetReg(m, "eax", m.sys.sel[s])

(* Bit tests: the bit goes to CF; btr clears it, bts sets it. *)
CarryFrom(m, bit) == [m EXCEPT !.fl = IF bit = 1 THEN SetBit(@, EFLAGS_CF)
                                                 ELSE ClearBit(@, EFLAGS_CF)]
btl_imm_mecx(m, b, n) == CarryFrom(m, Bit(Read32(m, At(m, "ecx", n)), b))
btrl_imm_mecx(m, b, n) ==
  LET a == At(m, "ecx", n) IN Write32(btl_imm_mecx(m, b, n), a, ClearBit(Read32(m, a), b))
btsl_imm_mecx(m, b, n) ==
  LET a == At(m, "ecx", n) IN Write32(btl_imm_mecx(m, b, n), a, SetBit(Read32(m, a), b))

(* VMX: vmxon succeeds; vmclear and vmptrld change nothing, not even the
   flags; three fields of the VMCS are kept. *)
vmxon_mesp(m) == [m EXCEPT !.fl = ClearBit(ClearBit(@, EFLAGS_CF), EFLAGS_ZF)]
vmwrite_eax_ecx(m) ==
  [m EXCEPT !.sys.vmcs = [f \in DOMAIN Vmcs |-> IF Vmcs[f] = m.r.ecx THEN m.r.eax ELSE @[f]]]
vmread_ecx_eax(m) ==
  LET named == {f \in DOMAIN Vmcs : Vmcs[f] = m.r.ecx}
  IN  IF named = {} THEN m ELSE SetReg(m, "eax", m.sys.vmcs[CHOOSE f \in named : TRUE])
vmclear_vmptrld_wbinvd(m) == m

movl_reg_cr(m, reg, cr) == [m EXCEPT !.sys[cr] = m.r[reg]]
popfl(m) == [addl_imm_esp(m, 4) EXCEPT !.fl = Read32(m, m.r.esp)]

(* Only extended control register 1 is modelled. *)
xgetbv(m) ==
  IF m.r.ecx = 1 THEN [m EXCEPT !.r.eax = m.sys.xcr0[2], !.r.edx = m.sys.xcr0[1]] ELSE m
xsetbv(m) == IF m.r.ecx = 1 THEN [m EXCEPT !.sys.xcr0 = <<m.r.edx, m.r.eax>>] ELSE m

pushl(m, reg) == pushl_mem(m, m.r[reg])
pushl_imm(m, v) == pushl_mem(m, v)
popl_ebp(m) == popl(m, "ebp")
pushal(m) ==
  LET p == pushl(pushl(pushl(pushl(m, "eax"), "ecx"), "edx"), "ebx")
  IN  pushl(pushl(pushl(pushl_imm(p, m.r.esp), "ebp"), "esi"), "edi")

movw_imm_ax(m, v) == SetReg(m, "eax", (m.r.eax - Low16(m.r.eax)) + v)
movw_ax_seg(m, s) == [m EXCEPT !.sys.sel[s] = Low16(m.r.eax)]
movw_ds_ax(m) == movw_imm_ax(m, Low16(m.sys.sel.ds))
mull_ecx(m) == SetReg(m, "eax", m.r.eax * m.r.ecx)
addl_ecx_eax(m) == addl_reg(m, "ecx", "eax")

(* A forward copy of ecx bytes; ecx keeps its value.  The destination is
   outside the extents of the physical memory. *)
rep_movsb(m) ==
  IF Flag(m, EFLAGS_DF) THEN m
  ELSE [m EXCEPT !.mem = [a \in DOMAIN m.mem |->
                            IF a \in m.r.edi..(m.r.edi + m.r.ecx - 1)
                            THEN @[m.r.esi + (a - m.r.edi)] ELSE @[a]],
                 !.r.edi = Wrap(@ + m.r.ecx), !.r.esi = Wrap(@ + m.r.ecx)]
=============================================================================
