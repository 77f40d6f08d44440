----------------------------- MODULE CasmFuncs -----------------------------
(***************************************************************************)
(* The CASM functions of libs/libxmhfhw/*.cS and the entry stub of a       *)
(* verified slab, libs/libxmhfgeec/xmhfgeec_slabstubs_vft.cS, instruction  *)
(* by instruction (CasmInsn), and the harness around them: which functions *)
(* it calls, with which arguments                                          *)
(* (libs/libxmhfhw/verify/xmhfhw_casmfuncs_driver.c), and where the        *)
(* variables whose addresses it passes lie in memory.                      *)
(***************************************************************************)
EXTENDS CasmInsn, CasmArgs

CONSTANT Values   \* the words a nondeterministic argument of the harness takes
ASSUME ValuesAssumption == Values \subseteq 0..(Word - 1) /\ Values # {}

(* Addresses: the stack, growing down from StackTop, then the variables. *)
StackTop  == 40
EaxVar    == 40
EbxVar    == 44
EcxVar    == 48
EdxVar    == 52
Desc      == 56    \* a descriptor: limit in two bytes, base in four
SmpLock   == 64
SlabParams == 68   \* slab_ctype, src_slabid, dst_slabid
SysmemSrc == 80
SysmemDst == 84
Memory    == 0..87

(* Sentinel call types, xmhfgeec.h. *)
CALL_FROM_VfT_PROG == 0
CALL_EXCEPTION == 4
RET_EXCEPTION  == 5
CALL_INTERCEPT == 6
RET_INTERCEPT  == 7
CALL_uVT_uVU_PROG_TO_VfT_PROG == 8
RET_uVT_uVU_PROG_TO_VfT_PROG  == 9
-----------------------------------------------------------------------------
ReadInto(insn, end)  == <<insn, <<end>>>>
Simple(insn) == <<insn, <<"ret">>>>
FromArg(reg, insn) == <<<<"movl_mesp", 4, reg>>, insn, <<"ret">>>>

bsrl == ReadInto(<<"bsrl_mesp_eax", 4>>, "retu32")

CpuidPopsSwapped ==   \* mutant of xmhfhw_cpu_cpuid: restores in the wrong order
  <<<<"pushl", "esi">>, <<"pushl", "ebx">>, <<"movl_mesp", 12, "eax">>,
    <<"cpuid">>, <<"popl", "esi">>, <<"popl", "ebx">>, <<"ret">>>>
CpuidSubleafLost ==   \* mutant of xmhfhw_cpu_cpuid: the sub-leaf is not loaded
  <<<<"pushl", "esi">>, <<"pushl", "ebx">>, <<"movl_mesp", 12, "eax">>,
    <<"movl_mesp", 24, "ecx">>, <<"cpuid">>,
    <<"movl_mesp_esi", 20>>, <<"movl_reg_mesi", 0, "ebx">>,
    <<"movl_mesp_esi", 24>>, <<"movl_reg_mesi", 0, "ecx">>,
    <<"movl_to_ecx", "eax">>, <<"movl_mesp_esi", 16>>, <<"movl_reg_mesi", 0, "ecx">>,
    <<"movl_to_ecx", "edx">>, <<"movl_mesp_esi", 28>>, <<"movl_reg_mesi", 0, "ecx">>,
    <<"popl", "ebx">>, <<"popl", "esi">>, <<"ret">>>>
xmhfhw_cpu_cpuid ==
  <<<<"pushl", "esi">>, <<"pushl", "ebx">>, <<"movl_mesp", 12, "eax">>,
    <<"movl_mesp", 24, "ecx">>, <<"movl_self", 0, "ecx">>, <<"cpuid">>,
    <<"movl_mesp_esi", 20>>, <<"movl_reg_mesi", 0, "ebx">>,
    <<"movl_mesp_esi", 24>>, <<"movl_reg_mesi", 0, "ecx">>,
    <<"movl_to_ecx", "eax">>, <<"movl_mesp_esi", 16>>, <<"movl_reg_mesi", 0, "ecx">>,
    <<"movl_to_ecx", "edx">>, <<"movl_mesp_esi", 28>>, <<"movl_reg_mesi", 0, "ecx">>,
    <<"popl", "ebx">>, <<"popl", "esi">>, <<"ret">>>>

GetgdtbaseNoRoom ==   \* mutant of getgdtbase: no room made for the descriptor
  <<<<"sgdt_mesp", 0>>, <<"movl_mesp", 2, "eax">>, <<"retu32">>>>
getgdtbase ==
  <<<<"subl_imm_esp", 8>>, <<"sgdt_mesp", 0>>, <<"movl_mesp", 2, "eax">>,
    <<"addl_imm_esp", 8>>, <<"retu32">>>>
GetidtbaseRoomKept ==   \* mutant of getidtbase: the room is not given back
  <<<<"subl_imm_esp", 8>>, <<"sidt_mesp", 0>>, <<"movl_mesp", 2, "eax">>, <<"retu32">>>>
getidtbase ==
  <<<<"subl_imm_esp", 8>>, <<"sidt_mesp", 0>>, <<"movl_mesp", 2, "eax">>,
    <<"addl_imm_esp", 8>>, <<"retu32">>>>

PortIn(insn) ==
  <<<<"movl_mesp", 4, "edx">>, <<"xorl", "eax">>, <<insn>>, <<"xorl", "edx">>, <<"retu32">>>>
PortOut(insn) ==
  <<<<"movl_mesp", 4, "eax">>, <<"movl_mesp", 8, "edx">>, <<insn>>, <<"ret">>>>

vmx_invept ==
  <<<<"subl_imm_esp", 16>>, <<"movl_mesp", 20, "edx">>,
    <<"movl_mesp", 28, "eax">>, <<"movl_eax_mesp", 0>>,
    <<"movl_mesp", 32, "eax">>, <<"movl_eax_mesp", 4>>,
    <<"movl_imm_mesp", 0, 8>>, <<"movl_imm_mesp", 0, 12>>,
    <<"invept_mesp_edx">>, <<"jc", 14>>, <<"jz", 14>>,
    <<"xorl", "eax">>, <<"jmplabel", 15>>,
    <<"movl_imm", 1, "eax">>,
    <<"addl_imm_esp", 16>>, <<"retu32">>>>

rdmsr64 == <<<<"movl_mesp", 4, "ecx">>, <<"rdmsr">>, <<"retu64">>>>
wrmsr64 == <<<<"movl_mesp", 4, "ecx">>, <<"movl_mesp", 8, "eax">>,
             <<"movl_mesp", 12, "edx">>, <<"wrmsr">>, <<"ret">>>>
read_cr(cr) == <<<<"xorl", "edx">>, <<"movl_cr_eax", cr>>, <<"retu64">>>>
write_cr(cr) == FromArg("eax", <<"movl_reg_cr", "eax", cr>>)
read_eflags == <<<<"pushfl">>, <<"popl", "eax">>, <<"retu32">>>>
write_eflags == <<<<"pushl_mesp", 4>>, <<"popfl">>, <<"ret">>>>
read_rsp == <<<<"xorl", "edx">>, <<"movl_esp", "eax">>, <<"retu64">>>>
read_tr_sel == <<<<"xorl", "eax">>, <<"str_ax">>, <<"retu32">>>>
reloadcs == <<<<"popl", "eax">>, <<"pushl_mesp", 0>>, <<"pushl", "eax">>, <<"lret">>>>
ReloaddsregsNotGs ==   \* mutant of reloaddsregs: one register is forgotten
  <<<<"movl_mesp", 4, "eax">>, <<"movw_ax_seg", "ds">>, <<"movw_ax_seg", "es">>,
    <<"movw_ax_seg", "fs">>, <<"movw_ax_seg", "ss">>, <<"ret">>>>
reloaddsregs ==
  <<<<"movl_mesp", 4, "eax">>, <<"movw_ax_seg", "ds">>, <<"movw_ax_seg", "es">>,
    <<"movw_ax_seg", "fs">>, <<"movw_ax_seg", "gs">>, <<"movw_ax_seg", "ss">>, <<"ret">>>>

SpinLockRetriesWon ==   \* mutant of spin_lock: tries again when it won
  <<<<"movl_mesp", 4, "ecx">>, <<"btl_imm_mecx", 0, 0>>, <<"jnc", 2>>, <<"lock">>,
    <<"btrl_imm_mecx", 0, 0>>, <<"jc", 2>>, <<"ret">>>>
spin_lock ==
  <<<<"movl_mesp", 4, "ecx">>, <<"btl_imm_mecx", 0, 0>>, <<"jnc", 2>>, <<"lock">>,
    <<"btrl_imm_mecx", 0, 0>>, <<"jnc", 2>>, <<"ret">>>>
spin_unlock == FromArg("ecx", <<"btsl_imm_mecx", 0, 0>>)

OneOrZero(insn) ==   \* 1 unless the instruction signals an error
  <<insn, <<"jbe", 5>>, <<"movl_imm", 1, "eax">>, <<"jmplabel", 6>>,
    <<"movl_imm", 0, "eax">>, <<"retu32">>>>
vmread == <<<<"movl_mesp", 4, "ecx">>, <<"vmread_ecx_eax">>, <<"retu32">>>>
vmwrite == <<<<"movl_mesp", 4, "ecx">>, <<"movl_mesp", 8, "eax">>,
             <<"vmwrite_eax_ecx">>, <<"ret">>>>
xgetbv64 == <<<<"movl_mesp", 4, "ecx">>, <<"xgetbv">>, <<"retu64">>>>
xsetbv64 == <<<<"movl_mesp", 4, "ecx">>, <<"movl_mesp", 8, "eax">>,
              <<"movl_mesp", 12, "edx">>, <<"xsetbv">>, <<"ret">>>>
sysmemaccess_copy ==
  <<<<"pushl", "esi">>, <<"pushl", "edi">>, <<"movl_mesp", 12, "edi">>,
    <<"movl_mesp_esi", 16>>, <<"movl_mesp", 20, "ecx">>, <<"cld">>, <<"rep_movsb">>,
    <<"popl", "edi">>, <<"popl", "esi">>, <<"ret">>>>

(* Swap the source and the destination slab and leave for the sentinel. *)
SwapAndLeave(ctype) ==
  <<<<"movl_imm_meax", ctype, 0>>, <<"movl_meax", 4, "edx">>, <<"movl_meax", 8, "ecx">>,
    <<"movl_reg_meax", 4, "ecx">>, <<"movl_reg_meax", 8, "edx">>, <<"jmpsentinel">>>>
slab_entrystub ==
  <<<<"pushl_mesp", 4>>, <<"call_c_1p">>, <<"addl_imm_esp", 4>>, <<"movl_mesp", 4, "eax">>,
    <<"cmpl_imm_meax", CALL_uVT_uVU_PROG_TO_VfT_PROG, 0>>, <<"je", 12>>,
    <<"cmpl_imm_meax", CALL_EXCEPTION, 0>>, <<"je", 18>>,
    <<"cmpl_imm_meax", CALL_INTERCEPT, 0>>, <<"je", 24>>,
    <<"jmplabel", 30>>>>
  \o SwapAndLeave(RET_uVT_uVU_PROG_TO_VfT_PROG)
  \o SwapAndLeave(RET_EXCEPTION)
  \o SwapAndLeave(RET_INTERCEPT)
  \o <<<<"ret">>, <<"hlt">>>>
-----------------------------------------------------------------------------
(* Every function by the name the callers use. *)
Program ==
  [bsrl |-> bsrl, xmhfhw_cpu_cpuid |-> xmhfhw_cpu_cpuid,
   xmhfhw_cpu_disable_intr |-> Simple(<<"cli">>), enable_intr |-> Simple(<<"sti">>),
   getgdtbase |-> getgdtbase, getidtbase |-> getidtbase,
   inb |-> PortIn("inb_dx_al"), inw |-> PortIn("inw_dx_ax"), inl |-> PortIn("inl_dx_eax"),
   vmx_invept |-> vmx_invept,
   xmhfhw_cpu_loadGDT |-> FromArg("ecx", <<"lgdt_mecx", 0>>),
   xmhfhw_cpu_loadIDT |-> FromArg("ecx", <<"lidt_mecx", 0>>),
   xmhfhw_cpu_loadTR |-> FromArg("eax", <<"ltr_ax">>),
   outb |-> PortOut("outb_al_dx"), outw |-> PortOut("outw_ax_dx"), outl |-> PortOut("outl_eax_dx"),
   cpu_relax |-> Simple(<<"pause">>), hlt |-> Simple(<<"hlt">>), wbinvd |-> Simple(<<"wbinvd">>),
   rdmsr64 |-> rdmsr64, wrmsr64 |-> wrmsr64, rdtsc64 |-> ReadInto(<<"rdtsc">>, "retu64"),
   read_cr0 |-> read_cr("cr0"), read_cr3 |-> read_cr("cr3"), read_cr4 |-> read_cr("cr4"),
   read_cr2 |-> ReadInto(<<"movl_cr_eax", "cr2">>, "retu32"),
   write_cr0 |-> write_cr("cr0"), write_cr3 |-> write_cr("cr3"), write_cr4 |-> write_cr("cr4"),
   read_segreg_cs |-> ReadInto(<<"movl_seg_eax", "cs">>, "retu32"),
   read_segreg_ds |-> ReadInto(<<"movl_seg_eax", "ds">>, "retu32"),
   read_segreg_es |-> ReadInto(<<"movl_seg_eax", "es">>, "retu32"),
   read_segreg_fs |-> ReadInto(<<"movl_seg_eax", "fs">>, "retu32"),
   read_segreg_gs |-> ReadInto(<<"movl_seg_eax", "gs">>, "retu32"),
   read_segreg_ss |-> ReadInto(<<"movl_seg_eax", "ss">>, "retu32"),
   read_eflags |-> read_eflags, write_eflags |-> write_eflags,
   read_esp |-> ReadInto(<<"movl_esp", "eax">>, "retu32"), read_rsp |-> read_rsp,
   read_tr_sel |-> read_tr_sel,
   xmhfhw_cpu_reloadcs |-> reloadcs, xmhfhw_cpu_reloaddsregs |-> reloaddsregs,
   spin_lock |-> spin_lock, spin_unlock |-> spin_unlock,
   vmclear |-> OneOrZero(<<"vmclear_mesp", 4>>), vmptrld |-> OneOrZero(<<"vmptrld_mesp", 4>>),
   vmxon |-> OneOrZero(<<"vmxon_mesp", 4>>), vmread |-> vmread, vmwrite |-> vmwrite,
   xgetbv |-> xgetbv64, xsetbv |-> xsetbv64, sysmemaccess_copy |-> sysmemaccess_copy,
   slab_entrystub |-> slab_entrystub]

(* What the harness may call.  A function without parameters is passed
   CASM_NOPARAM, which is one null parameter. *)
With(fns, argss) == [fn : fns, args : argss]
One(vs) == {<<v>> : v \in vs}

drv_bsrl_cpuid ==
  With({"bsrl"}, One(Values))
  \cup With({"xmhfhw_cpu_cpuid"}, {<<op, EaxVar, EbxVar, EcxVar, EdxVar>> : op \in 0..2})
drv_intr_descriptors ==
  With({"xmhfhw_cpu_disable_intr", "enable_intr", "getgdtbase", "getidtbase"}, One({0}))
drv_ports_in == With({"inb", "inw", "inl"}, One({0, PCI_CONFIG_ADDR_PORT}))
drv_invept == With({"vmx_invept"}, {<<1, 2, 3, 4>>})
drv_loads ==
  With({"xmhfhw_cpu_loadGDT", "xmhfhw_cpu_loadIDT"}, One({Desc}))
  \cup With({"xmhfhw_cpu_loadTR"}, One(Values))
drv_ports_out == With({"outb", "outw", "outl"}, {<<9, p>> : p \in {0, PCI_CONFIG_ADDR_PORT}})
drv_msr_tsc ==
  With({"rdmsr64"}, One(0..7)) \cup With({"cpu_relax", "rdtsc64"}, One({0}))
drv_readcr == With({"read_cr0", "read_cr2", "read_cr3", "read_cr4"}, One({0}))
drv_readseg ==
  With({"read_segreg_cs", "read_segreg_ds", "read_segreg_es", "read_segreg_fs",
        "read_segreg_gs", "read_segreg_ss"}, One({0}))
drv_readmisc == With({"read_eflags", "read_esp", "read_rsp", "read_tr_sel"}, One({0}))
drv_spin == With({"spin_lock", "spin_unlock"}, One({SmpLock}))
drv_vmx ==
  With({"vmclear", "vmptrld", "vmxon"}, One({SysmemDst}))
  \cup With({"vmread"}, One(0..3)) \cup With({"vmwrite"}, {<<e, 7>> : e \in 0..3})
drv_write ==
  With({"write_cr0", "write_cr3", "write_cr4", "write_eflags"}, One(Values))
  \cup With({"wrmsr64"}, {<<n, 8, 9>> : n \in {1, 2, 5, 6}}) \cup With({"wbinvd"}, One({0}))
drv_xcr == With({"xgetbv"}, One({1})) \cup With({"xsetbv"}, {<<1, 3, 4>>})
drv_sysmemaccess_bcopy == With({"sysmemaccess_copy"}, {<<SysmemDst, SysmemSrc, 4>>})
(* Functions with callers but no driver of their own. *)
drv_other ==
  With({"hlt"}, One({0})) \cup With({"xmhfhw_cpu_reloadcs", "xmhfhw_cpu_reloaddsregs"}, One({16}))
drv_slab == With({"slab_entrystub"}, One({SlabParams}))

Calls ==
  drv_bsrl_cpuid \cup drv_intr_descriptors \cup drv_ports_in \cup drv_invept
  \cup drv_loads \cup drv_ports_out \cup drv_msr_tsc \cup drv_readcr \cup drv_readseg
  \cup drv_readmisc \cup drv_spin \cup drv_vmx \cup drv_write \cup drv_xcr
  \cup drv_sysmemaccess_bcopy \cup drv_other \cup drv_slab
CallTypes == {CALL_FROM_VfT_PROG, CALL_EXCEPTION, CALL_INTERCEPT, CALL_uVT_uVU_PROG_TO_VfT_PROG}
=============================================================================
