------------------------------ MODULE CasmInsn ------------------------------
(***************************************************************************)
(* The instructions of the CASM language, hwm/include/xmhfhwm_cpu.h: each  *)
(* macro emits a machine instruction and, for verification, runs the       *)
(* operator of the CPU model that stands for it.  An instruction is a      *)
(* tuple: its name, then the operands its macro takes, and the register    *)
(* its name carries: <<"movl_mesp", 4, "ecx">> is                          *)
(* xmhfhwm_cpu_insn_movl_mesp_ecx(0x4).  The label of a branch is the      *)
(* index of the instruction it goes to.                                    *)
(***************************************************************************)
EXTENDS CpuHwm

Branches == {"jmplabel", "jc", "jnc", "jz", "jnz", "je", "jbe", "ja"}
Returns  == {"ret", "retu32", "retu64", "lret"}
LoadStores ==
  {"cld", "rep_movsb", "movl_imm", "movw_imm_ax", "movl_imm_mesp", "movl_imm_meax",
   "cmpl_imm_meax", "movl_reg_meax", "movl_eax_mesp", "movl_reg_esp", "movl_mesp",
   "movw_mesp_ax", "mov_eax", "movl_mesp_esi", "movl_mecx", "movl_reg_mesi",
   "movl_meax", "movl_self", "movl_to_ecx", "movl_esp"}
Stacks == {"pushl", "pushl_mesp", "popl", "pushl_imm", "pushfl", "popfl", "pushal"}
Arithmetic ==
  {"xorl", "addl_imm_esp", "subl_imm_esp", "addl_reg", "addl_imm", "andl_imm",
   "shl_imm_ecx", "shr_imm_eax", "orl_eax", "orl_imm_eax", "btl_imm_mecx",
   "btrl_imm_mecx", "btsl_imm_mecx", "bsrl_mesp_eax", "mull_ecx"}
Segments == {"movl_seg_eax", "movw_ds_ax", "movw_ax_seg"}
Controls == {"movl_cr_eax", "movl_reg_cr"}
Vmx == {"vmxon_mesp", "vmwrite_eax_ecx", "vmread_ecx_eax", "vmclear_mesp",
        "vmptrld_mesp", "invvpid_mesp_ecx", "invept_mesp_edx", "invvpid_mesp_edx"}

(* The condition of each branch, on the flags. *)
Taken(m, op) ==
  LET cf == Flag(m, EFLAGS_CF)
      zf == Flag(m, EFLAGS_ZF)
  IN  CASE op = "jmplabel"     -> TRUE
        [] op = "jc"           -> cf
        [] op = "jnc"          -> ~cf
        [] op \in {"jz", "je"} -> zf
        [] op = "jnz"          -> ~zf
        [] op = "jbe"          -> zf /\ cf
        [] op = "ja"           -> ~zf /\ ~cf

(* ret takes eip from the stack; lret takes the code segment after it. *)
Return(m, op) ==
  LET near == popl(m, "eip")
  IN  IF op = "lret" THEN [addl_imm_esp(near, 4) EXCEPT !.sys.sel["cs"] = popl_mem(near)]
      ELSE near

ExecLoadStore(m, i) ==
  CASE i[1] = "cld"           -> cld(m)
    [] i[1] = "rep_movsb"     -> rep_movsb(m)
    [] i[1] = "movl_imm"      -> movl_imm(m, i[2], i[3])
    [] i[1] = "movw_imm_ax"   -> movw_imm_ax(m, i[2])
    [] i[1] = "movl_imm_mesp" -> movl_imm_mesp(m, i[2], i[3])
    [] i[1] = "movl_imm_meax" -> movl_imm_meax(m, i[2], i[3])
    [] i[1] = "cmpl_imm_meax" -> cmpl_imm_meax(m, i[2], i[3])
    [] i[1] = "movl_reg_meax" -> movl_reg_meax(m, i[2], i[3])
    [] i[1] = "movl_eax_mesp" -> movl_eax_mesp(m, i[2])
    [] i[1] = "movl_reg_esp"  -> movl_reg_esp(m, i[2])
    [] i[1] = "movl_mesp"     -> movl_mesp(m, i[2], i[3])
    [] i[1] = "movw_mesp_ax"  -> movw_mesp_ax(m, i[2])
    [] i[1] = "mov_eax"       -> mov_eax(m, i[2])
    [] i[1] = "movl_mesp_esi" -> movl_mesp_esi(m, i[2])

ExecMove(m, i) ==
  CASE i[1] = "movl_mecx"     -> movl_mecx(m, i[2], i[3])
    [] i[1] = "movl_reg_mesi" -> movl_reg_mesi(m, i[2], i[3])
    [] i[1] = "movl_meax"     -> movl_meax(m, i[2], i[3])
    [] i[1] = "movl_self"     -> movl_self(m, i[2], i[3])
    [] i[1] = "movl_to_ecx"   -> movl_to_ecx(m, i[2])
    [] i[1] = "movl_esp"      -> movl_esp(m, i[2])
    [] OTHER                  -> ExecLoadStore(m, i)

ExecStack(m, i) ==
  CASE i[1] = "pushl"         -> IF i[2] \in {"esi", "ebx"} THEN pushl_saved(m, i[2])
                                 ELSE pushl(m, i[2])
    [] i[1] = "pushl_mesp"    -> pushl_mesp(m, i[2])
    [] i[1] = "popl"          -> IF i[2] = "ebp" THEN popl_ebp(m) ELSE popl(m, i[2])
    [] i[1] = "pushl_imm"     -> pushl_imm(m, i[2])
    [] i[1] = "pushfl"        -> pushfl(m)
    [] i[1] = "popfl"         -> popfl(m)
    [] i[1] = "pushal"        -> pushal(m)

ExecArithmetic(m, i) ==
  CASE i[1] = "xorl"          -> xorl(m, i[2])
    [] i[1] = "addl_imm_esp"  -> addl_imm_esp(m, i[2])
    [] i[1] = "subl_imm_esp"  -> subl_imm_esp(m, i[2])
    [] i[1] = "addl_reg"      -> IF i[2] = "ecx" THEN addl_ecx_eax(m)
                                 ELSE addl_reg(m, i[2], i[3])
    [] i[1] = "addl_imm"      -> addl_imm(m, i[2], i[3])
    [] i[1] = "andl_imm"      -> andl_imm(m, i[2], i[3])
    [] i[1] = "shl_imm_ecx"   -> shl_imm_ecx(m, i[2])
    [] i[1] = "shr_imm_eax"   -> shr_imm_eax(m, i[2])
    [] i[1] = "orl_eax"       -> orl_eax(m, i[2])
    [] i[1] = "orl_imm_eax"   -> orl_imm_eax(m, i[2])
    [] i[1] = "btl_imm_mecx"  -> btl_imm_mecx(m, i[2], i[3])
    [] i[1] = "btrl_imm_mecx" -> btrl_imm_mecx(m, i[2], i[3])
    [] i[1] = "btsl_imm_mecx" -> btsl_imm_mecx(m, i[2], i[3])
    [] i[1] = "bsrl_mesp_eax" -> bsrl_mesp_eax(m, i[2])
    [] i[1] = "mull_ecx"      -> mull_ecx(m)

ExecSegment(m, i) ==
  CASE i[1] = "movl_seg_eax"  -> movl_seg_eax(m, i[2])
    [] i[1] = "movw_ds_ax"    -> movw_ds_ax(m)
    [] i[1] = "movw_ax_seg"   -> movw_ax_seg(m, i[2])

ExecControl(m, i) ==
  CASE i[1] = "movl_cr_eax"   -> movl_cr_eax(m, i[2])
    [] i[1] = "movl_reg_cr"   -> movl_reg_cr(m, i[2], i[3])

ExecSystem(m, i) ==
  CASE i[1] = "cpuid"         -> cpuid(m)
    [] i[1] = "rdtsc"         -> rdtsc(m)
    [] i[1] = "hlt"           -> hlt(m)
    [] i[1] = "cli"           -> cli(m)
    [] i[1] = "sti"           -> sti(m)
    [] i[1] = "inb_dx_al"     -> inb_dx_al(m)
    [] i[1] = "inw_dx_ax"     -> inw_dx_ax(m)
    [] i[1] = "inl_dx_eax"    -> inl_dx_eax(m)
    [] i[1] = "outl_eax_dx"   -> outl_eax_dx(m)
    [] i[1] \in {"outb_al_dx", "outw_ax_dx", "pause", "lock"} -> no_effect(m)
    [] i[1] = "rdmsr"         -> rdmsr(m)
    [] i[1] = "wrmsr"         -> wrmsr(m)
    [] i[1] = "wbinvd"        -> vmclear_vmptrld_wbinvd(m)
    [] i[1] = "sgdt_mesp"     -> sgdt_mesp(m, i[2])
    [] i[1] = "str_ax"        -> str_ax(m)
    [] i[1] = "sidt_mesp"     -> sidt_mesp(m, i[2])
    [] i[1] = "lidt_mecx"     -> lidt_mecx(m, i[2])
    [] i[1] = "ltr_ax"        -> ltr_ax(m)
    [] i[1] = "lgdt_mecx"     -> lgdt_mecx(m, i[2])
    [] i[1] = "xsetbv"        -> xsetbv(m)
    [] i[1] = "xgetbv"        -> xgetbv(m)
    [] i[1] = "getsec"        -> getsec(m)

ExecVmx(m, i) ==
  CASE i[1] = "vmxon_mesp"      -> vmxon_mesp(m)
    [] i[1] = "vmwrite_eax_ecx" -> vmwrite_eax_ecx(m)
    [] i[1] = "vmread_ecx_eax"  -> vmread_ecx_eax(m)
    [] i[1] \in {"vmclear_mesp", "vmptrld_mesp"} -> vmclear_vmptrld_wbinvd(m)
    [] i[1] = "invvpid_mesp_ecx" -> invvpid_mesp_ecx(m)
    [] i[1] \in {"invept_mesp_edx", "invvpid_mesp_edx"} -> invept_mesp_edx(m)

Exec(m, i) ==
  CASE i[1] \in LoadStores -> ExecMove(m, i)
    [] i[1] \in Stacks     -> ExecStack(m, i)
    [] i[1] \in Arithmetic -> ExecArithmetic(m, i)
    [] i[1] \in Segments   -> ExecSegment(m, i)
    [] i[1] \in Controls   -> ExecControl(m, i)
    [] i[1] \in Vmx        -> ExecVmx(m, i)
    [] OTHER               -> ExecSystem(m, i)
=============================================================================
