--------------------------- MODULE CasmContractProofs ---------------------------
(***************************************************************************)
(* Proof that the CASM functions implement AbstractCpu: between a call and *)
(* its return a function changes no register of the system but the one it  *)
(* is named for, once, to the value its caller gave, and its answer is the *)
(* register it is named for.  For bytes of either width, every set of      *)
(* words that the harness passes and any number of calls.                  *)
(*                                                                         *)
(* Kept says that an instruction leaves the registers of the contract      *)
(* alone, and Changes and Answers of the contract are worked out for each  *)
(* function.  Track says how much of its work a function has done before   *)
(* each of its instructions; for every function, KeepsTrack says that the  *)
(* next instruction takes it one step further (Straight: nothing has       *)
(* changed before the last instruction, and everything has at the return). *)
(* Where the stack is by then is the outline of CasmProofs.                *)
(***************************************************************************)
EXTENDS CasmProofs

(* The names of the registers of the contract, and those that are a field
   of the system state. *)
RegNames == SysFields \cup {"intr"} \cup Selectors \cup DOMAIN Msr \cup DOMAIN Vmcs

LEMMA NamesApart ==
  /\ DOMAIN Msr = {"efer", "apic_base", "sysenter_cs", "sysenter_eip", "sysenter_esp", "procbased_ctls2", "mtrrcap"}
  /\ DOMAIN Vmcs = {"host_rip", "host_rsp", "host_cr3"}
  /\ (SysFields \cup {"intr"}) \cap (Selectors \cup DOMAIN Msr \cup DOMAIN Vmcs) = {}
  /\ Selectors \cap (DOMAIN Msr \cup DOMAIN Vmcs) = {} /\ DOMAIN Msr \cap DOMAIN Vmcs = {}
  /\ "intr" \notin SysFields
<1>1. DOMAIN Msr = {"efer", "apic_base", "sysenter_cs", "sysenter_eip", "sysenter_esp", "procbased_ctls2", "mtrrcap"}
  BY DEF Msr
<1>2. DOMAIN Vmcs = {"host_rip", "host_rsp", "host_cr3"}
  BY DEF Vmcs
<1>3. (SysFields \cup {"intr"}) \cap (Selectors \cup DOMAIN Msr \cup DOMAIN Vmcs) = {}
  BY <1>1, <1>2 DEF SysFields, Selectors
<1>4. Selectors \cap (DOMAIN Msr \cup DOMAIN Vmcs) = {} /\ DOMAIN Msr \cap DOMAIN Vmcs = {}
  BY <1>1, <1>2 DEF Selectors
<1> QED
  BY <1>1, <1>2, <1>3, <1>4 DEF SysFields

(* The value of each of them. *)
LEMMA SysRegsOf ==
  ASSUME NEW n
  PROVE  /\ SysRegs(n) = [i \in RegNames |-> SysRegs(n)[i]] /\ DOMAIN SysRegs(n) = RegNames
         /\ \A f \in SysFields : SysRegs(n)[f] = n.sys[f]
         /\ SysRegs(n)["intr"] = Bit(n.fl, EFLAGS_IF)
         /\ \A s \in Selectors : SysRegs(n)[s] = n.sys.sel[s]
         /\ \A i \in DOMAIN Msr : SysRegs(n)[i] = n.sys.msr[i]
         /\ \A f \in DOMAIN Vmcs : SysRegs(n)[f] = n.sys.vmcs[f]
<1> DEFINE g == SysRegs(n)
<1>0. DOMAIN g = RegNames /\ g = [i \in RegNames |-> g[i]]
  BY DEF SysRegs, RegNames
<1>1. ASSUME NEW i \in RegNames
      PROVE  g[i] = CASE i \in SysFields   -> n.sys[i]
                      [] i = "intr"        -> Bit(n.fl, EFLAGS_IF)
                      [] i \in Selectors   -> n.sys.sel[i]
                      [] i \in DOMAIN Msr  -> n.sys.msr[i]
                      [] i \in DOMAIN Vmcs -> n.sys.vmcs[i]
  BY DEF SysRegs, RegNames
<1> HIDE DEF g
<1>2. \A f \in SysFields : g[f] = n.sys[f]
  BY <1>1, NamesApart DEF RegNames
<1>3. g["intr"] = Bit(n.fl, EFLAGS_IF)
  BY <1>1, NamesApart DEF RegNames
<1>4. \A s \in Selectors : g[s] = n.sys.sel[s]
  BY <1>1, NamesApart DEF RegNames
<1>5. \A i \in DOMAIN Msr : g[i] = n.sys.msr[i]
  BY <1>1, NamesApart DEF RegNames
<1>6. \A f \in DOMAIN Vmcs : g[f] = n.sys.vmcs[f]
  <2> TAKE f \in DOMAIN Vmcs
  <2>1. f \in RegNames /\ f \notin SysFields /\ f # "intr" /\ f \notin Selectors /\ f \notin DOMAIN Msr
    BY NamesApart DEF RegNames
  <2> QED
    BY <1>1, <2>1
<1> QED
  BY <1>0, <1>2, <1>3, <1>4, <1>5, <1>6 DEF g

(* What is left of them when the system state is. *)
Kept(w, n) == w.sys = n.sys /\ Bit(w.fl, EFLAGS_IF) = Bit(n.fl, EFLAGS_IF)
LEMMA KeptRegs == ASSUME NEW w, NEW n PROVE Kept(w, n) => SysRegs(w) = SysRegs(n)
  BY DEF Kept, SysRegs

(* One field is given a value. *)
Put(b, f, v) == [b EXCEPT ![f] = v]
LEMMA FieldChanged ==
  ASSUME NEW w, NEW e, NEW f, NEW v,
         w \in Machines, e \in Machines, f \in SysFields
  PROVE  w.sys = Put(e.sys, f, v) /\ Bit(w.fl, EFLAGS_IF) = Bit(e.fl, EFLAGS_IF) =>
           SysRegs(w) = Put(SysRegs(e), f, v)
<1> SUFFICES ASSUME w.sys = [e.sys EXCEPT ![f] = v], Bit(w.fl, EFLAGS_IF) = Bit(e.fl, EFLAGS_IF)
             PROVE  SysRegs(w) = [SysRegs(e) EXCEPT ![f] = v]
  BY DEF Put
<1>1. /\ w.sys.sel = e.sys.sel /\ w.sys.msr = e.sys.msr /\ w.sys.vmcs = e.sys.vmcs
      /\ w.sys[f] = v /\ \A g \in SysFields : g # f => w.sys[g] = e.sys[g]
  <2>1. e.sys \in SysStates
    BY Parts
  <2>2. DOMAIN e.sys = {"gdtr", "idtr", "tr", "cr0", "cr2", "cr3", "cr4", "sel", "xcr0", "halted", "msr", "rdtsc",
                        "vmcs", "pci_addr"}
    BY <2>1 DEF SysStates
  <2>3. SysFields \subseteq DOMAIN e.sys /\ {"sel", "msr", "vmcs"} \subseteq DOMAIN e.sys /\ {"sel", "msr", "vmcs"} \cap SysFields = {}
    BY <2>2 DEF SysFields
  <2> QED
    BY <2>3
<1> DEFINE b == SysRegs(e)
           g == SysRegs(w)
<1>2. g = [i \in RegNames |-> g[i]] /\ b = [i \in RegNames |-> b[i]]
  BY SysRegsOf
<1>3. ASSUME NEW i \in RegNames PROVE g[i] = [b EXCEPT ![f] = v][i]
  <2>1. CASE i \in SysFields
    <3>1. g[i] = w.sys[i] /\ b[i] = e.sys[i]
      BY <2>1, SysRegsOf
    <3> HIDE DEF g, b
    <3> QED
      BY <1>1, <1>2, <2>1, <3>1 DEF RegNames
  <2>2. CASE i \notin SysFields
    <3>1. g[i] = b[i]
      <4>1. CASE i = "intr"
        BY <1>1, <4>1, SysRegsOf
      <4>2. CASE i \in Selectors
        <5>1. g[i] = w.sys.sel[i] /\ b[i] = e.sys.sel[i]
          BY <4>2, SysRegsOf
        <5> HIDE DEF g, b
        <5> QED
          BY <1>1, <5>1
      <4>3. CASE i \in DOMAIN Msr
        <5>1. g[i] = w.sys.msr[i] /\ b[i] = e.sys.msr[i]
          BY <4>3, SysRegsOf
        <5> HIDE DEF g, b
        <5> QED
          BY <1>1, <5>1
      <4>4. CASE i \in DOMAIN Vmcs
        <5>1. g[i] = w.sys.vmcs[i] /\ b[i] = e.sys.vmcs[i]
          BY <4>4, SysRegsOf
        <5> HIDE DEF g, b
        <5> QED
          BY <1>1, <5>1
      <4> QED
        BY <2>2, <4>1, <4>2, <4>3, <4>4 DEF RegNames
    <3>2. i # f
      BY <2>2
    <3> QED
      BY <1>2, <3>1, <3>2
  <2> QED
    BY <2>1, <2>2
<1> HIDE DEF b, g
<1>4. DOMAIN [b EXCEPT ![f] = v] = RegNames
  BY <1>2
<1>5. g = [b EXCEPT ![f] = v]
  BY <1>2, <1>3, <1>4
<1> QED
  BY <1>5 DEF b, g

(* What the contract asks of a call that changes one register, or none. *)
Only(f, v) == [i \in {f} |-> v]
LEMMA AfterOne ==
  ASSUME NEW e, NEW k, NEW f, NEW v,
         e \in Machines, f \in RegNames
  PROVE  Contract!Changes(SysRegs(e), k) = Only(f, v) =>
           Contract!After(SysRegs(e), k) = Put(SysRegs(e), f, v)
<1> DEFINE b == SysRegs(e)
<1>1. b = [i \in RegNames |-> b[i]] /\ DOMAIN b = RegNames
  BY SysRegsOf
<1> HIDE DEF b
<1>2. ASSUME Contract!Changes(b, k) = [i \in {f} |-> v]
      PROVE  Contract!After(b, k) = [b EXCEPT ![f] = v]
  <2>1. Contract!After(b, k) = [i \in RegNames |-> IF i \in {f} THEN [j \in {f} |-> v][i] ELSE b[i]]
    BY <1>1, <1>2 DEF Contract!After
  <2> QED
    BY <1>1, <2>1
<1> QED
  BY <1>2 DEF b, Only, Put
LEMMA AfterNone ==
  ASSUME NEW e, NEW k,
         e \in Machines
  PROVE  DOMAIN Contract!Changes(SysRegs(e), k) = {} => Contract!After(SysRegs(e), k) = SysRegs(e)
<1> DEFINE b == SysRegs(e)
<1>1. b = [i \in RegNames |-> b[i]] /\ DOMAIN b = RegNames
  BY SysRegsOf
<1> HIDE DEF b
<1>2. ASSUME DOMAIN Contract!Changes(b, k) = {}
      PROVE  Contract!After(b, k) = b
  BY <1>1, <1>2 DEF Contract!After
<1> QED
  BY <1>2 DEF b

(* Instructions that leave the system registers and the interrupt flag. *)
Keeps(i) == \A n \in Machines : Kept(Exec(n, i), n)

LEMMA KeptParts ==
  ASSUME NEW n, NEW r, NEW mem,
         n \in Machines
  PROVE  /\ Kept([n EXCEPT !.r = r], n) /\ Kept([n EXCEPT !.mem = mem], n)
         /\ Kept([n EXCEPT !.r = r, !.mem = mem], n) /\ Kept(n, n)
  BY DEF Kept, Machines
LEMMA KeptReg ==
  ASSUME NEW n, NEW reg, NEW v, NEW w,
         n.sys = w.sys /\ n.fl = w.fl, DOMAIN n = {"r", "fl", "sys", "mem"}
  PROVE  /\ SetReg(n, reg, v).sys = w.sys /\ SetReg(n, reg, v).fl = w.fl
         /\ DOMAIN SetReg(n, reg, v) = {"r", "fl", "sys", "mem"}
  BY DEF SetReg
LEMMA KeptWrite16 ==
  ASSUME NEW n, NEW a, NEW v, NEW w,
         n.sys = w.sys /\ n.fl = w.fl, DOMAIN n = {"r", "fl", "sys", "mem"}
  PROVE  /\ Write16(n, a, v).sys = w.sys /\ Write16(n, a, v).fl = w.fl
         /\ DOMAIN Write16(n, a, v) = {"r", "fl", "sys", "mem"}
  BY DEF Write16
LEMMA KeptWrite ==
  ASSUME NEW n, NEW a, NEW v, NEW w,
         n.sys = w.sys /\ n.fl = w.fl, DOMAIN n = {"r", "fl", "sys", "mem"}
  PROVE  /\ Write32(n, a, v).sys = w.sys /\ Write32(n, a, v).fl = w.fl
         /\ DOMAIN Write32(n, a, v) = {"r", "fl", "sys", "mem"}
  BY KeptWrite16 DEF Write32
LEMMA KeptPush ==
  ASSUME NEW n, NEW v, NEW w,
         n.sys = w.sys /\ n.fl = w.fl, DOMAIN n = {"r", "fl", "sys", "mem"}
  PROVE  /\ pushl_mem(n, v).sys = w.sys /\ pushl_mem(n, v).fl = w.fl
         /\ DOMAIN pushl_mem(n, v) = {"r", "fl", "sys", "mem"}
<1> DEFINE d == subl_imm_esp(n, 4)
<1>1. d.sys = w.sys /\ d.fl = w.fl /\ DOMAIN d = {"r", "fl", "sys", "mem"}
  BY KeptReg DEF subl_imm_esp
<1> HIDE DEF d
<1>2. pushl_mem(n, v) = Write32(d, d.r.esp, v)
  BY DEF pushl_mem, d
<1> QED
  BY <1>1, <1>2, KeptWrite
LEMMA KeptPop ==
  ASSUME NEW n, NEW reg, NEW w,
         n.sys = w.sys /\ n.fl = w.fl, DOMAIN n = {"r", "fl", "sys", "mem"}
  PROVE  /\ popl(n, reg).sys = w.sys /\ popl(n, reg).fl = w.fl
         /\ DOMAIN popl(n, reg) = {"r", "fl", "sys", "mem"}
<1> DEFINE d == addl_imm_esp(n, 4)
<1>1. d.sys = w.sys /\ d.fl = w.fl /\ DOMAIN d = {"r", "fl", "sys", "mem"}
  BY KeptReg DEF addl_imm_esp
<1> HIDE DEF d
<1>2. popl(n, reg) = SetReg(d, reg, Read32(n, n.r.esp))
  BY DEF popl, d
<1> QED
  BY <1>1, <1>2, KeptReg

LEMMA KeepsMoves ==
  ASSUME NEW k, NEW v, NEW reg
  PROVE  /\ Keeps(<<"movl_imm", k, reg>>) /\ Keeps(<<"movl_imm_mesp", v, k>>)
         /\ Keeps(<<"movl_imm_meax", v, k>>) /\ Keeps(<<"movl_reg_meax", k, reg>>)
         /\ Keeps(<<"movl_eax_mesp", k>>) /\ Keeps(<<"movl_mesp", k, reg>>)
         /\ Keeps(<<"movl_mesp_esi", k>>) /\ Keeps(<<"movl_reg_mesi", k, reg>>)
         /\ Keeps(<<"movl_meax", k, reg>>) /\ Keeps(<<"movl_self", k, reg>>)
         /\ Keeps(<<"movl_to_ecx", reg>>) /\ Keeps(<<"movl_esp", reg>>)
<1> SUFFICES ASSUME NEW n \in Machines
             PROVE  /\ Kept(movl_imm(n, k, reg), n) /\ Kept(movl_imm_mesp(n, v, k), n)
                    /\ Kept(movl_imm_meax(n, v, k), n) /\ Kept(movl_reg_meax(n, k, reg), n)
                    /\ Kept(movl_eax_mesp(n, k), n) /\ Kept(movl_mesp(n, k, reg), n)
                    /\ Kept(movl_mesp_esi(n, k), n) /\ Kept(movl_reg_mesi(n, k, reg), n)
                    /\ Kept(movl_meax(n, k, reg), n) /\ Kept(movl_self(n, k, reg), n)
                    /\ Kept(movl_to_ecx(n, reg), n) /\ Kept(movl_esp(n, reg), n)
  BY ExecMoves DEF Keeps
<1>1. DOMAIN n = {"r", "fl", "sys", "mem"}
  BY DEF Machines
<1>2. \A s, x : Kept(SetReg(n, s, x), n)
  BY <1>1, KeptReg DEF Kept
<1>3. \A a, x : Kept(Write32(n, a, x), n)
  BY <1>1, KeptWrite DEF Kept
<1> QED
  BY <1>2, <1>3 DEF movl_imm, movl_imm_mesp, movl_imm_meax, movl_reg_meax, movl_eax_mesp, movl_mesp,
     movl_mesp_esi, movl_reg_mesi, movl_meax, movl_self, movl_to_ecx, movl_esp

LEMMA KeepsStack ==
  ASSUME NEW k, NEW reg
  PROVE  /\ Keeps(<<"pushl", reg>>) /\ Keeps(<<"pushl_mesp", k>>) /\ Keeps(<<"popl", reg>>)
         /\ Keeps(<<"pushfl">>) /\ Keeps(<<"addl_imm_esp", k>>) /\ Keeps(<<"subl_imm_esp", k>>)
         /\ Keeps(<<"xorl", reg>>) /\ Keeps(<<"bsrl_mesp_eax", k>>)
<1> SUFFICES ASSUME NEW n \in Machines
             PROVE  /\ Kept(pushl_mem(n, n.r[reg]), n) /\ Kept(pushl_mesp(n, k), n) /\ Kept(popl(n, reg), n)
                    /\ Kept(pushfl(n), n) /\ Kept(addl_imm_esp(n, k), n) /\ Kept(subl_imm_esp(n, k), n)
                    /\ Kept(xorl(n, reg), n) /\ Kept(bsrl_mesp_eax(n, k), n)
  BY ExecStackMoves, ExecOperations DEF Keeps
<1>1. DOMAIN n = {"r", "fl", "sys", "mem"}
  BY DEF Machines
<1>2. \A s, x : Kept(SetReg(n, s, x), n)
  BY <1>1, KeptReg DEF Kept
<1>3. \A x : Kept(pushl_mem(n, x), n)
  BY <1>1, KeptPush DEF Kept
<1>4. Kept(popl(n, reg), n)
  BY <1>1, KeptPop DEF Kept
<1>5. Kept(xorl(n, reg), n)
  BY <1>1 DEF Kept, xorl
<1> QED
  BY <1>2, <1>3, <1>4, <1>5 DEF pushl_mesp, pushfl, addl_imm_esp, subl_imm_esp, bsrl_mesp_eax

(* The flags other than that of the interrupts. *)
LEMMA FlagBits ==
  ASSUME NEW v, NEW i, v \in Words, i \in {EFLAGS_CF, EFLAGS_ZF, EFLAGS_DF}
  PROVE  /\ Bit(SetBit(v, i), EFLAGS_IF) = Bit(v, EFLAGS_IF)
         /\ Bit(ClearBit(v, i), EFLAGS_IF) = Bit(v, EFLAGS_IF)
<1>1. v \in Nat
  BY WidthNumbers DEF Words
<1>2. CASE i = EFLAGS_CF
  <2>1. i = 0 /\ EFLAGS_IF = 9 /\ 2^0 = 1 /\ 2^9 = 512
    BY <1>2, Powers DEF EFLAGS_CF, EFLAGS_IF
  <2> QED
    BY <1>1, <2>1 DEF Bit, SetBit, ClearBit
<1>3. CASE i = EFLAGS_ZF
  <2>1. i = 6 /\ EFLAGS_IF = 9 /\ 2^6 = 64 /\ 2^9 = 512
    BY <1>3, Powers DEF EFLAGS_ZF, EFLAGS_IF
  <2> QED
    BY <1>1, <2>1 DEF Bit, SetBit, ClearBit
<1>4. CASE i = EFLAGS_DF
  <2>1. i = 10 /\ EFLAGS_IF = 9 /\ 2^10 = 1024 /\ 2^9 = 512
    BY <1>4, Powers DEF EFLAGS_DF, EFLAGS_IF
  <2> QED
    BY <1>1, <2>1 DEF Bit, SetBit, ClearBit
<1> QED
  BY <1>2, <1>3, <1>4
LEMMA KeptFlag ==
  ASSUME NEW n, NEW i,
         n \in Machines, i \in {EFLAGS_CF, EFLAGS_ZF, EFLAGS_DF}
  PROVE  /\ Kept([n EXCEPT !.fl = SetBit(n.fl, i)], n) /\ Kept([n EXCEPT !.fl = ClearBit(n.fl, i)], n)
<1>1. n.fl \in Words
  BY Parts
<1>2. \A x : Bit(x, EFLAGS_IF) = Bit(n.fl, EFLAGS_IF) => Kept([n EXCEPT !.fl = x], n)
  BY DEF Kept, Machines
<1> QED
  BY <1>1, <1>2, FlagBits

LEMMA KeepsFlags ==
  ASSUME NEW k, NEW v
  PROVE  /\ Keeps(<<"cld">>) /\ Keeps(<<"cmpl_imm_meax", v, k>>) /\ Keeps(<<"vmxon_mesp", k>>)
         /\ Keeps(<<"btl_imm_mecx", v, k>>) /\ Keeps(<<"btrl_imm_mecx", v, k>>) /\ Keeps(<<"btsl_imm_mecx", v, k>>)
<1> SUFFICES ASSUME NEW n \in Machines
             PROVE  /\ Kept(cld(n), n) /\ Kept(cmpl_imm_meax(n, v, k), n) /\ Kept(vmxon_mesp(n), n)
                    /\ Kept(btl_imm_mecx(n, v, k), n) /\ Kept(btrl_imm_mecx(n, v, k), n) /\ Kept(btsl_imm_mecx(n, v, k), n)
  <2> SUFFICES ASSUME NEW n \in Machines
               PROVE  /\ Kept(Exec(n, <<"cld">>), n) /\ Kept(Exec(n, <<"cmpl_imm_meax", v, k>>), n)
                      /\ Kept(Exec(n, <<"vmxon_mesp", k>>), n) /\ Kept(Exec(n, <<"btl_imm_mecx", v, k>>), n)
                      /\ Kept(Exec(n, <<"btrl_imm_mecx", v, k>>), n) /\ Kept(Exec(n, <<"btsl_imm_mecx", v, k>>), n)
    BY DEF Keeps
  <2>1. Exec(n, <<"cld">>) = cld(n) /\ Exec(n, <<"cmpl_imm_meax", v, k>>) = cmpl_imm_meax(n, v, k)
    BY ExecMoves
  <2>2. Exec(n, <<"vmxon_mesp", k>>) = vmxon_mesp(n)
    BY ExecOthers
  <2>3. /\ Exec(n, <<"btl_imm_mecx", v, k>>) = btl_imm_mecx(n, v, k)
        /\ Exec(n, <<"btrl_imm_mecx", v, k>>) = btrl_imm_mecx(n, v, k)
        /\ Exec(n, <<"btsl_imm_mecx", v, k>>) = btsl_imm_mecx(n, v, k)
    BY ExecOperations
  <2> QED
    BY <2>1, <2>2, <2>3
<1>1. DOMAIN n = {"r", "fl", "sys", "mem"} /\ n.fl \in Words /\ Kept(n, n)
  BY DEF Machines, Kept
<1>2. Kept(cld(n), n) /\ Kept(cmpl_imm_meax(n, v, k), n)
  BY <1>1, KeptFlag DEF cld, cmpl_imm_meax
<1>3. Kept(vmxon_mesp(n), n)
  <2> DEFINE u == ClearBit(n.fl, EFLAGS_CF)
  <2>1. u \in Words
    BY <1>1, Flags
  <2>2. Bit(ClearBit(u, EFLAGS_ZF), EFLAGS_IF) = Bit(n.fl, EFLAGS_IF)
    BY <1>1, <2>1, FlagBits
  <2> QED
    BY <1>1, <2>2 DEF vmxon_mesp, Kept
<1>4. ASSUME NEW b PROVE /\ Kept(CarryFrom(n, b), n) /\ DOMAIN CarryFrom(n, b) = {"r", "fl", "sys", "mem"}
                         /\ \A a, x : Kept(Write32(CarryFrom(n, b), a, x), n)
  <2> DEFINE w == CarryFrom(n, b)
  <2>1. Kept(w, n)
    BY <1>1, KeptFlag DEF CarryFrom
  <2>2. DOMAIN w = {"r", "fl", "sys", "mem"}
    BY <1>1 DEF CarryFrom
  <2> HIDE DEF w
  <2>3. \A a, x : Kept(Write32(w, a, x), n)
    BY <2>1, <2>2, KeptWrite DEF Kept
  <2> QED
    BY <2>1, <2>2, <2>3 DEF w
<1> QED
  BY <1>2, <1>3, <1>4 DEF btl_imm_mecx, btrl_imm_mecx, btsl_imm_mecx

LEMMA KeepsReads ==
  ASSUME NEW k, NEW reg
  PROVE  /\ Keeps(<<"movl_seg_eax", reg>>) /\ Keeps(<<"movl_cr_eax", reg>>)
         /\ Keeps(<<"vmread_ecx_eax">>) /\ Keeps(<<"vmclear_mesp", k>>)
         /\ Keeps(<<"vmptrld_mesp", k>>) /\ Keeps(<<"invept_mesp_edx">>)
<1> SUFFICES ASSUME NEW n \in Machines
             PROVE  /\ Kept(movl_seg_eax(n, reg), n) /\ Kept(movl_cr_eax(n, reg), n)
                    /\ Kept(vmread_ecx_eax(n), n) /\ Kept(n, n)
  BY ExecOthers DEF Keeps
<1>1. DOMAIN n = {"r", "fl", "sys", "mem"} /\ Kept(n, n)
  BY DEF Machines, Kept
<1>2. \A s, x : Kept(SetReg(n, s, x), n)
  BY <1>1, KeptReg DEF Kept
<1> QED
  BY <1>1, <1>2 DEF movl_seg_eax, movl_cr_eax, vmread_ecx_eax

LEMMA KeepsPorts ==
  /\ Keeps(<<"inb_dx_al">>) /\ Keeps(<<"inw_dx_ax">>) /\ Keeps(<<"inl_dx_eax">>)
  /\ Keeps(<<"outb_al_dx">>) /\ Keeps(<<"outw_ax_dx">>) /\ Keeps(<<"pause">>)
  /\ Keeps(<<"lock">>) /\ Keeps(<<"wbinvd">>)
<1> SUFFICES ASSUME NEW n \in Machines
             PROVE  /\ Kept(inb_dx_al(n), n) /\ Kept(inw_dx_ax(n), n) /\ Kept(inl_dx_eax(n), n) /\ Kept(n, n)
  BY ExecSystems DEF Keeps
<1>1. DOMAIN n = {"r", "fl", "sys", "mem"} /\ Kept(n, n)
  BY DEF Machines, Kept
<1>2. \A s, x : Kept(SetReg(n, s, x), n)
  BY <1>1, KeptReg DEF Kept
<1> QED
  BY <1>1, <1>2 DEF inb_dx_al, inw_dx_ax, inl_dx_eax

LEMMA KeepsSystems ==
  ASSUME NEW k
  PROVE  /\ Keeps(<<"cpuid">>) /\ Keeps(<<"rdmsr">>) /\ Keeps(<<"str_ax">>) /\ Keeps(<<"xgetbv">>)
         /\ Keeps(<<"sgdt_mesp", k>>) /\ Keeps(<<"sidt_mesp", k>>)
<1> SUFFICES ASSUME NEW n \in Machines
             PROVE  /\ Kept(cpuid(n), n) /\ Kept(rdmsr(n), n) /\ Kept(str_ax(n), n) /\ Kept(xgetbv(n), n)
                    /\ Kept(sgdt_mesp(n, k), n) /\ Kept(sidt_mesp(n, k), n)
  BY ExecSystems DEF Keeps
<1>1. DOMAIN n = {"r", "fl", "sys", "mem"} /\ Kept(n, n)
  BY DEF Machines, Kept
<1>2. \A s, x : Kept(SetReg(n, s, x), n)
  BY <1>1, KeptReg DEF Kept
<1>3. Kept(cpuid(n), n)
  BY <1>1 DEF cpuid, Kept
<1>4. Kept(rdmsr(n), n)
  <2>1. \A x, y : Kept([n EXCEPT !.r.edx = x, !.r.eax = y], n)
    BY <1>1 DEF Kept
  <2> QED
    BY <1>1, <2>1 DEF rdmsr
<1>5. Kept(xgetbv(n), n)
  BY <1>1 DEF xgetbv, Kept
<1>6. ASSUME NEW a, NEW b, NEW x, NEW y PROVE Kept(Write32(Write16(n, a, x), b, y), n)
  <2> DEFINE w == Write16(n, a, x)
  <2>1. w.sys = n.sys /\ w.fl = n.fl /\ DOMAIN w = {"r", "fl", "sys", "mem"}
    BY <1>1, KeptWrite16
  <2> HIDE DEF w
  <2>2. Write32(w, b, y).sys = n.sys /\ Write32(w, b, y).fl = n.fl
    BY <2>1, KeptWrite
  <2> QED
    BY <2>2 DEF Kept, w
<1> QED
  BY <1>2, <1>3, <1>4, <1>5, <1>6 DEF str_ax, sgdt_mesp, sidt_mesp
LEMMA KeepsCopy == Keeps(<<"rep_movsb">>)
<1> SUFFICES ASSUME NEW n \in Machines PROVE Kept(rep_movsb(n), n)
  BY ExecMoves DEF Keeps
<1> QED
  BY DEF Machines, rep_movsb, Kept

(* Functions that only have such instructions, until the last. *)
Passive(i) == Keeps(i) \/ ~Plain(i)
IdleFns ==
  {"xmhfhw_cpu_cpuid", "getidtbase", "spin_lock", "spin_unlock", "sysmemaccess_copy", "slab_entrystub",
   "outb", "outw", "cpu_relax", "wbinvd", "read_esp", "read_rsp"}
LoadInsns ==
  {<<"movl_mesp", 2, "eax">>, <<"movl_mesp", 4, "eax">>, <<"movl_mesp", 4, "ecx">>, <<"movl_mesp", 8, "edx">>,
   <<"movl_mesp", 12, "eax">>, <<"movl_mesp", 12, "edi">>, <<"movl_mesp", 20, "ecx">>, <<"movl_mesp", 24, "ecx">>}
LoadEsiInsns == {<<"movl_mesp_esi", k>> : k \in {16, 20, 24, 28}}
StoreEsiInsns == {<<"movl_reg_mesi", 0, reg>> : reg \in Gprs}
ToEcxInsns == {<<"movl_to_ecx", reg>> : reg \in Gprs}
OtherMoves == {<<"movl_self", 0, "ecx">>, <<"movl_esp", "eax">>}
MoveInsns == LoadInsns \cup LoadEsiInsns \cup StoreEsiInsns \cup ToEcxInsns \cup OtherMoves
ParamInsns ==
  {<<"movl_imm_meax", v, 0>> : v \in Nat}
  \cup {<<"movl_meax", 4, "edx">>, <<"movl_meax", 8, "ecx">>, <<"movl_reg_meax", 4, "ecx">>,
        <<"movl_reg_meax", 8, "edx">>}
StackInsns ==
  {<<"pushl", reg>> : reg \in Gprs} \cup {<<"popl", reg>> : reg \in Gprs} \cup {<<"xorl", "edx">>}
  \cup {<<"pushl_mesp", 4>>, <<"addl_imm_esp", 4>>, <<"addl_imm_esp", 8>>, <<"subl_imm_esp", 8>>}
BareInsns ==
  {<<"cpuid">>, <<"cld">>, <<"rep_movsb">>, <<"sidt_mesp", 0>>, <<"outb_al_dx">>, <<"outw_ax_dx">>,
   <<"pause">>, <<"wbinvd">>, <<"lock">>}
FlagInsns ==
  {<<"btl_imm_mecx", 0, 0>>, <<"btrl_imm_mecx", 0, 0>>, <<"btsl_imm_mecx", 0, 0>>}
  \cup {<<"cmpl_imm_meax", v, 0>> : v \in {4, 6, 8}}
ControlInsns ==
  {<<"ret">>, <<"retu32">>, <<"retu64">>, <<"jnc", 2>>, <<"je", 12>>, <<"je", 18>>, <<"je", 24>>,
   <<"jmplabel", 30>>, <<"call_c_1p">>, <<"jmpsentinel">>}
IdleInsns == MoveInsns \cup ParamInsns \cup StackInsns \cup BareInsns \cup FlagInsns \cup ControlInsns
LEMMA IdlePassive == \A i \in IdleInsns : Passive(i)
<1>1. \A i \in ControlInsns : Passive(i)
  <2>1. /\ Passive(<<"ret">>) /\ Passive(<<"retu32">>) /\ Passive(<<"retu64">>) /\ Passive(<<"jnc", 2>>)
        /\ Passive(<<"je", 12>>) /\ Passive(<<"je", 18>>) /\ Passive(<<"je", 24>>)
        /\ Passive(<<"jmplabel", 30>>) /\ Passive(<<"call_c_1p">>) /\ Passive(<<"jmpsentinel">>)
    BY DEF Passive, Plain, Returns, Branches
  <2> QED
    BY <2>1 DEF ControlInsns
<1>2. \A i \in MoveInsns : Passive(i)
  <2>1. ASSUME NEW k, NEW reg
        PROVE  /\ Keeps(<<"movl_mesp", k, reg>>) /\ Keeps(<<"movl_mesp_esi", k>>)
               /\ Keeps(<<"movl_reg_mesi", k, reg>>) /\ Keeps(<<"movl_to_ecx", reg>>)
               /\ Keeps(<<"movl_self", k, reg>>) /\ Keeps(<<"movl_esp", reg>>)
    BY KeepsMoves
  <2> TAKE i \in MoveInsns
  <2>2. CASE i \in LoadInsns
    BY <2>1, <2>2 DEF Passive, LoadInsns
  <2>3. CASE i \in LoadEsiInsns
    BY <2>1, <2>3 DEF Passive, LoadEsiInsns
  <2>4. CASE i \in StoreEsiInsns
    BY <2>1, <2>4 DEF Passive, StoreEsiInsns
  <2>5. CASE i \in ToEcxInsns
    BY <2>1, <2>5 DEF Passive, ToEcxInsns
  <2>6. CASE i \in OtherMoves
    BY <2>1, <2>6 DEF Passive, OtherMoves
  <2> QED
    BY <2>2, <2>3, <2>4, <2>5, <2>6 DEF MoveInsns
<1>3. \A i \in ParamInsns : Passive(i)
  BY KeepsMoves DEF ParamInsns, Passive
<1>4. \A i \in StackInsns : Passive(i)
  BY KeepsStack DEF StackInsns, Passive
<1>5. \A i \in BareInsns : Passive(i)
  <2>1. Keeps(<<"cpuid">>) /\ Keeps(<<"sidt_mesp", 0>>) /\ Keeps(<<"cld">>)
    BY KeepsSystems, KeepsFlags
  <2> QED
    BY <2>1, KeepsCopy, KeepsPorts DEF BareInsns, Passive
<1>6. \A i \in FlagInsns : Passive(i)
  BY KeepsFlags DEF FlagInsns, Passive
<1> QED
  BY <1>1, <1>2, <1>3, <1>4, <1>5, <1>6 DEF IdleInsns
LEMMA MoveMembers ==
  /\ LoadInsns \subseteq MoveInsns
  /\ \A k \in {16, 20, 24, 28} : <<"movl_mesp_esi", k>> \in MoveInsns
  /\ \A reg \in Gprs : <<"movl_reg_mesi", 0, reg>> \in MoveInsns /\ <<"movl_to_ecx", reg>> \in MoveInsns
  /\ <<"movl_self", 0, "ecx">> \in MoveInsns
  /\ \A reg \in Gprs : <<"pushl", reg>> \in StackInsns /\ <<"popl", reg>> \in StackInsns
  BY DEF MoveInsns, StackInsns, LoadEsiInsns, StoreEsiInsns, ToEcxInsns, OtherMoves
LEMMA IdleCpuid == \A p \in 1..19 : Program["xmhfhw_cpu_cpuid"][p] \in IdleInsns
<1> DEFINE prog == Program["xmhfhw_cpu_cpuid"]
<1>0. {"eax", "ebx", "ecx", "edx", "esi"} \subseteq Gprs
  BY DEF Gprs
<1>1. \A p \in {6, 19} : prog[p] \in IdleInsns
  BY CpuidProgram DEF IdleInsns, BareInsns, ControlInsns
<1>2. \A p \in {1, 2, 17, 18} : prog[p] \in StackInsns
  <2>1. prog[1] \in StackInsns
    BY <1>0, CpuidProgram, MoveMembers
  <2>2. prog[2] \in StackInsns
    BY <1>0, CpuidProgram, MoveMembers
  <2>3. prog[17] \in StackInsns
    BY <1>0, CpuidProgram, MoveMembers
  <2>4. prog[18] \in StackInsns
    BY <1>0, CpuidProgram, MoveMembers
  <2> HIDE DEF prog
  <2> QED
    BY ONLY <2>1, <2>2, <2>3, <2>4
<1>3. \A p \in {3, 4, 5, 7, 8, 9, 10} : prog[p] \in MoveInsns
  <2>1. \A p \in {3, 4, 5} : prog[p] \in MoveInsns
    BY <1>0, CpuidProgram, MoveMembers DEF LoadInsns
  <2>2. \A p \in {7, 8, 9, 10} : prog[p] \in MoveInsns
    <3>1. prog[7] \in MoveInsns
      BY <1>0, CpuidProgram, MoveMembers
    <3>2. prog[8] \in MoveInsns
      BY <1>0, CpuidProgram, MoveMembers
    <3>3. prog[9] \in MoveInsns
      BY <1>0, CpuidProgram, MoveMembers
    <3>4. prog[10] \in MoveInsns
      BY <1>0, CpuidProgram, MoveMembers
    <3> HIDE DEF prog
    <3> QED
      BY ONLY <3>1, <3>2, <3>3, <3>4
  <2> QED
    BY <2>1, <2>2
<1>4. \A p \in 11..16 : prog[p] \in MoveInsns
  <2>1. \A p \in {11, 12, 13} : prog[p] \in MoveInsns
    <3>1. prog[11] \in MoveInsns
      BY <1>0, CpuidProgram, MoveMembers
    <3>2. prog[12] \in MoveInsns
      BY <1>0, CpuidProgram, MoveMembers
    <3>3. prog[13] \in MoveInsns
      BY <1>0, CpuidProgram, MoveMembers
    <3> HIDE DEF prog
    <3> QED
      BY ONLY <3>1, <3>2, <3>3
  <2>2. \A p \in {14, 15, 16} : prog[p] \in MoveInsns
    <3>1. prog[14] \in MoveInsns
      BY <1>0, CpuidProgram, MoveMembers
    <3>2. prog[15] \in MoveInsns
      BY <1>0, CpuidProgram, MoveMembers
    <3>3. prog[16] \in MoveInsns
      BY <1>0, CpuidProgram, MoveMembers
    <3> HIDE DEF prog
    <3> QED
      BY ONLY <3>1, <3>2, <3>3
  <2> QED
    BY <2>1, <2>2
<1> HIDE DEF prog
<1>5. \A p \in 1..19 : prog[p] \in IdleInsns
  BY <1>1, <1>2, <1>3, <1>4 DEF IdleInsns
<1> QED
  BY <1>5 DEF prog
LEMMA IdleCopy == \A p \in 1..10 : Program["sysmemaccess_copy"][p] \in IdleInsns
<1> DEFINE prog == Program["sysmemaccess_copy"]
<1>0. {"esi", "edi"} \subseteq Gprs
  BY DEF Gprs
<1>1. \A p \in {6, 7, 10} : prog[p] \in IdleInsns
  BY CopyProgram DEF IdleInsns, BareInsns, ControlInsns
<1>2. \A p \in {1, 2, 8, 9} : prog[p] \in StackInsns
  BY <1>0, CopyProgram, MoveMembers
<1>3. \A p \in {3, 4, 5} : prog[p] \in MoveInsns
  BY CopyProgram, MoveMembers DEF LoadInsns
<1> HIDE DEF prog
<1>4. \A p \in 1..10 : prog[p] \in IdleInsns
  BY <1>1, <1>2, <1>3 DEF IdleInsns
<1> QED
  BY <1>4 DEF prog
LEMMA IdleLock == /\ \A p \in 1..7 : Program["spin_lock"][p] \in IdleInsns
                  /\ \A p \in 1..3 : Program["spin_unlock"][p] \in IdleInsns
<1>0. <<"movl_mesp", 4, "ecx">> \in MoveInsns
  BY MoveMembers DEF LoadInsns
<1>1. \A p \in 1..7 : Program["spin_lock"][p] \in IdleInsns
  BY <1>0, LockProgram DEF IdleInsns, BareInsns, FlagInsns, ControlInsns
<1>2. \A p \in 1..3 : Program["spin_unlock"][p] \in IdleInsns
  BY <1>0, UnlockProgram DEF IdleInsns, FlagInsns, ControlInsns
<1> QED
  BY <1>1, <1>2
LEMMA IdleStub == \A p \in 1..30 : Program["slab_entrystub"][p] \in IdleInsns
<1> DEFINE prog == Program["slab_entrystub"]
<1>1. /\ \A i \in 1..11 : prog[i] = StubHead[i]
      /\ \A q \in 1..6 : prog[11 + q] = SwapAndLeave(9)[q]
      /\ \A q \in 1..6 : prog[17 + q] = SwapAndLeave(5)[q]
      /\ \A q \in 1..6 : prog[23 + q] = SwapAndLeave(7)[q]
      /\ prog[30] = <<"ret">>
  BY StubProgram
<1> HIDE DEF prog
<1>3. \A i \in 1..11 : StubHead[i] \in IdleInsns
  BY DEF IdleInsns, LoadInsns, MoveInsns, LoadEsiInsns, StoreEsiInsns, ToEcxInsns, OtherMoves, StackInsns, FlagInsns, ControlInsns, StubHead, Gprs
<1>4. ASSUME NEW y \in Nat PROVE \A q \in 1..6 : SwapAndLeave(y)[q] \in IdleInsns
  BY DEF IdleInsns, ParamInsns, ControlInsns, SwapAndLeave, Gprs
<1>5. ASSUME NEW p \in 1..30 PROVE prog[p] \in IdleInsns
  <2>1. CASE p \in 1..11
    BY <1>1, <1>3, <2>1
  <2>2. CASE p \in 12..17
    <3>1. p - 11 \in 1..6 /\ p = 11 + (p - 11)
      BY <2>2
    <3> QED
      BY <1>1, <1>4, <3>1
  <2>3. CASE p \in 18..23
    <3>1. p - 17 \in 1..6 /\ p = 17 + (p - 17)
      BY <2>3
    <3> QED
      BY <1>1, <1>4, <3>1
  <2>4. CASE p \in 24..29
    <3>1. p - 23 \in 1..6 /\ p = 23 + (p - 23)
      BY <2>4
    <3> QED
      BY <1>1, <1>4, <3>1
  <2>5. CASE p = 30
    BY <1>1, <2>5 DEF IdleInsns, LoadInsns, MoveInsns, LoadEsiInsns, StoreEsiInsns, ToEcxInsns, OtherMoves, ParamInsns, StackInsns, BareInsns, FlagInsns, ControlInsns, Gprs
  <2> QED
    BY <2>1, <2>2, <2>3, <2>4, <2>5
<1> QED
  BY <1>5 DEF prog
LEMMA IdleSmall ==
  /\ \A p \in 1..5 : Program["getidtbase"][p] \in IdleInsns
  /\ \A f \in {"outb", "outw"} : DOMAIN Program[f] = 1..4 /\ \A p \in 1..4 : Program[f][p] \in IdleInsns
  /\ \A f \in {"cpu_relax", "wbinvd", "read_esp"} :
       DOMAIN Program[f] = 1..2 /\ \A p \in 1..2 : Program[f][p] \in IdleInsns
  /\ DOMAIN Program["read_rsp"] = 1..3 /\ \A p \in 1..3 : Program["read_rsp"][p] \in IdleInsns
<1>2. \A p \in 1..5 : Program["getidtbase"][p] \in IdleInsns
  <2>1. Program["getidtbase"] = <<<<"subl_imm_esp", 8>>, <<"sidt_mesp", 0>>, <<"movl_mesp", 2, "eax">>,
    <<"addl_imm_esp", 8>>, <<"retu32">>>>
    BY DEF Program, getidtbase
  <2> QED
    BY <2>1 DEF IdleInsns, LoadInsns, MoveInsns, LoadEsiInsns, StoreEsiInsns, ToEcxInsns, OtherMoves, ParamInsns, StackInsns, BareInsns, FlagInsns, ControlInsns, Gprs
<1>3. ASSUME NEW f \in {"outb", "outw"}
      PROVE  DOMAIN Program[f] = 1..4 /\ \A p \in 1..4 : Program[f][p] \in IdleInsns
  <2>1. \E insn \in {<<"outb_al_dx">>, <<"outw_ax_dx">>} :
          Program[f] = <<<<"movl_mesp", 4, "eax">>, <<"movl_mesp", 8, "edx">>, insn, <<"ret">>>>
    BY DEF Program, PortOut
  <2> QED
    BY <2>1 DEF IdleInsns, LoadInsns, MoveInsns, LoadEsiInsns, StoreEsiInsns, ToEcxInsns, OtherMoves, ParamInsns, StackInsns, BareInsns, FlagInsns, ControlInsns, Gprs
<1>4. ASSUME NEW f \in {"cpu_relax", "wbinvd", "read_esp"}
      PROVE  DOMAIN Program[f] = 1..2 /\ \A p \in 1..2 : Program[f][p] \in IdleInsns
  <2>1. /\ Program["cpu_relax"] = <<<<"pause">>, <<"ret">>>> /\ Program["wbinvd"] = <<<<"wbinvd">>, <<"ret">>>>
        /\ Program["read_esp"] = <<<<"movl_esp", "eax">>, <<"retu32">>>>
    BY DEF Program, Simple, ReadInto
  <2> QED
    BY <2>1 DEF IdleInsns, LoadInsns, MoveInsns, LoadEsiInsns, StoreEsiInsns, ToEcxInsns, OtherMoves, ParamInsns, StackInsns, BareInsns, FlagInsns, ControlInsns, Gprs
<1>5. DOMAIN Program["read_rsp"] = 1..3 /\ \A p \in 1..3 : Program["read_rsp"][p] \in IdleInsns
  <2>1. Program["read_rsp"] = <<<<"xorl", "edx">>, <<"movl_esp", "eax">>, <<"retu64">>>>
    BY DEF Program, read_rsp
  <2> QED
    BY <2>1 DEF IdleInsns, LoadInsns, MoveInsns, LoadEsiInsns, StoreEsiInsns, ToEcxInsns, OtherMoves, ParamInsns, StackInsns, BareInsns, FlagInsns, ControlInsns, Gprs
<1> QED
  BY <1>2, <1>3, <1>4, <1>5

(* An idle function that is at its outline. *)
LEMMA IdleNext ==
  ASSUME NEW n, NEW e, NEW f, NEW p,
         f \in IdleFns, Outline(n, e, f, p)
  PROVE  Program[f][p] \in IdleInsns
<1>0. Outline(n, e, f, p) /\ p \in DOMAIN Program[f]
  BY OutlineTyped
<1>1. CASE f = "xmhfhw_cpu_cpuid"
  BY <1>0, <1>1, IdleCpuid, CpuidProgram
<1>2. CASE f = "sysmemaccess_copy"
  BY <1>0, <1>2, IdleCopy, CopyProgram
<1>3. CASE f \in {"spin_lock", "spin_unlock"}
  BY <1>0, <1>3, IdleLock, LockProgram, UnlockProgram
<1>4. CASE f = "slab_entrystub"
  <2>1. p \in 1..31
    BY <1>0, <1>4, StubProgram
  <2>2. f \notin QuietFns \cup DescriptorFns \cup EflagsFns \cup LoadFns
    BY <1>4 DEF QuietFns, DescriptorFns, EflagsFns, LoadFns
  <2>3. StubAt(n, e, p)
    BY <1>0, <1>4, <2>2 DEF Outline
  <2>4. p # 31
    BY <2>3 DEF StubAt
  <2> QED
    BY <1>4, <2>1, <2>4, IdleStub
<1>5. CASE f \in {"getidtbase", "outb", "outw", "cpu_relax", "wbinvd", "read_esp", "read_rsp"}
  <2>1. DOMAIN Program["getidtbase"] = 1..5
    BY DescriptorProgram DEF DescriptorFns
  <2> QED
    BY <1>0, <1>5, <2>1, IdleSmall
<1> QED
  BY <1>1, <1>2, <1>3, <1>4, <1>5 DEF IdleFns

ReadFns ==
  {"bsrl", "read_cr0", "read_cr2", "read_cr3", "read_cr4", "read_tr_sel", "read_segreg_cs", "read_segreg_ds",
   "read_segreg_es", "read_segreg_fs", "read_segreg_gs", "read_segreg_ss", "read_eflags", "getgdtbase", "inb",
   "inw", "inl", "rdmsr64", "vmread", "xgetbv", "vmxon", "vmclear", "vmptrld", "vmx_invept"}

(* The register that a call is named for, and what becomes of it. *)
LEMMA ChangesRegs ==
  ASSUME NEW b, NEW k
  PROVE  /\ k.fn = "write_cr0" => Contract!Changes(b, k) = [i \in {"cr0"} |-> k.args[1]]
         /\ k.fn = "write_cr3" => Contract!Changes(b, k) = [i \in {"cr3"} |-> k.args[1]]
         /\ k.fn = "write_cr4" => Contract!Changes(b, k) = [i \in {"cr4"} |-> k.args[1]]
         /\ k.fn = "write_eflags" => Contract!Changes(b, k) = [i \in {"intr"} |-> (k.args[1] \div 512) % 2]
         /\ k.fn = "enable_intr" => Contract!Changes(b, k) = [i \in {"intr"} |-> 1]
         /\ k.fn = "xmhfhw_cpu_disable_intr" => Contract!Changes(b, k) = [i \in {"intr"} |-> 0]
  BY DEF Contract!Changes
LEMMA ChangesTables ==
  ASSUME NEW b, NEW k
  PROVE  /\ k.fn = "xmhfhw_cpu_loadGDT" => Contract!Changes(b, k) = [i \in {"gdtr"} |-> k.desc]
         /\ k.fn = "xmhfhw_cpu_loadIDT" => Contract!Changes(b, k) = [i \in {"idtr"} |-> k.desc]
         /\ k.fn = "xmhfhw_cpu_loadTR" => Contract!Changes(b, k) = [i \in {"tr"} |-> k.args[1] % Half]
         /\ k.fn = "xmhfhw_cpu_reloadcs" => Contract!Changes(b, k) = [i \in {"cs"} |-> k.args[1]]
         /\ k.fn = "xmhfhw_cpu_reloaddsregs" =>
              Contract!Changes(b, k) = [s \in {"ds", "es", "fs", "gs", "ss"} |-> k.args[1]]
  BY DEF Contract!Changes
LEMMA ChangesGroup ==
  ASSUME NEW b, NEW k, NEW S
  PROVE  /\ k.fn = "wrmsr64" /\ S = MsrsOf(k.args[1]) \cap WritableMsrs =>
              Contract!Changes(b, k) = [i \in S |-> <<k.args[3], k.args[2]>>]
         /\ k.fn = "vmwrite" /\ S = {g \in DOMAIN Vmcs : Vmcs[g] = k.args[1]} =>
              Contract!Changes(b, k) = [f \in S |-> k.args[2]]
<1>1. k.fn = "wrmsr64" /\ S = MsrsOf(k.args[1]) \cap WritableMsrs =>
        Contract!Changes(b, k) = [i \in S |-> <<k.args[3], k.args[2]>>]
  <2>1. Contract!Named(Msr, k.args[1]) = MsrsOf(k.args[1])
    BY DEF Contract!Named, MsrsOf
  <2> QED
    BY <2>1 DEF Contract!Changes
<1>2. k.fn = "vmwrite" /\ S = {g \in DOMAIN Vmcs : Vmcs[g] = k.args[1]} =>
        Contract!Changes(b, k) = [f \in S |-> k.args[2]]
  <2>1. Contract!Named(Vmcs, k.args[1]) = {g \in DOMAIN Vmcs : Vmcs[g] = k.args[1]}
    BY DEF Contract!Named
  <2> QED
    BY <2>1 DEF Contract!Changes
<1> QED
  BY <1>1, <1>2
LEMMA ChangesNumbered ==
  ASSUME NEW b, NEW k
  PROVE  /\ k.fn = "xsetbv" => Contract!Changes(b, k) = [i \in {"xcr0"} |-> <<k.args[3], k.args[2]>>]
         /\ k.fn = "rdtsc64" => Contract!Changes(b, k) = [i \in {"rdtsc"} |-> Successor(b.rdtsc)]
         /\ k.fn = "hlt" => Contract!Changes(b, k) = [i \in {"halted"} |-> TRUE]
<1>3. k.fn = "rdtsc64" => Contract!Changes(b, k) = [i \in {"rdtsc"} |-> Successor(b.rdtsc)]
  <2>1. Contract!Ticked(b.rdtsc) = Successor(b.rdtsc)
    BY DEF Contract!Ticked, Contract!Word, Successor, Wrap, Word
  <2> QED
    BY <2>1 DEF Contract!Changes
<1>4. k.fn = "xsetbv" => Contract!Changes(b, k) = [i \in {"xcr0"} |-> <<k.args[3], k.args[2]>>]
  <2>1. k.fn = "xsetbv" => Contract!Changes(b, k) = [xcr0 |-> <<k.args[3], k.args[2]>>]
    BY DEF Contract!Changes
  <2> DEFINE v == <<k.args[3], k.args[2]>>
  <2>2. [xcr0 |-> v] = [i \in {"xcr0"} |-> v]
    <3> HIDE DEF v
    <3> QED
      OBVIOUS
  <2> QED
    BY <2>1, <2>2
<1>5. k.fn = "hlt" => Contract!Changes(b, k) = [i \in {"halted"} |-> TRUE]
  <2>1. k.fn = "hlt" => Contract!Changes(b, k) = [halted |-> TRUE]
    BY DEF Contract!Changes
  <2>2. ASSUME NEW v PROVE [halted |-> v] = [i \in {"halted"} |-> v]
    OBVIOUS
  <2>3. \A v : [halted |-> v] = [i \in {"halted"} |-> v]
    BY <2>2
  <2>4. [halted |-> TRUE] = [i \in {"halted"} |-> TRUE]
    BY <2>3, Zenon
  <2> QED
    BY <2>1, <2>4
<1> QED
  BY <1>3, <1>4, <1>5
LEMMA ChangesPort ==
  ASSUME NEW b, NEW k
  PROVE  k.fn = "outl" =>
           /\ k.args[2] = PCI_CONFIG_ADDR_PORT => Contract!Changes(b, k) = [i \in {"pci_addr"} |-> k.args[1]]
           /\ k.args[2] # PCI_CONFIG_ADDR_PORT => DOMAIN Contract!Changes(b, k) = {}
  BY DEF Contract!Changes
LEMMA ChangesNone ==
  ASSUME NEW b, NEW k,
         k.fn \in IdleFns \cup ReadFns
  PROVE  DOMAIN Contract!Changes(b, k) = {}
<1>1. Contract!Changes(b, k) = <<>>
  BY DEF Contract!Changes, IdleFns, ReadFns
<1> QED
  BY <1>1

(* The answer of the functions that read a register. *)
LEMMA AnswersRegs ==
  ASSUME NEW b, NEW k, NEW a
  PROVE  /\ k.fn = "read_cr0" => (Contract!Answers(b, k, a) <=> a = <<0, b.cr0>>)
         /\ k.fn = "read_cr2" => (Contract!Answers(b, k, a) <=> a[2] = b.cr2)
         /\ k.fn = "read_cr3" => (Contract!Answers(b, k, a) <=> a = <<0, b.cr3>>)
         /\ k.fn = "read_cr4" => (Contract!Answers(b, k, a) <=> a = <<0, b.cr4>>)
         /\ k.fn = "read_tr_sel" => (Contract!Answers(b, k, a) <=> a[2] = b.tr)
         /\ k.fn = "read_eflags" => (Contract!Answers(b, k, a) <=> (a[2] \div 512) % 2 = b.intr)
         /\ k.fn = "getgdtbase" => (Contract!Answers(b, k, a) <=> a[2] = b.gdtr.base)
  BY DEF Contract!Answers, Contract!IsWord, Contract!IsPair
LEMMA AnswersSegs ==
  ASSUME NEW b, NEW k, NEW a
  PROVE  /\ k.fn = "read_segreg_cs" => (Contract!Answers(b, k, a) <=> a[2] = b.cs)
         /\ k.fn = "read_segreg_ds" => (Contract!Answers(b, k, a) <=> a[2] = b.ds)
         /\ k.fn = "read_segreg_es" => (Contract!Answers(b, k, a) <=> a[2] = b.es)
         /\ k.fn = "read_segreg_fs" => (Contract!Answers(b, k, a) <=> a[2] = b.fs)
         /\ k.fn = "read_segreg_gs" => (Contract!Answers(b, k, a) <=> a[2] = b.gs)
         /\ k.fn = "read_segreg_ss" => (Contract!Answers(b, k, a) <=> a[2] = b.ss)
  BY DEF Contract!Answers, Contract!IsWord
LEMMA AnswersOthers ==
  ASSUME NEW b, NEW k, NEW a
  PROVE  /\ k.fn = "bsrl" => (Contract!Answers(b, k, a) <=> 2 ^ a[2] <= k.args[1] /\ k.args[1] < 2 ^ (a[2] + 1))
         /\ k.fn \in {"inb", "inw"} => (Contract!Answers(b, k, a) <=> a[2] = 0)
         /\ k.fn = "inl" =>
              (Contract!Answers(b, k, a) <=> a[2] = IF k.args[1] = PCI_CONFIG_ADDR_PORT THEN b.pci_addr ELSE 0)
         /\ k.fn = "xgetbv" => (Contract!Answers(b, k, a) <=> a = b.xcr0)
         /\ k.fn = "rdtsc64" => (Contract!Answers(b, k, a) <=> a = b.rdtsc)
         /\ k.fn = "vmxon" => (Contract!Answers(b, k, a) <=> a[2] = 1)
         /\ k.fn \in {"vmclear", "vmptrld", "vmx_invept"} => (Contract!Answers(b, k, a) <=> a[2] \in {0, 1})
  BY DEF Contract!Answers, Contract!IsWord, Contract!IsPair
LEMMA AnswersNumbered ==
  ASSUME NEW b, NEW k, NEW a
  PROVE  /\ k.fn = "rdmsr64" =>
              (Contract!Answers(b, k, a) <=> \A i \in MsrsOf(k.args[1]) \ {"apic_base"} : a = b[i])
         /\ k.fn = "vmread" =>
              (Contract!Answers(b, k, a) <=> \A f \in {g \in DOMAIN Vmcs : Vmcs[g] = k.args[1]} : a[2] = b[f])
<1>1. /\ Contract!Named(Msr, k.args[1]) = MsrsOf(k.args[1])
      /\ Contract!Named(Vmcs, k.args[1]) = {g \in DOMAIN Vmcs : Vmcs[g] = k.args[1]}
  BY DEF Contract!Named, MsrsOf
<1>2. k.fn = "rdmsr64" =>
        (Contract!Answers(b, k, a) <=> \A i \in MsrsOf(k.args[1]) \ {"apic_base"} : a = b[i])
  BY <1>1 DEF Contract!Answers, Contract!IsPair
<1>3. k.fn = "vmread" =>
        (Contract!Answers(b, k, a) <=> \A f \in {g \in DOMAIN Vmcs : Vmcs[g] = k.args[1]} : a[2] = b[f])
  BY <1>1 DEF Contract!Answers, Contract!IsWord
<1> QED
  BY <1>2, <1>3
WriteFns ==
  {"write_cr0", "write_cr3", "write_cr4", "write_eflags", "enable_intr", "xmhfhw_cpu_disable_intr",
   "xmhfhw_cpu_loadGDT", "xmhfhw_cpu_loadIDT", "xmhfhw_cpu_loadTR", "xmhfhw_cpu_reloadcs",
   "xmhfhw_cpu_reloaddsregs", "wrmsr64", "vmwrite", "xsetbv", "outl", "hlt"}
LEMMA AnswersAny ==
  ASSUME NEW b, NEW k, NEW a,
         k.fn \in IdleFns \cup WriteFns
  PROVE  Contract!Answers(b, k, a)
  BY DEF Contract!Answers, IdleFns, WriteFns

(* The registers after a call, as the contract has them. *)
Target(e, c) == Contract!After(SysRegs(e), AbstractCall(c))
(* A call has done what its contract says. *)
Finished(n, e, c) ==
  /\ SysRegs(n) = Target(e, c)
  /\ Contract!Answers(SysRegs(e), AbstractCall(c), <<n.r.edx, n.r.eax>>)
  /\ n.sys.tr < Half
(* A step changes some registers that had not changed to what the contract says. *)
Stays(w, n, e, c) ==
  \A i \in RegNames : \/ SysRegs(w)[i] = SysRegs(n)[i]
                      \/ SysRegs(n)[i] = SysRegs(e)[i] /\ SysRegs(w)[i] = Target(e, c)[i]

LEMMA AbstractParts ==
  ASSUME NEW c
  PROVE  AbstractCall(c).fn = c.fn /\ AbstractCall(c).args = c.args /\ AbstractCall(c).desc = DescAt(InitMem)
  BY DEF AbstractCall
LEMMA StaysKept ==
  ASSUME NEW w, NEW n, NEW e, NEW c
  PROVE  Kept(w, n) => Stays(w, n, e, c)
  BY KeptRegs DEF Stays
LEMMA StaysTarget ==
  ASSUME NEW w, NEW n, NEW e, NEW c
  PROVE  Kept(n, e) /\ SysRegs(w) = Target(e, c) => Stays(w, n, e, c)
  BY KeptRegs DEF Stays
LEMMA KeptTwice ==
  ASSUME NEW w, NEW n, NEW e
  PROVE  Kept(w, n) /\ Kept(n, e) => Kept(w, e)
  BY DEF Kept

LEMMA FinishKept ==
  ASSUME NEW w, NEW e, NEW c,
         w \in Machines, e \in Machines, c.fn \in IdleFns \cup ReadFns
  PROVE  Kept(w, e) => SysRegs(w) = Target(e, c)
<1>1. DOMAIN Contract!Changes(SysRegs(e), AbstractCall(c)) = {}
  BY ChangesNone, AbstractParts
<1> QED
  BY <1>1, AfterNone, KeptRegs DEF Target
LEMMA FinishField ==
  ASSUME NEW w, NEW e, NEW c, NEW f, NEW v,
         w \in Machines, e \in Machines, f \in SysFields
  PROVE  /\ w.sys = [e.sys EXCEPT ![f] = v] /\ Bit(w.fl, EFLAGS_IF) = Bit(e.fl, EFLAGS_IF)
         /\ Contract!Changes(SysRegs(e), AbstractCall(c)) = [i \in {f} |-> v]
         => SysRegs(w) = Target(e, c)
<1>1. f \in RegNames
  BY DEF RegNames
<1> DEFINE k == AbstractCall(c)
<1>2. SUFFICES /\ w.sys = Put(e.sys, f, v) /\ Bit(w.fl, EFLAGS_IF) = Bit(e.fl, EFLAGS_IF)
               /\ Contract!Changes(SysRegs(e), k) = Only(f, v)
               => SysRegs(w) = Contract!After(SysRegs(e), k)
  BY DEF Target, Put, Only
<1> HIDE DEF k
<1>3. Contract!Changes(SysRegs(e), k) = Only(f, v) => Contract!After(SysRegs(e), k) = Put(SysRegs(e), f, v)
  BY ONLY e \in Machines, <1>1, AfterOne
<1>4. w.sys = Put(e.sys, f, v) /\ Bit(w.fl, EFLAGS_IF) = Bit(e.fl, EFLAGS_IF) => SysRegs(w) = Put(SysRegs(e), f, v)
  BY ONLY w \in Machines, e \in Machines, f \in SysFields, FieldChanged
<1> QED
  BY ONLY <1>3, <1>4
LEMMA FinishFlag ==
  ASSUME NEW w, NEW e, NEW c, NEW v,
         w \in Machines, e \in Machines
  PROVE  /\ w.sys = e.sys /\ Bit(w.fl, EFLAGS_IF) = v
         /\ Contract!Changes(SysRegs(e), AbstractCall(c)) = [i \in {"intr"} |-> v]
         => SysRegs(w) = Target(e, c)
<1> SUFFICES ASSUME w.sys = e.sys, Bit(w.fl, EFLAGS_IF) = v,
                    Contract!Changes(SysRegs(e), AbstractCall(c)) = [i \in {"intr"} |-> v]
             PROVE  SysRegs(w) = Target(e, c)
  OBVIOUS
<1>1. Target(e, c) = [SysRegs(e) EXCEPT !["intr"] = v]
  <2>1. "intr" \in RegNames
    BY DEF RegNames
  <2> DEFINE k == AbstractCall(c)
  <2>2. Contract!Changes(SysRegs(e), k) = Only("intr", v)
    BY DEF Only
  <2> HIDE DEF k
  <2>3. Contract!After(SysRegs(e), k) = Put(SysRegs(e), "intr", v)
    BY ONLY e \in Machines, <2>1, <2>2, AfterOne
  <2> QED
    BY <2>3 DEF Target, Put, k
<1>2. ASSUME NEW i \in RegNames PROVE SysRegs(w)[i] = [SysRegs(e) EXCEPT !["intr"] = v][i]
  <2>1. DOMAIN SysRegs(e) = RegNames
    BY SysRegsOf
  <2>2. CASE i = "intr"
    BY <2>1, <2>2, SysRegsOf
  <2>3. CASE i # "intr"
    <3>1. SysRegs(w)[i] = SysRegs(e)[i]
      BY <2>3 DEF SysRegs, RegNames
    <3> QED
      BY <2>1, <2>3, <3>1
  <2> QED
    BY <2>2, <2>3
<1>3. /\ SysRegs(w) = [i \in RegNames |-> SysRegs(w)[i]]
      /\ DOMAIN [SysRegs(e) EXCEPT !["intr"] = v] = RegNames
  BY SysRegsOf
<1>4. SysRegs(w) = [SysRegs(e) EXCEPT !["intr"] = v]
  <2> DEFINE g == SysRegs(w)
             h == [SysRegs(e) EXCEPT !["intr"] = v]
  <2>1. h = [i \in RegNames |-> h[i]]
    BY <1>3
  <2>2. /\ g = [i \in RegNames |-> g[i]] /\ \A i \in RegNames : g[i] = h[i]
    BY <1>2, <1>3
  <2> HIDE DEF g, h
  <2>3. g = h
    BY <2>1, <2>2
  <2> QED
    BY <2>3 DEF g, h
<1> QED
  BY <1>1, <1>4

(* ret leaves a finished call finished. *)
LEMMA ReturnKeeps ==
  ASSUME NEW n, NEW op,
         n \in Machines, op \in {"ret", "retu32", "retu64"}
  PROVE  /\ Kept(Return(n, op), n)
         /\ Return(n, op).r.edx = n.r.edx /\ Return(n, op).r.eax = n.r.eax
<1> DEFINE w == popl(n, "eip")
<1>1. Return(n, op) = w
  BY DEF Return
<1>2. DOMAIN n = {"r", "fl", "sys", "mem"} /\ n.r \in [Gprs -> Words]
  BY DEF Machines
<1>3. Kept(w, n)
  BY <1>2, KeptPop DEF Kept
<1>4. w.r.edx = n.r.edx /\ w.r.eax = n.r.eax
  <2> DEFINE d == addl_imm_esp(n, 4)
  <2>1. /\ d.r.edx = n.r.edx /\ d.r.eax = n.r.eax /\ DOMAIN d = {"r", "fl", "sys", "mem"} /\ DOMAIN d.r = Gprs
    BY <1>2 DEF addl_imm_esp, SetReg, Gprs
  <2>2. w = SetReg(d, "eip", Read32(n, n.r.esp))
    BY DEF popl
  <2> HIDE DEF d
  <2>3. SetReg(d, "eip", Read32(n, n.r.esp)).r.edx = d.r.edx /\ SetReg(d, "eip", Read32(n, n.r.esp)).r.eax = d.r.eax
    BY <2>1 DEF SetReg, Gprs
  <2> QED
    BY <2>1, <2>2, <2>3
<1> QED
  BY <1>1, <1>3, <1>4
LEMMA FinishedReturns ==
  ASSUME NEW n, NEW e, NEW c, NEW op,
         n \in Machines, op \in {"ret", "retu32", "retu64"}
  PROVE  Finished(n, e, c) => Finished(Return(n, op), e, c) /\ Stays(Return(n, op), n, e, c)
<1> DEFINE w == Return(n, op)
<1>1. Kept(w, n) /\ w.r.edx = n.r.edx /\ w.r.eax = n.r.eax
  BY ReturnKeeps
<1> HIDE DEF w
<1>2. Stays(w, n, e, c) /\ SysRegs(w) = SysRegs(n) /\ w.sys = n.sys
  BY <1>1, StaysKept, KeptRegs DEF Kept
<1>3. Finished(n, e, c) => Finished(w, e, c)
  BY <1>1, <1>2 DEF Finished
<1> QED
  BY <1>2, <1>3 DEF w

(* What the arguments are, of the functions whose contract depends on them. *)
Asked(f, a) ==
  /\ f = "outl" => Len(a) = 2 /\ a[2] \in {0, PCI_CONFIG_ADDR_PORT}
  /\ f = "inl" => a[1] \in {0, PCI_CONFIG_ADDR_PORT}
  /\ f = "vmwrite" => Len(a) = 2
  /\ f = "wrmsr64" => Len(a) = 3
  /\ f = "xsetbv" => Len(a) = 3 /\ a[1] = 1
  /\ f = "xgetbv" => a[1] = 1
  /\ f = "xmhfhw_cpu_reloaddsregs" => a[1] = 16

(* A call that has come as far as an instruction. *)
Ready(n, e, c, p) ==
  /\ Outline(n, e, c.fn, p) /\ Called(e, c) /\ Asked(c.fn, c.args)
  /\ e.sys.tr < Half /\ DescAt(e) = DescAt(InitMem)

LEMMA ReadyTyped ==
  ASSUME NEW n, NEW e, NEW c, NEW p,
         Ready(n, e, c, p)
  PROVE  /\ n \in Machines /\ e \in Machines /\ p \in DOMAIN Program[c.fn]
         /\ c.args \in Seq(Words) /\ Len(c.args) \in 1..5 /\ \A i \in 1..Len(c.args) : c.args[i] \in Words
<1>1. Outline(n, e, c.fn, p) /\ Called(e, c)
  BY DEF Ready
<1>2. n \in Machines /\ p \in DOMAIN Program[c.fn]
  BY <1>1, OutlineTyped
<1>3. e \in Machines /\ c.args \in Seq(Words) /\ Len(c.args) \in 1..5
  BY <1>1 DEF Called
<1>4. \A i \in 1..Len(c.args) : c.args[i] \in Words
  BY <1>3
<1> QED
  BY <1>2, <1>3, <1>4

LEMMA DeepArg ==
  ASSUME NEW n, NEW e, NEW s, NEW b,
         Deep(n, e, s, s), s \in 0..84, b \in 0..84, b >= s
  PROVE  Read32(n, b) = Read32(e, b)
  BY DeepReads

LEMMA QuietReady ==
  ASSUME NEW n, NEW e, NEW c, NEW p,
         Ready(n, e, c, p), c.fn \in QuietFns
  PROVE  /\ n \in Machines /\ e \in Machines /\ e.r.esp \in {24, 28, 32} /\ n.r.esp = e.r.esp
         /\ Len(c.args) \in 1..5
         /\ \A i \in 1..Len(c.args) :
              c.args[i] \in Words /\ e.r.esp + 4 * i \in 0..36 /\ Read32(n, e.r.esp + 4 * i) = c.args[i]
<1>1. Outline(n, e, c.fn, p) /\ Called(e, c)
  BY DEF Ready
<1>2. c.fn \notin DescriptorFns \cup EflagsFns \cup LoadFns
        \cup {"vmx_invept", "xmhfhw_cpu_reloadcs", "xmhfhw_cpu_cpuid", "spin_lock", "spin_unlock",
              "sysmemaccess_copy", "slab_entrystub"}
  BY DEF QuietFns, DescriptorFns, EflagsFns, LoadFns
<1>3. e.r.esp \in {24, 28, 32} /\ Deep(n, e, e.r.esp, e.r.esp)
  BY <1>1, <1>2 DEF Outline
<1>4. n \in Machines /\ n.r.esp = e.r.esp
  BY <1>3 DEF Deep
<1>5. /\ e \in Machines /\ c.args \in Seq(Words) /\ Len(c.args) \in 1..5 /\ e.r.esp = 36 - 4 * Len(c.args)
      /\ \A i \in DOMAIN c.args : Read32(e, e.r.esp + 4 * i) = c.args[i]
  BY <1>1 DEF Called
<1>6. ASSUME NEW i \in 1..Len(c.args)
      PROVE  c.args[i] \in Words /\ e.r.esp + 4 * i \in 0..36 /\ Read32(n, e.r.esp + 4 * i) = c.args[i]
  <2>1. i \in DOMAIN c.args /\ c.args[i] \in Words /\ i \in Int
    BY <1>5
  <2> DEFINE k == Len(c.args)
             s == e.r.esp
  <2>2. k \in 1..5 /\ s = 36 - 4 * k /\ i \in 1..k
    BY <1>5
  <2> HIDE DEF k, s
  <2>3. s \in 0..84 /\ s + 4 * i \in 0..36 /\ s + 4 * i >= s
    BY <2>2
  <2>4. Deep(n, e, s, s) /\ Read32(e, s + 4 * i) = c.args[i]
    <3>1. Deep(n, e, s, s)
      BY <1>3 DEF s
    <3>2. Read32(e, e.r.esp + 4 * i) = c.args[i]
      BY <1>5, <2>1
    <3> QED
      BY <3>1, <3>2 DEF s
  <2>5. Read32(n, s + 4 * i) = Read32(e, s + 4 * i)
    <3> DEFINE b == s + 4 * i
    <3>1. b \in 0..84 /\ b >= s /\ s \in 0..84
      BY <2>3
    <3>2. Deep(n, e, s, s)
      BY <2>4
    <3> HIDE DEF b
    <3>3. Read32(n, b) = Read32(e, b)
      BY ONLY <3>1, <3>2, DeepArg, ZenonT(60)
    <3> QED
      BY <3>3 DEF b
  <2> QED
    BY <2>1, <2>3, <2>4, <2>5 DEF s
<1> QED
  BY <1>3, <1>4, <1>5, <1>6

(* An argument is loaded. *)
LEMMA LoadsArg ==
  ASSUME NEW n, NEW e, NEW c, NEW p, NEW i, NEW k, NEW reg,
         Ready(n, e, c, p), c.fn \in QuietFns, i \in 1..Len(c.args), k = 4 * i, reg \in Gprs
  PROVE  LET w == Exec(n, <<"movl_mesp", k, reg>>)
         IN  Sets(w, n, reg, c.args[i]) /\ Kept(w, n)
<1>1. /\ n \in Machines /\ n.r.esp = e.r.esp /\ e.r.esp + 4 * i \in 0..36 /\ Read32(n, e.r.esp + 4 * i) = c.args[i]
  BY QuietReady
<1>2. n.r.esp + k = e.r.esp + 4 * i /\ e.r.esp + 4 * i \in 0..84
  BY <1>1
<1>3. Sets(Exec(n, <<"movl_mesp", k, reg>>), n, reg, c.args[i])
  BY <1>1, <1>2, MoveFromStack
<1>4. Keeps(<<"movl_mesp", k, reg>>)
  BY KeepsMoves
<1> QED
  BY <1>1, <1>3, <1>4 DEF Keeps

(* A call is finished once it has answered, or changed what it is named for. *)
LEMMA FinishRead ==
  ASSUME NEW w, NEW e, NEW c,
         w \in Machines, e \in Machines, c.fn \in ReadFns, e.sys.tr < Half
  PROVE  Kept(w, e) /\ Contract!Answers(SysRegs(e), AbstractCall(c), <<w.r.edx, w.r.eax>>) => Finished(w, e, c)
<1> SUFFICES ASSUME Kept(w, e), Contract!Answers(SysRegs(e), AbstractCall(c), <<w.r.edx, w.r.eax>>)
             PROVE  Finished(w, e, c)
  OBVIOUS
<1>1. SysRegs(w) = Target(e, c)
  BY FinishKept
<1>2. w.sys.tr < Half
  BY DEF Kept
<1> QED
  BY <1>1, <1>2 DEF Finished
LEMMA FinishIdle ==
  ASSUME NEW w, NEW e, NEW c,
         w \in Machines, e \in Machines, c.fn \in IdleFns, e.sys.tr < Half
  PROVE  Kept(w, e) => Finished(w, e, c)
<1> SUFFICES ASSUME Kept(w, e) PROVE Finished(w, e, c)
  OBVIOUS
<1>1. SysRegs(w) = Target(e, c)
  BY FinishKept
<1>2. w.sys.tr < Half
  BY DEF Kept
<1>3. Contract!Answers(SysRegs(e), AbstractCall(c), <<w.r.edx, w.r.eax>>)
  BY AnswersAny, AbstractParts
<1> QED
  BY <1>1, <1>2, <1>3 DEF Finished
LEMMA FinishNothing ==
  ASSUME NEW w, NEW e, NEW c,
         w \in Machines, e \in Machines, c.fn \in WriteFns, e.sys.tr < Half
  PROVE  /\ Kept(w, e) /\ DOMAIN Contract!Changes(SysRegs(e), AbstractCall(c)) = {}
         => Finished(w, e, c)
<1> SUFFICES ASSUME Kept(w, e), DOMAIN Contract!Changes(SysRegs(e), AbstractCall(c)) = {} PROVE Finished(w, e, c)
  OBVIOUS
<1>1. SysRegs(w) = Target(e, c)
  BY AfterNone, KeptRegs DEF Target
<1>2. w.sys.tr < Half
  BY DEF Kept
<1>3. Contract!Answers(SysRegs(e), AbstractCall(c), <<w.r.edx, w.r.eax>>)
  BY AnswersAny, AbstractParts
<1> QED
  BY <1>1, <1>2, <1>3 DEF Finished
LEMMA FinishWrite ==
  ASSUME NEW w, NEW e, NEW c, NEW f, NEW v,
         w \in Machines, e \in Machines, c.fn \in WriteFns, e.sys.tr < Half, f \in SysFields
  PROVE  /\ w.sys = [e.sys EXCEPT ![f] = v] /\ Bit(w.fl, EFLAGS_IF) = Bit(e.fl, EFLAGS_IF)
         /\ Contract!Changes(SysRegs(e), AbstractCall(c)) = [i \in {f} |-> v]
         /\ f = "tr" => v < Half
         => Finished(w, e, c)
<1> SUFFICES ASSUME w.sys = [e.sys EXCEPT ![f] = v], Bit(w.fl, EFLAGS_IF) = Bit(e.fl, EFLAGS_IF),
                    Contract!Changes(SysRegs(e), AbstractCall(c)) = [i \in {f} |-> v],
                    f = "tr" => v < Half
             PROVE  Finished(w, e, c)
  OBVIOUS
<1>1. SysRegs(w) = Target(e, c)
  BY FinishField
<1>2. w.sys.tr < Half
  <2>1. e.sys \in SysStates
    BY Parts
  <2>2. "tr" \in DOMAIN e.sys
    BY <2>1 DEF SysStates
  <2>3. CASE f = "tr"
    BY <2>2, <2>3
  <2>4. CASE f # "tr"
    BY <2>2, <2>4
  <2> QED
    BY <2>3, <2>4
<1>3. Contract!Answers(SysRegs(e), AbstractCall(c), <<w.r.edx, w.r.eax>>)
  BY AnswersAny, AbstractParts
<1> QED
  BY <1>1, <1>2, <1>3 DEF Finished
LEMMA FinishIntr ==
  ASSUME NEW w, NEW e, NEW c, NEW v,
         w \in Machines, e \in Machines, c.fn \in WriteFns, e.sys.tr < Half
  PROVE  /\ w.sys = e.sys /\ Bit(w.fl, EFLAGS_IF) = v
         /\ Contract!Changes(SysRegs(e), AbstractCall(c)) = [i \in {"intr"} |-> v]
         => Finished(w, e, c)
<1> SUFFICES ASSUME w.sys = e.sys, Bit(w.fl, EFLAGS_IF) = v,
                    Contract!Changes(SysRegs(e), AbstractCall(c)) = [i \in {"intr"} |-> v]
             PROVE  Finished(w, e, c)
  OBVIOUS
<1>1. SysRegs(w) = Target(e, c)
  BY FinishFlag
<1>3. Contract!Answers(SysRegs(e), AbstractCall(c), <<w.r.edx, w.r.eax>>)
  BY AnswersAny, AbstractParts
<1> QED
  BY <1>1, <1>3 DEF Finished

(* How much of its work a call has done before its next instruction, for
   every function.  Most change or read registers with one instruction,
   the last but for the return. *)
Straight(n, e, c, p, last) ==
  p \in 1..last /\ (p < last => Kept(n, e)) /\ (p = last => Finished(n, e, c))

OneFns ==
  {"bsrl", "xmhfhw_cpu_disable_intr", "enable_intr", "hlt", "rdtsc64", "read_cr2", "read_segreg_cs",
   "read_segreg_ds", "read_segreg_es", "read_segreg_fs", "read_segreg_gs", "read_segreg_ss"}
EaxFns == {"write_cr0", "write_cr3", "write_cr4", "xmhfhw_cpu_loadTR"}
EcxFns == {"vmread", "xgetbv", "rdmsr64"}
CrFns  == {"read_cr0", "read_cr3", "read_cr4"}
TripleFns == {"xsetbv", "wrmsr64"}
PortFns == {"inb", "inw", "inl"}
VmxFns == {"vmclear", "vmptrld", "vmxon"}

TrackIdle(n, e, c, p) == c.fn \in IdleFns /\ Kept(n, e)
TrackOne(n, e, c, p) == c.fn \in OneFns /\ Straight(n, e, c, p, 2)
TrackEax(n, e, c, p) ==
  c.fn \in EaxFns /\ Straight(n, e, c, p, 3) /\ (p = 2 => n.r.eax = c.args[1])
TrackEcx(n, e, c, p) ==
  c.fn \in EcxFns /\ Straight(n, e, c, p, 3) /\ (p = 2 => n.r.ecx = c.args[1])
TrackLoad(n, e, c, p) == c.fn \in LoadFns /\ Straight(n, e, c, p, 3)
TrackCr(n, e, c, p) == c.fn \in CrFns /\ Straight(n, e, c, p, 3) /\ (p = 2 => n.r.edx = 0)
TrackTr(n, e, c, p) == c.fn = "read_tr_sel" /\ Straight(n, e, c, p, 3) /\ (p = 2 => n.r.eax = 0)
TrackPushfl(n, e, c, p) ==
  /\ c.fn = "read_eflags" /\ Straight(n, e, c, p, 3)
  /\ p = 2 => Bit(Read32(n, 28), EFLAGS_IF) = Bit(e.fl, EFLAGS_IF)
TrackPopfl(n, e, c, p) ==
  c.fn = "write_eflags" /\ Straight(n, e, c, p, 3) /\ (p = 2 => Read32(n, 28) = c.args[1])
TrackOutl(n, e, c, p) ==
  /\ c.fn = "outl" /\ Straight(n, e, c, p, 4)
  /\ (p \in 2..3 => n.r.eax = c.args[1]) /\ (p = 3 => n.r.edx = c.args[2])
TrackVmwrite(n, e, c, p) ==
  /\ c.fn = "vmwrite" /\ Straight(n, e, c, p, 4)
  /\ (p \in 2..3 => n.r.ecx = c.args[1]) /\ (p = 3 => n.r.eax = c.args[2])
TrackTriple(n, e, c, p) ==
  /\ c.fn \in TripleFns /\ Straight(n, e, c, p, 5)
  /\ (p \in 2..4 => n.r.ecx = c.args[1]) /\ (p \in 3..4 => n.r.eax = c.args[2])
  /\ (p = 4 => n.r.edx = c.args[3])
TrackSgdt(n, e, c, p) ==
  /\ c.fn = "getgdtbase" /\ Straight(n, e, c, p, 5)
  /\ (p = 3 => Read32(n, 26) = e.sys.gdtr.base) /\ (p = 4 => n.r.eax = e.sys.gdtr.base)
TrackPort(n, e, c, p) ==
  /\ c.fn \in PortFns /\ Straight(n, e, c, p, 5)
  /\ (p \in 2..3 => n.r.edx = c.args[1]) /\ (p = 3 => n.r.eax = 0)
  /\ p = 4 => n.r.eax = IF c.fn = "inl" /\ c.args[1] = PCI_CONFIG_ADDR_PORT THEN e.sys.pci_addr ELSE 0
TrackVmx(n, e, c, p) ==
  /\ c.fn \in VmxFns /\ Straight(n, e, c, p, 6)
  /\ c.fn = "vmxon" => p # 5 /\ (p = 2 => ~Flag(n, EFLAGS_CF))
  /\ p = 4 => n.r.eax = 1
TrackInvept(n, e, c, p) ==
  /\ c.fn = "vmx_invept" /\ Straight(n, e, c, p, 16)
  /\ (p = 13 => n.r.eax = 0) /\ (p = 15 => n.r.eax \in {0, 1})
TrackCs(n, e, c, p) ==
  c.fn = "xmhfhw_cpu_reloadcs" /\ Kept(n, e) /\ p \in 1..4 /\ (p \in 3..4 => Read32(n, 32) = c.args[1])
(* The data segments are loaded in this order. *)
DataSegs == <<"ds", "es", "fs", "gs", "ss">>
Reloaded(p) == {DataSegs[i] : i \in 1..(p - 2)}
TrackDs(n, e, c, p) ==
  /\ c.fn = "xmhfhw_cpu_reloaddsregs" /\ p \in 1..7
  /\ n.sys = [e.sys EXCEPT !.sel = n.sys.sel] /\ Bit(n.fl, EFLAGS_IF) = Bit(e.fl, EFLAGS_IF)
  /\ \A s \in Selectors : n.sys.sel[s] = IF s \in Reloaded(p) THEN 16 ELSE e.sys.sel[s]
  /\ p > 1 => n.r.eax = 16

Track(n, e, c, p) ==
  \/ TrackIdle(n, e, c, p) \/ TrackOne(n, e, c, p) \/ TrackEax(n, e, c, p) \/ TrackEcx(n, e, c, p)
  \/ TrackLoad(n, e, c, p) \/ TrackCr(n, e, c, p) \/ TrackTr(n, e, c, p) \/ TrackPushfl(n, e, c, p)
  \/ TrackPopfl(n, e, c, p) \/ TrackOutl(n, e, c, p) \/ TrackVmwrite(n, e, c, p) \/ TrackTriple(n, e, c, p)
  \/ TrackSgdt(n, e, c, p) \/ TrackPort(n, e, c, p) \/ TrackVmx(n, e, c, p) \/ TrackInvept(n, e, c, p)
  \/ TrackCs(n, e, c, p) \/ TrackDs(n, e, c, p)

(* What the next instruction does to it, and to the registers. *)
KeepsTrack(n, e, c, p) ==
  LET i == Program[c.fn][p]
  IN  /\ Plain(i) /\ (i[1] = "bsrl_mesp_eax" => bsrl_ends(n, i[2])) =>
           Track(Exec(n, i), e, c, p + 1) /\ Stays(Exec(n, i), n, e, c)
      /\ i[1] \in ThroughEax => \A w \in Undefined(n, i) : Track(w, e, c, p + 1) /\ Stays(w, n, e, c)
      /\ i[1] \in Branches => Track(n, e, c, IF Taken(n, i[1]) THEN i[2] ELSE p + 1)
      /\ i[1] = "call_c_1p" =>
           \A x, y \in Words : Track(ReturnedFromC(n, x, y), e, c, p + 1) /\ Stays(ReturnedFromC(n, x, y), n, e, c)
      /\ i[1] \in Returns => Finished(Return(n, i[1]), e, c) /\ Stays(Return(n, i[1]), n, e, c)

LEMMA PlainKeeps ==
  ASSUME NEW n, NEW e, NEW c, NEW p
  PROVE  /\ Plain(Program[c.fn][p]) /\ Stays(Exec(n, Program[c.fn][p]), n, e, c)
         /\ Track(Exec(n, Program[c.fn][p]), e, c, p + 1)
         => KeepsTrack(n, e, c, p)
  BY DEF KeepsTrack, Plain
LEMMA JumpKeeps ==
  ASSUME NEW n, NEW e, NEW c, NEW p
  PROVE  /\ Program[c.fn][p][1] \in Branches
         /\ Track(n, e, c, IF Taken(n, Program[c.fn][p][1]) THEN Program[c.fn][p][2] ELSE p + 1)
         => KeepsTrack(n, e, c, p)
  BY DEF KeepsTrack, Plain, Branches, Returns, ThroughEax
LEMMA ReturnKeepsTrack ==
  ASSUME NEW n, NEW e, NEW c, NEW p, n \in Machines
  PROVE  /\ Program[c.fn][p][1] \in {"ret", "retu32", "retu64"} /\ Finished(n, e, c)
         => KeepsTrack(n, e, c, p)
  BY FinishedReturns DEF KeepsTrack, Plain, Branches, Returns, ThroughEax

(* A call that goes on. *)
LEMMA ReadyNext ==
  ASSUME NEW n, NEW e, NEW c, NEW p,
         Ready(n, e, c, p)
  PROVE  LET i == Program[c.fn][p]
         IN  Plain(i) /\ (i[1] = "bsrl_mesp_eax" => bsrl_ends(n, i[2])) =>
               Exec(n, i) \in Machines /\ Ready(Exec(n, i), e, c, p + 1)
<1> DEFINE i == Program[c.fn][p]
<1>1. Outline(n, e, c.fn, p)
  BY DEF Ready
<1>2. Moves(n, e, c.fn, p)
  BY <1>1, OutlineMoves
<1>3. Plain(i) /\ (i[1] = "bsrl_mesp_eax" => bsrl_ends(n, i[2])) => Outline(Exec(n, i), e, c.fn, p + 1)
  BY <1>2 DEF Moves
<1>4. Outline(Exec(n, i), e, c.fn, p + 1) => Exec(n, i) \in Machines
  BY OutlineTyped
<1> QED
  BY <1>3, <1>4 DEF Ready

(* A step that leaves the registers, and one that finishes the call. *)
LEMMA StepKept ==
  ASSUME NEW n, NEW e, NEW c, NEW p, NEW i,
         i = Program[c.fn][p]
  PROVE  Plain(i) /\ Kept(Exec(n, i), n) /\ Track(Exec(n, i), e, c, p + 1) => KeepsTrack(n, e, c, p)
  BY StaysKept, PlainKeeps
LEMMA StepFinishes ==
  ASSUME NEW n, NEW e, NEW c, NEW p, NEW i,
         i = Program[c.fn][p]
  PROVE  /\ Plain(i) /\ Kept(n, e) /\ Finished(Exec(n, i), e, c) /\ Track(Exec(n, i), e, c, p + 1)
         => KeepsTrack(n, e, c, p)
<1>1. Finished(Exec(n, i), e, c) => SysRegs(Exec(n, i)) = Target(e, c)
  BY DEF Finished
<1> QED
  BY <1>1, StaysTarget, PlainKeeps
(* A function that returns has finished. *)
LEMMA LastKeeps ==
  ASSUME NEW n, NEW e, NEW c, NEW p, NEW last,
         Ready(n, e, c, p)
  PROVE  /\ Straight(n, e, c, p, last) /\ p = last /\ Program[c.fn][p][1] \in {"ret", "retu32", "retu64"}
         => KeepsTrack(n, e, c, p)
<1>1. n \in Machines
  BY ReadyTyped
<1> QED
  BY <1>1, ReturnKeepsTrack DEF Straight

LEMMA PlainNames ==
  \A i : /\ /\ i[1] \in LoadStores \cup Stacks \cup Arithmetic \cup Segments \cup Controls \cup Vmx
            /\ i[1] \notin ThroughEax
            => Plain(i)
         /\ i[1] \in {"cpuid", "rdtsc", "hlt", "cli", "sti", "inb_dx_al", "inw_dx_ax", "inl_dx_eax", "outl_eax_dx",
                      "rdmsr", "wrmsr", "sgdt_mesp", "str_ax", "lidt_mecx", "ltr_ax", "lgdt_mecx", "xsetbv", "xgetbv"}
            => Plain(i)
  BY DEF Plain, Branches, Returns, ThroughEax, LoadStores, Stacks, Arithmetic, Segments, Controls, Vmx

(* Functions of one instruction. *)
LEMMA OnePrograms ==
  /\ Program["bsrl"] = <<<<"bsrl_mesp_eax", 4>>, <<"retu32">>>>
  /\ Program["xmhfhw_cpu_disable_intr"] = <<<<"cli">>, <<"ret">>>>
  /\ Program["enable_intr"] = <<<<"sti">>, <<"ret">>>>
  /\ Program["hlt"] = <<<<"hlt">>, <<"ret">>>>
  /\ Program["rdtsc64"] = <<<<"rdtsc">>, <<"retu64">>>>
  /\ Program["read_cr2"] = <<<<"movl_cr_eax", "cr2">>, <<"retu32">>>>
  /\ Program["read_segreg_cs"] = <<<<"movl_seg_eax", "cs">>, <<"retu32">>>>
  /\ Program["read_segreg_ds"] = <<<<"movl_seg_eax", "ds">>, <<"retu32">>>>
  /\ Program["read_segreg_es"] = <<<<"movl_seg_eax", "es">>, <<"retu32">>>>
  /\ Program["read_segreg_fs"] = <<<<"movl_seg_eax", "fs">>, <<"retu32">>>>
  /\ Program["read_segreg_gs"] = <<<<"movl_seg_eax", "gs">>, <<"retu32">>>>
  /\ Program["read_segreg_ss"] = <<<<"movl_seg_eax", "ss">>, <<"retu32">>>>
  BY DEF Program, bsrl, Simple, ReadInto

(* What one of them has to do. *)
LEMMA OneKeeps ==
  ASSUME NEW n, NEW e, NEW c, NEW p, NEW i, NEW op,
         Ready(n, e, c, p), TrackOne(n, e, c, p), Program[c.fn] = <<i, <<op>>>>, op \in {"ret", "retu32", "retu64"},
         Plain(i),
         p = 1 /\ Kept(n, e) /\ (i[1] = "bsrl_mesp_eax" => bsrl_ends(n, i[2])) => Finished(Exec(n, i), e, c)
  PROVE  KeepsTrack(n, e, c, p)
<1>1. c.fn \in OneFns /\ p \in 1..2 /\ Straight(n, e, c, p, 2)
  BY DEF TrackOne, Straight
<1>2. CASE p = 1
  <2>1. i = Program[c.fn][p] /\ Kept(n, e)
    BY <1>1, <1>2 DEF Straight
  <2>2. CASE i[1] = "bsrl_mesp_eax" => bsrl_ends(n, i[2])
    <3>1. Finished(Exec(n, i), e, c)
      BY <1>2, <2>1, <2>2
    <3>2. Track(Exec(n, i), e, c, p + 1)
      BY <1>1, <1>2, <3>1 DEF Track, TrackOne, Straight
    <3> QED
      BY <2>1, <3>1, <3>2, StepFinishes
  <2>3. CASE ~(i[1] = "bsrl_mesp_eax" => bsrl_ends(n, i[2]))
    BY <2>1, <2>3 DEF KeepsTrack, Plain
  <2> QED
    BY <2>2, <2>3
<1>3. CASE p = 2
  <2>1. Program[c.fn][p] = <<op>>
    BY <1>3
  <2> QED
    BY <1>1, <1>3, <2>1, LastKeeps
<1> QED
  BY <1>1, <1>2, <1>3

(* What the instructions that load eax from a system register leave there. *)
LEMMA LoadsSelector ==
  ASSUME NEW n, NEW s,
         n \in Machines, s \in Selectors
  PROVE  LET w == Exec(n, <<"movl_seg_eax", s>>)
         IN  w \in Machines /\ Kept(w, n) /\ w.r.eax = n.sys.sel[s] /\ w.r.edx = n.r.edx
<1> DEFINE v == n.sys.sel[s]
<1>1. v \in Words
  BY SysParts
<1>2. Exec(n, <<"movl_seg_eax", s>>) = SetReg(n, "eax", v)
  BY ExecOthers DEF movl_seg_eax
<1>3. Kept(Exec(n, <<"movl_seg_eax", s>>), n)
  BY KeepsReads DEF Keeps
<1> HIDE DEF v
<1>4. /\ SetReg(n, "eax", v) \in Machines /\ SetReg(n, "eax", v).r = [n.r EXCEPT !["eax"] = v]
      /\ n.r \in [Gprs -> Words]
  BY <1>1, Loads, Parts DEF Gprs
<1>5. SetReg(n, "eax", v).r.eax = v /\ SetReg(n, "eax", v).r.edx = n.r.edx
  BY <1>4 DEF Gprs
<1> QED
  BY <1>2, <1>3, <1>4, <1>5 DEF v
LEMMA LoadsControl ==
  ASSUME NEW n, NEW cr,
         n \in Machines, cr \in {"cr0", "cr2", "cr3", "cr4"}
  PROVE  LET w == Exec(n, <<"movl_cr_eax", cr>>)
         IN  w \in Machines /\ Kept(w, n) /\ w.r.eax = n.sys[cr] /\ w.r.edx = n.r.edx
<1> DEFINE v == n.sys[cr]
<1>1. v \in Words
  BY SysParts
<1>2. Exec(n, <<"movl_cr_eax", cr>>) = SetReg(n, "eax", v)
  BY ExecOthers DEF movl_cr_eax
<1>3. Kept(Exec(n, <<"movl_cr_eax", cr>>), n)
  BY KeepsReads DEF Keeps
<1> HIDE DEF v
<1>4. /\ SetReg(n, "eax", v) \in Machines /\ SetReg(n, "eax", v).r = [n.r EXCEPT !["eax"] = v]
      /\ n.r \in [Gprs -> Words]
  BY <1>1, Loads, Parts DEF Gprs
<1>5. SetReg(n, "eax", v).r.eax = v /\ SetReg(n, "eax", v).r.edx = n.r.edx
  BY <1>4 DEF Gprs
<1> QED
  BY <1>2, <1>3, <1>4, <1>5 DEF v

LEMMA SelectorKeeps ==
  ASSUME NEW n, NEW e, NEW c, NEW p, NEW s,
         Ready(n, e, c, p), TrackOne(n, e, c, p), s \in Selectors,
         <<c.fn, s>> \in {<<"read_segreg_cs", "cs">>, <<"read_segreg_ds", "ds">>, <<"read_segreg_es", "es">>,
                          <<"read_segreg_fs", "fs">>, <<"read_segreg_gs", "gs">>, <<"read_segreg_ss", "ss">>}
  PROVE  KeepsTrack(n, e, c, p)
<1> DEFINE i == <<"movl_seg_eax", s>>
           w == Exec(n, i)
<1>1. Program[c.fn] = <<i, <<"retu32">>>> /\ c.fn \in ReadFns
  BY OnePrograms DEF ReadFns
<1>2. Plain(i)
  BY PlainNames DEF Segments, ThroughEax
<1>3. ASSUME Kept(n, e) PROVE Finished(w, e, c)
  <2>1. n \in Machines /\ e \in Machines /\ e.sys.tr < Half
    BY ReadyTyped DEF Ready
  <2>2. w \in Machines /\ Kept(w, n) /\ w.r.eax = n.sys.sel[s]
    BY <2>1, LoadsSelector
  <2> HIDE DEF w
  <2>3. Kept(w, e) /\ w.r.eax = e.sys.sel[s]
    BY <1>3, <2>2 DEF Kept
  <2>4. SysRegs(e)[s] = e.sys.sel[s]
    BY SysRegsOf
  <2>5. Contract!Answers(SysRegs(e), AbstractCall(c), <<w.r.edx, w.r.eax>>)
    <3> DEFINE b == SysRegs(e)
               k == AbstractCall(c)
               a == <<w.r.edx, w.r.eax>>
    <3>1. k.fn = c.fn /\ a[2] = b[s]
      BY <2>3, <2>4, AbstractParts
    <3> HIDE DEF b, k, a
    <3>2. Contract!Answers(b, k, a)
      BY <3>1, AnswersSegs
    <3> QED
      BY <3>2 DEF b, k, a
  <2> QED
    BY <1>1, <2>1, <2>2, <2>3, <2>5, FinishRead
<1> HIDE DEF w
<1>4. p = 1 /\ Kept(n, e) /\ (i[1] = "bsrl_mesp_eax" => bsrl_ends(n, i[2])) => Finished(Exec(n, i), e, c)
  BY <1>3 DEF w
<1> HIDE DEF i
<1> QED
  BY <1>1, <1>2, <1>4, OneKeeps
LEMMA Cr2Keeps ==
  ASSUME NEW n, NEW e, NEW c, NEW p,
         Ready(n, e, c, p), TrackOne(n, e, c, p), c.fn = "read_cr2"
  PROVE  KeepsTrack(n, e, c, p)
<1> DEFINE i == <<"movl_cr_eax", "cr2">>
           w == Exec(n, i)
<1>1. Program[c.fn] = <<i, <<"retu32">>>> /\ c.fn \in ReadFns
  BY OnePrograms DEF ReadFns
<1>2. Plain(i)
  BY PlainNames DEF Controls, ThroughEax
<1>3. ASSUME Kept(n, e) PROVE Finished(w, e, c)
  <2>1. n \in Machines /\ e \in Machines /\ e.sys.tr < Half
    BY ReadyTyped DEF Ready
  <2>2. w \in Machines /\ Kept(w, n) /\ w.r.eax = n.sys.cr2
    BY <2>1, LoadsControl
  <2> HIDE DEF w
  <2>3. Kept(w, e) /\ w.r.eax = e.sys.cr2
    BY <1>3, <2>2 DEF Kept
  <2>4. SysRegs(e).cr2 = e.sys.cr2
    BY SysRegsOf DEF SysFields
  <2>5. Contract!Answers(SysRegs(e), AbstractCall(c), <<w.r.edx, w.r.eax>>)
    BY <2>3, <2>4, AnswersRegs, AbstractParts
  <2> QED
    BY <1>1, <2>1, <2>2, <2>3, <2>5, FinishRead
<1> HIDE DEF w
<1>4. p = 1 /\ Kept(n, e) /\ (i[1] = "bsrl_mesp_eax" => bsrl_ends(n, i[2])) => Finished(Exec(n, i), e, c)
  BY <1>3 DEF w
<1> HIDE DEF i
<1> QED
  BY <1>1, <1>2, <1>4, OneKeeps
LEMMA IntrKeeps ==
  ASSUME NEW n, NEW e, NEW c, NEW p, NEW op, NEW v,
         Ready(n, e, c, p), TrackOne(n, e, c, p),
         <<c.fn, op, v>> \in {<<"enable_intr", "sti", 1>>, <<"xmhfhw_cpu_disable_intr", "cli", 0>>}
  PROVE  KeepsTrack(n, e, c, p)
<1> DEFINE i == <<op>>
           w == Exec(n, i)
<1>1. Program[c.fn] = <<i, <<"ret">>>> /\ c.fn \in WriteFns
  BY OnePrograms DEF WriteFns
<1>2. Plain(i)
  BY PlainNames
<1>3. ASSUME Kept(n, e) PROVE Finished(w, e, c)
  <2>1. n \in Machines /\ e \in Machines /\ e.sys.tr < Half
    BY ReadyTyped DEF Ready
  <2>2. w.sys = n.sys /\ Bit(w.fl, EFLAGS_IF) = v /\ w \in Machines
    <3>1. n.fl \in Words /\ DOMAIN n = {"r", "fl", "sys", "mem"}
      BY <2>1, Parts DEF Machines
    <3>2. /\ SetBit(n.fl, EFLAGS_IF) \in Words /\ Bit(SetBit(n.fl, EFLAGS_IF), EFLAGS_IF) = 1
          /\ ClearBit(n.fl, EFLAGS_IF) \in Words /\ Bit(ClearBit(n.fl, EFLAGS_IF), EFLAGS_IF) = 0
      BY <3>1, Flags
    <3>3. \/ op = "sti" /\ v = 1 /\ w = [n EXCEPT !.fl = SetBit(n.fl, EFLAGS_IF)]
          \/ op = "cli" /\ v = 0 /\ w = [n EXCEPT !.fl = ClearBit(n.fl, EFLAGS_IF)]
      BY ExecSystems DEF sti, cli
    <3> HIDE DEF w
    <3> QED
      BY <2>1, <3>1, <3>2, <3>3, SetsFlags
  <2> HIDE DEF w
  <2>3. w.sys = e.sys
    BY <1>3, <2>2 DEF Kept
  <2>4. Contract!Changes(SysRegs(e), AbstractCall(c)) = [j \in {"intr"} |-> v]
    BY ChangesRegs, AbstractParts
  <2> QED
    BY <1>1, <2>1, <2>2, <2>3, <2>4, FinishIntr
<1> HIDE DEF w
<1>4. p = 1 /\ Kept(n, e) /\ (i[1] = "bsrl_mesp_eax" => bsrl_ends(n, i[2])) => Finished(Exec(n, i), e, c)
  BY <1>3 DEF w
<1> HIDE DEF i
<1> QED
  BY <1>1, <1>2, <1>4, OneKeeps
LEMMA ChangesHalted ==
  ASSUME NEW b, NEW k
  PROVE  k.fn = "hlt" => Contract!Changes(b, k) = [i \in {"halted"} |-> TRUE]
  BY ChangesNumbered, Zenon
LEMMA HltKeeps ==
  ASSUME NEW n, NEW e, NEW c, NEW p,
         Ready(n, e, c, p), TrackOne(n, e, c, p), c.fn = "hlt"
  PROVE  KeepsTrack(n, e, c, p)
<1> DEFINE i == <<"hlt">>
           w == Exec(n, i)
<1>1. Program[c.fn] = <<i, <<"ret">>>> /\ c.fn \in WriteFns
  BY OnePrograms DEF WriteFns
<1>2. Plain(i)
  BY PlainNames
<1>3. ASSUME p = 1, Kept(n, e) PROVE Finished(w, e, c)
  <2>1. n \in Machines /\ e \in Machines /\ e.sys.tr < Half
    BY ReadyTyped DEF Ready
  <2>2. w \in Machines
    <3>1. Program[c.fn][p] = i
      BY <1>1, <1>3
    <3> QED
      BY <1>2, <3>1, ReadyNext
  <2>3. w.sys = [e.sys EXCEPT !["halted"] = TRUE] /\ Bit(w.fl, EFLAGS_IF) = Bit(e.fl, EFLAGS_IF)
    <3>1. \A v : [n EXCEPT !.sys.halted = v].sys = [n.sys EXCEPT !["halted"] = v] /\ [n EXCEPT !.sys.halted = v].fl = n.fl
      BY <2>1 DEF Machines
    <3>2. w = [n EXCEPT !.sys.halted = TRUE]
      BY ExecSystems DEF hlt
    <3>3. w.sys = [n.sys EXCEPT !["halted"] = TRUE] /\ w.fl = n.fl
      BY <3>1, <3>2, Zenon
    <3> HIDE DEF w
    <3>4. n.sys = e.sys /\ Bit(n.fl, EFLAGS_IF) = Bit(e.fl, EFLAGS_IF)
      BY <1>3 DEF Kept
    <3>5. w.sys = [e.sys EXCEPT !["halted"] = TRUE]
      BY <3>3, <3>4, Zenon
    <3> QED
      BY <3>3, <3>4, <3>5, Zenon
  <2> HIDE DEF w
  <2>4. Contract!Changes(SysRegs(e), AbstractCall(c)) = [j \in {"halted"} |-> TRUE]
    BY ChangesHalted, AbstractParts, Zenon
  <2>5. "halted" \in SysFields /\ "halted" # "tr"
    BY DEF SysFields
  <2>6. \A v : /\ w.sys = [e.sys EXCEPT !["halted"] = v] /\ Bit(w.fl, EFLAGS_IF) = Bit(e.fl, EFLAGS_IF)
               /\ Contract!Changes(SysRegs(e), AbstractCall(c)) = [j \in {"halted"} |-> v]
               => Finished(w, e, c)
    BY <1>1, <2>1, <2>2, <2>5, FinishWrite
  <2> QED
    BY <2>3, <2>4, <2>6, Zenon
<1> HIDE DEF w
<1>4. p = 1 /\ Kept(n, e) /\ (i[1] = "bsrl_mesp_eax" => bsrl_ends(n, i[2])) => Finished(Exec(n, i), e, c)
  BY <1>3 DEF w
<1> HIDE DEF i
<1> QED
  BY <1>1, <1>2, <1>4, OneKeeps

LEMMA Pairs2 == ASSUME NEW S, NEW p, p \in S \X S PROVE p = <<p[1], p[2]>>
  OBVIOUS
LEMMA TicksClock ==
  ASSUME NEW n, n \in Machines
  PROVE  LET w == Exec(n, <<"rdtsc">>)
         IN  /\ w.sys = [n.sys EXCEPT !["rdtsc"] = Successor(n.sys.rdtsc)] /\ w.fl = n.fl
             /\ <<w.r.edx, w.r.eax>> = n.sys.rdtsc
<1> DEFINE t == n.sys.rdtsc
           x == t[1]
           y == t[2]
           s == Successor(t)
           w == Exec(n, <<"rdtsc">>)
<1>1. w = [n EXCEPT !.r.edx = x, !.r.eax = y, !.sys.rdtsc = s]
  BY ExecSystems DEF rdtsc
<1>2. t = <<x, y>>
  BY SysParts, Pairs2
<1>3. n.r \in [Gprs -> Words] /\ DOMAIN n = {"r", "fl", "sys", "mem"}
  BY DEF Machines
<1> HIDE DEF x, y, s, w
<1>4. w.sys = [n.sys EXCEPT !["rdtsc"] = s] /\ w.fl = n.fl /\ w.r = [n.r EXCEPT !["edx"] = x, !["eax"] = y]
  BY <1>1, <1>3
<1>5. w.r.edx = x /\ w.r.eax = y
  BY <1>3, <1>4 DEF Gprs
<1> QED
  BY <1>2, <1>4, <1>5 DEF w, s
LEMMA ChangesClock ==
  ASSUME NEW b, NEW k, NEW v
  PROVE  k.fn = "rdtsc64" /\ v = Successor(b.rdtsc) => Contract!Changes(b, k) = [i \in {"rdtsc"} |-> v]
<1>1. k.fn = "rdtsc64" => Contract!Changes(b, k) = [i \in {"rdtsc"} |-> Successor(b.rdtsc)]
  BY ChangesNumbered, Zenon
<1> DEFINE u == Successor(b.rdtsc)
<1>2. k.fn = "rdtsc64" => Contract!Changes(b, k) = [i \in {"rdtsc"} |-> u]
  BY <1>1
<1> HIDE DEF u
<1>3. u = Successor(b.rdtsc)
  BY DEF u
<1>4. k.fn = "rdtsc64" /\ v = u => Contract!Changes(b, k) = [i \in {"rdtsc"} |-> v]
  BY <1>2
<1> QED
  BY <1>3, <1>4
LEMMA ClockKeeps ==
  ASSUME NEW n, NEW e, NEW c, NEW p,
         Ready(n, e, c, p), TrackOne(n, e, c, p), c.fn = "rdtsc64"
  PROVE  KeepsTrack(n, e, c, p)
<1> DEFINE i == <<"rdtsc">>
           w == Exec(n, i)
<1>1. Program[c.fn] = <<i, <<"retu64">>>>
  BY OnePrograms
<1>2. Plain(i)
  BY PlainNames
<1>3. ASSUME p = 1, Kept(n, e) PROVE Finished(w, e, c)
  <2>1. n \in Machines /\ e \in Machines /\ e.sys.tr < Half
    BY ReadyTyped DEF Ready
  <2>2. w \in Machines
    <3>1. Program[c.fn][p] = i
      BY <1>1, <1>3
    <3> QED
      BY <1>2, <3>1, ReadyNext
  <2>3. /\ w.sys = [n.sys EXCEPT !["rdtsc"] = Successor(n.sys.rdtsc)] /\ w.fl = n.fl
        /\ <<w.r.edx, w.r.eax>> = n.sys.rdtsc
    BY <2>1, TicksClock
  <2> HIDE DEF w
  <2>4. n.sys = e.sys /\ Bit(n.fl, EFLAGS_IF) = Bit(e.fl, EFLAGS_IF)
    BY <1>3 DEF Kept
  <2>5. SysRegs(e).rdtsc = e.sys.rdtsc /\ "rdtsc" \in SysFields
    BY SysRegsOf DEF SysFields
  <2> DEFINE v == Successor(e.sys.rdtsc)
  <2>6. Contract!Changes(SysRegs(e), AbstractCall(c)) = [j \in {"rdtsc"} |-> v]
    <3>1. v = Successor(SysRegs(e).rdtsc)
      BY <2>5
    <3> HIDE DEF v
    <3> QED
      BY <3>1, ChangesClock, AbstractParts
  <2>7. w.sys = [e.sys EXCEPT !["rdtsc"] = v] /\ Bit(w.fl, EFLAGS_IF) = Bit(e.fl, EFLAGS_IF)
    BY <2>3, <2>4
  <2>8. w.sys.tr < Half
    <3>1. "tr" \in DOMAIN e.sys
      BY <2>1, Parts DEF SysStates
    <3> HIDE DEF v
    <3> QED
      BY <2>1, <2>7, <3>1
  <2> HIDE DEF v
  <2>9. SysRegs(w) = Target(e, c)
    BY <2>1, <2>2, <2>5, <2>6, <2>7, FinishField
  <2>10. Contract!Answers(SysRegs(e), AbstractCall(c), <<w.r.edx, w.r.eax>>)
    BY <2>3, <2>4, <2>5, AnswersOthers, AbstractParts
  <2> QED
    BY <2>8, <2>9, <2>10 DEF Finished
<1> HIDE DEF w
<1>4. p = 1 /\ Kept(n, e) /\ (i[1] = "bsrl_mesp_eax" => bsrl_ends(n, i[2])) => Finished(Exec(n, i), e, c)
  BY <1>3 DEF w
<1> HIDE DEF i
<1> QED
  BY <1>1, <1>2, <1>4, OneKeeps

(* The search for the highest bit finds it. *)
LEMMA FindsHighest ==
  ASSUME NEW n, NEW v,
         n \in Machines, v \in Words, v # 0, v = Read32(n, At(n, "esp", 4))
  PROVE  LET w == Exec(n, <<"bsrl_mesp_eax", 4>>)
         IN  2 ^ w.r.eax <= v /\ v < 2 ^ (w.r.eax + 1)
<1> DEFINE set == {k \in 0..(WordBits - 1) : Bit(v, k) = 1}
           top == CHOOSE k \in set : \A j \in set : j <= k
<1>1. PICK k \in 0..(WordBits - 1) :
        /\ Bit(v, k) = 1 /\ \A j \in 0..(WordBits - 1) : Bit(v, j) = 1 => j <= k
        /\ 2 ^ k <= v /\ v < 2 ^ (k + 1)
  BY HighestBit
<1>2. set \subseteq 0..(WordBits - 1) /\ k \in set /\ \A j \in set : j <= k
  BY <1>1
<1>3. WordBits \in 1..32
  BY WordSize
<1>4. bsrl_mesp_eax(n, 4) = SetReg(n, "eax", top)
  BY Zenon DEF bsrl_mesp_eax
<1>5. Exec(n, <<"bsrl_mesp_eax", 4>>) = bsrl_mesp_eax(n, 4)
  BY ExecOperations
<1> HIDE DEF set
<1>6. top \in set /\ \A j \in set : j <= top
  BY <1>2
<1> HIDE DEF top
<1>7. top = k
  BY <1>2, <1>3, <1>6
<1>8. k \in Words
  <2>1. k \in 0..1024
    BY <1>2, <1>3
  <2> QED
    BY <2>1, Small
<1>9. SetReg(n, "eax", k).r.eax = k
  <2>1. SetReg(n, "eax", k).r = [n.r EXCEPT !["eax"] = k] /\ n.r \in [Gprs -> Words]
    BY <1>8, Loads, Parts DEF Gprs
  <2> QED
    BY <2>1 DEF Gprs
<1> QED
  BY <1>1, <1>4, <1>5, <1>7, <1>9
LEMMA SearchKeeps ==
  ASSUME NEW n, NEW e, NEW c, NEW p,
         Ready(n, e, c, p), TrackOne(n, e, c, p), c.fn = "bsrl"
  PROVE  KeepsTrack(n, e, c, p)
<1> DEFINE i == <<"bsrl_mesp_eax", 4>>
           w == Exec(n, i)
<1>1. Program[c.fn] = <<i, <<"retu32">>>> /\ c.fn \in ReadFns /\ c.fn \in QuietFns
  BY OnePrograms DEF ReadFns, QuietFns
<1>2. Plain(i)
  BY PlainNames DEF Arithmetic, ThroughEax
<1>3. ASSUME p = 1, Kept(n, e), bsrl_ends(n, 4) PROVE Finished(w, e, c)
  <2>1. n \in Machines /\ e \in Machines /\ e.sys.tr < Half
    BY ReadyTyped DEF Ready
  <2>2. w \in Machines
    <3>1. Program[c.fn][p] = i
      BY <1>1, <1>3
    <3> QED
      BY <1>2, <1>3, <3>1, ReadyNext
  <2>3. Kept(w, e)
    <3>1. Keeps(i)
      BY KeepsStack
    <3> QED
      BY <1>3, <2>1, <3>1, KeptTwice DEF Keeps
  <2>4. PICK v : v = c.args[1] /\ v \in Words /\ v = Read32(n, At(n, "esp", 4))
    <3>1. Len(c.args) \in 1..5 /\ 1 \in 1..Len(c.args) /\ c.args[1] \in Words /\ Read32(n, e.r.esp + 4 * 1) = c.args[1]
          /\ n.r.esp = e.r.esp /\ e.r.esp \in {24, 28, 32}
      BY <1>1, QuietReady
    <3>2. At(n, "esp", 4) = e.r.esp + 4 * 1
      BY <3>1 DEF At
    <3> QED
      BY <3>1, <3>2
  <2>5. v # 0
    BY <1>3, <2>4 DEF bsrl_ends
  <2>6. 2 ^ w.r.eax <= v /\ v < 2 ^ (w.r.eax + 1)
    BY <2>1, <2>4, <2>5, FindsHighest
  <2> HIDE DEF w
  <2>7. Contract!Answers(SysRegs(e), AbstractCall(c), <<w.r.edx, w.r.eax>>)
    BY <2>4, <2>6, AnswersOthers, AbstractParts
  <2> QED
    BY <1>1, <2>1, <2>2, <2>3, <2>7, FinishRead
<1> HIDE DEF w
<1>4. p = 1 /\ Kept(n, e) /\ (i[1] = "bsrl_mesp_eax" => bsrl_ends(n, i[2])) => Finished(Exec(n, i), e, c)
  BY <1>3 DEF w
<1> HIDE DEF i
<1> QED
  BY <1>1, <1>2, <1>4, OneKeeps
LEMMA OneFnsKeep ==
  ASSUME NEW n, NEW e, NEW c, NEW p,
         Ready(n, e, c, p), TrackOne(n, e, c, p)
  PROVE  KeepsTrack(n, e, c, p)
<1>1. c.fn \in OneFns
  BY DEF TrackOne
<1>2. CASE c.fn \in {"bsrl", "rdtsc64", "hlt", "read_cr2"}
  BY <1>2, SearchKeeps, ClockKeeps, HltKeeps, Cr2Keeps
<1>3. CASE c.fn = "enable_intr"
  BY <1>3, IntrKeeps
<1>4. CASE c.fn = "xmhfhw_cpu_disable_intr"
  BY <1>4, IntrKeeps
<1>5. CASE c.fn \in {"read_segreg_cs", "read_segreg_ds", "read_segreg_es", "read_segreg_fs", "read_segreg_gs",
                     "read_segreg_ss"}
  <2>1. \E s \in Selectors :
          <<c.fn, s>> \in {<<"read_segreg_cs", "cs">>, <<"read_segreg_ds", "ds">>, <<"read_segreg_es", "es">>,
                           <<"read_segreg_fs", "fs">>, <<"read_segreg_gs", "gs">>, <<"read_segreg_ss", "ss">>}
    BY <1>5 DEF Selectors
  <2> QED
    BY <2>1, SelectorKeeps
<1> QED
  BY <1>1, <1>2, <1>3, <1>4, <1>5 DEF OneFns

LEMMA SetsGives ==
  ASSUME NEW w, NEW n, NEW reg, NEW v,
         n \in Machines, reg \in Gprs
  PROVE  Sets(w, n, reg, v) => w \in Machines /\ w.r[reg] = v /\ \A o \in Gprs : o # reg => w.r[o] = n.r[o]
<1> SUFFICES ASSUME Sets(w, n, reg, v)
             PROVE  w \in Machines /\ w.r[reg] = v /\ \A o \in Gprs : o # reg => w.r[o] = n.r[o]
  OBVIOUS
<1>1. w \in Machines /\ w.r = [n.r EXCEPT ![reg] = v]
  BY DEF Sets
<1>2. DOMAIN n.r = Gprs
  BY Parts
<1> QED
  BY <1>1, <1>2

(* Functions of two instructions. *)
LEMMA TwoKeeps ==
  ASSUME NEW n, NEW e, NEW c, NEW p, NEW i, NEW j, NEW op,
         Ready(n, e, c, p), Straight(n, e, c, p, 3),
         Program[c.fn] = <<i, j, <<op>>>>, op \in {"ret", "retu32", "retu64"},
         Plain(i), Plain(j),
         p = 1 /\ Kept(n, e) => Kept(Exec(n, i), n) /\ Track(Exec(n, i), e, c, 2),
         p = 2 /\ Kept(n, e) => Finished(Exec(n, j), e, c) /\ Track(Exec(n, j), e, c, 3)
  PROVE  KeepsTrack(n, e, c, p)
<1>1. p \in 1..3 /\ (p \in 1..2 => Kept(n, e))
  BY DEF Straight
<1>2. CASE p = 1
  <2>1. i = Program[c.fn][p] /\ p + 1 = 2
    BY <1>2
  <2> QED
    BY <1>1, <1>2, <2>1, StepKept
<1>3. CASE p = 2
  <2>1. j = Program[c.fn][p] /\ p + 1 = 3
    BY <1>3
  <2> QED
    BY <1>1, <1>3, <2>1, StepFinishes
<1>4. CASE p = 3
  <2>1. Program[c.fn][p] = <<op>>
    BY <1>4
  <2> QED
    BY <1>4, <2>1, LastKeeps
<1> QED
  BY <1>1, <1>2, <1>3, <1>4

LEMMA TwoPrograms ==
  /\ Program["write_cr0"] = <<<<"movl_mesp", 4, "eax">>, <<"movl_reg_cr", "eax", "cr0">>, <<"ret">>>>
  /\ Program["write_cr3"] = <<<<"movl_mesp", 4, "eax">>, <<"movl_reg_cr", "eax", "cr3">>, <<"ret">>>>
  /\ Program["write_cr4"] = <<<<"movl_mesp", 4, "eax">>, <<"movl_reg_cr", "eax", "cr4">>, <<"ret">>>>
  /\ Program["xmhfhw_cpu_loadTR"] = <<<<"movl_mesp", 4, "eax">>, <<"ltr_ax">>, <<"ret">>>>
  /\ Program["vmread"] = <<<<"movl_mesp", 4, "ecx">>, <<"vmread_ecx_eax">>, <<"retu32">>>>
  /\ Program["xgetbv"] = <<<<"movl_mesp", 4, "ecx">>, <<"xgetbv">>, <<"retu64">>>>
  /\ Program["rdmsr64"] = <<<<"movl_mesp", 4, "ecx">>, <<"rdmsr">>, <<"retu64">>>>
  /\ Program["read_cr0"] = <<<<"xorl", "edx">>, <<"movl_cr_eax", "cr0">>, <<"retu64">>>>
  /\ Program["read_cr3"] = <<<<"xorl", "edx">>, <<"movl_cr_eax", "cr3">>, <<"retu64">>>>
  /\ Program["read_cr4"] = <<<<"xorl", "edx">>, <<"movl_cr_eax", "cr4">>, <<"retu64">>>>
  /\ Program["read_tr_sel"] = <<<<"xorl", "eax">>, <<"str_ax">>, <<"retu32">>>>
  BY DEF Program, FromArg, write_cr, vmread, xgetbv64, rdmsr64, read_cr, read_tr_sel

(* The first argument, in a register. *)
LEMMA FirstArg ==
  ASSUME NEW n, NEW e, NEW c, NEW p, NEW reg,
         Ready(n, e, c, p), c.fn \in QuietFns, reg \in Gprs
  PROVE  LET w == Exec(n, <<"movl_mesp", 4, reg>>)
         IN  w.r[reg] = c.args[1] /\ Kept(w, n)
<1>0. Len(c.args) \in 1..5 /\ n \in Machines
  BY QuietReady
<1> DEFINE l == Len(c.args)
<1>1. 1 \in 1..l
  <2>1. l \in 1..5
    BY <1>0
  <2> HIDE DEF l
  <2> QED
    BY <2>1
<1> DEFINE k == 4
           w == Exec(n, <<"movl_mesp", k, reg>>)
<1>2. k = 4 * 1
  OBVIOUS
<1> HIDE DEF k
<1>3. Sets(w, n, reg, c.args[1]) /\ Kept(w, n)
  BY <1>1, <1>2, LoadsArg
<1> HIDE DEF w
<1>4. w.r[reg] = c.args[1]
  BY <1>0, <1>3, SetsGives
<1> QED
  BY <1>3, <1>4 DEF w, k

(* What is written to a control register. *)
LEMMA WritesControl ==
  ASSUME NEW n, NEW cr, n \in Machines
  PROVE  LET w == Exec(n, <<"movl_reg_cr", "eax", cr>>)
         IN  w.sys = [n.sys EXCEPT ![cr] = n.r.eax] /\ w.fl = n.fl
<1>1. Exec(n, <<"movl_reg_cr", "eax", cr>>) = movl_reg_cr(n, "eax", cr)
  BY DEF Exec, ExecControl, LoadStores, Stacks, Arithmetic, Segments, Controls, Vmx
<1>2. movl_reg_cr(n, "eax", cr) = [n EXCEPT !.sys = [n.sys EXCEPT ![cr] = n.r.eax]]
  BY DEF movl_reg_cr, Machines
<1>3. DOMAIN n = {"r", "fl", "sys", "mem"}
  BY DEF Machines
<1> QED
  BY <1>1, <1>2, <1>3
LEMMA WritesTr ==
  ASSUME NEW n, n \in Machines
  PROVE  LET w == Exec(n, <<"ltr_ax">>)
         IN  w.sys = [n.sys EXCEPT !["tr"] = Low16(n.r.eax)] /\ w.fl = n.fl
<1>1. Exec(n, <<"ltr_ax">>) = [n EXCEPT !.sys = [n.sys EXCEPT !.tr = Low16(n.r.eax)]]
  BY ExecSystems DEF ltr_ax
<1>2. DOMAIN n = {"r", "fl", "sys", "mem"}
  BY DEF Machines
<1> QED
  BY ONLY <1>1, <1>2
LEMMA EaxKeeps ==
  ASSUME NEW n, NEW e, NEW c, NEW p, NEW j, NEW f, NEW v,
         Ready(n, e, c, p), TrackEax(n, e, c, p),
         Program[c.fn] = <<<<"movl_mesp", 4, "eax">>, j, <<"ret">>>>, Plain(j), f \in SysFields,
         Contract!Changes(SysRegs(e), AbstractCall(c)) = [i \in {f} |-> v], f = "tr" => v < Half,
         p = 2 => Exec(n, j).sys = [n.sys EXCEPT ![f] = v] /\ Exec(n, j).fl = n.fl
  PROVE  KeepsTrack(n, e, c, p)
<1>1. c.fn \in EaxFns /\ Straight(n, e, c, p, 3)
  BY DEF TrackEax
<1>2. c.fn \in QuietFns /\ c.fn \in WriteFns
  BY <1>1 DEF EaxFns, QuietFns, WriteFns
<1>3. n \in Machines /\ e \in Machines /\ e.sys.tr < Half
  BY ReadyTyped DEF Ready
<1> DEFINE i == <<"movl_mesp", 4, "eax">>
           u == Exec(n, i)
           w == Exec(n, j)
<1>4. Plain(i)
  BY PlainNames DEF LoadStores, ThroughEax
<1>5. p = 1 /\ Kept(n, e) => Kept(u, n) /\ Track(u, e, c, 2)
  <2> SUFFICES ASSUME Kept(n, e) PROVE Kept(u, n) /\ Track(u, e, c, 2)
    OBVIOUS
  <2>1. Kept(u, n) /\ u.r.eax = c.args[1]
    BY <1>2, FirstArg DEF Gprs
  <2> HIDE DEF u
  <2>2. Kept(u, e)
    BY <2>1, KeptTwice
  <2>3. TrackEax(u, e, c, 2)
    BY <1>1, <2>1, <2>2 DEF TrackEax, Straight
  <2> QED
    BY <2>1, <2>3 DEF Track
<1>6. p = 2 /\ Kept(n, e) => Finished(w, e, c) /\ Track(w, e, c, 3)
  <2> SUFFICES ASSUME p = 2, Kept(n, e) PROVE Finished(w, e, c) /\ Track(w, e, c, 3)
    OBVIOUS
  <2>1. w \in Machines
    <3>1. Program[c.fn][p] = j
      OBVIOUS
    <3>2. j[1] = "bsrl_mesp_eax" => bsrl_ends(n, j[2])
      <4>1. j[1] # "bsrl_mesp_eax"
        BY <1>1, TwoPrograms DEF EaxFns
      <4> QED
        BY <4>1
    <3> QED
      BY <3>1, <3>2, ReadyNext
  <2> HIDE DEF w
  <2>2. w.sys = [e.sys EXCEPT ![f] = v] /\ Bit(w.fl, EFLAGS_IF) = Bit(e.fl, EFLAGS_IF)
    BY DEF Kept, w
  <2>3. Finished(w, e, c)
    BY <1>2, <1>3, <2>1, <2>2, FinishWrite
  <2>4. TrackEax(w, e, c, 3)
    BY <1>1, <2>3 DEF TrackEax, Straight
  <2> QED
    BY <2>3, <2>4 DEF Track
<1> HIDE DEF i, u, w
<1>7. Program[c.fn] = <<i, j, <<"ret">>>>
  BY DEF i
<1> QED
  BY <1>1, <1>4, <1>5, <1>6, <1>7, TwoKeeps DEF u, w
LEMMA EaxFnsKeep ==
  ASSUME NEW n, NEW e, NEW c, NEW p,
         Ready(n, e, c, p), TrackEax(n, e, c, p)
  PROVE  KeepsTrack(n, e, c, p)
<1>1. c.fn \in EaxFns /\ (p = 2 => n.r.eax = c.args[1])
  BY DEF TrackEax
<1>2. n \in Machines
  BY ReadyTyped
<1>3. ASSUME NEW cr, <<c.fn, cr>> \in {<<"write_cr0", "cr0">>, <<"write_cr3", "cr3">>, <<"write_cr4", "cr4">>}
      PROVE  KeepsTrack(n, e, c, p)
  <2> DEFINE j == <<"movl_reg_cr", "eax", cr>>
  <2>1. Program[c.fn] = <<<<"movl_mesp", 4, "eax">>, j, <<"ret">>>>
    BY <1>3, TwoPrograms
  <2>2. Plain(j)
    BY PlainNames DEF Controls, ThroughEax
  <2>3. cr \in SysFields /\ cr # "tr"
    BY <1>3 DEF SysFields
  <2>4. Contract!Changes(SysRegs(e), AbstractCall(c)) = [i \in {cr} |-> c.args[1]]
    <3>1. ASSUME NEW k, k.fn = c.fn, k.args = c.args
          PROVE  Contract!Changes(SysRegs(e), k) = [i \in {cr} |-> c.args[1]]
      <4>1. CASE k.fn = "write_cr0"
        BY <1>3, <3>1, <4>1, ChangesRegs
      <4>2. CASE k.fn = "write_cr3"
        BY <1>3, <3>1, <4>2, ChangesRegs
      <4>3. CASE k.fn = "write_cr4"
        BY <1>3, <3>1, <4>3, ChangesRegs
      <4> QED
        BY <1>3, <3>1, <4>1, <4>2, <4>3
    <3> QED
      BY <3>1, AbstractParts
  <2>5. p = 2 => Exec(n, j).sys = [n.sys EXCEPT ![cr] = c.args[1]] /\ Exec(n, j).fl = n.fl
    BY <1>1, <1>2, WritesControl
  <2> HIDE DEF j
  <2> QED
    BY <2>1, <2>2, <2>3, <2>4, <2>5, EaxKeeps
<1>4. CASE c.fn = "xmhfhw_cpu_loadTR"
  <2> DEFINE j == <<"ltr_ax">>
             v == Low16(c.args[1])
  <2>1. Program[c.fn] = <<<<"movl_mesp", 4, "eax">>, j, <<"ret">>>>
    BY <1>4, TwoPrograms
  <2>2. Plain(j)
    BY PlainNames
  <2>3. "tr" \in SysFields
    BY DEF SysFields
  <2>4. Contract!Changes(SysRegs(e), AbstractCall(c)) = [i \in {"tr"} |-> v]
    BY <1>4, ChangesTables, AbstractParts DEF Low16
  <2>5. p = 2 => Exec(n, j).sys = [n.sys EXCEPT !["tr"] = v] /\ Exec(n, j).fl = n.fl
    BY <1>1, <1>2, WritesTr
  <2>6. v < Half
    <3>1. c.args[1] \in Words
      BY ReadyTyped
    <3> QED
      BY <3>1, HalvesOfWord
  <2> HIDE DEF j, v
  <2> QED
    BY <2>1, <2>2, <2>3, <2>4, <2>5, <2>6, EaxKeeps
<1> QED
  BY <1>1, <1>3, <1>4 DEF EaxFns

(* Functions that read a register with their second instruction. *)
LEMMA ReadKeeps ==
  ASSUME NEW n, NEW e, NEW c, NEW p, NEW i, NEW j, NEW op,
         Ready(n, e, c, p), Straight(n, e, c, p, 3),
         Program[c.fn] = <<i, j, <<op>>>>, op \in {"ret", "retu32", "retu64"}, c.fn \in ReadFns,
         Plain(i), Plain(j), Keeps(i), Keeps(j), j[1] # "bsrl_mesp_eax",
         p = 1 /\ Kept(Exec(n, i), e) => Track(Exec(n, i), e, c, 2),
         p = 2 => Contract!Answers(SysRegs(n), AbstractCall(c), <<Exec(n, j).r.edx, Exec(n, j).r.eax>>),
         p = 2 /\ Finished(Exec(n, j), e, c) => Track(Exec(n, j), e, c, 3)
  PROVE  KeepsTrack(n, e, c, p)
<1>1. n \in Machines /\ e \in Machines /\ e.sys.tr < Half
  BY ReadyTyped DEF Ready
<1>2. p = 1 /\ Kept(n, e) => Kept(Exec(n, i), n) /\ Track(Exec(n, i), e, c, 2)
  BY <1>1, KeptTwice DEF Keeps
<1> DEFINE w == Exec(n, j)
<1>3. p = 2 /\ Kept(n, e) => Finished(w, e, c) /\ Track(w, e, c, 3)
  <2> SUFFICES ASSUME p = 2, Kept(n, e) PROVE Finished(w, e, c) /\ Track(w, e, c, 3)
    OBVIOUS
  <2>1. w \in Machines
    <3>1. Program[c.fn][p] = j
      OBVIOUS
    <3> QED
      BY <3>1, ReadyNext
  <2>2. Kept(w, e)
    BY <1>1, KeptTwice DEF Keeps
  <2>3. Contract!Answers(SysRegs(e), AbstractCall(c), <<w.r.edx, w.r.eax>>)
    <3>1. SysRegs(n) = SysRegs(e)
      BY KeptRegs
    <3> QED
      BY <3>1
  <2>4. (p = 2 /\ Finished(w, e, c)) => Track(w, e, c, 3)
    OBVIOUS
  <2> HIDE DEF w
  <2>5. Finished(w, e, c)
    BY <1>1, <2>1, <2>2, <2>3, FinishRead
  <2> QED
    BY <2>4, <2>5
<1> QED
  BY <1>2, <1>3, TwoKeeps

LEMMA EcxKeeps ==
  ASSUME NEW n, NEW e, NEW c, NEW p, NEW j, NEW op,
         Ready(n, e, c, p), TrackEcx(n, e, c, p),
         Program[c.fn] = <<<<"movl_mesp", 4, "ecx">>, j, <<op>>>>, op \in {"ret", "retu32", "retu64"},
         Plain(j), Keeps(j), j[1] # "bsrl_mesp_eax",
         p = 2 => Contract!Answers(SysRegs(n), AbstractCall(c), <<Exec(n, j).r.edx, Exec(n, j).r.eax>>)
  PROVE  KeepsTrack(n, e, c, p)
<1> DEFINE i == <<"movl_mesp", 4, "ecx">>
           u == Exec(n, i)
           w == Exec(n, j)
<1>1. c.fn \in EcxFns /\ Straight(n, e, c, p, 3)
  BY DEF TrackEcx
<1>2. c.fn \in QuietFns /\ c.fn \in ReadFns
  BY <1>1 DEF EcxFns, QuietFns, ReadFns
<1>3. Plain(i) /\ Keeps(i)
  BY PlainNames, KeepsMoves DEF LoadStores, ThroughEax
<1>4. p = 1 /\ Kept(u, e) => Track(u, e, c, 2)
  <2>1. u.r.ecx = c.args[1]
    BY <1>2, FirstArg DEF Gprs
  <2> HIDE DEF u
  <2> QED
    BY <1>1, <2>1 DEF Track, TrackEcx, Straight
<1>5. p = 2 /\ Finished(w, e, c) => Track(w, e, c, 3)
  <2> HIDE DEF w
  <2> QED
    BY <1>1 DEF Track, TrackEcx, Straight
<1>6. Program[c.fn] = <<i, j, <<op>>>>
  OBVIOUS
<1> HIDE DEF i
<1> QED
  BY <1>1, <1>2, <1>3, <1>4, <1>5, <1>6, ReadKeeps

(* What the numbered reads answer. *)
LEMMA ReadsField ==
  ASSUME NEW n, NEW v, NEW f,
         n \in Machines, n.r.ecx = v, f \in DOMAIN Vmcs, Vmcs[f] = v
  PROVE  Exec(n, <<"vmread_ecx_eax">>).r.eax = n.sys.vmcs[f]
<1> DEFINE named == {g \in DOMAIN Vmcs : Vmcs[g] = n.r.ecx}
           g == CHOOSE g \in named : TRUE
           x == n.sys.vmcs[f]
<1>1. f \in named
  OBVIOUS
<1>2. \A a, b \in DOMAIN Vmcs : Vmcs[a] = Vmcs[b] => a = b
  BY DEF Vmcs
<1>3. named = {f}
  BY <1>1, <1>2
<1>4. Exec(n, <<"vmread_ecx_eax">>) = IF named = {} THEN n ELSE SetReg(n, "eax", n.sys.vmcs[g])
  BY ExecOthers DEF vmread_ecx_eax
<1> HIDE DEF named
<1>5. g = f /\ named # {}
  BY <1>3
<1>6. Exec(n, <<"vmread_ecx_eax">>) = SetReg(n, "eax", x)
  BY <1>4, <1>5
<1>7. x \in Words
  BY SysParts
<1> HIDE DEF x
<1>8. SetReg(n, "eax", x).r = [n.r EXCEPT !["eax"] = x] /\ DOMAIN n.r = Gprs
  BY <1>7, Loads, Parts DEF Gprs
<1> QED
  BY <1>6, <1>8 DEF x, Gprs
LEMMA ReadsMsr ==
  ASSUME NEW n, NEW v, NEW i,
         n \in Machines, n.r.ecx = v, i \in MsrsOf(v), i # "apic_base"
  PROVE  LET w == Exec(n, <<"rdmsr">>) IN <<w.r.edx, w.r.eax>> = n.sys.msr[i]
<1> DEFINE g == CHOOSE g \in MsrsOf(v) : TRUE
           x == n.sys.msr[i]
           hi == x[1]
           lo == x[2]
           w == Exec(n, <<"rdmsr">>)
           value(h) == IF h = "apic_base" THEN <<n.sys.msr[h][1], SetBit(n.sys.msr[h][2], 8)>> ELSE n.sys.msr[h]
<1>1. \A a, b \in DOMAIN Msr : Msr[a] = Msr[b] => a = b
  BY DEF Msr
<1>2. MsrsOf(v) = {i} /\ i \in DOMAIN Msr
  BY <1>1 DEF MsrsOf
<1>3. g = i
  BY <1>2
<1>4. w = [n EXCEPT !.r.edx = value(g)[1], !.r.eax = value(g)[2]]
  <2>1. MsrsOf(v) # {}
    BY <1>2
  <2>2. w = rdmsr(n)
    BY ExecSystems
  <2>3. rdmsr(n) = IF MsrsOf(n.r.ecx) = {} THEN n ELSE [n EXCEPT !.r.edx = value(g)[1], !.r.eax = value(g)[2]]
    BY Zenon DEF rdmsr
  <2> HIDE DEF value, g, w
  <2> QED
    BY <2>1, <2>2, <2>3
<1>5. value(g) = x
  BY <1>3
<1> HIDE DEF value, g
<1>6. w = [n EXCEPT !.r.edx = hi, !.r.eax = lo]
  BY <1>4, <1>5
<1>7. x = <<hi, lo>>
  <2>1. x \in Words \X Words
    BY <1>2, SysParts
  <2> HIDE DEF x
  <2> QED
    BY <2>1
<1> HIDE DEF hi, lo, w
<1>8. DOMAIN n.r = Gprs /\ DOMAIN n = {"r", "fl", "sys", "mem"}
  BY DEF Machines
<1>9. w.r.edx = hi /\ w.r.eax = lo
  BY <1>6, <1>8 DEF Gprs
<1> QED
  BY <1>7, <1>9 DEF w
LEMMA ReadsXcr ==
  ASSUME NEW n, n \in Machines, n.r.ecx = 1
  PROVE  LET w == Exec(n, <<"xgetbv">>) IN <<w.r.edx, w.r.eax>> = n.sys.xcr0
<1> DEFINE x == n.sys.xcr0
           hi == x[1]
           lo == x[2]
           w == Exec(n, <<"xgetbv">>)
<1>6. w = [n EXCEPT !.r.eax = lo, !.r.edx = hi]
  BY ExecSystems DEF xgetbv
<1>7. x = <<hi, lo>>
  <2>1. x \in Words \X Words
    BY SysParts
  <2> HIDE DEF x
  <2> QED
    BY <2>1
<1> HIDE DEF hi, lo, w
<1>8. DOMAIN n.r = Gprs /\ DOMAIN n = {"r", "fl", "sys", "mem"}
  BY DEF Machines
<1>9. w.r.edx = hi /\ w.r.eax = lo
  BY <1>6, <1>8 DEF Gprs
<1> QED
  BY <1>7, <1>9 DEF w
LEMMA EcxFnsKeep ==
  ASSUME NEW n, NEW e, NEW c, NEW p,
         Ready(n, e, c, p), TrackEcx(n, e, c, p)
  PROVE  KeepsTrack(n, e, c, p)
<1>1. c.fn \in EcxFns /\ (p = 2 => n.r.ecx = c.args[1])
  BY DEF TrackEcx
<1>2. n \in Machines
  BY ReadyTyped
<1> DEFINE k == AbstractCall(c)
           b == SysRegs(n)
           v == c.args[1]
<1>3. k.fn = c.fn /\ k.args[1] = v
  BY AbstractParts
<1>4. CASE c.fn = "vmread"
  <2> DEFINE j == <<"vmread_ecx_eax">>
             a == <<Exec(n, j).r.edx, Exec(n, j).r.eax>>
  <2>1. ASSUME p = 2 PROVE Contract!Answers(b, k, a)
    <3>1. \A f \in {g \in DOMAIN Vmcs : Vmcs[g] = v} : a[2] = b[f]
      <4> TAKE f \in {g \in DOMAIN Vmcs : Vmcs[g] = v}
      <4>1. a[2] = n.sys.vmcs[f]
        BY <1>1, <1>2, <2>1, ReadsField
      <4>2. b[f] = n.sys.vmcs[f]
        BY SysRegsOf
      <4> QED
        BY <4>1, <4>2
    <3> HIDE DEF a, b, k, v
    <3> QED
      BY <1>3, <1>4, <3>1, AnswersNumbered
  <2>2. Program[c.fn] = <<<<"movl_mesp", 4, "ecx">>, j, <<"retu32">>>> /\ Plain(j) /\ Keeps(j)
        /\ j[1] # "bsrl_mesp_eax"
    BY <1>4, TwoPrograms, PlainNames, KeepsReads DEF Vmx, ThroughEax
  <2> HIDE DEF j
  <2> QED
    BY <2>1, <2>2, EcxKeeps
<1>5. CASE c.fn = "rdmsr64"
  <2> DEFINE j == <<"rdmsr">>
             a == <<Exec(n, j).r.edx, Exec(n, j).r.eax>>
  <2>1. ASSUME p = 2 PROVE Contract!Answers(b, k, a)
    <3>1. \A i \in MsrsOf(v) \ {"apic_base"} : a = b[i]
      <4> TAKE i \in MsrsOf(v) \ {"apic_base"}
      <4>1. a = n.sys.msr[i]
        BY <1>1, <1>2, <2>1, ReadsMsr
      <4>2. i \in DOMAIN Msr
        BY DEF MsrsOf
      <4>3. b[i] = n.sys.msr[i]
        BY <4>2, SysRegsOf
      <4> QED
        BY <4>1, <4>3
    <3> HIDE DEF a, b, k, v
    <3> QED
      BY <1>3, <1>5, <3>1, AnswersNumbered
  <2>2. Program[c.fn] = <<<<"movl_mesp", 4, "ecx">>, j, <<"retu64">>>> /\ Plain(j) /\ Keeps(j)
        /\ j[1] # "bsrl_mesp_eax"
    BY <1>5, TwoPrograms, PlainNames, KeepsSystems
  <2> HIDE DEF j
  <2> QED
    BY <2>1, <2>2, EcxKeeps
<1>6. CASE c.fn = "xgetbv"
  <2> DEFINE j == <<"xgetbv">>
             a == <<Exec(n, j).r.edx, Exec(n, j).r.eax>>
  <2>1. ASSUME p = 2 PROVE Contract!Answers(b, k, a)
    <3>1. v = 1
      BY <1>6 DEF Ready, Asked
    <3>2. a = n.sys.xcr0
      BY <1>1, <1>2, <2>1, <3>1, ReadsXcr
    <3>3. b.xcr0 = n.sys.xcr0
      BY SysRegsOf DEF SysFields
    <3> HIDE DEF a, b, k, v
    <3> QED
      BY <1>3, <1>6, <3>2, <3>3, AnswersOthers
  <2>2. Program[c.fn] = <<<<"movl_mesp", 4, "ecx">>, j, <<"retu64">>>> /\ Plain(j) /\ Keeps(j)
        /\ j[1] # "bsrl_mesp_eax"
    BY <1>6, TwoPrograms, PlainNames, KeepsSystems
  <2> HIDE DEF j
  <2> QED
    BY <2>1, <2>2, EcxKeeps
<1> QED
  BY <1>1, <1>4, <1>5, <1>6 DEF EcxFns

LEMMA XorGives ==
  ASSUME NEW n, NEW reg,
         n \in Machines, reg \in Gprs
  PROVE  LET w == Exec(n, <<"xorl", reg>>)
         IN  w.r[reg] = 0 /\ (\A o \in Gprs : o # reg => w.r[o] = n.r[o]) /\ Kept(w, n) /\ Plain(<<"xorl", reg>>)
<1>1. Exec(n, <<"xorl", reg>>) = [n EXCEPT !.r[reg] = 0]
  BY ExecOperations DEF xorl
<1>2. Kept(Exec(n, <<"xorl", reg>>), n)
  BY KeepsStack DEF Keeps
<1>3. DOMAIN n.r = Gprs /\ DOMAIN n = {"r", "fl", "sys", "mem"}
  BY DEF Machines
<1>4. Plain(<<"xorl", reg>>)
  BY PlainNames DEF Arithmetic, ThroughEax
<1> QED
  BY <1>1, <1>2, <1>3, <1>4

LEMMA CrKeeps ==
  ASSUME NEW n, NEW e, NEW c, NEW p,
         Ready(n, e, c, p), TrackCr(n, e, c, p)
  PROVE  KeepsTrack(n, e, c, p)
<1>1. c.fn \in CrFns /\ Straight(n, e, c, p, 3) /\ (p = 2 => n.r.edx = 0)
  BY DEF TrackCr
<1>2. n \in Machines
  BY ReadyTyped
<1>3. PICK cr \in {"cr0", "cr3", "cr4"} :
        <<c.fn, cr>> \in {<<"read_cr0", "cr0">>, <<"read_cr3", "cr3">>, <<"read_cr4", "cr4">>}
  BY <1>1 DEF CrFns
<1> DEFINE i == <<"xorl", "edx">>
           j == <<"movl_cr_eax", cr>>
           u == Exec(n, i)
           w == Exec(n, j)
<1>4. Program[c.fn] = <<i, j, <<"retu64">>>> /\ c.fn \in ReadFns
  BY <1>3, TwoPrograms DEF ReadFns
<1>5. Plain(i) /\ Keeps(i) /\ Plain(j) /\ Keeps(j) /\ j[1] # "bsrl_mesp_eax"
  BY <1>2, PlainNames, KeepsStack, KeepsReads DEF Controls, Arithmetic, ThroughEax
<1>6. p = 1 /\ Kept(u, e) => Track(u, e, c, 2)
  <2>1. u.r.edx = 0
    BY <1>2, XorGives DEF Gprs
  <2> HIDE DEF u
  <2> QED
    BY <1>1, <2>1 DEF Track, TrackCr, Straight
<1>7. p = 2 /\ Finished(w, e, c) => Track(w, e, c, 3)
  <2> HIDE DEF w
  <2> QED
    BY <1>1 DEF Track, TrackCr, Straight
<1>8. p = 2 => Contract!Answers(SysRegs(n), AbstractCall(c), <<w.r.edx, w.r.eax>>)
  <2>0. SUFFICES ASSUME p = 2 PROVE Contract!Answers(SysRegs(n), AbstractCall(c), <<w.r.edx, w.r.eax>>)
    OBVIOUS
  <2> DEFINE b == SysRegs(n)
             k == AbstractCall(c)
             a == <<w.r.edx, w.r.eax>>
  <2>1. w.r.eax = n.sys[cr] /\ w.r.edx = 0
    BY <1>1, <1>2, <2>0, LoadsControl
  <2>2. b[cr] = n.sys[cr]
    BY SysRegsOf DEF SysFields
  <2> HIDE DEF w
  <2>3. k.fn = c.fn /\ a = <<0, b[cr]>>
    BY <2>1, <2>2, AbstractParts
  <2> HIDE DEF a, b, k
  <2>4. Contract!Answers(b, k, a)
    BY <1>3, <2>3, AnswersRegs
  <2> QED
    BY <2>4 DEF a, b, k
<1> HIDE DEF i, j
<1> QED
  BY <1>1, <1>4, <1>5, <1>6, <1>7, <1>8, ReadKeeps

LEMMA StoresTr ==
  ASSUME NEW n,
         n \in Machines, n.r.eax = 0, n.sys.tr < Half
  PROVE  Exec(n, <<"str_ax">>).r.eax = n.sys.tr
<1> DEFINE t == n.sys.tr
<1>1. t \in Words /\ t \in Nat
  BY SysParts, WidthNumbers DEF Words
<1>2. Low16(0) = 0 /\ Low16(t) = t
  BY <1>1, WidthNumbers DEF Low16
<1>3. Exec(n, <<"str_ax">>) = SetReg(n, "eax", (0 - Low16(0)) + Low16(t))
  BY ExecSystems DEF str_ax
<1> HIDE DEF t
<1>4. Exec(n, <<"str_ax">>) = SetReg(n, "eax", t)
  BY <1>1, <1>2, <1>3
<1>5. SetReg(n, "eax", t).r = [n.r EXCEPT !["eax"] = t] /\ DOMAIN n.r = Gprs
  BY <1>1, Loads, Parts DEF Gprs
<1> QED
  BY <1>4, <1>5 DEF t, Gprs
LEMMA TrKeeps ==
  ASSUME NEW n, NEW e, NEW c, NEW p,
         Ready(n, e, c, p), TrackTr(n, e, c, p)
  PROVE  KeepsTrack(n, e, c, p)
<1>1. c.fn = "read_tr_sel" /\ Straight(n, e, c, p, 3) /\ (p = 2 => n.r.eax = 0)
  BY DEF TrackTr
<1>2. n \in Machines /\ e.sys.tr < Half
  BY ReadyTyped DEF Ready
<1> DEFINE i == <<"xorl", "eax">>
           j == <<"str_ax">>
           u == Exec(n, i)
           w == Exec(n, j)
<1>4. Program[c.fn] = <<i, j, <<"retu32">>>> /\ c.fn \in ReadFns
  BY <1>1, TwoPrograms DEF ReadFns
<1>5. Plain(i) /\ Keeps(i) /\ Plain(j) /\ Keeps(j) /\ j[1] # "bsrl_mesp_eax"
  BY <1>2, PlainNames, KeepsStack, KeepsSystems DEF Arithmetic, ThroughEax
<1>6. p = 1 /\ Kept(u, e) => Track(u, e, c, 2)
  <2>1. u.r.eax = 0
    BY <1>2, XorGives DEF Gprs
  <2> HIDE DEF u
  <2> QED
    BY <1>1, <2>1 DEF Track, TrackTr, Straight
<1>7. p = 2 /\ Finished(w, e, c) => Track(w, e, c, 3)
  <2> HIDE DEF w
  <2> QED
    BY <1>1 DEF Track, TrackTr, Straight
<1>8. p = 2 => Contract!Answers(SysRegs(n), AbstractCall(c), <<w.r.edx, w.r.eax>>)
  <2>0. SUFFICES ASSUME p = 2 PROVE Contract!Answers(SysRegs(n), AbstractCall(c), <<w.r.edx, w.r.eax>>)
    OBVIOUS
  <2>1. n.sys.tr < Half
    BY <1>1, <1>2, <2>0 DEF Straight, Kept
  <2>2. w.r.eax = n.sys.tr
    BY <1>1, <1>2, <2>0, <2>1, StoresTr
  <2>3. SysRegs(n).tr = n.sys.tr
    BY SysRegsOf DEF SysFields
  <2> HIDE DEF w
  <2> QED
    BY <1>1, <2>2, <2>3, AnswersRegs, AbstractParts
<1> HIDE DEF i, j
<1> QED
  BY <1>1, <1>4, <1>5, <1>6, <1>7, <1>8, ReadKeeps

(* The loads of the descriptor tables. *)
LEMMA LoadReady ==
  ASSUME NEW n, NEW e, NEW c, NEW p,
         Ready(n, e, c, p), c.fn \in LoadFns
  PROVE  LoadAt(n, e, p) /\ DescAt(n) = DescAt(InitMem)
<1>1. Outline(n, e, c.fn, p) /\ DescAt(e) = DescAt(InitMem)
  BY DEF Ready
<1>2. c.fn \notin QuietFns \cup DescriptorFns \cup EflagsFns
        \cup {"vmx_invept", "xmhfhw_cpu_reloadcs", "xmhfhw_cpu_cpuid", "spin_lock", "spin_unlock",
              "sysmemaccess_copy", "slab_entrystub"}
  BY DEF QuietFns, DescriptorFns, EflagsFns, LoadFns
<1>3. LoadAt(n, e, p)
  BY <1>1, <1>2 DEF Outline
<1>4. Frame(n, e, 32, {})
  BY <1>3 DEF LoadAt, Deep
<1>5. Read16(n, Desc) = Read16(e, Desc)
  BY <1>4 DEF Frame, Read16, Memory, Desc
<1>6. Read32(n, Desc + 2) = Read32(e, Desc + 2)
  <2> DEFINE b == 58
  <2>1. Desc + 2 = b
    BY DEF Desc
  <2>2. b \in 0..84 /\ b >= 32 /\ 32 \in 0..84 /\ WordAt(b) \cap {} = {}
    OBVIOUS
  <2> HIDE DEF b
  <2>3. Read32(n, b) = Read32(e, b)
    BY ONLY <1>4, <2>2, FrameReads
  <2> QED
    BY <2>1, <2>3
<1> QED
  BY <1>1, <1>3, <1>5, <1>6 DEF DescAt
LEMMA LoadsTable ==
  ASSUME NEW n, n \in Machines, n.r.ecx = Desc
  PROVE  /\ Exec(n, <<"lgdt_mecx", 0>>).sys = [n.sys EXCEPT !["gdtr"] = DescAt(n)]
         /\ Exec(n, <<"lidt_mecx", 0>>).sys = [n.sys EXCEPT !["idtr"] = DescAt(n)]
         /\ Exec(n, <<"lgdt_mecx", 0>>).fl = n.fl /\ Exec(n, <<"lidt_mecx", 0>>).fl = n.fl
<1> DEFINE d == DescAt(n)
<1>1. At(n, "ecx", 0) = Desc
  BY DEF At, Desc
<1>2. lgdt_mecx(n, 0) = [n EXCEPT !.sys.gdtr = d]
  BY <1>1, Zenon DEF lgdt_mecx, DescAt
<1>3. lidt_mecx(n, 0) = [n EXCEPT !.sys.idtr = d]
  BY <1>1, Zenon DEF lidt_mecx, DescAt
<1>4. Exec(n, <<"lgdt_mecx", 0>>) = lgdt_mecx(n, 0) /\ Exec(n, <<"lidt_mecx", 0>>) = lidt_mecx(n, 0)
  BY ExecSystems
<1>5. DOMAIN n = {"r", "fl", "sys", "mem"}
  BY DEF Machines
<1> HIDE DEF d
<1>6. /\ Exec(n, <<"lgdt_mecx", 0>>).sys = [n.sys EXCEPT !["gdtr"] = d]
      /\ Exec(n, <<"lidt_mecx", 0>>).sys = [n.sys EXCEPT !["idtr"] = d]
  BY <1>2, <1>3, <1>4, <1>5
<1>7. Exec(n, <<"lgdt_mecx", 0>>).fl = n.fl /\ Exec(n, <<"lidt_mecx", 0>>).fl = n.fl
  BY <1>2, <1>3, <1>4, <1>5
<1> QED
  BY <1>6, <1>7 DEF d
LEMMA ChangesTable ==
  ASSUME NEW b, NEW k, NEW fn, NEW op, NEW f, NEW d
  PROVE  /\ <<fn, op, f>> \in {<<"xmhfhw_cpu_loadGDT", "lgdt_mecx", "gdtr">>,
                               <<"xmhfhw_cpu_loadIDT", "lidt_mecx", "idtr">>}
         /\ k.fn = fn /\ k.desc = d
         => Contract!Changes(b, k) = [x \in {f} |-> d]
<1>1. k.fn = "xmhfhw_cpu_loadGDT" /\ k.desc = d => Contract!Changes(b, k) = [x \in {"gdtr"} |-> d]
  <2>1. k.fn = "xmhfhw_cpu_loadGDT" => Contract!Changes(b, k) = [x \in {"gdtr"} |-> k.desc]
    BY ChangesTables, Zenon
  <2> QED
    BY <2>1, Zenon
<1>2. k.fn = "xmhfhw_cpu_loadIDT" /\ k.desc = d => Contract!Changes(b, k) = [x \in {"idtr"} |-> d]
  <2>1. k.fn = "xmhfhw_cpu_loadIDT" => Contract!Changes(b, k) = [x \in {"idtr"} |-> k.desc]
    BY ChangesTables, Zenon
  <2> QED
    BY <2>1, Zenon
<1>3. <<fn, op, f>> = <<"xmhfhw_cpu_loadGDT", "lgdt_mecx", "gdtr">> => fn = "xmhfhw_cpu_loadGDT" /\ f = "gdtr"
  OBVIOUS
<1>4. <<fn, op, f>> = <<"xmhfhw_cpu_loadIDT", "lidt_mecx", "idtr">> => fn = "xmhfhw_cpu_loadIDT" /\ f = "idtr"
  OBVIOUS
<1> QED
  BY <1>1, <1>2, <1>3, <1>4, Zenon
LEMMA LoadKeeps ==
  ASSUME NEW n, NEW e, NEW c, NEW p,
         Ready(n, e, c, p), TrackLoad(n, e, c, p)
  PROVE  KeepsTrack(n, e, c, p)
<1>1. c.fn \in LoadFns /\ Straight(n, e, c, p, 3)
  BY DEF TrackLoad
<1>2. n \in Machines /\ e \in Machines /\ e.sys.tr < Half
  BY ReadyTyped DEF Ready
<1>3. LoadAt(n, e, p) /\ DescAt(n) = DescAt(InitMem)
  BY <1>1, LoadReady
<1>4. PICK op, f : <<c.fn, op, f>> \in {<<"xmhfhw_cpu_loadGDT", "lgdt_mecx", "gdtr">>,
                                        <<"xmhfhw_cpu_loadIDT", "lidt_mecx", "idtr">>}
  BY <1>1 DEF LoadFns
<1> DEFINE i == <<"movl_mesp", 4, "ecx">>
           j == <<op, 0>>
           u == Exec(n, i)
           w == Exec(n, j)
           d == DescAt(InitMem)
<1>5. Program[c.fn] = <<i, j, <<"ret">>>> /\ c.fn \in WriteFns
  BY <1>4 DEF Program, FromArg, WriteFns
<1>6. Plain(i) /\ Plain(j) /\ j[1] # "bsrl_mesp_eax"
  BY <1>4, PlainNames DEF LoadStores, ThroughEax
<1>7. p = 1 /\ Kept(n, e) => Kept(u, n) /\ Track(u, e, c, 2)
  <2> SUFFICES ASSUME Kept(n, e) PROVE Kept(u, n) /\ Track(u, e, c, 2)
    OBVIOUS
  <2>1. Kept(u, n)
    BY <1>2, KeepsMoves DEF Keeps
  <2> HIDE DEF u
  <2>2. Kept(u, e)
    BY <2>1, KeptTwice
  <2> QED
    BY <1>1, <2>1, <2>2 DEF Track, TrackLoad, Straight
<1>8. p = 2 /\ Kept(n, e) => Finished(w, e, c) /\ Track(w, e, c, 3)
  <2>0. SUFFICES ASSUME p = 2, Kept(n, e) PROVE Finished(w, e, c) /\ Track(w, e, c, 3)
    OBVIOUS
  <2>1. w \in Machines
    <3>1. Program[c.fn][p] = j
      BY <1>5, <2>0
    <3> QED
      BY <1>6, <3>1, ReadyNext
  <2>2. n.r.ecx = Desc
    BY <1>3, <2>0 DEF LoadAt
  <2>3. w.sys = [n.sys EXCEPT ![f] = d] /\ w.fl = n.fl
    BY <1>2, <1>3, <1>4, <2>2, LoadsTable
  <2>4. f \in SysFields /\ f # "tr"
    BY <1>4 DEF SysFields
  <2>5. Contract!Changes(SysRegs(e), AbstractCall(c)) = [x \in {f} |-> d]
    <3>1. AbstractCall(c).fn = c.fn /\ AbstractCall(c).desc = d
      BY AbstractParts
    <3> QED
      BY <1>4, <3>1, ChangesTable
  <2> HIDE DEF w, d
  <2>6. w.sys = [e.sys EXCEPT ![f] = d] /\ Bit(w.fl, EFLAGS_IF) = Bit(e.fl, EFLAGS_IF)
    BY <2>0, <2>3 DEF Kept
  <2>7. Finished(w, e, c)
    BY <1>2, <1>5, <2>1, <2>4, <2>5, <2>6, FinishWrite
  <2> QED
    BY <1>1, <2>7 DEF Track, TrackLoad, Straight
<1> HIDE DEF i, j
<1> QED
  BY <1>1, <1>5, <1>6, <1>7, <1>8, TwoKeeps

(* None of the idle instructions is a far return. *)
LEMMA IdleNear == \A i \in IdleInsns : i[1] # "lret"
<1>1. \A i \in MoveInsns : i[1] # "lret"
  BY DEF MoveInsns, LoadInsns, LoadEsiInsns, StoreEsiInsns, ToEcxInsns, OtherMoves
<1>2. \A i \in ParamInsns \cup StackInsns : i[1] # "lret"
  BY DEF ParamInsns, StackInsns
<1>3. \A i \in BareInsns \cup FlagInsns : i[1] # "lret"
  BY DEF BareInsns, FlagInsns
<1>4. \A i \in ControlInsns : i[1] # "lret"
  BY DEF ControlInsns
<1> QED
  BY <1>1, <1>2, <1>3, <1>4 DEF IdleInsns
LEMMA KeptFromC ==
  ASSUME NEW n, NEW x, NEW y,
         n \in Machines
  PROVE  Kept(ReturnedFromC(n, x, y), n)
<1> DEFINE a == pushl_mem(n, CASM_RET_EIP)
           d == SetReg(a, "eax", x)
<1>0. DOMAIN n = {"r", "fl", "sys", "mem"}
  BY DEF Machines
<1>1. a.sys = n.sys /\ a.fl = n.fl /\ DOMAIN a = {"r", "fl", "sys", "mem"}
  BY <1>0, KeptPush
<1> HIDE DEF a
<1>3. d.sys = n.sys /\ d.fl = n.fl /\ DOMAIN d = {"r", "fl", "sys", "mem"}
  BY <1>1, KeptReg
<1> HIDE DEF d
<1>4. SetReg(d, "edx", y).sys = n.sys /\ SetReg(d, "edx", y).fl = n.fl
  BY <1>3, KeptReg
<1> QED
  BY <1>4 DEF ReturnedFromC, Kept, a, d
(* Nor does an access that is undefined touch a system register. *)
LEMMA KeptUndefined ==
  ASSUME NEW n, NEW i, NEW w,
         n \in Machines, w \in Undefined(n, i)
  PROVE  Kept(w, n)
<1>0. DOMAIN n = {"r", "fl", "sys", "mem"} /\ Kept(n, n)
  BY DEF Machines, Kept
<1>1. CASE i[1] = "cmpl_imm_meax"
  <2>1. w \in {n, [n EXCEPT !.fl = SetBit(n.fl, EFLAGS_ZF)]}
    BY <1>1 DEF Undefined
  <2>2. Kept([n EXCEPT !.fl = SetBit(n.fl, EFLAGS_ZF)], n)
    BY KeptFlag
  <2> QED
    BY <1>0, <2>1, <2>2
<1>2. CASE i[1] = "movl_meax"
  <2>1. Undefined(n, i) = {SetReg(n, i[3], v) : v \in Values}
    BY <1>2 DEF Undefined
  <2>2. PICK v \in Values : w = SetReg(n, i[3], v)
    BY <2>1
  <2>3. w.sys = n.sys /\ w.fl = n.fl
    BY <1>0, <2>2, KeptReg
  <2> QED
    BY <2>3 DEF Kept
<1>3. CASE i[1] \notin {"cmpl_imm_meax", "movl_meax"}
  BY <1>0, <1>3 DEF Undefined
<1> QED
  BY <1>1, <1>2, <1>3
LEMMA IdleKeeps ==
  ASSUME NEW n, NEW e, NEW c, NEW p,
         Ready(n, e, c, p), TrackIdle(n, e, c, p)
  PROVE  KeepsTrack(n, e, c, p)
<1>1. c.fn \in IdleFns /\ Kept(n, e)
  BY DEF TrackIdle
<1>2. n \in Machines /\ e \in Machines /\ e.sys.tr < Half /\ Outline(n, e, c.fn, p)
  BY ReadyTyped DEF Ready
<1> DEFINE i == Program[c.fn][p]
<1>3. Passive(i) /\ i[1] # "lret"
  BY <1>1, <1>2, IdleNext, IdlePassive, IdleNear
<1> HIDE DEF i
<1>4. \A w, q : Kept(w, n) => Track(w, e, c, q) /\ Stays(w, n, e, c)
  <2> TAKE w, q
  <2>1. Kept(w, n) => Kept(w, e) /\ Stays(w, n, e, c)
    BY <1>1, KeptTwice, StaysKept
  <2> QED
    BY <1>1, <2>1 DEF Track, TrackIdle
<1>5. Plain(i) => Track(Exec(n, i), e, c, p + 1) /\ Stays(Exec(n, i), n, e, c)
  BY <1>2, <1>3, <1>4 DEF Passive, Keeps
<1>6. \A q : Track(n, e, c, q)
  BY <1>1 DEF Track, TrackIdle
<1>7. \A x, y : Track(ReturnedFromC(n, x, y), e, c, p + 1) /\ Stays(ReturnedFromC(n, x, y), n, e, c)
  BY <1>2, <1>4, KeptFromC
<1>8. i[1] \in Returns => Finished(Return(n, i[1]), e, c) /\ Stays(Return(n, i[1]), n, e, c)
  <2>1. i[1] \in Returns => i[1] \in {"ret", "retu32", "retu64"}
    BY <1>3 DEF Returns
  <2>2. Finished(n, e, c)
    BY <1>1, <1>2, FinishIdle
  <2> QED
    BY <1>2, <2>1, <2>2, FinishedReturns
<1>9. \A w \in Undefined(n, i) : Track(w, e, c, p + 1) /\ Stays(w, n, e, c)
  BY <1>2, <1>4, KeptUndefined
<1> QED
  BY <1>5, <1>6, <1>7, <1>8, <1>9 DEF KeepsTrack, i

(* The functions of the flags. *)
LEMMA EflagsReady ==
  ASSUME NEW n, NEW e, NEW c, NEW p,
         Ready(n, e, c, p), c.fn \in EflagsFns
  PROVE  EflagsAt(n, e, p) /\ Read32(e, 36) = c.args[1] /\ c.args[1] \in Words
<1>1. Outline(n, e, c.fn, p) /\ Called(e, c)
  BY DEF Ready
<1>2. c.fn \notin QuietFns \cup DescriptorFns \cup LoadFns
        \cup {"vmx_invept", "xmhfhw_cpu_reloadcs", "xmhfhw_cpu_cpuid", "spin_lock", "spin_unlock",
              "sysmemaccess_copy", "slab_entrystub"}
  BY DEF QuietFns, DescriptorFns, EflagsFns, LoadFns
<1>3. EflagsAt(n, e, p) /\ e.r.esp = 32
  BY <1>1, <1>2 DEF Outline, Entered
<1>4. c.args \in Seq(Words) /\ Len(c.args) \in 1..5 /\ \A i \in DOMAIN c.args : Read32(e, e.r.esp + 4 * i) = c.args[i]
  BY <1>1 DEF Called
<1> DEFINE k == Len(c.args)
<1>5. 1 \in 1..k /\ DOMAIN c.args = 1..k
  <2>1. k \in 1..5
    BY <1>4
  <2>2. DOMAIN c.args = 1..k
    BY <1>4
  <2> HIDE DEF k
  <2> QED
    BY <2>1, <2>2
<1> HIDE DEF k
<1>6. Read32(e, 32 + 4 * 1) = c.args[1]
  BY <1>3, <1>4, <1>5
<1> QED
  BY <1>3, <1>4, <1>5, <1>6
LEMMA PushflKeeps ==
  ASSUME NEW n, NEW e, NEW c, NEW p,
         Ready(n, e, c, p), TrackPushfl(n, e, c, p)
  PROVE  KeepsTrack(n, e, c, p)
<1>1. /\ c.fn = "read_eflags" /\ Straight(n, e, c, p, 3)
      /\ p = 2 => Bit(Read32(n, 28), EFLAGS_IF) = Bit(e.fl, EFLAGS_IF)
  BY DEF TrackPushfl
<1>2. n \in Machines /\ EflagsAt(n, e, p)
  BY <1>1, ReadyTyped, EflagsReady DEF EflagsFns
<1> DEFINE i == <<"pushfl">>
           j == <<"popl", "eax">>
           u == Exec(n, i)
           w == Exec(n, j)
<1>4. Program[c.fn] = <<i, j, <<"retu32">>>> /\ c.fn \in ReadFns
  BY <1>1 DEF ReadFns, Program, read_eflags
<1>5. Plain(i) /\ Keeps(i) /\ Plain(j) /\ Keeps(j) /\ j[1] # "bsrl_mesp_eax"
  BY <1>2, PlainNames, KeepsStack DEF Stacks, ThroughEax
<1>6. p = 1 /\ Kept(u, e) => Track(u, e, c, 2)
  <2>0. SUFFICES ASSUME p = 1, Kept(u, e) PROVE Track(u, e, c, 2)
    OBVIOUS
  <2>1. n.r.esp = 32 /\ n.fl \in Words
    BY <1>2, <2>0, Parts DEF EflagsAt, Deep
  <2>2. u = pushl_mem(n, n.fl)
    BY ExecStackMoves DEF pushfl
  <2>3. Wrote(pushl_mem(n, n.fl), n, n.r.esp - 4, n.fl)
    <3> DEFINE v == n.fl
    <3>1. n.r.esp \in 4..88 /\ v \in Words /\ n \in Machines
      BY <1>2, <2>1
    <3> HIDE DEF v
    <3>2. Wrote(pushl_mem(n, v), n, n.r.esp - 4, v)
      BY <3>1, Pushing
    <3> QED
      BY <3>2 DEF v
  <2>4. Read32(u, 28) = n.fl
    <3>1. n.r.esp - 4 = 28
      BY <2>1
    <3> QED
      BY <2>2, <2>3, <3>1 DEF Wrote
  <2>5. Bit(n.fl, EFLAGS_IF) = Bit(e.fl, EFLAGS_IF)
    BY <1>1, <2>0 DEF Straight, Kept
  <2> HIDE DEF u
  <2> QED
    BY <1>1, <2>0, <2>4, <2>5 DEF Track, TrackPushfl, Straight
<1>7. p = 2 /\ Finished(w, e, c) => Track(w, e, c, 3)
  <2> HIDE DEF w
  <2> QED
    BY <1>1 DEF Track, TrackPushfl, Straight
<1>8. p = 2 => Contract!Answers(SysRegs(n), AbstractCall(c), <<w.r.edx, w.r.eax>>)
  <2>0. SUFFICES ASSUME p = 2 PROVE Contract!Answers(SysRegs(n), AbstractCall(c), <<w.r.edx, w.r.eax>>)
    OBVIOUS
  <2> DEFINE b == SysRegs(n)
             k == AbstractCall(c)
             a == <<w.r.edx, w.r.eax>>
             v == Read32(n, 28)
  <2>1. w.r.eax = v
    <3>1. n.r.esp = 28
      BY <1>2, <2>0 DEF EflagsAt, Deep
    <3>2. w.r = [n.r EXCEPT !["esp"] = 28 + 4, !["eax"] = v]
      <4> DEFINE at == 28
      <4>1. at \in 0..84 /\ n.r.esp = at /\ "eax" \in Gprs /\ n \in Machines
        BY <1>2, <3>1 DEF Gprs
      <4> HIDE DEF at
      <4>2. w.r = [n.r EXCEPT !["esp"] = at + 4, !["eax"] = Read32(n, at)]
        BY ONLY <4>1, PopReg, ZenonT(60)
      <4> QED
        BY <4>2 DEF at
    <3>3. DOMAIN n.r = Gprs
      BY <1>2 DEF Machines
    <3> HIDE DEF w, v
    <3> QED
      BY <3>2, <3>3 DEF Gprs
  <2>2. b["intr"] = Bit(n.fl, EFLAGS_IF)
    BY SysRegsOf
  <2>3. Bit(v, EFLAGS_IF) = Bit(n.fl, EFLAGS_IF)
    BY <1>1, <2>0 DEF Straight, Kept
  <2>4. Bit(v, EFLAGS_IF) = (v \div 512) % 2
    BY Powers DEF Bit, EFLAGS_IF
  <2> HIDE DEF w, v
  <2>5. k.fn = "read_eflags" /\ (a[2] \div 512) % 2 = b["intr"]
    BY <1>1, <2>1, <2>2, <2>3, <2>4, AbstractParts
  <2> HIDE DEF a, b, k
  <2>6. Contract!Answers(b, k, a)
    BY <2>5, AnswersRegs
  <2> QED
    BY <2>6 DEF a, b, k
<1> HIDE DEF i, j
<1> QED
  BY <1>1, <1>4, <1>5, <1>6, <1>7, <1>8, ReadKeeps
LEMMA PopflKeeps ==
  ASSUME NEW n, NEW e, NEW c, NEW p,
         Ready(n, e, c, p), TrackPopfl(n, e, c, p)
  PROVE  KeepsTrack(n, e, c, p)
<1>1. c.fn = "write_eflags" /\ Straight(n, e, c, p, 3) /\ (p = 2 => Read32(n, 28) = c.args[1])
  BY DEF TrackPopfl
<1>2. /\ n \in Machines /\ e \in Machines /\ e.sys.tr < Half
      /\ EflagsAt(n, e, p) /\ Read32(e, 36) = c.args[1] /\ c.args[1] \in Words
  BY <1>1, ReadyTyped, EflagsReady DEF EflagsFns, Ready
<1> DEFINE i == <<"pushl_mesp", 4>>
           j == <<"popfl">>
           u == Exec(n, i)
           w == Exec(n, j)
<1>4. Program[c.fn] = <<i, j, <<"ret">>>> /\ c.fn \in WriteFns
  BY <1>1 DEF WriteFns, Program, write_eflags
<1>5. Plain(i) /\ Keeps(i) /\ Plain(j) /\ j[1] # "bsrl_mesp_eax"
  BY <1>2, PlainNames, KeepsStack DEF Stacks, ThroughEax
<1>6. p = 1 /\ Kept(n, e) => Kept(u, n) /\ Track(u, e, c, 2)
  <2>0. SUFFICES ASSUME p = 1, Kept(n, e) PROVE Kept(u, n) /\ Track(u, e, c, 2)
    OBVIOUS
  <2>1. Deep(n, e, 32, 32)
    BY <1>2, <2>0 DEF EflagsAt
  <2>2. n.r.esp = 32 /\ Read32(n, 36) = c.args[1]
    BY <1>2, <2>1, DeepArg DEF Deep
  <2>3. u = pushl_mem(n, c.args[1])
    <3>1. u = pushl_mem(n, Read32(n, At(n, "esp", 4)))
      BY ExecStackMoves DEF pushl_mesp
    <3>2. At(n, "esp", 4) = 36
      BY <2>2 DEF At
    <3> QED
      BY <2>2, <3>1, <3>2
  <2>4. Wrote(pushl_mem(n, c.args[1]), n, n.r.esp - 4, c.args[1])
    <3> DEFINE v == c.args[1]
    <3>1. n.r.esp \in 4..88 /\ v \in Words /\ n \in Machines
      BY <1>2, <2>2
    <3> HIDE DEF v
    <3>2. Wrote(pushl_mem(n, v), n, n.r.esp - 4, v)
      BY <3>1, Pushing
    <3> QED
      BY <3>2 DEF v
  <2>5. Read32(u, 28) = c.args[1]
    <3>1. n.r.esp - 4 = 28
      BY <2>2
    <3> QED
      BY <2>3, <2>4, <3>1 DEF Wrote
  <2>6. Kept(u, n)
    BY <1>2, <1>5 DEF Keeps
  <2> HIDE DEF u
  <2>7. Kept(u, e)
    BY <2>0, <2>6, KeptTwice
  <2> QED
    BY <1>1, <2>5, <2>6, <2>7 DEF Track, TrackPopfl, Straight
<1>7. p = 2 /\ Kept(n, e) => Finished(w, e, c) /\ Track(w, e, c, 3)
  <2>0. SUFFICES ASSUME p = 2, Kept(n, e) PROVE Finished(w, e, c) /\ Track(w, e, c, 3)
    OBVIOUS
  <2>1. w \in Machines
    <3>1. Program[c.fn][p] = j
      BY <1>4, <2>0
    <3> QED
      BY <1>5, <3>1, ReadyNext
  <2> DEFINE v == c.args[1]
             d == addl_imm_esp(n, 4)
  <2>2. n.r.esp = 28 /\ Read32(n, 28) = v
    BY <1>1, <1>2, <2>0 DEF EflagsAt, Deep
  <2>3. w = [d EXCEPT !.fl = v]
    BY <2>2, ExecStackMoves DEF popfl
  <2>4. d.sys = n.sys /\ DOMAIN d = {"r", "fl", "sys", "mem"}
    <3>1. DOMAIN n = {"r", "fl", "sys", "mem"}
      BY <1>2 DEF Machines
    <3> QED
      BY <3>1, KeptReg DEF addl_imm_esp
  <2> HIDE DEF d
  <2>5. w.fl = v /\ w.sys = e.sys
    BY <2>0, <2>3, <2>4 DEF Kept
  <2>6. Bit(v, EFLAGS_IF) = (v \div 512) % 2
    BY Powers DEF Bit, EFLAGS_IF
  <2>7. Contract!Changes(SysRegs(e), AbstractCall(c)) = [x \in {"intr"} |-> (v \div 512) % 2]
    BY <1>1, ChangesRegs, AbstractParts
  <2> HIDE DEF w, v
  <2>8. Finished(w, e, c)
    BY <1>2, <1>4, <2>1, <2>5, <2>6, <2>7, FinishIntr
  <2> QED
    BY <1>1, <2>8 DEF Track, TrackPopfl, Straight
<1> HIDE DEF i, j
<1> QED
  BY <1>1, <1>4, <1>5, <1>6, <1>7, TwoKeeps

(* Some of the registers that have names of their own change. *)
GroupChanged(w, e, S, v) ==
  /\ \A f \in SysFields : w.sys[f] = e.sys[f]
  /\ Bit(w.fl, EFLAGS_IF) = Bit(e.fl, EFLAGS_IF)
  /\ \A s \in Selectors : w.sys.sel[s] = IF s \in S THEN v ELSE e.sys.sel[s]
  /\ \A i \in DOMAIN Msr : w.sys.msr[i] = IF i \in S THEN v ELSE e.sys.msr[i]
  /\ \A f \in DOMAIN Vmcs : w.sys.vmcs[f] = IF f \in S THEN v ELSE e.sys.vmcs[f]
LEMMA FinishGroup ==
  ASSUME NEW w, NEW e, NEW c, NEW S, NEW v,
         w \in Machines, e \in Machines, c.fn \in WriteFns, e.sys.tr < Half,
         S \subseteq Selectors \cup DOMAIN Msr \cup DOMAIN Vmcs, GroupChanged(w, e, S, v),
         Contract!Changes(SysRegs(e), AbstractCall(c)) = [i \in S |-> v]
  PROVE  Finished(w, e, c)
<1>0. /\ \A f \in SysFields : w.sys[f] = e.sys[f]
      /\ Bit(w.fl, EFLAGS_IF) = Bit(e.fl, EFLAGS_IF)
      /\ \A s \in Selectors : w.sys.sel[s] = IF s \in S THEN v ELSE e.sys.sel[s]
      /\ \A i \in DOMAIN Msr : w.sys.msr[i] = IF i \in S THEN v ELSE e.sys.msr[i]
      /\ \A f \in DOMAIN Vmcs : w.sys.vmcs[f] = IF f \in S THEN v ELSE e.sys.vmcs[f]
  BY DEF GroupChanged
<1> DEFINE b == SysRegs(e)
           g == SysRegs(w)
           k == AbstractCall(c)
<1>1. ASSUME NEW i \in RegNames PROVE g[i] = IF i \in S THEN v ELSE b[i]
  <2>1. CASE i \in SysFields
    <3>1. i \notin S
      BY <2>1, NamesApart
    <3>2. g[i] = w.sys[i] /\ b[i] = e.sys[i]
      BY <1>0, <2>1, SysRegsOf
    <3> HIDE DEF g, b
    <3> QED
      BY <1>0, <2>1, <3>1, <3>2
  <2>2. CASE i = "intr"
    <3>1. i \notin S
      BY <2>2, NamesApart
    <3>2. g["intr"] = Bit(w.fl, EFLAGS_IF) /\ b["intr"] = Bit(e.fl, EFLAGS_IF)
      BY SysRegsOf
    <3> HIDE DEF g, b
    <3> QED
      BY <1>0, <2>2, <3>1, <3>2
  <2>3. CASE i \in Selectors
    <3>2. g[i] = w.sys.sel[i] /\ b[i] = e.sys.sel[i]
      BY <1>0, <2>3, SysRegsOf
    <3> HIDE DEF g, b
    <3> QED
      BY <1>0, <2>3, <3>2
  <2>4. CASE i \in DOMAIN Msr
    <3>2. g[i] = w.sys.msr[i] /\ b[i] = e.sys.msr[i]
      BY <1>0, <2>4, SysRegsOf
    <3> HIDE DEF g, b
    <3> QED
      BY <1>0, <2>4, <3>2
  <2>5. CASE i \in DOMAIN Vmcs
    <3>2. g[i] = w.sys.vmcs[i] /\ b[i] = e.sys.vmcs[i]
      BY <1>0, <2>5, SysRegsOf
    <3> HIDE DEF g, b
    <3> QED
      BY <1>0, <2>5, <3>2
  <2> QED
    BY <2>1, <2>2, <2>3, <2>4, <2>5 DEF RegNames
<1>2. g = [i \in RegNames |-> g[i]] /\ DOMAIN b = RegNames
  BY SysRegsOf
<1>3. w.sys.tr < Half
  <2>1. w.sys["tr"] = e.sys["tr"]
    BY <1>0 DEF SysFields
  <2> QED
    BY <2>1
<1>4. Contract!Answers(SysRegs(e), AbstractCall(c), <<w.r.edx, w.r.eax>>)
  BY AnswersAny, AbstractParts
<1>5. Contract!Changes(b, k) = [i \in S |-> v]
  OBVIOUS
<1> HIDE DEF g, b, k
<1>6. Contract!After(b, k) = [i \in RegNames |-> IF i \in S THEN v ELSE b[i]]
  <2>1. Contract!After(b, k) = [i \in RegNames |-> IF i \in S THEN [j \in S |-> v][i] ELSE b[i]]
    BY <1>2, <1>5 DEF Contract!After
  <2> QED
    BY <2>1
<1>7. g = Contract!After(b, k)
  BY <1>1, <1>2, <1>6
<1> QED
  BY <1>3, <1>4, <1>7 DEF Finished, Target, g, b, k

(* A load of an argument. *)
LEMMA LoadFirst ==
  ASSUME NEW n, NEW e, NEW c, NEW p, NEW reg,
         Ready(n, e, c, p), c.fn \in QuietFns, reg \in Gprs
  PROVE  Len(c.args) >= 1 =>
         LET w == Exec(n, <<"movl_mesp", 4, reg>>)
         IN  w.r[reg] = c.args[1] /\ (\A o \in Gprs : o # reg => w.r[o] = n.r[o]) /\ Kept(w, n)
<1> SUFFICES ASSUME Len(c.args) >= 1
             PROVE  LET w == Exec(n, <<"movl_mesp", 4, reg>>)
                    IN  w.r[reg] = c.args[1] /\ (\A o \in Gprs : o # reg => w.r[o] = n.r[o]) /\ Kept(w, n)
  OBVIOUS
<1>0. Len(c.args) \in 1..5 /\ n \in Machines
  BY QuietReady
<1> DEFINE l == Len(c.args)
<1>1. 1 \in 1..l
  <2>1. l \in 1..5 /\ l >= 1
    BY <1>0
  <2> HIDE DEF l
  <2> QED
    BY <2>1
<1> DEFINE k == 4
           w == Exec(n, <<"movl_mesp", k, reg>>)
<1>2. k = 4 * 1
  OBVIOUS
<1> HIDE DEF k
<1>3. Sets(w, n, reg, c.args[1]) /\ Kept(w, n)
  BY <1>1, <1>2, LoadsArg
<1> HIDE DEF w
<1>4. w.r[reg] = c.args[1] /\ \A o \in Gprs : o # reg => w.r[o] = n.r[o]
  BY <1>0, <1>3, SetsGives
<1> QED
  BY <1>3, <1>4 DEF w, k
LEMMA LoadSecond ==
  ASSUME NEW n, NEW e, NEW c, NEW p, NEW reg,
         Ready(n, e, c, p), c.fn \in QuietFns, reg \in Gprs
  PROVE  Len(c.args) >= 2 =>
         LET w == Exec(n, <<"movl_mesp", 8, reg>>)
         IN  w.r[reg] = c.args[2] /\ (\A o \in Gprs : o # reg => w.r[o] = n.r[o]) /\ Kept(w, n)
<1> SUFFICES ASSUME Len(c.args) >= 2
             PROVE  LET w == Exec(n, <<"movl_mesp", 8, reg>>)
                    IN  w.r[reg] = c.args[2] /\ (\A o \in Gprs : o # reg => w.r[o] = n.r[o]) /\ Kept(w, n)
  OBVIOUS
<1>0. Len(c.args) \in 1..5 /\ n \in Machines
  BY QuietReady
<1> DEFINE l == Len(c.args)
<1>1. 2 \in 1..l
  <2>1. l \in 1..5 /\ l >= 2
    BY <1>0
  <2> HIDE DEF l
  <2> QED
    BY <2>1
<1> DEFINE k == 8
           w == Exec(n, <<"movl_mesp", k, reg>>)
<1>2. k = 4 * 2
  OBVIOUS
<1> HIDE DEF k
<1>3. Sets(w, n, reg, c.args[2]) /\ Kept(w, n)
  BY <1>1, <1>2, LoadsArg
<1> HIDE DEF w
<1>4. w.r[reg] = c.args[2] /\ \A o \in Gprs : o # reg => w.r[o] = n.r[o]
  BY <1>0, <1>3, SetsGives
<1> QED
  BY <1>3, <1>4 DEF w, k
LEMMA LoadThird ==
  ASSUME NEW n, NEW e, NEW c, NEW p, NEW reg,
         Ready(n, e, c, p), c.fn \in QuietFns, reg \in Gprs
  PROVE  Len(c.args) >= 3 =>
         LET w == Exec(n, <<"movl_mesp", 12, reg>>)
         IN  w.r[reg] = c.args[3] /\ (\A o \in Gprs : o # reg => w.r[o] = n.r[o]) /\ Kept(w, n)
<1> SUFFICES ASSUME Len(c.args) >= 3
             PROVE  LET w == Exec(n, <<"movl_mesp", 12, reg>>)
                    IN  w.r[reg] = c.args[3] /\ (\A o \in Gprs : o # reg => w.r[o] = n.r[o]) /\ Kept(w, n)
  OBVIOUS
<1>0. Len(c.args) \in 1..5 /\ n \in Machines
  BY QuietReady
<1> DEFINE l == Len(c.args)
<1>1. 3 \in 1..l
  <2>1. l \in 1..5 /\ l >= 3
    BY <1>0
  <2> HIDE DEF l
  <2> QED
    BY <2>1
<1> DEFINE k == 12
           w == Exec(n, <<"movl_mesp", k, reg>>)
<1>2. k = 4 * 3
  OBVIOUS
<1> HIDE DEF k
<1>3. Sets(w, n, reg, c.args[3]) /\ Kept(w, n)
  BY <1>1, <1>2, LoadsArg
<1> HIDE DEF w
<1>4. w.r[reg] = c.args[3] /\ \A o \in Gprs : o # reg => w.r[o] = n.r[o]
  BY <1>0, <1>3, SetsGives
<1> QED
  BY <1>3, <1>4 DEF w, k
(* Port output. *)
LEMMA OutlMoves ==
  ASSUME NEW n, NEW e, NEW c, NEW p,
         Ready(n, e, c, p), TrackOutl(n, e, c, p), p \in 1..2
  PROVE  KeepsTrack(n, e, c, p)
<1>1. /\ c.fn = "outl" /\ Straight(n, e, c, p, 4) /\ (p = 2 => n.r.eax = c.args[1])
  BY DEF TrackOutl
<1>2. c.fn \in QuietFns /\ Kept(n, e)
  BY <1>1 DEF QuietFns, Straight
<1>3. /\ Program[c.fn][1] = <<"movl_mesp", 4, "eax">> /\ Program[c.fn][2] = <<"movl_mesp", 8, "edx">>
  BY <1>1 DEF Program, PortOut
<1>4. Len(c.args) >= 1 /\ Len(c.args) >= 2
  <2>1. Len(c.args) = 2
    BY <1>1 DEF Ready, Asked
  <2> QED
    BY <2>1
<1>5. CASE p = 1
  <2> DEFINE i == <<"movl_mesp", 4, "eax">>
             u == Exec(n, i)
  <2>2. i = Program[c.fn][p] /\ Plain(i)
    BY <1>3, <1>5, PlainNames DEF LoadStores, ThroughEax
  <2>3. u.r.eax = c.args[1] /\ Kept(u, n)
    BY <1>2, <1>4, LoadFirst DEF Gprs
  <2> HIDE DEF i, u
  <2>4. Kept(u, e)
    BY <1>2, <2>3, KeptTwice
  <2>5. Track(u, e, c, p + 1)
    BY <1>1, <1>5, <2>3, <2>4 DEF Track, TrackOutl, Straight
  <2> QED
    BY <2>2, <2>3, <2>5, StepKept DEF u
<1>6. CASE p = 2
  <2> DEFINE i == <<"movl_mesp", 8, "edx">>
             u == Exec(n, i)
  <2>2. i = Program[c.fn][p] /\ Plain(i)
    BY <1>3, <1>6, PlainNames DEF LoadStores, ThroughEax
  <2>3. u.r.edx = c.args[2] /\ u.r.eax = n.r.eax /\ Kept(u, n)
    BY <1>2, <1>4, LoadSecond DEF Gprs
  <2> HIDE DEF i, u
  <2>4. Kept(u, e)
    BY <1>2, <2>3, KeptTwice
  <2>5. Track(u, e, c, p + 1)
    BY <1>1, <1>6, <2>3, <2>4 DEF Track, TrackOutl, Straight
  <2> QED
    BY <2>2, <2>3, <2>5, StepKept DEF u
<1> QED
  BY <1>5, <1>6
LEMMA Ports == Low16(0) # PCI_CONFIG_ADDR_PORT /\ Low16(PCI_CONFIG_ADDR_PORT) = PCI_CONFIG_ADDR_PORT
  BY WidthNumbers DEF Low16, PCI_CONFIG_ADDR_PORT
LEMMA OutlKeeps ==
  ASSUME NEW n, NEW e, NEW c, NEW p,
         Ready(n, e, c, p), TrackOutl(n, e, c, p)
  PROVE  KeepsTrack(n, e, c, p)
<1>1. /\ c.fn = "outl" /\ Straight(n, e, c, p, 4)
      /\ p = 3 => n.r.eax = c.args[1] /\ n.r.edx = c.args[2]
  BY DEF TrackOutl
<1>2. n \in Machines /\ e \in Machines /\ e.sys.tr < Half
  BY ReadyTyped DEF Ready
<1>3. Program[c.fn][3] = <<"outl_eax_dx">> /\ Program[c.fn][4] = <<"ret">> /\ c.fn \in WriteFns
  BY <1>1 DEF Program, PortOut, WriteFns
<1>4. c.args[2] \in {0, PCI_CONFIG_ADDR_PORT}
  BY <1>1 DEF Ready, Asked
<1>5. CASE p \in 1..2
  BY <1>5, OutlMoves
<1>6. CASE p = 3
  <2> DEFINE i == <<"outl_eax_dx">>
             w == Exec(n, i)
  <2>0. Plain(i) /\ i = Program[c.fn][p] /\ i[1] # "bsrl_mesp_eax" /\ Kept(n, e)
    BY <1>1, <1>3, <1>6, PlainNames DEF Straight, ThroughEax
  <2>1. w \in Machines
    BY <2>0, ReadyNext
  <2>2. w = IF Low16(n.r.edx) = PCI_CONFIG_ADDR_PORT THEN [n EXCEPT !.sys.pci_addr = n.r.eax] ELSE n
    BY ExecSystems DEF outl_eax_dx
  <2> HIDE DEF i, w
  <2>3. ASSUME c.args[2] = PCI_CONFIG_ADDR_PORT PROVE Finished(w, e, c)
    <3>1. w = [n EXCEPT !.sys.pci_addr = c.args[1]]
      BY <1>1, <1>6, <2>2, <2>3, Ports
    <3>2. w.sys = [e.sys EXCEPT !["pci_addr"] = c.args[1]] /\ Bit(w.fl, EFLAGS_IF) = Bit(e.fl, EFLAGS_IF)
      BY <1>2, <2>0, <3>1 DEF Kept, Machines
    <3>3. Contract!Changes(SysRegs(e), AbstractCall(c)) = [x \in {"pci_addr"} |-> c.args[1]]
      BY <1>1, <2>3, ChangesPort, AbstractParts
    <3>4. "pci_addr" \in SysFields /\ "pci_addr" # "tr"
      BY DEF SysFields
    <3> QED
      BY <1>2, <1>3, <2>1, <3>2, <3>3, <3>4, FinishWrite
  <2>4. ASSUME c.args[2] = 0 PROVE Finished(w, e, c)
    <3>1. w = n
      BY <1>1, <1>6, <2>2, <2>4, Ports
    <3>2. DOMAIN Contract!Changes(SysRegs(e), AbstractCall(c)) = {}
      BY <1>1, <2>4, ChangesPort, AbstractParts DEF PCI_CONFIG_ADDR_PORT
    <3>4. Kept(w, e)
      BY <2>0, <3>1
    <3> QED
      BY <1>2, <1>3, <2>1, <3>2, <3>4, FinishNothing
  <2>5. Finished(w, e, c)
    BY <1>4, <2>3, <2>4
  <2>6. Track(w, e, c, p + 1)
    BY <1>1, <1>6, <2>5 DEF Track, TrackOutl, Straight
  <2> QED
    BY <2>0, <2>5, <2>6, StepFinishes DEF w
<1>7. CASE p = 4
  BY <1>1, <1>3, <1>7, LastKeeps
<1> QED
  BY <1>1, <1>5, <1>6, <1>7 DEF Straight

(* A step before the last that counts. *)
LEMMA EarlyStep ==
  ASSUME NEW n, NEW e, NEW c, NEW p, NEW i,
         i = Program[c.fn][p], Plain(i), Kept(n, e), Kept(Exec(n, i), n),
         Kept(Exec(n, i), e) => Track(Exec(n, i), e, c, p + 1)
  PROVE  KeepsTrack(n, e, c, p)
  BY KeptTwice, StepKept

(* Writes of registers by number. *)
LEMMA NumberedRegs ==
  ASSUME NEW e, NEW c, NEW S, NEW v
  PROVE  /\ \/ c.fn = "vmwrite" /\ S = {g \in DOMAIN Vmcs : Vmcs[g] = c.args[1]} /\ c.args[2] = v
            \/ c.fn = "wrmsr64" /\ S = MsrsOf(c.args[1]) \cap WritableMsrs /\ <<c.args[3], c.args[2]>> = v
            \/ c.fn = "xsetbv" /\ S = {"xcr0"} /\ <<c.args[3], c.args[2]>> = v
         => Contract!Changes(SysRegs(e), AbstractCall(c)) = [i \in S |-> v]
<1> DEFINE b == SysRegs(e)
           k == AbstractCall(c)
<1>1. k.fn = c.fn /\ k.args = c.args
  BY AbstractParts
<1> HIDE DEF b, k
<1>2. k.fn = "vmwrite" /\ S = {g \in DOMAIN Vmcs : Vmcs[g] = k.args[1]} =>
        Contract!Changes(b, k) = [f \in S |-> k.args[2]]
  BY ChangesGroup
<1>3. k.fn = "wrmsr64" /\ S = MsrsOf(k.args[1]) \cap WritableMsrs =>
        Contract!Changes(b, k) = [i \in S |-> <<k.args[3], k.args[2]>>]
  BY ChangesGroup
<1>4. k.fn = "xsetbv" => Contract!Changes(b, k) = [i \in {"xcr0"} |-> <<k.args[3], k.args[2]>>]
  BY Zenon, ChangesNumbered
<1>5. \/ c.fn = "vmwrite" /\ S = {g \in DOMAIN Vmcs : Vmcs[g] = c.args[1]} /\ c.args[2] = v
      \/ c.fn = "wrmsr64" /\ S = MsrsOf(c.args[1]) \cap WritableMsrs /\ <<c.args[3], c.args[2]>> = v
      \/ c.fn = "xsetbv" /\ S = {"xcr0"} /\ <<c.args[3], c.args[2]>> = v
      => Contract!Changes(b, k) = [i \in S |-> v]
  BY <1>1, <1>2, <1>3, <1>4
<1> QED
  BY <1>5 DEF b, k

(* Nothing but the numbered registers of one kind changes. *)
LEMMA GroupParts ==
  ASSUME NEW w, NEW n, NEW e, NEW S, NEW v, NEW x,
         n \in Machines, Kept(n, e)
  PROVE  /\ /\ w = [n EXCEPT !.sys.vmcs = x] /\ S \subseteq DOMAIN Vmcs
            /\ \A f \in DOMAIN Vmcs : x[f] = IF f \in S THEN v ELSE n.sys.vmcs[f]
            => GroupChanged(w, e, S, v)
         /\ /\ w = [n EXCEPT !.sys.msr = x] /\ S \subseteq DOMAIN Msr
            /\ \A f \in DOMAIN Msr : x[f] = IF f \in S THEN v ELSE n.sys.msr[f]
            => GroupChanged(w, e, S, v)
<1>1. DOMAIN n = {"r", "fl", "sys", "mem"}
  BY DEF Machines
<1>2. n.sys = e.sys /\ Bit(n.fl, EFLAGS_IF) = Bit(e.fl, EFLAGS_IF)
  BY DEF Kept
<1>3. n.sys \in SysStates
  BY Parts
<1>4. DOMAIN n.sys = SysFields \cup {"sel", "msr", "vmcs"} /\ SysFields \cap {"sel", "msr", "vmcs"} = {}
  BY <1>3 DEF SysStates, SysFields
<1>5. ASSUME w = [n EXCEPT !.sys.vmcs = x]
      PROVE  /\ w.sys.vmcs = x /\ w.sys.msr = e.sys.msr /\ w.sys.sel = e.sys.sel
             /\ \A f \in SysFields : w.sys[f] = e.sys[f]
             /\ Bit(w.fl, EFLAGS_IF) = Bit(e.fl, EFLAGS_IF)
  <2>1. w.sys = [n.sys EXCEPT !["vmcs"] = x] /\ w.fl = n.fl
    BY <1>1, <1>5
  <2> QED
    BY <2>1, <1>2, <1>4
<1>6. ASSUME w = [n EXCEPT !.sys.msr = x]
      PROVE  /\ w.sys.msr = x /\ w.sys.vmcs = e.sys.vmcs /\ w.sys.sel = e.sys.sel
             /\ \A f \in SysFields : w.sys[f] = e.sys[f]
             /\ Bit(w.fl, EFLAGS_IF) = Bit(e.fl, EFLAGS_IF)
  <2>1. w.sys = [n.sys EXCEPT !["msr"] = x] /\ w.fl = n.fl
    BY <1>1, <1>6
  <2> QED
    BY <2>1, <1>2, <1>4
<1>7. ASSUME w = [n EXCEPT !.sys.vmcs = x], S \subseteq DOMAIN Vmcs,
             \A f \in DOMAIN Vmcs : x[f] = IF f \in S THEN v ELSE n.sys.vmcs[f]
      PROVE  GroupChanged(w, e, S, v)
  <2>2. S \cap Selectors = {} /\ S \cap DOMAIN Msr = {}
    BY <1>7, NamesApart
  <2>3. \A f \in DOMAIN Vmcs : w.sys.vmcs[f] = IF f \in S THEN v ELSE e.sys.vmcs[f]
    BY <1>2, <1>5, <1>7
  <2> QED
    BY <1>5, <1>7, <2>2, <2>3 DEF GroupChanged
<1>8. ASSUME w = [n EXCEPT !.sys.msr = x], S \subseteq DOMAIN Msr,
             \A f \in DOMAIN Msr : x[f] = IF f \in S THEN v ELSE n.sys.msr[f]
      PROVE  GroupChanged(w, e, S, v)
  <2>2. S \cap Selectors = {} /\ S \cap DOMAIN Vmcs = {}
    BY <1>8, NamesApart
  <2> QED
    BY <1>2, <1>6, <1>8, <2>2 DEF GroupChanged
<1> QED
  BY <1>7, <1>8

LEMMA VmwriteMoves ==
  ASSUME NEW n, NEW e, NEW c, NEW p,
         Ready(n, e, c, p), TrackVmwrite(n, e, c, p), p \in 1..2
  PROVE  KeepsTrack(n, e, c, p)
<1>1. /\ c.fn = "vmwrite" /\ Straight(n, e, c, p, 4) /\ (p = 2 => n.r.ecx = c.args[1])
  BY DEF TrackVmwrite
<1>2. c.fn \in QuietFns
  BY <1>1 DEF QuietFns
<1>3. /\ Program[c.fn][1] = <<"movl_mesp", 4, "ecx">> /\ Program[c.fn][2] = <<"movl_mesp", 8, "eax">>
  BY <1>1 DEF Program, vmwrite
<1>4. Len(c.args) >= 1 /\ Len(c.args) >= 2
  <2>1. Len(c.args) = 2
    BY <1>1 DEF Ready, Asked
  <2> QED
    BY <2>1
<1>5. CASE p = 1
  <2> DEFINE i == <<"movl_mesp", 4, "ecx">>
             u == Exec(n, i)
  <2>1. i = Program[c.fn][p] /\ Plain(i) /\ Kept(n, e)
    BY <1>1, <1>3, <1>5, PlainNames DEF LoadStores, Straight, ThroughEax
  <2>2. u.r.ecx = c.args[1] /\ Kept(u, n)
    BY <1>2, <1>4, LoadFirst DEF Gprs
  <2> HIDE DEF i, u
  <2>3. Kept(u, e) => Track(u, e, c, p + 1)
    BY <1>1, <1>5, <2>2 DEF Track, TrackVmwrite, Straight
  <2> QED
    BY <2>1, <2>2, <2>3, EarlyStep DEF u
<1>6. CASE p = 2
  <2> DEFINE i == <<"movl_mesp", 8, "eax">>
             u == Exec(n, i)
  <2>1. i = Program[c.fn][p] /\ Plain(i) /\ Kept(n, e)
    BY <1>1, <1>3, <1>6, PlainNames DEF LoadStores, Straight, ThroughEax
  <2>2. u.r.eax = c.args[2] /\ u.r.ecx = n.r.ecx /\ Kept(u, n)
    BY <1>2, <1>4, LoadSecond DEF Gprs
  <2> HIDE DEF i, u
  <2>3. Kept(u, e) => Track(u, e, c, p + 1)
    BY <1>1, <1>6, <2>2 DEF Track, TrackVmwrite, Straight
  <2> QED
    BY <2>1, <2>2, <2>3, EarlyStep DEF u
<1> QED
  BY <1>5, <1>6
LEMMA VmwriteKeeps ==
  ASSUME NEW n, NEW e, NEW c, NEW p,
         Ready(n, e, c, p), TrackVmwrite(n, e, c, p)
  PROVE  KeepsTrack(n, e, c, p)
<1>1. /\ c.fn = "vmwrite" /\ Straight(n, e, c, p, 4)
      /\ p = 3 => n.r.ecx = c.args[1] /\ n.r.eax = c.args[2]
  BY DEF TrackVmwrite
<1>2. n \in Machines /\ e \in Machines /\ e.sys.tr < Half
  BY ReadyTyped DEF Ready
<1>3. Program[c.fn][3] = <<"vmwrite_eax_ecx">> /\ Program[c.fn][4] = <<"ret">> /\ c.fn \in WriteFns
  BY <1>1 DEF Program, vmwrite, WriteFns
<1>5. CASE p \in 1..2
  BY <1>5, VmwriteMoves
<1>6. CASE p = 3
  <2> DEFINE i == <<"vmwrite_eax_ecx">>
             w == Exec(n, i)
             a == c.args[1]
             v == c.args[2]
             S == {g \in DOMAIN Vmcs : Vmcs[g] = a}
  <2>0. Plain(i) /\ i = Program[c.fn][p] /\ i[1] # "bsrl_mesp_eax" /\ Kept(n, e)
    BY <1>1, <1>3, <1>6, PlainNames DEF Straight, Vmx, ThroughEax
  <2>1. w \in Machines
    BY <2>0, ReadyNext
  <2> DEFINE x == [f \in DOMAIN Vmcs |-> IF Vmcs[f] = n.r.ecx THEN n.r.eax ELSE n.sys.vmcs[f]]
  <2>2. w = [n EXCEPT !.sys.vmcs = x] /\ \A f \in DOMAIN Vmcs : x[f] = IF f \in S THEN v ELSE n.sys.vmcs[f]
    <3>1. w = [n EXCEPT !.sys.vmcs = x]
      BY ExecOthers DEF vmwrite_eax_ecx
    <3>2. \A f \in DOMAIN Vmcs : x[f] = IF f \in S THEN v ELSE n.sys.vmcs[f]
      BY <1>1, <1>6
    <3> HIDE DEF w, S, v, x
    <3> QED
      BY <3>1, <3>2
  <2>3. /\ S \subseteq DOMAIN Vmcs /\ S \subseteq Selectors \cup DOMAIN Msr \cup DOMAIN Vmcs
        /\ S = {g \in DOMAIN Vmcs : Vmcs[g] = c.args[1]} /\ c.args[2] = v
    OBVIOUS
  <2> HIDE DEF i, w, S, v, x
  <2>4. Contract!Changes(SysRegs(e), AbstractCall(c)) = [y \in S |-> v]
    BY <1>1, <2>3, NumberedRegs
  <2>5. GroupChanged(w, e, S, v)
    BY <1>2, <2>0, <2>2, <2>3, GroupParts
  <2>6. Finished(w, e, c)
    BY <1>2, <1>3, <2>1, <2>3, <2>4, <2>5, FinishGroup
  <2>7. Track(w, e, c, p + 1)
    BY <1>1, <1>6, <2>6 DEF Track, TrackVmwrite, Straight
  <2> QED
    BY <2>0, <2>6, <2>7, StepFinishes DEF w
<1>7. CASE p = 4
  BY <1>1, <1>3, <1>7, LastKeeps
<1> QED
  BY <1>1, <1>5, <1>6, <1>7 DEF Straight

LEMMA TripleMoves ==
  ASSUME NEW n, NEW e, NEW c, NEW p,
         Ready(n, e, c, p), TrackTriple(n, e, c, p), p \in 1..3
  PROVE  KeepsTrack(n, e, c, p)
<1>1. /\ c.fn \in TripleFns /\ Straight(n, e, c, p, 5)
      /\ (p \in 2..3 => n.r.ecx = c.args[1]) /\ (p = 3 => n.r.eax = c.args[2])
  BY DEF TrackTriple
<1>2. c.fn \in QuietFns
  BY <1>1 DEF TripleFns, QuietFns
<1>3. /\ Program[c.fn][1] = <<"movl_mesp", 4, "ecx">> /\ Program[c.fn][2] = <<"movl_mesp", 8, "eax">>
      /\ Program[c.fn][3] = <<"movl_mesp", 12, "edx">>
  BY <1>1 DEF TripleFns, Program, wrmsr64, xsetbv64
<1>4. Len(c.args) >= 1 /\ Len(c.args) >= 2 /\ Len(c.args) >= 3
  <2>1. Len(c.args) = 3
    BY <1>1 DEF TripleFns, Ready, Asked
  <2> QED
    BY <2>1
<1>5. CASE p = 1
  <2> DEFINE i == <<"movl_mesp", 4, "ecx">>
             u == Exec(n, i)
  <2>1. i = Program[c.fn][p] /\ Plain(i) /\ Kept(n, e)
    BY <1>1, <1>3, <1>5, PlainNames DEF LoadStores, Straight, ThroughEax
  <2>2. u.r.ecx = c.args[1] /\ Kept(u, n)
    BY <1>2, <1>4, LoadFirst DEF Gprs
  <2> HIDE DEF i, u
  <2>3. Kept(u, e) => Track(u, e, c, p + 1)
    BY <1>1, <1>5, <2>2 DEF Track, TrackTriple, Straight
  <2> QED
    BY <2>1, <2>2, <2>3, EarlyStep DEF u
<1>6. CASE p = 2
  <2> DEFINE i == <<"movl_mesp", 8, "eax">>
             u == Exec(n, i)
  <2>1. i = Program[c.fn][p] /\ Plain(i) /\ Kept(n, e)
    BY <1>1, <1>3, <1>6, PlainNames DEF LoadStores, Straight, ThroughEax
  <2>2. u.r.eax = c.args[2] /\ u.r.ecx = n.r.ecx /\ Kept(u, n)
    BY <1>2, <1>4, LoadSecond DEF Gprs
  <2> HIDE DEF i, u
  <2>3. Kept(u, e) => Track(u, e, c, p + 1)
    BY <1>1, <1>6, <2>2 DEF Track, TrackTriple, Straight
  <2> QED
    BY <2>1, <2>2, <2>3, EarlyStep DEF u
<1>7. CASE p = 3
  <2> DEFINE i == <<"movl_mesp", 12, "edx">>
             u == Exec(n, i)
  <2>1. i = Program[c.fn][p] /\ Plain(i) /\ Kept(n, e)
    BY <1>1, <1>3, <1>7, PlainNames DEF LoadStores, Straight, ThroughEax
  <2>2. u.r.edx = c.args[3] /\ u.r.ecx = n.r.ecx /\ u.r.eax = n.r.eax /\ Kept(u, n)
    BY <1>2, <1>4, LoadThird DEF Gprs
  <2> HIDE DEF i, u
  <2>3. Kept(u, e) => Track(u, e, c, p + 1)
    BY <1>1, <1>7, <2>2 DEF Track, TrackTriple, Straight
  <2> QED
    BY <2>1, <2>2, <2>3, EarlyStep DEF u
<1> QED
  BY <1>5, <1>6, <1>7
LEMMA TripleKeeps ==
  ASSUME NEW n, NEW e, NEW c, NEW p,
         Ready(n, e, c, p), TrackTriple(n, e, c, p)
  PROVE  KeepsTrack(n, e, c, p)
<1>1. /\ c.fn \in TripleFns /\ Straight(n, e, c, p, 5)
      /\ p = 4 => n.r.ecx = c.args[1] /\ n.r.eax = c.args[2] /\ n.r.edx = c.args[3]
  BY DEF TrackTriple
<1>2. n \in Machines /\ e \in Machines /\ e.sys.tr < Half
  BY ReadyTyped DEF Ready
<1>3. Program[c.fn][5] = <<"ret">> /\ c.fn \in WriteFns
  BY <1>1 DEF TripleFns, Program, wrmsr64, xsetbv64, WriteFns
<1>5. CASE p \in 1..3
  BY <1>5, TripleMoves
<1>6. CASE p = 4
  <2> DEFINE i == IF c.fn = "wrmsr64" THEN <<"wrmsr">> ELSE <<"xsetbv">>
             w == Exec(n, i)
             v == <<c.args[3], c.args[2]>>
  <2>0. Plain(i) /\ i = Program[c.fn][p] /\ i[1] # "bsrl_mesp_eax" /\ Kept(n, e)
    BY <1>1, <1>6, PlainNames DEF Straight, TripleFns, Program, wrmsr64, xsetbv64, ThroughEax
  <2>1. w \in Machines
    BY <2>0, ReadyNext
  <2>2. v = <<n.r.edx, n.r.eax>>
    BY <1>1, <1>6
  <2>3. ASSUME c.fn = "wrmsr64" PROVE Finished(w, e, c)
    <3> DEFINE a == c.args[1]
               S == MsrsOf(a) \cap WritableMsrs
    <3> DEFINE x == [f \in DOMAIN Msr |-> IF f \in MsrsOf(n.r.ecx) \cap WritableMsrs THEN <<n.r.edx, n.r.eax>>
                                       ELSE n.sys.msr[f]]
    <3>1. w = [n EXCEPT !.sys.msr = x] /\ \A f \in DOMAIN Msr : x[f] = IF f \in S THEN v ELSE n.sys.msr[f]
      <4>1. w = [n EXCEPT !.sys.msr = x]
        BY <2>3, ExecSystems DEF wrmsr
      <4>2. \A f \in DOMAIN Msr : x[f] = IF f \in S THEN v ELSE n.sys.msr[f]
        BY <1>1, <1>6, <2>2
      <4> HIDE DEF w, S, v, x
      <4> QED
        BY <4>1, <4>2
    <3>2. /\ S \subseteq DOMAIN Msr /\ S \subseteq Selectors \cup DOMAIN Msr \cup DOMAIN Vmcs
          /\ S = MsrsOf(c.args[1]) \cap WritableMsrs /\ <<c.args[3], c.args[2]>> = v
      BY DEF MsrsOf
    <3> HIDE DEF i, w, S, v, x
    <3>3. Contract!Changes(SysRegs(e), AbstractCall(c)) = [y \in S |-> v]
      BY <2>3, <3>2, NumberedRegs
    <3>4. GroupChanged(w, e, S, v)
      BY <1>2, <2>0, <3>1, <3>2, GroupParts
    <3> QED
      BY <1>2, <1>3, <2>1, <3>2, <3>3, <3>4, FinishGroup
  <2>4. ASSUME c.fn = "xsetbv" PROVE Finished(w, e, c)
    <3>1. n.r.ecx = 1
      BY <1>1, <1>6, <2>4 DEF Ready, Asked
    <3>2. w = [n EXCEPT !.sys.xcr0 = v]
      <4>1. w = xsetbv(n)
        BY <2>4, ExecSystems
      <4> HIDE DEF w, v
      <4> QED
        BY <2>2, <3>1, <4>1 DEF xsetbv
    <3>3. w.sys = [e.sys EXCEPT !["xcr0"] = v] /\ Bit(w.fl, EFLAGS_IF) = Bit(e.fl, EFLAGS_IF)
      <4> HIDE DEF w, v
      <4> QED
        BY <1>2, <2>0, <3>2 DEF Kept, Machines
    <3>4. Contract!Changes(SysRegs(e), AbstractCall(c)) = [y \in {"xcr0"} |-> v]
      <4> DEFINE S == {"xcr0"}
      <4>1. S = {"xcr0"} /\ <<c.args[3], c.args[2]>> = v
        OBVIOUS
      <4> HIDE DEF S, v
      <4>2. Contract!Changes(SysRegs(e), AbstractCall(c)) = [y \in S |-> v]
        BY <2>4, <4>1, NumberedRegs
      <4> QED
        BY <4>2 DEF S
    <3>5. "xcr0" \in SysFields /\ "xcr0" # "tr"
      BY DEF SysFields
    <3> HIDE DEF i, w, v
    <3> QED
      BY <1>2, <1>3, <2>1, <3>3, <3>4, <3>5, FinishWrite
  <2>5. Finished(w, e, c)
    BY <1>1, <2>3, <2>4 DEF TripleFns
  <2> HIDE DEF i, w
  <2>7. Track(w, e, c, p + 1)
    BY <1>1, <1>6, <2>5 DEF Track, TrackTriple, Straight
  <2> QED
    BY <2>0, <2>5, <2>7, StepFinishes DEF w
<1>7. CASE p = 5
  BY <1>1, <1>3, <1>7, LastKeeps
<1> QED
  BY <1>1, <1>5, <1>6, <1>7 DEF Straight

(* The step after which the answer is there. *)
LEMMA AnswerStep ==
  ASSUME NEW n, NEW e, NEW c, NEW p, NEW i,
         Ready(n, e, c, p), i = Program[c.fn][p], Plain(i), i[1] # "bsrl_mesp_eax", c.fn \in ReadFns,
         Kept(n, e), Kept(Exec(n, i), n),
         Contract!Answers(SysRegs(e), AbstractCall(c), <<Exec(n, i).r.edx, Exec(n, i).r.eax>>),
         Finished(Exec(n, i), e, c) => Track(Exec(n, i), e, c, p + 1)
  PROVE  KeepsTrack(n, e, c, p)
<1> DEFINE w == Exec(n, i)
<1>1. w \in Machines
  BY ReadyNext
<1>2. Kept(w, e)
  BY KeptTwice
<1>3. e \in Machines /\ e.sys.tr < Half
  BY ReadyTyped DEF Ready
<1>4. Contract!Answers(SysRegs(e), AbstractCall(c), <<w.r.edx, w.r.eax>>)
  OBVIOUS
<1>5. Finished(w, e, c) => Track(w, e, c, p + 1)
  OBVIOUS
<1> HIDE DEF w
<1>6. Finished(w, e, c)
  BY <1>1, <1>2, <1>3, <1>4, FinishRead
<1> QED
  BY <1>5, <1>6, StepFinishes DEF w

(* Port input. *)
LEMMA PortPrograms ==
  ASSUME NEW f, f \in PortFns
  PROVE  /\ Program[f][1] = <<"movl_mesp", 4, "edx">> /\ Program[f][2] = <<"xorl", "eax">>
         /\ Program[f][3] = IF f = "inb" THEN <<"inb_dx_al">> ELSE IF f = "inw" THEN <<"inw_dx_ax">> ELSE <<"inl_dx_eax">>
         /\ Program[f][4] = <<"xorl", "edx">> /\ Program[f][5] = <<"retu32">>
<1>1. CASE f = "inb"
  BY <1>1 DEF Program, PortIn
<1>2. CASE f = "inw"
  BY <1>2 DEF Program, PortIn
<1>3. CASE f = "inl"
  BY <1>3 DEF Program, PortIn
<1> QED
  BY <1>1, <1>2, <1>3 DEF PortFns
LEMMA ReadsPort ==
  ASSUME NEW n, NEW x, n \in Machines, n.r.eax = 0, n.r.edx = x, x \in {0, PCI_CONFIG_ADDR_PORT}
  PROVE  Exec(n, <<"inl_dx_eax">>).r.eax = IF x = PCI_CONFIG_ADDR_PORT THEN n.sys.pci_addr ELSE 0
<1> DEFINE v == IF x = PCI_CONFIG_ADDR_PORT THEN n.sys.pci_addr ELSE 0
           w == Exec(n, <<"inl_dx_eax">>)
<1>1. v \in Words
  BY SysParts, Small
<1>2. (Low16(x) = PCI_CONFIG_ADDR_PORT) = (x = PCI_CONFIG_ADDR_PORT)
  BY Ports
<1>3. w = SetReg(n, "eax", IF Low16(x) = PCI_CONFIG_ADDR_PORT THEN n.sys.pci_addr ELSE 0)
  BY ExecSystems DEF inl_dx_eax
<1>4. w = SetReg(n, "eax", v)
  BY <1>2, <1>3
<1> HIDE DEF w, v
<1>5. SetReg(n, "eax", v).r = [n.r EXCEPT !["eax"] = v] /\ DOMAIN n.r = Gprs
  BY <1>1, Loads, Parts DEF Gprs
<1> QED
  BY <1>4, <1>5 DEF w, v, Gprs
LEMMA ReadsNothing ==
  ASSUME NEW n, n \in Machines, n.r.eax = 0
  PROVE  Exec(n, <<"inb_dx_al">>).r.eax = 0 /\ Exec(n, <<"inw_dx_ax">>).r.eax = 0
<1>1. Low8(0) = 0 /\ Low16(0) = 0
  BY WidthNumbers DEF Low8, Low16
<1>2. Exec(n, <<"inb_dx_al">>) = SetReg(n, "eax", 0 - Low8(0)) /\ Exec(n, <<"inw_dx_ax">>) = SetReg(n, "eax", 0 - Low16(0))
  BY ExecSystems DEF inb_dx_al, inw_dx_ax
<1>3. Exec(n, <<"inb_dx_al">>) = SetReg(n, "eax", 0) /\ Exec(n, <<"inw_dx_ax">>) = SetReg(n, "eax", 0)
  BY <1>1, <1>2
<1> DEFINE v == 0
<1>4. v \in Words /\ "eax" \in Gprs
  BY Small DEF Gprs
<1> HIDE DEF v
<1>5. SetReg(n, "eax", v).r = [n.r EXCEPT !["eax"] = v] /\ DOMAIN n.r = Gprs
  BY <1>4, Loads, Parts
<1>6. SetReg(n, "eax", v).r["eax"] = v
  BY <1>4, <1>5
<1> QED
  BY <1>3, <1>6 DEF v
LEMMA PortMoves ==
  ASSUME NEW n, NEW e, NEW c, NEW p,
         Ready(n, e, c, p), TrackPort(n, e, c, p), p \in 1..2
  PROVE  KeepsTrack(n, e, c, p)
<1>1. c.fn \in PortFns /\ Straight(n, e, c, p, 5) /\ (p = 2 => n.r.edx = c.args[1])
  BY DEF TrackPort
<1>2. c.fn \in QuietFns /\ Kept(n, e) /\ n \in Machines
  BY <1>1, ReadyTyped DEF PortFns, QuietFns, Straight
<1>5. CASE p = 1
  <2> DEFINE i == <<"movl_mesp", 4, "edx">>
             u == Exec(n, i)
  <2>1. i = Program[c.fn][p] /\ Plain(i)
    BY <1>1, <1>5, PortPrograms, PlainNames DEF LoadStores, ThroughEax
  <2>2. u.r.edx = c.args[1] /\ Kept(u, n)
    BY <1>2, FirstArg DEF Gprs
  <2> HIDE DEF i, u
  <2>3. Kept(u, e) => Track(u, e, c, p + 1)
    BY <1>1, <1>5, <2>2 DEF Track, TrackPort, Straight
  <2> QED
    BY <1>2, <2>1, <2>2, <2>3, EarlyStep DEF u
<1>6. CASE p = 2
  <2> DEFINE i == <<"xorl", "eax">>
             u == Exec(n, i)
  <2>1. i = Program[c.fn][p] /\ Plain(i)
    BY <1>1, <1>6, PortPrograms, PlainNames DEF Arithmetic, ThroughEax
  <2>2. u.r.edx = n.r.edx /\ u.r.eax = 0 /\ Kept(u, n)
    BY <1>2, XorGives DEF Gprs
  <2> HIDE DEF i, u
  <2>3. Kept(u, e) => Track(u, e, c, p + 1)
    BY <1>1, <1>6, <2>2 DEF Track, TrackPort, Straight
  <2> QED
    BY <1>2, <2>1, <2>2, <2>3, EarlyStep DEF u
<1> QED
  BY <1>5, <1>6
LEMMA PortReads ==
  ASSUME NEW n, NEW e, NEW c, NEW p,
         Ready(n, e, c, p), TrackPort(n, e, c, p), p = 3
  PROVE  KeepsTrack(n, e, c, p)
<1>1. c.fn \in PortFns /\ Straight(n, e, c, p, 5) /\ n.r.edx = c.args[1] /\ n.r.eax = 0
  BY DEF TrackPort
<1>2. Kept(n, e) /\ n \in Machines
  BY <1>1, ReadyTyped DEF Straight
<1> DEFINE i == Program[c.fn][p]
           u == Exec(n, i)
           v == IF c.fn = "inl" /\ c.args[1] = PCI_CONFIG_ADDR_PORT THEN e.sys.pci_addr ELSE 0
<1>3. Plain(i) /\ Keeps(i)
  BY <1>1, PortPrograms, PlainNames, KeepsPorts DEF PortFns, ThroughEax
<1>4. u.r.eax = v
  <2>1. CASE c.fn = "inb"
    <3>1. i = <<"inb_dx_al">>
      BY <2>1, PortPrograms DEF PortFns
    <3> QED
      BY <1>1, <1>2, <2>1, <3>1, ReadsNothing
  <2>2. CASE c.fn = "inw"
    <3>1. i = <<"inw_dx_ax">>
      BY <2>2, PortPrograms DEF PortFns
    <3> QED
      BY <1>1, <1>2, <2>2, <3>1, ReadsNothing
  <2>3. CASE c.fn = "inl"
    <3>1. i = <<"inl_dx_eax">>
      BY <2>3, PortPrograms DEF PortFns
    <3>2. c.args[1] \in {0, PCI_CONFIG_ADDR_PORT}
      BY <2>3 DEF Ready, Asked
    <3>3. n.sys.pci_addr = e.sys.pci_addr
      BY <1>2 DEF Kept
    <3>4. u.r.eax = IF c.args[1] = PCI_CONFIG_ADDR_PORT THEN n.sys.pci_addr ELSE 0
      BY <1>1, <1>2, <3>1, <3>2, ReadsPort
    <3> QED
      BY <2>3, <3>3, <3>4
  <2> QED
    BY <1>1, <2>1, <2>2, <2>3 DEF PortFns
<1>5. Kept(u, n)
  BY <1>2, <1>3 DEF Keeps
<1>6. i = Program[c.fn][p]
  OBVIOUS
<1> HIDE DEF i, u
<1>7. Kept(u, e) => Track(u, e, c, p + 1)
  BY <1>1, <1>4 DEF Track, TrackPort, Straight
<1> QED
  BY <1>2, <1>3, <1>5, <1>6, <1>7, EarlyStep DEF u
LEMMA PortKeeps ==
  ASSUME NEW n, NEW e, NEW c, NEW p,
         Ready(n, e, c, p), TrackPort(n, e, c, p)
  PROVE  KeepsTrack(n, e, c, p)
<1> DEFINE v == IF c.fn = "inl" /\ c.args[1] = PCI_CONFIG_ADDR_PORT THEN e.sys.pci_addr ELSE 0
<1>1. c.fn \in PortFns /\ Straight(n, e, c, p, 5) /\ (p = 4 => n.r.eax = v)
  BY DEF TrackPort
<1>2. c.fn \in ReadFns /\ n \in Machines
  BY <1>1, ReadyTyped DEF PortFns, ReadFns
<1>3. CASE p \in 1..2
  BY <1>3, PortMoves
<1>4. CASE p = 3
  BY <1>4, PortReads
<1>5. CASE p = 4
  <2> DEFINE i == <<"xorl", "edx">>
             w == Exec(n, i)
             b == SysRegs(e)
             k == AbstractCall(c)
             a == <<w.r.edx, w.r.eax>>
  <2>1. i = Program[c.fn][p] /\ Plain(i) /\ i[1] # "bsrl_mesp_eax" /\ Kept(n, e)
    BY <1>1, <1>5, PortPrograms, PlainNames DEF Arithmetic, Straight, ThroughEax
  <2>2. w.r.eax = n.r.eax /\ Kept(w, n)
    BY <1>2, XorGives DEF Gprs
  <2>3. b["pci_addr"] = e.sys.pci_addr /\ k.fn = c.fn /\ k.args[1] = c.args[1]
    BY SysRegsOf, AbstractParts DEF SysFields
  <2>4. a[2] = v
    BY <1>1, <1>5, <2>2
  <2>5. Contract!Answers(b, k, a)
    <3> HIDE DEF a, b, k
    <3> QED
      BY <1>1, <2>3, <2>4, AnswersOthers DEF PortFns
  <2>6. Contract!Answers(SysRegs(e), AbstractCall(c), <<w.r.edx, w.r.eax>>)
    BY <2>5
  <2> HIDE DEF w, i, a, b, k
  <2>7. Finished(w, e, c) => Track(w, e, c, p + 1)
    BY <1>1, <1>5 DEF Track, TrackPort, Straight
  <2> QED
    BY <1>2, <2>1, <2>2, <2>6, <2>7, AnswerStep DEF w
<1>6. CASE p = 5
  BY <1>1, <1>6, PortPrograms, LastKeeps
<1> QED
  BY <1>1, <1>3, <1>4, <1>5, <1>6 DEF Straight

(* getgdtbase: the base is read back from the stack. *)
LEMMA SgdtReady ==
  ASSUME NEW n, NEW e, NEW c, NEW p,
         Ready(n, e, c, p), c.fn = "getgdtbase"
  PROVE  DescriptorAt(n, e, p)
<1>1. Outline(n, e, c.fn, p)
  BY DEF Ready
<1>2. c.fn \notin QuietFns \cup EflagsFns \cup LoadFns
        \cup {"vmx_invept", "xmhfhw_cpu_reloadcs", "xmhfhw_cpu_cpuid", "spin_lock", "spin_unlock",
              "sysmemaccess_copy", "slab_entrystub"}
  BY DEF QuietFns, EflagsFns, LoadFns
<1> QED
  BY <1>1, <1>2 DEF Outline
LEMMA SgdtPrograms ==
  LET prog == Program["getgdtbase"]
  IN  /\ prog[1] = <<"subl_imm_esp", 8>> /\ prog[2] = <<"sgdt_mesp", 0>> /\ prog[3] = <<"movl_mesp", 2, "eax">>
      /\ prog[4] = <<"addl_imm_esp", 8>> /\ prog[5] = <<"retu32">>
  BY DEF Program, getgdtbase
LEMMA SgdtStores ==
  ASSUME NEW n, n \in Machines, n.r.esp = 24
  PROVE  Read32(Exec(n, <<"sgdt_mesp", 0>>), 26) = n.sys.gdtr.base
<1> DEFINE s == 24
           limit == n.sys.gdtr.limit
           base == n.sys.gdtr.base
           u == Write16(n, s, limit)
           b == s + 2
<1>1. limit \in Nat /\ base \in Words
  BY SysParts, WidthNumbers DEF Words
<1>2. s \in 0..86 /\ b \in 0..84 /\ b = 26 /\ n.r.esp + 0 = s
  OBVIOUS
<1> HIDE DEF s, b, limit, base
<1>3. u \in Machines
  BY <1>1, <1>2, WritesHalf
<1> HIDE DEF u
<1>4. Read32(Write32(u, b, base), b) = base
  BY <1>1, <1>2, <1>3, WritesWord
<1>5. Exec(n, <<"sgdt_mesp", 0>>) = Write32(Write16(n, s, limit), s + 2, base)
  BY <1>2, ExecSystems DEF sgdt_mesp, At, limit, base
<1> QED
  BY <1>2, <1>4, <1>5 DEF u, b, base
LEMMA SgdtMoves ==
  ASSUME NEW n, NEW e, NEW c, NEW p,
         Ready(n, e, c, p), TrackSgdt(n, e, c, p), p \in 1..2
  PROVE  KeepsTrack(n, e, c, p)
<1>1. c.fn = "getgdtbase" /\ Straight(n, e, c, p, 5)
  BY DEF TrackSgdt
<1>2. Kept(n, e) /\ n \in Machines /\ DescriptorAt(n, e, p)
  BY <1>1, ReadyTyped, SgdtReady DEF Straight
<1>5. CASE p = 1
  <2> DEFINE i == <<"subl_imm_esp", 8>>
             u == Exec(n, i)
  <2>1. i = Program[c.fn][p] /\ Plain(i)
    BY <1>1, <1>5, SgdtPrograms, PlainNames DEF Arithmetic, ThroughEax
  <2>2. Kept(u, n)
    BY <1>2, KeepsStack DEF Keeps
  <2> HIDE DEF i, u
  <2>3. Kept(u, e) => Track(u, e, c, p + 1)
    BY <1>1, <1>5, <2>2 DEF Track, TrackSgdt, Straight
  <2> QED
    BY <1>2, <2>1, <2>2, <2>3, EarlyStep DEF u
<1>6. CASE p = 2
  <2> DEFINE i == <<"sgdt_mesp", 0>>
             u == Exec(n, i)
  <2>1. i = Program[c.fn][p] /\ Plain(i)
    BY <1>1, <1>6, SgdtPrograms, PlainNames
  <2>2. Kept(u, n)
    BY <1>2, KeepsSystems DEF Keeps
  <2>3. n.r.esp = 24 /\ n.sys = e.sys
    BY <1>2, <1>6 DEF DescriptorAt, Deep, Kept
  <2>4. Read32(u, 26) = e.sys.gdtr.base
    BY <1>2, <2>3, SgdtStores
  <2> HIDE DEF i, u
  <2>5. Kept(u, e) => Track(u, e, c, p + 1)
    BY <1>1, <1>6, <2>4 DEF Track, TrackSgdt, Straight
  <2> QED
    BY <1>2, <2>1, <2>2, <2>5, EarlyStep DEF u
<1> QED
  BY <1>5, <1>6
LEMMA SgdtReads ==
  ASSUME NEW n, NEW e, NEW c, NEW p,
         Ready(n, e, c, p), TrackSgdt(n, e, c, p), p = 3
  PROVE  KeepsTrack(n, e, c, p)
<1>1. c.fn = "getgdtbase" /\ Straight(n, e, c, p, 5) /\ Read32(n, 26) = e.sys.gdtr.base
  BY DEF TrackSgdt
<1>2. Kept(n, e) /\ n \in Machines /\ DescriptorAt(n, e, p)
  BY <1>1, ReadyTyped, SgdtReady DEF Straight
<1> DEFINE k == 2
           a == 26
           i == <<"movl_mesp", k, "eax">>
           u == Exec(n, i)
<1>3. i = Program[c.fn][p] /\ Plain(i)
  BY <1>1, SgdtPrograms, PlainNames DEF LoadStores, ThroughEax
<1>4. Kept(u, n)
  BY <1>2, KeepsMoves DEF Keeps
<1>5. n.r.esp + k = a /\ a \in 0..84 /\ "eax" \in Gprs /\ Read32(n, a) = e.sys.gdtr.base
  BY <1>1, <1>2 DEF DescriptorAt, Deep, Gprs
<1> HIDE DEF k, a
<1>6. Sets(u, n, "eax", Read32(n, a))
  BY <1>2, <1>5, MoveFromStack
<1> HIDE DEF i, u
<1>7. u.r.eax = e.sys.gdtr.base
  <2>1. u.r["eax"] = Read32(n, a)
    BY <1>2, <1>5, <1>6, SetsGives
  <2> QED
    BY <1>5, <2>1
<1>8. Kept(u, e) => Track(u, e, c, p + 1)
  BY <1>1, <1>7 DEF Track, TrackSgdt, Straight
<1> QED
  BY <1>2, <1>3, <1>4, <1>8, EarlyStep DEF u
LEMMA SgdtKeeps ==
  ASSUME NEW n, NEW e, NEW c, NEW p,
         Ready(n, e, c, p), TrackSgdt(n, e, c, p)
  PROVE  KeepsTrack(n, e, c, p)
<1>1. c.fn = "getgdtbase" /\ Straight(n, e, c, p, 5) /\ (p = 4 => n.r.eax = e.sys.gdtr.base)
  BY DEF TrackSgdt
<1>2. c.fn \in ReadFns /\ n \in Machines /\ DescriptorAt(n, e, p)
  BY <1>1, ReadyTyped, SgdtReady DEF ReadFns
<1>3. CASE p \in 1..2
  BY <1>3, SgdtMoves
<1>4. CASE p = 3
  BY <1>4, SgdtReads
<1>5. CASE p = 4
  <2> DEFINE h == 8
             i == <<"addl_imm_esp", h>>
             w == Exec(n, i)
             b == SysRegs(e)
             k == AbstractCall(c)
             a == <<w.r.edx, w.r.eax>>
  <2>1. i = Program[c.fn][p] /\ Plain(i) /\ i[1] # "bsrl_mesp_eax" /\ Kept(n, e)
    BY <1>1, <1>5, SgdtPrograms, PlainNames DEF Arithmetic, Straight, ThroughEax
  <2>2. Kept(w, n)
    BY <1>2, KeepsStack DEF Keeps
  <2>3. w.r.eax = n.r.eax
    <3>1. h \in 0..16 /\ n.r.esp \in 0..88 /\ DOMAIN n.r = Gprs
      BY <1>2, <1>5 DEF DescriptorAt, Deep, Machines
    <3>2. w = addl_imm_esp(n, h)
      BY ExecOperations
    <3> HIDE DEF w, h
    <3>3. w.r = [n.r EXCEPT !["esp"] = n.r.esp + h]
      BY <1>2, <3>1, <3>2, AddEsp
    <3> QED
      BY <3>1, <3>3 DEF Gprs
  <2>4. b["gdtr"] = e.sys.gdtr /\ k.fn = c.fn
    BY SysRegsOf, AbstractParts DEF SysFields
  <2>5. a[2] = b.gdtr.base
    <3>1. a[2] = w.r.eax
      OBVIOUS
    <3> HIDE DEF a, b, w
    <3> QED
      BY <1>1, <1>5, <2>3, <2>4, <3>1
  <2>6. Contract!Answers(b, k, a)
    <3> HIDE DEF a, b, k
    <3> QED
      BY <1>1, <2>4, <2>5, AnswersRegs
  <2>7. Contract!Answers(SysRegs(e), AbstractCall(c), <<w.r.edx, w.r.eax>>)
    BY <2>6
  <2> HIDE DEF w, i, a, b, k
  <2>8. Finished(w, e, c) => Track(w, e, c, p + 1)
    BY <1>1, <1>5 DEF Track, TrackSgdt, Straight
  <2> QED
    BY <1>2, <2>1, <2>2, <2>7, <2>8, AnswerStep DEF w
<1>6. CASE p = 5
  BY <1>1, <1>6, SgdtPrograms, LastKeeps
<1> QED
  BY <1>1, <1>3, <1>4, <1>5, <1>6 DEF Straight

(* A register is given a number. *)
LEMMA ImmGives ==
  ASSUME NEW n, NEW v, n \in Machines, v \in {0, 1}
  PROVE  Exec(n, <<"movl_imm", v, "eax">>).r.eax = v
<1>1. v \in Words /\ "eax" \in Gprs
  BY Small DEF Gprs
<1>2. Exec(n, <<"movl_imm", v, "eax">>) = SetReg(n, "eax", v)
  BY ExecMoves DEF movl_imm
<1>3. SetReg(n, "eax", v).r = [n.r EXCEPT !["eax"] = v] /\ DOMAIN n.r = Gprs
  BY <1>1, Loads, Parts
<1> QED
  BY <1>1, <1>2, <1>3
(* A jump to where the answer is there. *)
LEMMA JumpAnswers ==
  ASSUME NEW n, NEW e, NEW c, NEW p,
         Ready(n, e, c, p), c.fn \in ReadFns, Kept(n, e),
         Contract!Answers(SysRegs(e), AbstractCall(c), <<n.r.edx, n.r.eax>>)
  PROVE  Finished(n, e, c)
<1>1. n \in Machines /\ e \in Machines /\ e.sys.tr < Half
  BY ReadyTyped DEF Ready
<1> QED
  BY <1>1, FinishRead

(* The VMX instructions that answer one or zero. *)
LEMMA VmxPrograms ==
  ASSUME NEW f, f \in VmxFns
  PROVE  LET prog == Program[f]
         IN  /\ prog[1] = IF f = "vmclear" THEN <<"vmclear_mesp", 4>>
                          ELSE IF f = "vmptrld" THEN <<"vmptrld_mesp", 4>> ELSE <<"vmxon_mesp", 4>>
             /\ prog[2] = <<"jbe", 5>> /\ prog[3] = <<"movl_imm", 1, "eax">> /\ prog[4] = <<"jmplabel", 6>>
             /\ prog[5] = <<"movl_imm", 0, "eax">> /\ prog[6] = <<"retu32">>
<1>1. CASE f = "vmclear"
  BY <1>1 DEF Program, OneOrZero
<1>2. CASE f = "vmptrld"
  BY <1>2 DEF Program, OneOrZero
<1>3. CASE f = "vmxon"
  BY <1>3 DEF Program, OneOrZero
<1> QED
  BY <1>1, <1>2, <1>3 DEF VmxFns
LEMMA VmxonClears ==
  ASSUME NEW n, n \in Machines
  PROVE  ~Flag(Exec(n, <<"vmxon_mesp", 4>>), EFLAGS_CF)
<1> DEFINE v == ClearBit(n.fl, EFLAGS_CF)
           x == ClearBit(v, EFLAGS_ZF)
           w == Exec(n, <<"vmxon_mesp", 4>>)
<1>1. n.fl \in Words /\ DOMAIN n = {"r", "fl", "sys", "mem"}
  BY Parts DEF Machines
<1>2. v \in Words /\ Bit(v, EFLAGS_CF) = 0
  BY <1>1, Flags
<1>3. w = [n EXCEPT !.fl = x]
  BY ExecOthers DEF vmxon_mesp
<1>4. w.fl = x
  BY <1>1, <1>3
<1> HIDE DEF v, w
<1>5. Bit(x, EFLAGS_CF) = 0
  <2>1. v \in Nat /\ 2^0 = 1 /\ 2^6 = 64
    BY <1>2, Powers, WidthNumbers DEF Words
  <2> QED
    BY <1>2, <2>1 DEF Bit, ClearBit, EFLAGS_CF, EFLAGS_ZF
<1> QED
  BY <1>4, <1>5 DEF Flag, w
LEMMA VmxStarts ==
  ASSUME NEW n, NEW e, NEW c, NEW p,
         Ready(n, e, c, p), TrackVmx(n, e, c, p), p = 1
  PROVE  KeepsTrack(n, e, c, p)
<1>1. c.fn \in VmxFns /\ Kept(n, e) /\ n \in Machines
  BY ReadyTyped DEF TrackVmx, Straight
<1> DEFINE i == Program[c.fn][p]
           u == Exec(n, i)
<1>2. Plain(i) /\ Keeps(i)
  BY <1>1, VmxPrograms, PlainNames, KeepsReads, KeepsFlags DEF VmxFns, Vmx, ThroughEax
<1>3. c.fn = "vmxon" => ~Flag(u, EFLAGS_CF)
  <2> SUFFICES ASSUME c.fn = "vmxon" PROVE ~Flag(u, EFLAGS_CF)
    OBVIOUS
  <2>1. i = <<"vmxon_mesp", 4>>
    BY <1>1, VmxPrograms
  <2> QED
    BY <1>1, <2>1, VmxonClears
<1>4. i = Program[c.fn][p] /\ Kept(u, n)
  BY <1>1, <1>2 DEF Keeps
<1> HIDE DEF i, u
<1>5. Kept(u, e) => Track(u, e, c, p + 1)
  BY <1>1, <1>3 DEF Track, TrackVmx, Straight
<1> QED
  BY <1>1, <1>2, <1>4, <1>5, EarlyStep DEF u
LEMMA VmxJumps ==
  ASSUME NEW n, NEW e, NEW c, NEW p,
         Ready(n, e, c, p), TrackVmx(n, e, c, p), p \in {2, 4}
  PROVE  KeepsTrack(n, e, c, p)
<1>1. /\ c.fn \in VmxFns /\ Kept(n, e) /\ n \in Machines /\ c.fn \in ReadFns
      /\ (c.fn = "vmxon" /\ p = 2 => ~Flag(n, EFLAGS_CF)) /\ (p = 4 => n.r.eax = 1)
  BY ReadyTyped DEF TrackVmx, Straight, VmxFns, ReadFns
<1>2. CASE p = 2
  <2>1. Program[c.fn][p] = <<"jbe", 5>>
    BY <1>1, <1>2, VmxPrograms
  <2>2. Taken(n, "jbe") => Flag(n, EFLAGS_CF)
    BY DEF Taken
  <2>3. Straight(n, e, c, 3, 6) /\ Straight(n, e, c, 5, 6)
    BY <1>1 DEF Straight
  <2>5. TrackVmx(n, e, c, 3)
    BY <1>1, <2>3 DEF TrackVmx
  <2>6. c.fn # "vmxon" => TrackVmx(n, e, c, 5)
    BY <1>1, <2>3 DEF TrackVmx
  <2>4. Track(n, e, c, IF Taken(n, "jbe") THEN 5 ELSE p + 1)
    BY <1>1, <1>2, <2>2, <2>5, <2>6 DEF Track
  <2> QED
    BY <2>1, <2>4, JumpKeeps DEF Branches
<1>3. CASE p = 4
  <2>1. Program[c.fn][p] = <<"jmplabel", 6>>
    BY <1>1, <1>3, VmxPrograms
  <2>2. Taken(n, "jmplabel")
    BY DEF Taken
  <2> DEFINE b == SysRegs(e)
             k == AbstractCall(c)
             a == <<n.r.edx, n.r.eax>>
  <2>3. a[2] = 1 /\ k.fn = c.fn
    BY <1>1, <1>3, AbstractParts
  <2>4. Contract!Answers(b, k, a)
    <3> HIDE DEF a, b, k
    <3> QED
      BY <1>1, <2>3, AnswersOthers DEF VmxFns
  <2>5. Finished(n, e, c)
    BY <1>1, <2>4, JumpAnswers
  <2> HIDE DEF a, b, k
  <2>6. Track(n, e, c, 6)
    BY <1>1, <2>5 DEF Track, TrackVmx, Straight
  <2> QED
    BY <2>1, <2>2, <2>6, JumpKeeps DEF Branches
<1> QED
  BY <1>2, <1>3
LEMMA VmxKeeps ==
  ASSUME NEW n, NEW e, NEW c, NEW p,
         Ready(n, e, c, p), TrackVmx(n, e, c, p)
  PROVE  KeepsTrack(n, e, c, p)
<1>1. c.fn \in VmxFns /\ Straight(n, e, c, p, 6) /\ (c.fn = "vmxon" => p # 5)
  BY DEF TrackVmx
<1>2. n \in Machines /\ c.fn \in ReadFns
  BY <1>1, ReadyTyped DEF VmxFns, ReadFns
<1>3. CASE p = 1
  BY <1>3, VmxStarts
<1>4. CASE p \in {2, 4}
  BY <1>4, VmxJumps
<1>5. CASE p = 3
  <2> DEFINE i == <<"movl_imm", 1, "eax">>
             u == Exec(n, i)
  <2>1. i = Program[c.fn][p] /\ Plain(i) /\ Kept(n, e)
    BY <1>1, <1>5, VmxPrograms, PlainNames DEF LoadStores, Straight, ThroughEax
  <2>2. u.r.eax = 1 /\ Kept(u, n)
    BY <1>2, ImmGives, KeepsMoves DEF Keeps
  <2> HIDE DEF i, u
  <2>3. Kept(u, e) => Track(u, e, c, p + 1)
    BY <1>1, <1>5, <2>2 DEF Track, TrackVmx, Straight
  <2> QED
    BY <2>1, <2>2, <2>3, EarlyStep DEF u
<1>6. CASE p = 5
  <2> DEFINE i == <<"movl_imm", 0, "eax">>
             w == Exec(n, i)
             b == SysRegs(e)
             k == AbstractCall(c)
             a == <<w.r.edx, w.r.eax>>
  <2>1. i = Program[c.fn][p] /\ Plain(i) /\ i[1] # "bsrl_mesp_eax" /\ Kept(n, e)
    BY <1>1, <1>6, VmxPrograms, PlainNames DEF LoadStores, Straight, ThroughEax
  <2>2. w.r.eax = 0 /\ Kept(w, n)
    BY <1>2, ImmGives, KeepsMoves DEF Keeps
  <2>3. a[2] = 0 /\ k.fn = c.fn
    BY <2>2, AbstractParts
  <2>4. Contract!Answers(b, k, a)
    <3> HIDE DEF a, b, k
    <3> QED
      BY <1>1, <1>6, <2>3, AnswersOthers DEF VmxFns
  <2>5. Contract!Answers(SysRegs(e), AbstractCall(c), <<w.r.edx, w.r.eax>>)
    BY <2>4
  <2> HIDE DEF w, i, a, b, k
  <2>6. Finished(w, e, c) => Track(w, e, c, p + 1)
    BY <1>1, <1>6 DEF Track, TrackVmx, Straight
  <2> QED
    BY <1>2, <2>1, <2>2, <2>5, <2>6, AnswerStep DEF w
<1>7. CASE p = 6
  BY <1>1, <1>7, VmxPrograms, LastKeeps
<1> QED
  BY <1>1, <1>3, <1>4, <1>5, <1>6, <1>7 DEF Straight

(* vmx_invept. *)
LEMMA InveptReady ==
  ASSUME NEW n, NEW e, NEW c, NEW p,
         Ready(n, e, c, p), TrackInvept(n, e, c, p)
  PROVE  /\ c.fn = "vmx_invept" /\ c.fn \in ReadFns /\ n \in Machines /\ InveptAt(n, e, p) /\ p \in 1..16
         /\ p # 16 => Kept(n, e)
<1>1. Outline(n, e, c.fn, p) /\ c.fn = "vmx_invept" /\ p \in 1..16 /\ (p # 16 => Kept(n, e))
  BY DEF Ready, TrackInvept, Straight
<1>2. c.fn \notin QuietFns \cup EflagsFns \cup LoadFns \cup DescriptorFns
        \cup {"xmhfhw_cpu_reloadcs", "xmhfhw_cpu_cpuid", "spin_lock", "spin_unlock",
              "sysmemaccess_copy", "slab_entrystub"}
  BY <1>1 DEF QuietFns, EflagsFns, LoadFns, DescriptorFns
<1>3. InveptAt(n, e, p)
  BY <1>1, <1>2 DEF Outline
<1> QED
  BY <1>1, <1>3, ReadyTyped DEF ReadFns
LEMMA InveptKept ==
  ASSUME NEW p, p \in 1..15, p \notin {10, 11, 13}
  PROVE  LET i == Program["vmx_invept"][p] IN Plain(i) /\ Keeps(i) /\ i[1] # "bsrl_mesp_eax"
<1> DEFINE Kind(i) == Plain(i) /\ Keeps(i) /\ i[1] # "bsrl_mesp_eax"
<1>1. Kind(<<"subl_imm_esp", 16>>)
  <2>1. Plain(<<"subl_imm_esp", 16>>)
    BY PlainNames DEF LoadStores, Arithmetic, Vmx, ThroughEax
  <2>2. Keeps(<<"subl_imm_esp", 16>>)
    BY KeepsStack
  <2> QED
    BY <2>1, <2>2
<1>2. Kind(<<"movl_mesp", 20, "edx">>)
  <2>1. Plain(<<"movl_mesp", 20, "edx">>)
    BY PlainNames DEF LoadStores, Arithmetic, Vmx, ThroughEax
  <2>2. Keeps(<<"movl_mesp", 20, "edx">>)
    BY KeepsMoves
  <2> QED
    BY <2>1, <2>2
<1>3. Kind(<<"movl_mesp", 28, "eax">>)
  <2>1. Plain(<<"movl_mesp", 28, "eax">>)
    BY PlainNames DEF LoadStores, Arithmetic, Vmx, ThroughEax
  <2>2. Keeps(<<"movl_mesp", 28, "eax">>)
    BY KeepsMoves
  <2> QED
    BY <2>1, <2>2
<1>4. Kind(<<"movl_eax_mesp", 0>>)
  <2>1. Plain(<<"movl_eax_mesp", 0>>)
    BY PlainNames DEF LoadStores, Arithmetic, Vmx, ThroughEax
  <2>2. Keeps(<<"movl_eax_mesp", 0>>)
    BY KeepsMoves
  <2> QED
    BY <2>1, <2>2
<1>5. Kind(<<"movl_mesp", 32, "eax">>)
  <2>1. Plain(<<"movl_mesp", 32, "eax">>)
    BY PlainNames DEF LoadStores, Arithmetic, Vmx, ThroughEax
  <2>2. Keeps(<<"movl_mesp", 32, "eax">>)
    BY KeepsMoves
  <2> QED
    BY <2>1, <2>2
<1>6. Kind(<<"movl_eax_mesp", 4>>)
  <2>1. Plain(<<"movl_eax_mesp", 4>>)
    BY PlainNames DEF LoadStores, Arithmetic, Vmx, ThroughEax
  <2>2. Keeps(<<"movl_eax_mesp", 4>>)
    BY KeepsMoves
  <2> QED
    BY <2>1, <2>2
<1>7. Kind(<<"movl_imm_mesp", 0, 8>>)
  <2>1. Plain(<<"movl_imm_mesp", 0, 8>>)
    BY PlainNames DEF LoadStores, Arithmetic, Vmx, ThroughEax
  <2>2. Keeps(<<"movl_imm_mesp", 0, 8>>)
    BY KeepsMoves
  <2> QED
    BY <2>1, <2>2
<1>8. Kind(<<"movl_imm_mesp", 0, 12>>)
  <2>1. Plain(<<"movl_imm_mesp", 0, 12>>)
    BY PlainNames DEF LoadStores, Arithmetic, Vmx, ThroughEax
  <2>2. Keeps(<<"movl_imm_mesp", 0, 12>>)
    BY KeepsMoves
  <2> QED
    BY <2>1, <2>2
<1>9. Kind(<<"invept_mesp_edx">>)
  <2>1. Plain(<<"invept_mesp_edx">>)
    BY PlainNames DEF LoadStores, Arithmetic, Vmx, ThroughEax
  <2>2. Keeps(<<"invept_mesp_edx">>)
    BY KeepsReads
  <2> QED
    BY <2>1, <2>2
<1>12. Kind(<<"xorl", "eax">>)
  <2>1. Plain(<<"xorl", "eax">>)
    BY PlainNames DEF LoadStores, Arithmetic, Vmx, ThroughEax
  <2>2. Keeps(<<"xorl", "eax">>)
    BY KeepsStack
  <2> QED
    BY <2>1, <2>2
<1>14. Kind(<<"movl_imm", 1, "eax">>)
  <2>1. Plain(<<"movl_imm", 1, "eax">>)
    BY PlainNames DEF LoadStores, Arithmetic, Vmx, ThroughEax
  <2>2. Keeps(<<"movl_imm", 1, "eax">>)
    BY KeepsMoves
  <2> QED
    BY <2>1, <2>2
<1>15. Kind(<<"addl_imm_esp", 16>>)
  <2>1. Plain(<<"addl_imm_esp", 16>>)
    BY PlainNames DEF LoadStores, Arithmetic, Vmx, ThroughEax
  <2>2. Keeps(<<"addl_imm_esp", 16>>)
    BY KeepsStack
  <2> QED
    BY <2>1, <2>2
<1> HIDE DEF Kind
<1>20. CASE p \in {1, 2, 3, 4}
  <2> SUFFICES Kind(Program["vmx_invept"][p])
    BY DEF Kind
  <2> QED
    BY <1>20, <1>1, <1>2, <1>3, <1>4, InveptProgram
<1>21. CASE p \in {5, 6, 7, 8}
  <2> SUFFICES Kind(Program["vmx_invept"][p])
    BY DEF Kind
  <2> QED
    BY <1>21, <1>5, <1>6, <1>7, <1>8, InveptProgram
<1>22. CASE p \in {9, 12, 14, 15}
  <2> SUFFICES Kind(Program["vmx_invept"][p])
    BY DEF Kind
  <2> QED
    BY <1>22, <1>9, <1>12, <1>14, <1>15, InveptProgram
<1> QED
  BY <1>20, <1>21, <1>22
LEMMA InveptEarly ==
  ASSUME NEW n, NEW e, NEW c, NEW p,
         Ready(n, e, c, p), TrackInvept(n, e, c, p), p \in 1..14, p \notin {10, 11, 13}
  PROVE  KeepsTrack(n, e, c, p)
<1>1. c.fn = "vmx_invept" /\ n \in Machines /\ Kept(n, e)
  BY InveptReady
<1> DEFINE i == Program[c.fn][p]
           u == Exec(n, i)
<1>2. Plain(i) /\ Keeps(i)
  BY <1>1, InveptKept
<1>3. i = Program[c.fn][p] /\ Kept(u, n)
  BY <1>1, <1>2 DEF Keeps
<1>4. (p = 12 => u.r.eax = 0) /\ (p = 14 => u.r.eax = 1)
  <2>1. Exec(n, <<"xorl", "eax">>).r.eax = 0 /\ Exec(n, <<"movl_imm", 1, "eax">>).r.eax = 1
    BY <1>1, XorGives, ImmGives DEF Gprs
  <2> QED
    BY <1>1, <2>1, InveptProgram
<1> HIDE DEF i, u
<1>5. Kept(u, e) => Track(u, e, c, p + 1)
  <2> SUFFICES ASSUME Kept(u, e) PROVE Track(u, e, c, p + 1)
    OBVIOUS
  <2>1. Straight(u, e, c, p + 1, 16)
    BY DEF Straight
  <2>2. (p + 1 = 13 => u.r.eax = 0) /\ (p + 1 = 15 => u.r.eax \in {0, 1})
    BY <1>4
  <2> QED
    BY <1>1, <2>1, <2>2 DEF Track, TrackInvept
<1> QED
  BY <1>1, <1>2, <1>3, <1>5, EarlyStep DEF u
LEMMA InveptJumps ==
  ASSUME NEW n, NEW e, NEW c, NEW p,
         Ready(n, e, c, p), TrackInvept(n, e, c, p), p \in {10, 11, 13}
  PROVE  KeepsTrack(n, e, c, p)
<1>1. c.fn = "vmx_invept" /\ n \in Machines /\ Kept(n, e) /\ (p = 13 => n.r.eax = 0)
  BY InveptReady DEF TrackInvept
<1>2. \A q \in {11, 12, 14} : TrackInvept(n, e, c, q)
  BY <1>1 DEF TrackInvept, Straight
<1>3. p = 13 => TrackInvept(n, e, c, 15)
  BY <1>1 DEF TrackInvept, Straight
<1>4. Program[c.fn][p] = IF p = 10 THEN <<"jc", 14>> ELSE IF p = 11 THEN <<"jz", 14>> ELSE <<"jmplabel", 15>>
  BY <1>1, InveptProgram
<1>5. CASE p \in {10, 11}
  <2>1. TrackInvept(n, e, c, p + 1) /\ TrackInvept(n, e, c, 14) /\ Program[c.fn][p][2] = 14
        /\ Program[c.fn][p][1] \in {"jc", "jz"}
    BY <1>2, <1>4, <1>5
  <2>2. Track(n, e, c, IF Taken(n, Program[c.fn][p][1]) THEN Program[c.fn][p][2] ELSE p + 1)
    BY <2>1 DEF Track
  <2> QED
    BY <2>1, <2>2, JumpKeeps DEF Branches
<1>6. CASE p = 13
  <2>1. Program[c.fn][p] = <<"jmplabel", 15>> /\ Taken(n, "jmplabel")
    BY <1>4, <1>6 DEF Taken
  <2>2. Track(n, e, c, 15)
    BY <1>3, <1>6 DEF Track
  <2> QED
    BY <2>1, <2>2, JumpKeeps DEF Branches
<1> QED
  BY <1>5, <1>6
LEMMA InveptKeeps ==
  ASSUME NEW n, NEW e, NEW c, NEW p,
         Ready(n, e, c, p), TrackInvept(n, e, c, p)
  PROVE  KeepsTrack(n, e, c, p)
<1>1. c.fn = "vmx_invept" /\ c.fn \in ReadFns /\ n \in Machines /\ InveptAt(n, e, p) /\ p \in 1..16
  BY InveptReady
<1>2. Straight(n, e, c, p, 16) /\ (p = 15 => n.r.eax \in {0, 1})
  BY DEF TrackInvept
<1>3. CASE p \in 1..14 /\ p \notin {10, 11, 13}
  BY <1>3, InveptEarly
<1>4. CASE p \in {10, 11, 13}
  BY <1>4, InveptJumps
<1>5. CASE p = 15
  <2> DEFINE h == 16
             i == <<"addl_imm_esp", h>>
             w == Exec(n, i)
             b == SysRegs(e)
             k == AbstractCall(c)
             a == <<w.r.edx, w.r.eax>>
  <2>1. i = Program[c.fn][p] /\ Plain(i) /\ i[1] # "bsrl_mesp_eax" /\ Kept(n, e)
    BY <1>1, <1>2, <1>5, InveptProgram, PlainNames DEF Arithmetic, Straight, ThroughEax
  <2>2. Kept(w, n)
    BY <1>1, KeepsStack DEF Keeps
  <2>3. w.r.eax = n.r.eax
    <3>1. h \in 0..16 /\ n.r.esp \in 0..88 /\ DOMAIN n.r = Gprs
      BY <1>1, <1>5 DEF InveptAt, Deep, Machines
    <3>2. w = addl_imm_esp(n, h)
      BY ExecOperations
    <3> HIDE DEF w, h
    <3>3. w.r = [n.r EXCEPT !["esp"] = n.r.esp + h]
      BY <1>1, <3>1, <3>2, AddEsp
    <3> QED
      BY <3>1, <3>3 DEF Gprs
  <2>4. a[2] \in {0, 1} /\ k.fn = c.fn
    BY <1>2, <1>5, <2>3, AbstractParts
  <2>6. Contract!Answers(b, k, a)
    <3> HIDE DEF a, b, k
    <3> QED
      BY <1>1, <2>4, AnswersOthers
  <2>7. Contract!Answers(SysRegs(e), AbstractCall(c), <<w.r.edx, w.r.eax>>)
    BY <2>6
  <2> HIDE DEF w, i, a, b, k
  <2>8. Finished(w, e, c) => Track(w, e, c, p + 1)
    BY <1>1, <1>5 DEF Track, TrackInvept, Straight
  <2> QED
    BY <1>1, <2>1, <2>2, <2>7, <2>8, AnswerStep DEF w
<1>6. CASE p = 16
  BY <1>1, <1>2, <1>6, InveptProgram, LastKeeps
<1> QED
  BY <1>1, <1>3, <1>4, <1>5, <1>6

(* xmhfhw_cpu_reloadcs. *)
LEMMA CsReady ==
  ASSUME NEW n, NEW e, NEW c, NEW p,
         Ready(n, e, c, p), c.fn = "xmhfhw_cpu_reloadcs"
  PROVE  n \in Machines /\ e \in Machines /\ ReloadAt(n, e, p) /\ Read32(e, 36) = c.args[1]
<1>1. Outline(n, e, c.fn, p) /\ Called(e, c)
  BY DEF Ready
<1>2. c.fn \notin QuietFns \cup EflagsFns \cup LoadFns \cup DescriptorFns
        \cup {"vmx_invept", "xmhfhw_cpu_cpuid", "spin_lock", "spin_unlock",
              "sysmemaccess_copy", "slab_entrystub"}
  BY DEF QuietFns, EflagsFns, LoadFns, DescriptorFns
<1>3. ReloadAt(n, e, p) /\ e.r.esp = 32
  BY <1>1, <1>2 DEF Outline, Entered
<1>4. c.args \in Seq(Words) /\ Len(c.args) \in 1..5 /\ \A i \in DOMAIN c.args : Read32(e, e.r.esp + 4 * i) = c.args[i]
  BY <1>1 DEF Called
<1> DEFINE k == Len(c.args)
<1>5. 1 \in 1..k /\ DOMAIN c.args = 1..k
  <2>1. k \in 1..5
    BY <1>4
  <2>2. DOMAIN c.args = 1..k
    BY <1>4
  <2> HIDE DEF k
  <2> QED
    BY <2>1, <2>2
<1> HIDE DEF k
<1>6. Read32(e, 32 + 4 * 1) = c.args[1]
  BY <1>3, <1>4, <1>5
<1> QED
  BY <1>3, <1>4, <1>5, <1>6, ReadyTyped

(* Nothing but segment selectors changes. *)
LEMMA SelectorParts ==
  ASSUME NEW w, NEW n, NEW e, NEW S, NEW v, NEW x,
         n \in Machines, Kept(n, e), S \subseteq Selectors,
         w.sys = [n.sys EXCEPT !.sel = x], w.fl = n.fl,
         \A s \in Selectors : x[s] = IF s \in S THEN v ELSE n.sys.sel[s]
  PROVE  GroupChanged(w, e, S, v)
<1>2. n.sys = e.sys /\ Bit(n.fl, EFLAGS_IF) = Bit(e.fl, EFLAGS_IF)
  BY DEF Kept
<1>3. n.sys \in SysStates
  BY Parts
<1>4. DOMAIN n.sys = SysFields \cup {"sel", "msr", "vmcs"} /\ SysFields \cap {"sel", "msr", "vmcs"} = {}
  BY <1>3 DEF SysStates, SysFields
<1>5. /\ w.sys.sel = x /\ w.sys.msr = e.sys.msr /\ w.sys.vmcs = e.sys.vmcs
      /\ \A f \in SysFields : w.sys[f] = e.sys[f]
      /\ Bit(w.fl, EFLAGS_IF) = Bit(e.fl, EFLAGS_IF)
  BY <1>2, <1>4
<1>6. S \cap DOMAIN Msr = {} /\ S \cap DOMAIN Vmcs = {}
  BY NamesApart
<1> QED
  BY <1>2, <1>5, <1>6 DEF GroupChanged

LEMMA CsEarly ==
  ASSUME NEW n, NEW e, NEW c, NEW p,
         Ready(n, e, c, p), TrackCs(n, e, c, p), p \in 1..3
  PROVE  KeepsTrack(n, e, c, p)
<1>1. c.fn = "xmhfhw_cpu_reloadcs" /\ Kept(n, e) /\ (p = 3 => Read32(n, 32) = c.args[1])
  BY DEF TrackCs
<1>2. n \in Machines /\ e \in Machines /\ ReloadAt(n, e, p) /\ Read32(e, 36) = c.args[1]
  BY <1>1, CsReady
<1>3. /\ Plain(<<"popl", "eax">>) /\ Plain(<<"pushl_mesp", 0>>) /\ Plain(<<"pushl", "eax">>)
  BY PlainNames DEF Stacks, ThroughEax
<1>4. CASE p = 1
  <2> DEFINE i == <<"popl", "eax">>
             u == Exec(n, i)
  <2>1. i = Program[c.fn][p] /\ Plain(i)
    BY <1>1, <1>3, <1>4, ReloadProgram
  <2>2. Kept(u, n)
    BY <1>2, KeepsStack DEF Keeps
  <2> HIDE DEF i, u
  <2>3. Kept(u, e) => Track(u, e, c, p + 1)
    BY <1>1, <1>4, <2>2 DEF Track, TrackCs
  <2> QED
    BY <1>1, <2>1, <2>2, <2>3, EarlyStep DEF u
<1>5. CASE p = 2
  <2> DEFINE i == <<"pushl_mesp", 0>>
             u == Exec(n, i)
             v == Read32(n, 36)
             d == pushl_mem(n, v)
  <2>1. i = Program[c.fn][p] /\ Plain(i)
    BY <1>1, <1>3, <1>5, ReloadProgram
  <2>2. Kept(u, n)
    BY <1>2, KeepsStack DEF Keeps
  <2>3. Deep(n, e, 32, 36) /\ n.r.esp = 36
    BY <1>2, <1>5 DEF ReloadAt, Deep
  <2>4. v = c.args[1] /\ v \in Words
    <3>1. 32 \in 0..84 /\ 36 \in 0..84 /\ 36 >= 32
      OBVIOUS
    <3> QED
      BY <1>2, <2>3, <3>1, DeepReads, Parts, ReadsWord
  <2>5. u = d
    <3>1. At(n, "esp", 0) = 36
      BY <2>3 DEF At
    <3> QED
      BY <3>1, ExecStackMoves DEF pushl_mesp
  <2> HIDE DEF i, u, v
  <2>6. Wrote(d, n, 32, v)
    <3>1. n.r.esp \in 4..88 /\ n.r.esp - 4 = 32
      BY <2>3
    <3>2. n \in Machines /\ v \in Words
      BY <1>2, <2>4
    <3>3. Wrote(d, n, n.r.esp - 4, v)
      BY ONLY <3>1, <3>2, Pushing
    <3> QED
      BY ONLY <3>1, <3>3
  <2>7. Read32(u, 32) = c.args[1]
    BY <2>4, <2>5, <2>6 DEF Wrote
  <2> HIDE DEF d
  <2>8. Kept(u, e) => Track(u, e, c, p + 1)
    BY <1>1, <1>5, <2>7 DEF Track, TrackCs
  <2> QED
    BY <1>1, <2>1, <2>2, <2>8, EarlyStep DEF u
<1>6. CASE p = 3
  <2> DEFINE i == <<"pushl", "eax">>
             u == Exec(n, i)
             v == n.r.eax
             d == pushl_mem(n, v)
  <2>1. i = Program[c.fn][p] /\ Plain(i)
    BY <1>1, <1>3, <1>6, ReloadProgram
  <2>2. Kept(u, n)
    BY <1>2, KeepsStack DEF Keeps
  <2>3. n.r.esp = 32
    BY <1>2, <1>6 DEF ReloadAt, Deep
  <2>4. v \in Words
    BY <1>2, Parts DEF Gprs
  <2>5. u = d
    BY ExecStackMoves
  <2> HIDE DEF i, u, v
  <2>6. Wrote(d, n, 28, v)
    <3>1. n.r.esp \in 4..88 /\ n.r.esp - 4 = 28
      BY <2>3
    <3> QED
      BY <1>2, <2>4, <3>1, Pushing
  <2> HIDE DEF d
  <2>7. Read32(d, 32) = Read32(n, 32)
    <3>1. 28 \in 0..84 /\ 32 \in 0..84 /\ 28 + 4 <= 32
      OBVIOUS
    <3> QED
      BY <2>6, <3>1, WroteElsewhere
  <2>8. Kept(u, e) => Track(u, e, c, p + 1)
    BY <1>1, <1>6, <2>5, <2>7 DEF Track, TrackCs
  <2> QED
    BY <1>1, <2>1, <2>2, <2>8, EarlyStep DEF u
<1> QED
  BY <1>4, <1>5, <1>6
LEMMA CsReturns ==
  ASSUME NEW n, NEW e, NEW c,
         n \in Machines, Kept(n, e), n.r.esp = 28, Read32(n, 32) = c.args[1]
  PROVE  GroupChanged(Return(n, "lret"), e, {"cs"}, c.args[1])
<1> DEFINE near == popl(n, "eip")
           far == addl_imm_esp(near, 4)
           cs == popl_mem(near)
           w == Return(n, "lret")
<1>1. w = [far EXCEPT !.sys.sel["cs"] = cs]
  BY DEF Return
<1>2. near \in Machines /\ near.r.esp = 32 /\ near.fl = n.fl /\ near.sys = n.sys /\ near.mem = n.mem
  <2>1. "eip" \in Gprs /\ "eip" # "esp" /\ n.r.esp \in 0..84 /\ n.r \in [Gprs -> Words]
    BY Parts DEF Gprs
  <2>2. /\ near \in Machines /\ near.r = [n.r EXCEPT !["esp"] = n.r.esp + 4, !["eip"] = Read32(n, n.r.esp)]
        /\ near.fl = n.fl /\ near.sys = n.sys /\ near.mem = n.mem
    BY <2>1, Pops
  <2> HIDE DEF near
  <2> QED
    BY <2>1, <2>2 DEF Gprs
<1> HIDE DEF near
<1>3. far \in Machines /\ far.fl = n.fl /\ far.sys = n.sys
  <2>1. 4 \in 0..16 /\ near.r.esp \in 0..88
    BY <1>2
  <2> QED
    BY <1>2, <2>1, AddEsp
<1>4. cs = c.args[1]
  <2>1. Read32(near, 32) = Read32(n, 32)
    BY <1>2 DEF Read32, Read16
  <2> QED
    BY <1>2, <2>1 DEF popl_mem
<1> HIDE DEF far, cs, w
<1> DEFINE x == [n.sys.sel EXCEPT !["cs"] = cs]
           S == {"cs"}
<1>5. w.sys = [n.sys EXCEPT !.sel = x] /\ w.fl = n.fl
  <2>1. far.sys \in SysStates
    BY <1>3, Parts
  <2> QED
    BY <1>1, <1>3, <2>1 DEF Machines, SysStates
<1>6. \A s \in Selectors : x[s] = IF s \in S THEN cs ELSE n.sys.sel[s]
  <2>1. n.sys \in SysStates
    BY Parts
  <2>2. DOMAIN n.sys.sel = Selectors
    BY <2>1 DEF SysStates
  <2> QED
    BY <2>2
<1>7. S \subseteq Selectors
  BY DEF Selectors
<1> HIDE DEF x, S
<1>8. GroupChanged(w, e, S, cs)
  BY <1>5, <1>6, <1>7, SelectorParts
<1> QED
  BY <1>4, <1>8 DEF w, S
LEMMA CsKeeps ==
  ASSUME NEW n, NEW e, NEW c, NEW p,
         Ready(n, e, c, p), TrackCs(n, e, c, p)
  PROVE  KeepsTrack(n, e, c, p)
<1>1. c.fn = "xmhfhw_cpu_reloadcs" /\ Kept(n, e) /\ p \in 1..4 /\ (p = 4 => Read32(n, 32) = c.args[1])
  BY DEF TrackCs
<1>2. n \in Machines /\ e \in Machines /\ ReloadAt(n, e, p) /\ e.sys.tr < Half /\ Outline(n, e, c.fn, p)
  BY <1>1, CsReady DEF Ready
<1>3. CASE p \in 1..3
  BY <1>3, CsEarly
<1>4. CASE p = 4
  <2> DEFINE w == Return(n, "lret")
             S == {"cs"}
             v == c.args[1]
  <2>1. n.r.esp = 28
    BY <1>2, <1>4 DEF ReloadAt, Deep
  <2>2. GroupChanged(w, e, S, v)
    BY <1>1, <1>2, <1>4, <2>1, CsReturns
  <2>3. w \in Machines
    <3>1. Moves(n, e, c.fn, p)
      BY <1>2, OutlineMoves
    <3>2. Program[c.fn][p][1] = "lret"
      BY <1>1, <1>4, ReloadProgram
    <3>3. Done(w, e, c.fn)
      BY <3>1, <3>2 DEF Moves, Returns
    <3> HIDE DEF w
    <3> QED
      BY <1>1, <3>3 DEF Done, LeftFrame
  <2>4. S \subseteq Selectors \cup DOMAIN Msr \cup DOMAIN Vmcs
    BY DEF Selectors
  <2>5. Contract!Changes(SysRegs(e), AbstractCall(c)) = [i \in S |-> v]
    <3> DEFINE b == SysRegs(e)
               k == AbstractCall(c)
    <3>1. k.fn = c.fn /\ k.args = c.args
      BY AbstractParts
    <3> HIDE DEF b, k
    <3>2. Contract!Changes(b, k) = [i \in {"cs"} |-> k.args[1]]
      BY <1>1, <3>1, ChangesTables
    <3> QED
      BY <3>1, <3>2 DEF b, k
  <2>6. c.fn \in WriteFns
    BY <1>1 DEF WriteFns
  <2> HIDE DEF w, S, v
  <2>7. Finished(w, e, c)
    BY <1>2, <2>2, <2>3, <2>4, <2>5, <2>6, FinishGroup
  <2>8. Stays(w, n, e, c)
    BY <1>1, <2>7, StaysTarget DEF Finished
  <2>9. Program[c.fn][p][1] = "lret"
    BY <1>1, <1>4, ReloadProgram
  <2> QED
    BY <2>7, <2>8, <2>9 DEF KeepsTrack, Plain, Branches, Returns, ThroughEax, w
<1> QED
  BY <1>1, <1>3, <1>4

(* xmhfhw_cpu_reloaddsregs. *)
LEMMA DsPrograms ==
  LET prog == Program["xmhfhw_cpu_reloaddsregs"]
  IN  /\ prog[1] = <<"movl_mesp", 4, "eax">> /\ prog[2] = <<"movw_ax_seg", "ds">> /\ prog[3] = <<"movw_ax_seg", "es">>
      /\ prog[4] = <<"movw_ax_seg", "fs">> /\ prog[5] = <<"movw_ax_seg", "gs">> /\ prog[6] = <<"movw_ax_seg", "ss">>
      /\ prog[7] = <<"ret">>
  BY DEF Program, reloaddsregs
LEMMA DataSegments ==
  /\ DataSegs[1] = "ds" /\ DataSegs[2] = "es" /\ DataSegs[3] = "fs" /\ DataSegs[4] = "gs" /\ DataSegs[5] = "ss"
  BY DEF DataSegs
LEMMA DsSegments ==
  ASSUME NEW p, p \in 2..6
  PROVE  LET s == DataSegs[p - 1]
         IN  /\ Program["xmhfhw_cpu_reloaddsregs"][p] = <<"movw_ax_seg", s>>
             /\ s \in Selectors /\ Reloaded(p + 1) = Reloaded(p) \cup {s}
<1> DEFINE q == p - 1
           s == DataSegs[q]
<1>1. Program["xmhfhw_cpu_reloaddsregs"][p] = <<"movw_ax_seg", s>>
  <2>0. p = 2 \/ p = 3 \/ p = 4 \/ p = 5 \/ p = 6
    OBVIOUS
  <2>1. (p = 2 => q = 1) /\ (p = 3 => q = 2) /\ (p = 4 => q = 3) /\ (p = 5 => q = 4) /\ (p = 6 => q = 5)
    OBVIOUS
  <2> HIDE DEF q
  <2> QED
    BY <2>0, <2>1, DsPrograms, DataSegments
<1>2. s \in Selectors
  <2>1. q \in 1..5
    OBVIOUS
  <2> HIDE DEF q
  <2> QED
    BY <2>1, DataSegments DEF Selectors
<1>3. Reloaded(p + 1) = Reloaded(p) \cup {s}
  <2> DEFINE a == p - 2
  <2>1. 1..((p + 1) - 2) = (1..a) \cup {q}
    OBVIOUS
  <2> DEFINE D(x) == DataSegs[x]
             A == 1..((p + 1) - 2)
             B == 1..a
  <2>2. Reloaded(p + 1) = {D(x) : x \in A} /\ Reloaded(p) = {D(x) : x \in B}
    BY DEF Reloaded
  <2>3. s = D(q) /\ A = B \cup {q}
    BY <2>1
  <2> HIDE DEF D, A, B, q, s
  <2> QED
    BY <2>2, <2>3
<1> QED
  BY <1>1, <1>2, <1>3
LEMMA ReloadedAll ==
  Reloaded(7) = {"ds", "es", "fs", "gs", "ss"} /\ Reloaded(1) = {} /\ Reloaded(2) = {}
<1>1. 1..(7 - 2) = {1, 2, 3, 4, 5} /\ 1..(1 - 2) = {} /\ 1..(2 - 2) = {}
  OBVIOUS
<1> DEFINE A == 1..(7 - 2)
           B == 1..(1 - 2)
           D == 1..(2 - 2)
<1>2. Reloaded(7) = {DataSegs[i] : i \in A} /\ Reloaded(1) = {DataSegs[i] : i \in B}
      /\ Reloaded(2) = {DataSegs[i] : i \in D}
  BY DEF Reloaded
<1>3. A = {1, 2, 3, 4, 5} /\ B = {} /\ D = {}
  BY <1>1
<1> HIDE DEF A, B, D
<1> QED
  BY <1>2, <1>3, DataSegments

LEMMA DsReady ==
  ASSUME NEW n, NEW e, NEW c, NEW p,
         Ready(n, e, c, p), c.fn = "xmhfhw_cpu_reloaddsregs"
  PROVE  /\ n \in Machines /\ e \in Machines /\ e.sys.tr < Half
         /\ c.args[1] = 16 /\ Len(c.args) >= 1 /\ Low16(16) = 16
<1>1. c.args[1] = 16 /\ e.sys.tr < Half
  BY DEF Ready, Asked
<1>2. Len(c.args) \in 1..5 /\ n \in Machines /\ e \in Machines
  BY ReadyTyped
<1>3. Low16(16) = 16
  BY Widths DEF Low16
<1>4. Len(c.args) >= 1
  <2> DEFINE l == Len(c.args)
  <2>1. l \in 1..5
    BY <1>2
  <2> HIDE DEF l
  <2>2. l >= 1
    BY <2>1
  <2> QED
    BY <2>2 DEF l
<1> QED
  BY <1>1, <1>2, <1>3, <1>4
(* What the contract makes of the data segments. *)
DataSet == {"ds", "es", "fs", "gs", "ss"}
LEMMA DsTarget ==
  ASSUME NEW e, NEW c, NEW v,
         e \in Machines, c.fn = "xmhfhw_cpu_reloaddsregs"
  PROVE  v = c.args[1] =>
           /\ Contract!Changes(SysRegs(e), AbstractCall(c)) = [i \in DataSet |-> v]
           /\ \A i \in DataSet : Target(e, c)[i] = v
<1> SUFFICES ASSUME v = c.args[1]
             PROVE  /\ Contract!Changes(SysRegs(e), AbstractCall(c)) = [i \in DataSet |-> v]
                    /\ \A i \in DataSet : Target(e, c)[i] = v
  OBVIOUS
<1> DEFINE b == SysRegs(e)
           k == AbstractCall(c)
<1>1. k.fn = c.fn /\ k.args = c.args
  BY AbstractParts
<1>2. DOMAIN b = RegNames /\ DataSet \subseteq RegNames
  BY SysRegsOf DEF RegNames, Selectors, DataSet
<1>3. Target(e, c) = Contract!After(b, k)
  BY DEF Target
<1> HIDE DEF b, k
<1>4. Contract!Changes(b, k) = [s \in DataSet |-> k.args[1]]
  BY <1>1, ChangesTables DEF DataSet
<1>5. Contract!Changes(b, k) = [i \in DataSet |-> v]
  BY <1>1, <1>4
<1>6. Contract!After(b, k) = [i \in RegNames |-> IF i \in DataSet THEN [j \in DataSet |-> v][i] ELSE b[i]]
  BY <1>2, <1>5 DEF Contract!After
<1>7. \A i \in DataSet : Contract!After(b, k)[i] = v
  BY <1>2, <1>6
<1> QED
  BY <1>3, <1>5, <1>7 DEF b, k

(* A segment is loaded. *)
LEMMA DsLoads ==
  ASSUME NEW n, NEW e, NEW c, NEW p,
         Ready(n, e, c, p), TrackDs(n, e, c, p), p \in 2..6
  PROVE  KeepsTrack(n, e, c, p)
<1>1. /\ c.fn = "xmhfhw_cpu_reloaddsregs" /\ n.r.eax = 16
      /\ n.sys = [e.sys EXCEPT !.sel = n.sys.sel] /\ Bit(n.fl, EFLAGS_IF) = Bit(e.fl, EFLAGS_IF)
      /\ \A s \in Selectors : n.sys.sel[s] = IF s \in Reloaded(p) THEN 16 ELSE e.sys.sel[s]
  BY DEF TrackDs
<1>2. n \in Machines /\ e \in Machines /\ c.args[1] = 16 /\ Low16(16) = 16
  BY <1>1, DsReady
<1> DEFINE s == DataSegs[p - 1]
           i == <<"movw_ax_seg", s>>
           w == Exec(n, i)
           x == [n.sys.sel EXCEPT ![s] = 16]
<1>3. i = Program[c.fn][p] /\ s \in Selectors /\ Reloaded(p + 1) = Reloaded(p) \cup {s}
  BY <1>1, DsSegments
<1>4. Plain(i)
  BY PlainNames DEF Segments, ThroughEax
<1>5. w = [n EXCEPT !.sys.sel[s] = Low16(n.r.eax)]
  BY ExecOthers DEF movw_ax_seg
<1> HIDE DEF s, w, i
<1>6. DOMAIN n = {"r", "fl", "sys", "mem"} /\ n.sys \in SysStates /\ e.sys \in SysStates
  BY <1>2, Parts DEF Machines
<1>7. w.r = n.r /\ w.fl = n.fl /\ w.sys = [n.sys EXCEPT !.sel = x]
  BY <1>1, <1>2, <1>5, <1>6
<1>8. DOMAIN n.sys.sel = Selectors
  BY <1>6 DEF SysStates
<1>9. \A t \in Selectors : x[t] = IF t = s THEN 16 ELSE n.sys.sel[t]
  BY <1>8
<1> HIDE DEF x
<1>10. w.sys.sel = x /\ w.sys = [e.sys EXCEPT !.sel = x]
  <2>1. DOMAIN n.sys = DOMAIN e.sys /\ "sel" \in DOMAIN e.sys
    BY <1>6 DEF SysStates
  <2>2. w.sys.sel = x
    BY <1>7, <2>1
  <2>3. w.sys = [[e.sys EXCEPT !.sel = n.sys.sel] EXCEPT !.sel = x]
    BY <1>1, <1>7
  <2> QED
    BY <2>1, <2>2, <2>3
<1>11. \A t \in Selectors : w.sys.sel[t] = IF t \in Reloaded(p + 1) THEN 16 ELSE e.sys.sel[t]
  BY <1>1, <1>3, <1>9, <1>10
<1>12. Track(w, e, c, p + 1)
  <2>1. p + 1 \in 1..7
    OBVIOUS
  <2>2. TrackDs(w, e, c, p + 1)
    BY <1>1, <1>7, <1>10, <1>11, <2>1 DEF TrackDs
  <2> QED
    BY <2>2 DEF Track
<1>13. Stays(w, n, e, c)
  <2>1. ASSUME NEW t \in RegNames
        PROVE  \/ SysRegs(w)[t] = SysRegs(n)[t]
               \/ SysRegs(n)[t] = SysRegs(e)[t] /\ SysRegs(w)[t] = Target(e, c)[t]
    <3>1. CASE t \in Selectors
      <4>1. SysRegs(w)[t] = w.sys.sel[t] /\ SysRegs(n)[t] = n.sys.sel[t] /\ SysRegs(e)[t] = e.sys.sel[t]
        BY <3>1, SysRegsOf
      <4>2. CASE t # s
        BY <3>1, <4>1, <4>2, <1>9, <1>10
      <4>3. CASE t = s /\ t \in Reloaded(p)
        BY <3>1, <4>1, <4>3, <1>1, <1>9, <1>10
      <4>4. CASE t = s /\ t \notin Reloaded(p)
        <5>1. t \in {"ds", "es", "fs", "gs", "ss"}
          <6> DEFINE q == p - 1
          <6>1. q \in 1..5
            OBVIOUS
          <6>2. t = DataSegs[q]
            BY <4>4 DEF s
          <6> HIDE DEF q
          <6> QED
            BY <6>1, <6>2, DataSegments
        <5>2. Target(e, c)[t] = 16
          <6>1. t \in DataSet
            BY <5>1 DEF DataSet
          <6>2. c.args[1] = c.args[1]
            OBVIOUS
          <6> QED
            BY <1>1, <1>2, <6>1, DsTarget
        <5> QED
          BY <3>1, <4>1, <4>4, <5>2, <1>1, <1>9, <1>10
      <4> QED
        BY <4>2, <4>3, <4>4
    <3>2. CASE t \notin Selectors
      <4>1. SysRegs(w)[t] = SysRegs(n)[t]
        <5>1. \A f \in SysFields : w.sys[f] = n.sys[f]
          BY <1>6, <1>7 DEF SysStates, SysFields
        <5>2. w.sys.msr = n.sys.msr /\ w.sys.vmcs = n.sys.vmcs
          BY <1>6, <1>7 DEF SysStates
        <5> QED
          BY <3>2, <5>1, <5>2, <1>7 DEF SysRegs, RegNames
      <4> QED
        BY <4>1
    <3> QED
      BY <3>1, <3>2
  <2> QED
    BY <2>1 DEF Stays
<1>14. Plain(Program[c.fn][p]) /\ Stays(Exec(n, Program[c.fn][p]), n, e, c)
       /\ Track(Exec(n, Program[c.fn][p]), e, c, p + 1)
  BY <1>3, <1>4, <1>12, <1>13 DEF w
<1> QED
  BY <1>14, PlainKeeps
LEMMA DsKeeps ==
  ASSUME NEW n, NEW e, NEW c, NEW p,
         Ready(n, e, c, p), TrackDs(n, e, c, p)
  PROVE  KeepsTrack(n, e, c, p)
<1>1. /\ c.fn = "xmhfhw_cpu_reloaddsregs" /\ p \in 1..7
      /\ n.sys = [e.sys EXCEPT !.sel = n.sys.sel] /\ Bit(n.fl, EFLAGS_IF) = Bit(e.fl, EFLAGS_IF)
      /\ \A s \in Selectors : n.sys.sel[s] = IF s \in Reloaded(p) THEN 16 ELSE e.sys.sel[s]
  BY DEF TrackDs
<1>2. n \in Machines /\ e \in Machines /\ e.sys.tr < Half /\ c.args[1] = 16 /\ Len(c.args) >= 1
  BY <1>1, DsReady
<1>3. CASE p \in 2..6
  BY <1>3, DsLoads
<1>4. CASE p = 1
  <2> DEFINE i == <<"movl_mesp", 4, "eax">>
             w == Exec(n, i)
  <2>1. i = Program[c.fn][p] /\ Plain(i)
    BY <1>1, <1>4, DsPrograms, PlainNames DEF LoadStores, ThroughEax
  <2>2. w.r.eax = 16 /\ Kept(w, n)
    <3>1. c.fn \in QuietFns /\ "eax" \in Gprs
      BY <1>1 DEF QuietFns, Gprs
    <3>2. w.r["eax"] = c.args[1] /\ Kept(w, n)
      BY <1>2, <3>1, LoadFirst
    <3> HIDE DEF w
    <3> QED
      BY <1>2, <3>2
  <2> HIDE DEF i, w
  <2>3. /\ w.sys = [e.sys EXCEPT !.sel = w.sys.sel] /\ Bit(w.fl, EFLAGS_IF) = Bit(e.fl, EFLAGS_IF)
        /\ \A s \in Selectors : w.sys.sel[s] = IF s \in Reloaded(2) THEN 16 ELSE e.sys.sel[s]
    BY <1>1, <1>4, <2>2, ReloadedAll DEF Kept
  <2>4. Track(w, e, c, p + 1)
    BY <1>1, <1>4, <2>2, <2>3 DEF Track, TrackDs
  <2>5. Plain(i) /\ Kept(Exec(n, i), n) /\ Track(Exec(n, i), e, c, p + 1) => KeepsTrack(n, e, c, p)
    BY <2>1, StepKept
  <2> QED
    BY <2>1, <2>2, <2>4, <2>5 DEF w
<1>5. CASE p = 7
  <2> DEFINE S == DataSet
             v == c.args[1]
             x == n.sys.sel
  <2>1. S \subseteq Selectors \cup DOMAIN Msr \cup DOMAIN Vmcs /\ S \subseteq Selectors
    BY DEF Selectors, DataSet
  <2>2. S = Reloaded(7) /\ v = 16
    BY <1>2, ReloadedAll DEF DataSet
  <2>3. Contract!Changes(SysRegs(e), AbstractCall(c)) = [i \in DataSet |-> v]
    <3>1. v = c.args[1]
      OBVIOUS
    <3> HIDE DEF v
    <3> QED
      BY <1>1, <1>2, <3>1, DsTarget
  <2> HIDE DEF S, v, x
  <2>4. GroupChanged(n, e, S, v)
    <3>1. \A s \in Selectors : x[s] = IF s \in S THEN v ELSE e.sys.sel[s]
      BY <1>1, <1>5, <2>2 DEF x
    <3>2. e.sys \in SysStates
      BY <1>2, Parts
    <3>3. /\ \A f \in SysFields : n.sys[f] = e.sys[f]
          /\ n.sys.msr = e.sys.msr /\ n.sys.vmcs = e.sys.vmcs
      BY <1>1, <3>2 DEF SysStates, SysFields
    <3>4. S \cap DOMAIN Msr = {} /\ S \cap DOMAIN Vmcs = {}
      BY <2>1, NamesApart
    <3> QED
      BY <1>1, <3>1, <3>3, <3>4 DEF GroupChanged, x
  <2>5. c.fn \in WriteFns
    BY <1>1 DEF WriteFns
  <2>6. Finished(n, e, c)
    BY <1>2, <2>1, <2>3, <2>4, <2>5, FinishGroup DEF S
  <2>7. Program[c.fn][p][1] = "ret"
    BY <1>1, <1>5, DsPrograms
  <2> QED
    BY <1>2, <2>6, <2>7, ReturnKeepsTrack
<1> QED
  BY <1>1, <1>3, <1>4, <1>5

(* Whatever the function, the next instruction keeps to the contract. *)
LEMMA TrackKeeps ==
  ASSUME NEW n, NEW e, NEW c, NEW p,
         Ready(n, e, c, p), Track(n, e, c, p)
  PROVE  KeepsTrack(n, e, c, p)
<1>1. CASE TrackIdle(n, e, c, p)
  BY <1>1, IdleKeeps
<1>2. CASE TrackOne(n, e, c, p)
  BY <1>2, OneFnsKeep
<1>3. CASE TrackEax(n, e, c, p)
  BY <1>3, EaxFnsKeep
<1>4. CASE TrackEcx(n, e, c, p)
  BY <1>4, EcxFnsKeep
<1>5. CASE TrackLoad(n, e, c, p)
  BY <1>5, LoadKeeps
<1>6. CASE TrackCr(n, e, c, p)
  BY <1>6, CrKeeps
<1>7. CASE TrackTr(n, e, c, p)
  BY <1>7, TrKeeps
<1>8. CASE TrackPushfl(n, e, c, p)
  BY <1>8, PushflKeeps
<1>9. CASE TrackPopfl(n, e, c, p)
  BY <1>9, PopflKeeps
<1>10. CASE TrackOutl(n, e, c, p)
  BY <1>10, OutlKeeps
<1>11. CASE TrackVmwrite(n, e, c, p)
  BY <1>11, VmwriteKeeps
<1>12. CASE TrackTriple(n, e, c, p)
  BY <1>12, TripleKeeps
<1>13. CASE TrackSgdt(n, e, c, p)
  BY <1>13, SgdtKeeps
<1>14. CASE TrackPort(n, e, c, p)
  BY <1>14, PortKeeps
<1>15. CASE TrackVmx(n, e, c, p)
  BY <1>15, VmxKeeps
<1>16. CASE TrackInvept(n, e, c, p)
  BY <1>16, InveptKeeps
<1>17. CASE TrackCs(n, e, c, p)
  BY <1>17, CsKeeps
<1>18. CASE TrackDs(n, e, c, p)
  BY <1>18, DsKeeps
<1> QED
  BY <1>1, <1>2, <1>3, <1>4, <1>5, <1>6, <1>7, <1>8, <1>9, <1>10, <1>11, <1>12, <1>13, <1>14, <1>15, <1>16, <1>17, <1>18 DEF Track

(* A call begins with nothing done. *)
LEMMA TrackBegins ==
  ASSUME NEW e, NEW c,
         e \in Machines, Shape(c.fn, c.args)
  PROVE  Track(e, e, c, 1)
<1>1. Kept(e, e)
  BY DEF Kept
<1>2. ASSUME NEW last, last \in {2, 3, 4, 5, 6, 16} PROVE Straight(e, e, c, 1, last)
  BY <1>1, <1>2 DEF Straight
<1>3. \/ c.fn \in IdleFns \cup OneFns \cup EaxFns \cup EcxFns \cup LoadFns \cup CrFns \cup TripleFns \cup PortFns \cup VmxFns
      \/ c.fn \in {"read_tr_sel", "read_eflags", "write_eflags", "outl", "vmwrite", "getgdtbase", "vmx_invept",
                  "xmhfhw_cpu_reloadcs", "xmhfhw_cpu_reloaddsregs"}
  <2>1. CASE c.fn \in QuietFns
    BY <2>1 DEF QuietFns, IdleFns, OneFns, EaxFns, EcxFns, CrFns, TripleFns, PortFns, VmxFns
  <2>2. CASE c.fn \notin QuietFns
    BY <2>2 DEF Shape, WordFns, LockFns, DescriptorFns, EflagsFns, IdleFns
  <2> QED
    BY <2>1, <2>2
<1>4. CASE c.fn \in IdleFns
  BY <1>1, <1>4 DEF Track, TrackIdle
<1>5. CASE c.fn \in OneFns
  <2>1. TrackOne(e, e, c, 1)
    BY <1>2, <1>5 DEF TrackOne
  <2> QED
    BY <2>1 DEF Track
<1>6. CASE c.fn \in EaxFns
  <2>1. TrackEax(e, e, c, 1)
    BY <1>2, <1>6 DEF TrackEax
  <2> QED
    BY <2>1 DEF Track
<1>7. CASE c.fn \in EcxFns
  <2>1. TrackEcx(e, e, c, 1)
    BY <1>2, <1>7 DEF TrackEcx
  <2> QED
    BY <2>1 DEF Track
<1>8. CASE c.fn \in LoadFns
  <2>1. TrackLoad(e, e, c, 1)
    BY <1>2, <1>8 DEF TrackLoad
  <2> QED
    BY <2>1 DEF Track
<1>9. CASE c.fn \in CrFns
  <2>1. TrackCr(e, e, c, 1)
    BY <1>2, <1>9 DEF TrackCr
  <2> QED
    BY <2>1 DEF Track
<1>10. CASE c.fn \in TripleFns
  <2>1. TrackTriple(e, e, c, 1)
    BY <1>2, <1>10 DEF TrackTriple
  <2> QED
    BY <2>1 DEF Track
<1>11. CASE c.fn \in PortFns
  <2>1. TrackPort(e, e, c, 1)
    BY <1>2, <1>11 DEF TrackPort
  <2> QED
    BY <2>1 DEF Track
<1>12. CASE c.fn \in VmxFns
  <2>1. TrackVmx(e, e, c, 1)
    BY <1>2, <1>12 DEF TrackVmx
  <2> QED
    BY <2>1 DEF Track
<1>13. CASE c.fn = "read_tr_sel"
  <2>1. TrackTr(e, e, c, 1)
    BY <1>2, <1>13 DEF TrackTr
  <2> QED
    BY <2>1 DEF Track
<1>14. CASE c.fn = "read_eflags"
  <2>1. TrackPushfl(e, e, c, 1)
    BY <1>2, <1>14 DEF TrackPushfl
  <2> QED
    BY <2>1 DEF Track
<1>15. CASE c.fn = "write_eflags"
  <2>1. TrackPopfl(e, e, c, 1)
    BY <1>2, <1>15 DEF TrackPopfl
  <2> QED
    BY <2>1 DEF Track
<1>16. CASE c.fn = "outl"
  <2>1. TrackOutl(e, e, c, 1)
    BY <1>2, <1>16 DEF TrackOutl
  <2> QED
    BY <2>1 DEF Track
<1>17. CASE c.fn = "vmwrite"
  <2>1. TrackVmwrite(e, e, c, 1)
    BY <1>2, <1>17 DEF TrackVmwrite
  <2> QED
    BY <2>1 DEF Track
<1>18. CASE c.fn = "getgdtbase"
  <2>1. TrackSgdt(e, e, c, 1)
    BY <1>2, <1>18 DEF TrackSgdt
  <2> QED
    BY <2>1 DEF Track
<1>19. CASE c.fn = "vmx_invept"
  <2>1. TrackInvept(e, e, c, 1)
    BY <1>2, <1>19 DEF TrackInvept
  <2> QED
    BY <2>1 DEF Track
<1>20. CASE c.fn = "xmhfhw_cpu_reloadcs"
  BY <1>1, <1>20 DEF Track, TrackCs
<1>21. CASE c.fn = "xmhfhw_cpu_reloaddsregs"
  <2>1. e.sys = [e.sys EXCEPT !.sel = e.sys.sel]
    BY Parts DEF SysStates
  <2>2. \A s \in Selectors : e.sys.sel[s] = IF s \in Reloaded(1) THEN 16 ELSE e.sys.sel[s]
    BY ReloadedAll
  <2>3. TrackDs(e, e, c, 1)
    BY <1>21, <2>1, <2>2 DEF TrackDs
  <2> QED
    BY <2>3 DEF Track
<1> QED
  BY <1>3, <1>4, <1>5, <1>6, <1>7, <1>8, <1>9, <1>10, <1>11, <1>12, <1>13, <1>14, <1>15, <1>16, <1>17, <1>18, <1>19, <1>20, <1>21

(* What the harness passes to the functions whose contract depends on it. *)
AskedFns == {"outl", "inl", "vmwrite", "wrmsr64", "xsetbv", "xgetbv", "xmhfhw_cpu_reloaddsregs"}
LEMMA CallAsked == \A c \in Calls : Asked(c.fn, c.args)
<1> DEFINE Ok(T) == \A c \in T : Asked(c.fn, c.args)
<1>1. ASSUME NEW fns, NEW S, fns \cap AskedFns = {} PROVE Ok(With(fns, S))
  <2>1. ASSUME NEW c \in With(fns, S) PROVE Asked(c.fn, c.args)
    <3>1. c.fn \notin AskedFns
      BY <1>1 DEF With
    <3> QED
      BY <3>1 DEF Asked, AskedFns
  <2> QED
    BY <2>1
<1>2. Ok(drv_bsrl_cpuid)
  <2>1. Ok(With({"bsrl"}, One(Values)))
    <3> DEFINE S == One(Values)
               F == {"bsrl"}
    <3>1. F \cap AskedFns = {}
      BY DEF AskedFns
    <3> HIDE DEF S, F
    <3>2. Ok(With(F, S))
      BY <1>1, <3>1
    <3> QED
      BY <3>2 DEF S, F
  <2>2. Ok(With({"xmhfhw_cpu_cpuid"}, {<<op, EaxVar, EbxVar, EcxVar, EdxVar>> : op \in 0..2}))
    <3> DEFINE S == {<<op, EaxVar, EbxVar, EcxVar, EdxVar>> : op \in 0..2}
               F == {"xmhfhw_cpu_cpuid"}
    <3>1. F \cap AskedFns = {}
      BY DEF AskedFns
    <3> HIDE DEF S, F
    <3>2. Ok(With(F, S))
      BY <1>1, <3>1
    <3> QED
      BY <3>2 DEF S, F
  <2> QED
    BY <2>1, <2>2 DEF drv_bsrl_cpuid
<1>3. Ok(drv_intr_descriptors)
  <2>1. Ok(With({"xmhfhw_cpu_disable_intr", "enable_intr", "getgdtbase", "getidtbase"}, One({0})))
    <3> DEFINE S == One({0})
               F == {"xmhfhw_cpu_disable_intr", "enable_intr", "getgdtbase", "getidtbase"}
    <3>1. F \cap AskedFns = {}
      BY DEF AskedFns
    <3> HIDE DEF S, F
    <3>2. Ok(With(F, S))
      BY <1>1, <3>1
    <3> QED
      BY <3>2 DEF S, F
  <2> QED
    BY <2>1 DEF drv_intr_descriptors
<1>4. Ok(drv_ports_in)
  <2>1. ASSUME NEW c \in With({"inb", "inw", "inl"}, One({0, PCI_CONFIG_ADDR_PORT})) PROVE Asked(c.fn, c.args)
    <3>1. c.fn \in {"inb", "inw", "inl"} /\ c.args \in One({0, PCI_CONFIG_ADDR_PORT})
      BY DEF With
    <3> QED
      BY <3>1 DEF One, Asked
  <2> QED
    BY <2>1 DEF drv_ports_in
<1>5. Ok(drv_invept)
  <2>1. Ok(With({"vmx_invept"}, {<<1, 2, 3, 4>>}))
    <3> DEFINE S == {<<1, 2, 3, 4>>}
               F == {"vmx_invept"}
    <3>1. F \cap AskedFns = {}
      BY DEF AskedFns
    <3> HIDE DEF S, F
    <3>2. Ok(With(F, S))
      BY <1>1, <3>1
    <3> QED
      BY <3>2 DEF S, F
  <2> QED
    BY <2>1 DEF drv_invept
<1>6. Ok(drv_loads)
  <2>1. Ok(With({"xmhfhw_cpu_loadGDT", "xmhfhw_cpu_loadIDT"}, One({Desc})))
    <3> DEFINE S == One({Desc})
               F == {"xmhfhw_cpu_loadGDT", "xmhfhw_cpu_loadIDT"}
    <3>1. F \cap AskedFns = {}
      BY DEF AskedFns
    <3> HIDE DEF S, F
    <3>2. Ok(With(F, S))
      BY <1>1, <3>1
    <3> QED
      BY <3>2 DEF S, F
  <2>2. Ok(With({"xmhfhw_cpu_loadTR"}, One(Values)))
    <3> DEFINE S == One(Values)
               F == {"xmhfhw_cpu_loadTR"}
    <3>1. F \cap AskedFns = {}
      BY DEF AskedFns
    <3> HIDE DEF S, F
    <3>2. Ok(With(F, S))
      BY <1>1, <3>1
    <3> QED
      BY <3>2 DEF S, F
  <2> QED
    BY <2>1, <2>2 DEF drv_loads
<1>7. Ok(drv_ports_out)
  <2>1. ASSUME NEW c \in With({"outb", "outw", "outl"}, {<<9, p>> : p \in {0, PCI_CONFIG_ADDR_PORT}}) PROVE Asked(c.fn, c.args)
    <3>1. c.fn \in {"outb", "outw", "outl"} /\ c.args \in {<<9, p>> : p \in {0, PCI_CONFIG_ADDR_PORT}}
      BY DEF With
    <3> QED
      BY <3>1 DEF One, Asked
  <2> QED
    BY <2>1 DEF drv_ports_out
<1>8. Ok(drv_msr_tsc)
  <2>1. Ok(With({"rdmsr64"}, One(0..7)))
    <3> DEFINE S == One(0..7)
               F == {"rdmsr64"}
    <3>1. F \cap AskedFns = {}
      BY DEF AskedFns
    <3> HIDE DEF S, F
    <3>2. Ok(With(F, S))
      BY <1>1, <3>1
    <3> QED
      BY <3>2 DEF S, F
  <2>2. Ok(With({"cpu_relax", "rdtsc64"}, One({0})))
    <3> DEFINE S == One({0})
               F == {"cpu_relax", "rdtsc64"}
    <3>1. F \cap AskedFns = {}
      BY DEF AskedFns
    <3> HIDE DEF S, F
    <3>2. Ok(With(F, S))
      BY <1>1, <3>1
    <3> QED
      BY <3>2 DEF S, F
  <2> QED
    BY <2>1, <2>2 DEF drv_msr_tsc
<1>9. Ok(drv_readcr)
  <2>1. Ok(With({"read_cr0", "read_cr2", "read_cr3", "read_cr4"}, One({0})))
    <3> DEFINE S == One({0})
               F == {"read_cr0", "read_cr2", "read_cr3", "read_cr4"}
    <3>1. F \cap AskedFns = {}
      BY DEF AskedFns
    <3> HIDE DEF S, F
    <3>2. Ok(With(F, S))
      BY <1>1, <3>1
    <3> QED
      BY <3>2 DEF S, F
  <2> QED
    BY <2>1 DEF drv_readcr
<1>10. Ok(drv_readseg)
  <2>1. Ok(With({"read_segreg_cs", "read_segreg_ds", "read_segreg_es", "read_segreg_fs", "read_segreg_gs", "read_segreg_ss"}, One({0})))
    <3> DEFINE S == One({0})
               F == {"read_segreg_cs", "read_segreg_ds", "read_segreg_es", "read_segreg_fs", "read_segreg_gs", "read_segreg_ss"}
    <3>1. F \cap AskedFns = {}
      BY DEF AskedFns
    <3> HIDE DEF S, F
    <3>2. Ok(With(F, S))
      BY <1>1, <3>1
    <3> QED
      BY <3>2 DEF S, F
  <2> QED
    BY <2>1 DEF drv_readseg
<1>11. Ok(drv_readmisc)
  <2>1. Ok(With({"read_eflags", "read_esp", "read_rsp", "read_tr_sel"}, One({0})))
    <3> DEFINE S == One({0})
               F == {"read_eflags", "read_esp", "read_rsp", "read_tr_sel"}
    <3>1. F \cap AskedFns = {}
      BY DEF AskedFns
    <3> HIDE DEF S, F
    <3>2. Ok(With(F, S))
      BY <1>1, <3>1
    <3> QED
      BY <3>2 DEF S, F
  <2> QED
    BY <2>1 DEF drv_readmisc
<1>12. Ok(drv_spin)
  <2>1. Ok(With({"spin_lock", "spin_unlock"}, One({SmpLock})))
    <3> DEFINE S == One({SmpLock})
               F == {"spin_lock", "spin_unlock"}
    <3>1. F \cap AskedFns = {}
      BY DEF AskedFns
    <3> HIDE DEF S, F
    <3>2. Ok(With(F, S))
      BY <1>1, <3>1
    <3> QED
      BY <3>2 DEF S, F
  <2> QED
    BY <2>1 DEF drv_spin
<1>13. Ok(drv_vmx)
  <2>1. Ok(With({"vmclear", "vmptrld", "vmxon"}, One({SysmemDst})))
    <3> DEFINE S == One({SysmemDst})
               F == {"vmclear", "vmptrld", "vmxon"}
    <3>1. F \cap AskedFns = {}
      BY DEF AskedFns
    <3> HIDE DEF S, F
    <3>2. Ok(With(F, S))
      BY <1>1, <3>1
    <3> QED
      BY <3>2 DEF S, F
  <2>2. Ok(With({"vmread"}, One(0..3)))
    <3> DEFINE S == One(0..3)
               F == {"vmread"}
    <3>1. F \cap AskedFns = {}
      BY DEF AskedFns
    <3> HIDE DEF S, F
    <3>2. Ok(With(F, S))
      BY <1>1, <3>1
    <3> QED
      BY <3>2 DEF S, F
  <2>3. ASSUME NEW c \in With({"vmwrite"}, {<<e, 7>> : e \in 0..3}) PROVE Asked(c.fn, c.args)
    <3>1. c.fn \in {"vmwrite"} /\ c.args \in {<<e, 7>> : e \in 0..3}
      BY DEF With
    <3> QED
      BY <3>1 DEF One, Asked
  <2> QED
    BY <2>1, <2>2, <2>3 DEF drv_vmx
<1>14. Ok(drv_write)
  <2>1. Ok(With({"write_cr0", "write_cr3", "write_cr4", "write_eflags"}, One(Values)))
    <3> DEFINE S == One(Values)
               F == {"write_cr0", "write_cr3", "write_cr4", "write_eflags"}
    <3>1. F \cap AskedFns = {}
      BY DEF AskedFns
    <3> HIDE DEF S, F
    <3>2. Ok(With(F, S))
      BY <1>1, <3>1
    <3> QED
      BY <3>2 DEF S, F
  <2>2. ASSUME NEW c \in With({"wrmsr64"}, {<<n, 8, 9>> : n \in {1, 2, 5, 6}}) PROVE Asked(c.fn, c.args)
    <3>1. c.fn \in {"wrmsr64"} /\ c.args \in {<<n, 8, 9>> : n \in {1, 2, 5, 6}}
      BY DEF With
    <3> QED
      BY <3>1 DEF One, Asked
  <2>3. Ok(With({"wbinvd"}, One({0})))
    <3> DEFINE S == One({0})
               F == {"wbinvd"}
    <3>1. F \cap AskedFns = {}
      BY DEF AskedFns
    <3> HIDE DEF S, F
    <3>2. Ok(With(F, S))
      BY <1>1, <3>1
    <3> QED
      BY <3>2 DEF S, F
  <2> QED
    BY <2>1, <2>2, <2>3 DEF drv_write
<1>15. Ok(drv_xcr)
  <2>1. ASSUME NEW c \in With({"xgetbv"}, One({1})) PROVE Asked(c.fn, c.args)
    <3>1. c.fn \in {"xgetbv"} /\ c.args \in One({1})
      BY DEF With
    <3> QED
      BY <3>1 DEF One, Asked
  <2>2. ASSUME NEW c \in With({"xsetbv"}, {<<1, 3, 4>>}) PROVE Asked(c.fn, c.args)
    <3>1. c.fn \in {"xsetbv"} /\ c.args \in {<<1, 3, 4>>}
      BY DEF With
    <3> QED
      BY <3>1 DEF One, Asked
  <2> QED
    BY <2>1, <2>2 DEF drv_xcr
<1>16. Ok(drv_sysmemaccess_bcopy)
  <2>1. Ok(With({"sysmemaccess_copy"}, {<<SysmemDst, SysmemSrc, 4>>}))
    <3> DEFINE S == {<<SysmemDst, SysmemSrc, 4>>}
               F == {"sysmemaccess_copy"}
    <3>1. F \cap AskedFns = {}
      BY DEF AskedFns
    <3> HIDE DEF S, F
    <3>2. Ok(With(F, S))
      BY <1>1, <3>1
    <3> QED
      BY <3>2 DEF S, F
  <2> QED
    BY <2>1 DEF drv_sysmemaccess_bcopy
<1>17. Ok(drv_other)
  <2>1. Ok(With({"hlt"}, One({0})))
    <3> DEFINE S == One({0})
               F == {"hlt"}
    <3>1. F \cap AskedFns = {}
      BY DEF AskedFns
    <3> HIDE DEF S, F
    <3>2. Ok(With(F, S))
      BY <1>1, <3>1
    <3> QED
      BY <3>2 DEF S, F
  <2>2. ASSUME NEW c \in With({"xmhfhw_cpu_reloadcs", "xmhfhw_cpu_reloaddsregs"}, One({16})) PROVE Asked(c.fn, c.args)
    <3>1. c.fn \in {"xmhfhw_cpu_reloadcs", "xmhfhw_cpu_reloaddsregs"} /\ c.args \in One({16})
      BY DEF With
    <3> QED
      BY <3>1 DEF One, Asked
  <2> QED
    BY <2>1, <2>2 DEF drv_other
<1>18. Ok(drv_slab)
  <2>1. Ok(With({"slab_entrystub"}, One({SlabParams})))
    <3> DEFINE S == One({SlabParams})
               F == {"slab_entrystub"}
    <3>1. F \cap AskedFns = {}
      BY DEF AskedFns
    <3> HIDE DEF S, F
    <3>2. Ok(With(F, S))
      BY <1>1, <3>1
    <3> QED
      BY <3>2 DEF S, F
  <2> QED
    BY <2>1 DEF drv_slab
<1> QED
  BY <1>2, <1>3, <1>4, <1>5, <1>6, <1>7, <1>8, <1>9, <1>10, <1>11, <1>12, <1>13, <1>14, <1>15, <1>16, <1>17, <1>18 DEF Calls

(* The descriptor that the tables are loaded from is not written. *)
DescCells == 56..61
LEMMA DescKept ==
  ASSUME NEW w, NEW n, \A a \in DescCells : w.mem[a] = n.mem[a]
  PROVE  DescAt(w) = DescAt(n)
<1>1. /\ w.mem[56] = n.mem[56] /\ w.mem[57] = n.mem[57] /\ w.mem[58] = n.mem[58]
      /\ w.mem[59] = n.mem[59] /\ w.mem[60] = n.mem[60] /\ w.mem[61] = n.mem[61]
  BY DEF DescCells
<1>2. Read16(w, 56) = Read16(n, 56) /\ Read32(w, 58) = Read32(n, 58)
  BY <1>1 DEF Read16, Read32
<1> QED
  BY <1>2 DEF DescAt, Desc
LEMMA DescCellsIn == \A a \in DescCells : a \in Memory /\ a >= StackTop /\ a >= 32
  BY DEF DescCells, Memory, StackTop

(* A call of the harness leaves the registers to the function. *)
LEMMA ParamsKeep ==
  ASSUME NEW n, NEW t, n \in Machines, t \in {0, 4, 6, 8}
  PROVE  LET w == SetParams(n, t) IN w.sys = n.sys /\ w.fl = n.fl /\ \A a \in DescCells : w.mem[a] = n.mem[a]
<1> DEFINE w1 == Write32(n, 68, t)
           w2 == Write32(w1, 72, 5)
           w3 == Write32(w2, 76, 6)
<1>1. t \in Words /\ 5 \in Words /\ 6 \in Words
  <2>1. t \in 0..1024 /\ 5 \in 0..1024 /\ 6 \in 0..1024
    OBVIOUS
  <2> QED
    BY <2>1, Small
<1>2. w1 \in Machines /\ w1.fl = n.fl /\ w1.sys = n.sys /\ Wrote(w1, n, 68, t)
  BY <1>1, Stores
<1> HIDE DEF w1
<1>3. w2 \in Machines /\ w2.fl = w1.fl /\ w2.sys = w1.sys /\ Wrote(w2, w1, 72, 5)
  BY <1>1, <1>2, Stores
<1> HIDE DEF w2
<1>4. w3 \in Machines /\ w3.fl = w2.fl /\ w3.sys = w2.sys /\ Wrote(w3, w2, 76, 6)
  <2> DEFINE a == 76
             x == 6
  <2>1. a \in 0..84 /\ x \in Words
    BY <1>1
  <2> HIDE DEF a, x
  <2>2. LET w == Write32(w2, a, x) IN w \in Machines /\ w.fl = w2.fl /\ w.sys = w2.sys /\ Wrote(w, w2, a, x)
    BY <1>3, <2>1, Stores
  <2> QED
    BY <2>2 DEF a, x
<1>5. SetParams(n, t) = w3
  BY DEF SetParams, SlabParams, w3, w2, w1
<1> HIDE DEF w3
<1>6. \A a \in DescCells : w3.mem[a] = n.mem[a]
  <2>1. \A a \in DescCells : a \in Memory /\ a \notin WordAt(68) /\ a \notin WordAt(72) /\ a \notin WordAt(76)
    BY DEF DescCells, Memory, WordAt
  <2> QED
    BY <2>1, <1>2, <1>3, <1>4 DEF Wrote
<1> QED
  BY <1>2, <1>3, <1>4, <1>5, <1>6
LEMMA CallKept ==
  ASSUME NEW n, NEW c, NEW t, n \in Machines, n.r.esp = StackTop, c \in Calls, t \in CallTypes
  PROVE  LET set == IF c.fn = "slab_entrystub" THEN SetParams(n, t) ELSE n
             w == CASM_FUNCCALL(cabi_establish(set), c.args)
         IN  Kept(w, n) /\ w.sys = n.sys /\ DescAt(w) = DescAt(n)
<1> DEFINE set == IF c.fn = "slab_entrystub" THEN SetParams(n, t) ELSE n
           k == Len(c.args)
<1>0. t \in {0, 4, 6, 8}
  BY DEF CallTypes, CALL_FROM_VfT_PROG, CALL_EXCEPTION, CALL_INTERCEPT, CALL_uVT_uVU_PROG_TO_VfT_PROG
<1>1. /\ set \in Machines /\ set.r.esp = StackTop
      /\ set.sys = n.sys /\ set.fl = n.fl /\ \A a \in DescCells : set.mem[a] = n.mem[a]
  BY <1>0, ParamsSet, ParamsKeep
<1> HIDE DEF set
<1> DEFINE v == cabi_establish(set)
<1>2. v \in Machines /\ v.mem = set.mem /\ v.r.esp = StackTop
  BY <1>1, Establishes
<1>3. v.sys = n.sys /\ v.fl = n.fl
  BY <1>1 DEF cabi_establish, Machines
<1> HIDE DEF v
<1>4. c.args \in Seq(Words) /\ k \in 1..MaxArgs
  <2>1. c.args \in Seq(Words) /\ k \in 1..5
    BY CallShapes, ShapeArgs
  <2> HIDE DEF k
  <2> QED
    BY <2>1 DEF MaxArgs
<1> DEFINE w == CASM_FUNCCALL(v, c.args)
<1>5. w.fl = v.fl /\ w.sys = v.sys /\ \A a \in Memory : a >= StackTop => w.mem[a] = v.mem[a]
  BY <1>2, <1>4, FunctionCalled, Zenon
<1> HIDE DEF w, k
<1>6. \A a \in DescCells : w.mem[a] = n.mem[a]
  BY <1>1, <1>2, <1>5, DescCellsIn
<1>7. Kept(w, n) /\ w.sys = n.sys /\ DescAt(w) = DescAt(n)
  BY <1>3, <1>5, <1>6, DescKept DEF Kept
<1> QED
  BY <1>7 DEF w, v, set
(* Nor does a function that returns write it. *)
LEMMA DoneDesc ==
  ASSUME NEW n, NEW e, NEW f, Done(n, e, f), e.r.esp \in 16..32
  PROVE  DescAt(n) = DescAt(e)
<1>0. OutOf("slab_entrystub") = {}
  BY DEF OutOf, LockFns
<1>1. PICK k \in 0..40 : Frame(n, e, k, OutOf(f))
  <2>1. CASE f = "slab_entrystub"
    <3>1. Frame(n, e, 32, {})
      BY <2>1, DoneLeft DEF StubLeft
    <3>2. 32 \in 0..40
      OBVIOUS
    <3> QED
      BY <1>0, <2>1, <3>1, <3>2
  <2>2. CASE f # "slab_entrystub"
    <3>1. Frame(n, e, e.r.esp + 4, OutOf(f))
      BY <2>2, DoneLeft DEF LeftFrame
    <3>2. e.r.esp + 4 \in 0..40
      OBVIOUS
    <3> QED
      BY <3>1, <3>2
  <2> QED
    BY <2>1, <2>2
<1>2. \A a \in DescCells : a \in Memory /\ a >= k
  BY DEF DescCells, Memory
<1>3. \A a \in DescCells : a \notin OutOf(f)
  <2>1. \A a \in DescCells : a \notin CpuidOut /\ a \notin LockOut /\ a \notin CopyOut
    BY DEF DescCells, CpuidOut, LockOut, CopyOut
  <2> QED
    BY <2>1 DEF OutOf
<1>4. \A a \in DescCells : n.mem[a] = e.mem[a]
  BY <1>1, <1>2, <1>3 DEF Frame
<1> QED
  BY <1>4, DescKept

(* The inductive invariant of the refinement: how much of its work the
   call in progress has done. *)
ContractInv ==
  /\ CallInv
  /\ phase = "idle" => m.sys.tr < Half /\ DescAt(m) = DescAt(InitMem)
  /\ phase \notin {"idle", "done"} => Asked(call.fn, call.args) /\ entry.sys.tr < Half /\ DescAt(entry) = DescAt(InitMem)
  /\ phase = "run" => Track(m, entry, call, pc)
  /\ phase = "returned" => Finished(m, entry, call)

LEMMA ContractInvInit == Init => ContractInv
<1> SUFFICES ASSUME Init PROVE ContractInv
  OBVIOUS
<1>1. CallInv /\ m = InitMem /\ phase = "idle"
  BY CallInvInit DEF Init
<1>2. InitMem.sys = InitSys
  <2> DEFINE zero == [r |-> InitRegs, fl |-> 0, sys |-> InitSys, mem |-> [a \in Memory |-> 0]]
             m1 == Write32(zero, EcxVar, 7)
             m2 == Write32(m1, SysmemSrc, 259)
             m3 == Write16(m2, Desc, 47)
             m4 == Write32(m3, Desc + 2, 82220)
             m5 == Write32(m4, SmpLock, 1)
  <2>1. zero.sys = InitSys /\ zero.fl = 0 /\ DOMAIN zero = {"r", "fl", "sys", "mem"}
    OBVIOUS
  <2>2. InitMem = m5
    BY DEF InitMem
  <2> HIDE DEF zero
  <2>3. m1.sys = zero.sys /\ m1.fl = zero.fl /\ DOMAIN m1 = {"r", "fl", "sys", "mem"}
    BY <2>1, KeptWrite
  <2> HIDE DEF m1
  <2>4. m2.sys = zero.sys /\ m2.fl = zero.fl /\ DOMAIN m2 = {"r", "fl", "sys", "mem"}
    BY <2>3, KeptWrite
  <2> HIDE DEF m2
  <2>5. m3.sys = zero.sys /\ m3.fl = zero.fl /\ DOMAIN m3 = {"r", "fl", "sys", "mem"}
    BY <2>4, KeptWrite16
  <2> HIDE DEF m3
  <2>6. m4.sys = zero.sys /\ m4.fl = zero.fl /\ DOMAIN m4 = {"r", "fl", "sys", "mem"}
    BY <2>5, KeptWrite
  <2> HIDE DEF m4
  <2>7. m5.sys = zero.sys
    BY <2>6, KeptWrite
  <2> QED
    BY <2>1, <2>2, <2>7
<1>3. InitSys.tr < Half
  BY Widths DEF InitSys
<1> QED
  BY <1>1, <1>2, <1>3 DEF ContractInv

(* What a step of a running function does. *)
LEMMA RunReady ==
  ASSUME ContractInv, phase = "run"
  PROVE  Ready(m, entry, call, pc) /\ KeepsTrack(m, entry, call, pc)
<1>1. Ready(m, entry, call, pc)
  BY DEF ContractInv, CallInv, Ready
<1> QED
  BY <1>1, TrackKeeps DEF ContractInv
(* It changes registers as the contract allows, or ends the call. *)
RunStep ==
  /\ phase = "run" /\ phase' \notin {"idle", "done"} /\ entry' = entry /\ call' = call /\ answer' = answer
  /\ Stays(m', m, entry, call)
  /\ phase' = "run" => Track(m', entry, call, pc')
  /\ phase' = "returned" => Finished(m', entry, call)
LEMMA StaysSame ==
  ASSUME NEW n, NEW e, NEW c PROVE Stays(n, n, e, c)
  BY DEF Stays
LEMMA RunSteps ==
  ASSUME ContractInv, Execute \/ StrayAccess \/ Branch \/ CallC \/ FuncReturn \/ JmpSentinel
  PROVE  RunStep
<1> DEFINE i == Program[call.fn][pc]
<1>1. phase = "run"
  BY DEF Execute, StrayAccess, Branch, CallC, FuncReturn, JmpSentinel
<1>2. KeepsTrack(m, entry, call, pc)
  BY <1>1, RunReady
<1>3. CASE Execute
  <2>1. /\ phase' = "run" /\ call' = call /\ entry' = entry /\ answer' = answer
        /\ m' = Exec(m, i) /\ pc' = pc + 1 /\ (i[1] = "bsrl_mesp_eax" => bsrl_ends(m, i[2]))
        /\ ~Stray(m, i) /\ i[1] \notin Branches \cup Returns \cup {"call_c_1p", "jmpsentinel"}
    BY <1>3 DEF Execute, Insn
  <2>0. Moves(m, entry, call.fn, pc)
    BY <1>1, RunReady, OutlineMoves DEF Ready
  <2>3. Plain(i)
    BY <2>0, <2>1 DEF Moves, Plain
  <2>2. Track(Exec(m, i), entry, call, pc + 1) /\ Stays(Exec(m, i), m, entry, call)
    BY <1>2, <2>1, <2>3 DEF KeepsTrack
  <2> QED
    BY <1>1, <2>1, <2>2 DEF RunStep
<1>4. CASE Branch
  <2>1. /\ phase' = "run" /\ call' = call /\ entry' = entry /\ answer' = answer
        /\ m' = m /\ pc' = (IF Taken(m, i[1]) THEN i[2] ELSE pc + 1) /\ i[1] \in Branches
    BY <1>4 DEF Branch, Insn
  <2>2. Track(m, entry, call, IF Taken(m, i[1]) THEN i[2] ELSE pc + 1)
    BY <1>2, <2>1 DEF KeepsTrack
  <2> QED
    BY <1>1, <2>1, <2>2, StaysSame DEF RunStep
<1>5. CASE CallC
  <2>1. /\ phase' = "run" /\ call' = call /\ entry' = entry /\ answer' = answer
        /\ pc' = pc + 1 /\ i[1] = "call_c_1p"
    BY <1>1, <1>5 DEF CallC, Insn
  <2>2. PICK x \in Values, y \in Values : m' = ReturnedFromC(m, x, y)
    BY <1>5 DEF CallC, ReturnedFromC
  <2>3. x \in Words /\ y \in Words
    BY ValuesAssumption DEF Words
  <2>4. Track(ReturnedFromC(m, x, y), entry, call, pc + 1) /\ Stays(ReturnedFromC(m, x, y), m, entry, call)
    BY <1>2, <2>1, <2>3 DEF KeepsTrack
  <2> QED
    BY <1>1, <2>1, <2>2, <2>4 DEF RunStep
<1>6. CASE FuncReturn
  <2>1. /\ phase' = "returned" /\ call' = call /\ entry' = entry /\ answer' = answer
        /\ m' = Return(m, i[1]) /\ i[1] \in Returns
    BY <1>6 DEF FuncReturn, Insn
  <2>2. Finished(Return(m, i[1]), entry, call) /\ Stays(Return(m, i[1]), m, entry, call)
    BY <1>2, <2>1 DEF KeepsTrack
  <2> QED
    BY <1>1, <2>1, <2>2 DEF RunStep
<1>7. CASE JmpSentinel
  <2>1. phase' = "left" /\ call' = call /\ entry' = entry /\ answer' = answer /\ m' = m
    BY <1>7 DEF JmpSentinel
  <2> QED
    BY <1>1, <2>1, StaysSame DEF RunStep
<1>8. CASE StrayAccess
  <2>1. call' = call /\ entry' = entry /\ answer' = answer /\ i[1] \in ThroughEax
    BY <1>8 DEF StrayAccess, Stray, Insn
  <2>2. CASE phase' = "stopped" /\ m' = m
    BY <1>1, <2>1, <2>2, StaysSame DEF RunStep
  <2>3. CASE phase' = "run" /\ m' \in Undefined(m, i) /\ pc' = pc + 1
    <3>1. Track(m', entry, call, pc + 1) /\ Stays(m', m, entry, call)
      BY <1>2, <2>1, <2>3 DEF KeepsTrack
    <3> QED
      BY <1>1, <2>1, <2>3, <3>1 DEF RunStep
  <2> QED
    BY <1>8, <2>2, <2>3 DEF StrayAccess, Insn
<1> QED
  BY <1>3, <1>4, <1>5, <1>6, <1>7, <1>8

(* A call of the harness, and its end. *)
CallStep ==
  /\ phase = "idle" /\ phase' = "run" /\ answer' = answer
  /\ SysRegs(m') = SysRegs(m) /\ entry' = m' /\ m'.sys.tr < Half /\ DescAt(m') = DescAt(InitMem)
  /\ AbstractCall(call') \in {AbstractCall(c) : c \in Calls}
  /\ Asked(call'.fn, call'.args) /\ Shape(call'.fn, call'.args)
  /\ pc' = 1 /\ m' \in Machines
LEMMA CallSteps ==
  ASSUME ContractInv, Call
  PROVE  CallStep
<1>1. /\ phase = "idle" /\ m \in Machines /\ m.r.esp = StackTop /\ Read32(m, SmpLock) \in {0, 1}
      /\ m.sys.tr < Half /\ DescAt(m) = DescAt(InitMem)
  BY DEF Call, ContractInv, CallInv
<1>2. PICK c \in Calls, t \in CallTypes :
        /\ m' = CASM_FUNCCALL(cabi_establish(IF c.fn = "slab_entrystub" THEN SetParams(m, t) ELSE m), c.args)
        /\ entry' = m' /\ call' = [fn |-> c.fn, args |-> c.args]
  BY DEF Call
<1>3. Kept(m', m) /\ m'.sys = m.sys /\ DescAt(m') = DescAt(m)
  BY <1>1, <1>2, CallKept
<1>4. SysRegs(m') = SysRegs(m)
  BY <1>3, KeptRegs
<1>5. call'.fn = c.fn /\ call'.args = c.args
  BY <1>2
<1>6. AbstractCall(call') = AbstractCall(c)
  BY <1>5 DEF AbstractCall
<1>7. Asked(call'.fn, call'.args) /\ Shape(call'.fn, call'.args)
  BY <1>5, CallAsked, CallShapes
<1>8. m' \in Machines
  <2>1. Called(CASM_FUNCCALL(cabi_establish(IF c.fn = "slab_entrystub" THEN SetParams(m, t) ELSE m), c.args),
               [fn |-> c.fn, args |-> c.args])
    BY <1>1, CallCalled
  <2> QED
    BY <1>2, <2>1 DEF Called
<1>9. phase' = "run" /\ pc' = 1 /\ answer' = answer
  BY DEF Call
<1> QED
  BY <1>1, <1>2, <1>3, <1>4, <1>6, <1>7, <1>8, <1>9 DEF CallStep

(* The caller takes the answer of a call that is finished. *)
TakenStep ==
  /\ phase = "returned" /\ phase' \in {"idle", "done"} /\ entry' = entry /\ answer' = <<m.r.edx, m.r.eax>>
  /\ SysRegs(m') = SysRegs(m) /\ m'.sys.tr < Half /\ DescAt(m') = DescAt(InitMem)
LEMMA TakenSteps ==
  ASSUME ContractInv, Teardown
  PROVE  TakenStep
<1>1. /\ phase = "returned" /\ phase' \in {"idle", "done"} /\ entry' = entry /\ answer' = <<m.r.edx, m.r.eax>>
      /\ m' = RemoveParams(m, call.args)
  BY DEF Teardown
<1>2. Done(m, entry, call.fn) /\ Called(entry, call) /\ Finished(m, entry, call) /\ DescAt(entry) = DescAt(InitMem)
  BY <1>1 DEF ContractInv, CallInv
<1>4. /\ call.args \in Seq(Words) /\ Len(call.args) \in 1..MaxArgs
      /\ entry.r.esp \in 16..32 /\ entry.r.esp + 4 = StackTop - 4 * Len(call.args)
  BY <1>2, CalledEsp
<1>5. m'.sys = m.sys /\ m'.fl = m.fl /\ m'.mem = m.mem
  <2>1. CASE call.fn = "slab_entrystub"
    <3>1. m \in Machines /\ m.r.esp = 32
      BY <1>2, <2>1, DoneLeft DEF StubLeft
    <3>2. call.args = <<68>>
      BY <1>1, <2>1, ShapeOf DEF ContractInv, CallInv
    <3>3. Len(call.args) = 1
      BY <3>2
    <3>4. m.r.esp = 36 - 4 * Len(call.args) /\ 36 \in {36, 40}
      BY <3>1, <3>3
    <3> QED
      BY <1>1, <1>4, <3>1, <3>4, ParamsRemoved
  <2>2. CASE call.fn # "slab_entrystub"
    <3>1. m \in Machines /\ m.r.esp = entry.r.esp + 4
      BY <1>2, <2>2, DoneLeft DEF LeftFrame
    <3> QED
      BY <1>1, <1>4, <3>1, ParamsRemoved DEF StackTop
  <2> QED
    BY <2>1, <2>2
<1>6. SysRegs(m') = SysRegs(m)
  BY <1>5, KeptRegs DEF Kept
<1>7. DescAt(m') = DescAt(InitMem)
  <2>1. DescAt(m) = DescAt(entry)
    BY <1>2, <1>4, DoneDesc
  <2>2. DescAt(m') = DescAt(m)
    BY <1>5, DescKept
  <2> QED
    BY <1>2, <2>1, <2>2
<1>8. m'.sys.tr < Half
  BY <1>2, <1>5 DEF Finished
<1> QED
  BY <1>1, <1>6, <1>7, <1>8 DEF TakenStep

LEMMA ContractInvNext == ContractInv /\ [Next]_vars => ContractInv'
<1> SUFFICES ASSUME ContractInv, [Next]_vars PROVE ContractInv'
  OBVIOUS
<1>0. CallInv'
  BY CallInvNext DEF ContractInv
<1>1. CASE Call
  <2>1. CallStep
    BY <1>1, CallSteps
  <2>2. phase' = "run" /\ entry' = m' /\ pc' = 1 /\ m' \in Machines /\ Shape(call'.fn, call'.args)
    BY <2>1 DEF CallStep
  <2>3. Track(m', entry', call', pc')
    BY <2>2, TrackBegins
  <2> QED
    BY <1>0, <2>1, <2>2, <2>3 DEF CallStep, ContractInv
<1>2. CASE Execute \/ StrayAccess \/ Branch \/ CallC \/ FuncReturn \/ JmpSentinel
  <2>1. RunStep
    BY <1>2, RunSteps
  <2>2. Asked(call.fn, call.args) /\ entry.sys.tr < Half /\ DescAt(entry) = DescAt(InitMem)
    BY <2>1 DEF RunStep, ContractInv
  <2> QED
    BY <1>0, <2>1, <2>2 DEF RunStep, ContractInv
<1>3. CASE Teardown
  <2>1. TakenStep
    BY <1>3, TakenSteps
  <2> QED
    BY <1>0, <2>1 DEF TakenStep, ContractInv
<1>4. CASE UNCHANGED vars
  BY <1>0, <1>4 DEF vars, ContractInv
<1> QED
  BY <1>1, <1>2, <1>3, <1>4 DEF Next, Step

LEMMA CallsApart == \A c : AbstractCall(c) # [fn |-> "none"]
<1> SUFFICES ASSUME NEW c PROVE AbstractCall(c) # [fn |-> "none"]
  OBVIOUS
<1>1. "args" \in DOMAIN AbstractCall(c)
  BY DEF AbstractCall
<1>2. "args" \notin DOMAIN [fn |-> "none"]
  OBVIOUS
<1> QED
  BY <1>1, <1>2
LEMMA ContractStep == ContractInv /\ [Next]_vars => [Contract!Next]_(Contract!vars)
<1> SUFFICES ASSUME ContractInv, [Next]_vars PROVE Contract!Next \/ UNCHANGED Contract!vars
  OBVIOUS
<1>1. CASE Call
  <2>1. CallStep
    BY <1>1, CallSteps
  <2>2. /\ phase = "idle" /\ phase' \notin {"idle", "done"} /\ answer' = answer
        /\ SysRegs(m') = SysRegs(m) /\ SysRegs(entry') = SysRegs(m)
        /\ AbstractCall(call') \in {AbstractCall(c) : c \in Calls}
    BY <2>1 DEF CallStep
  <2>3. Contract!Call
    BY <2>2 DEF Contract!Call, Contract!NoCall
  <2> QED
    BY <2>3 DEF Contract!Next
<1>2. CASE Execute \/ StrayAccess \/ Branch \/ CallC \/ FuncReturn \/ JmpSentinel
  <2>1. RunStep
    BY <1>2, RunSteps
  <2>2. /\ phase \notin {"idle", "done"} /\ phase' \notin {"idle", "done"} /\ answer' = answer /\ call' = call /\ entry' = entry
        /\ Stays(m', m, entry, call)
    BY <2>1 DEF RunStep
  <2>3. DOMAIN SysRegs(m) = RegNames /\ DOMAIN SysRegs(m') = RegNames
    BY SysRegsOf
  <2>4. AbstractCall(call) # [fn |-> "none"]
    BY CallsApart
  <2>5. \A i \in RegNames :
           \/ SysRegs(m')[i] = SysRegs(m)[i]
           \/ /\ SysRegs(m)[i] = SysRegs(entry)[i]
              /\ SysRegs(m')[i] = Contract!After(SysRegs(entry), AbstractCall(call))[i]
    BY <2>2 DEF Stays, Target
  <2>6. Contract!Effect
    BY <2>2, <2>3, <2>4, <2>5 DEF Contract!Effect, Contract!NoCall
  <2> QED
    BY <2>6 DEF Contract!Next
<1>3. CASE Teardown
  <2>1. TakenStep
    BY <1>3, TakenSteps
  <2>2. phase = "returned" /\ phase' \in {"idle", "done"} /\ entry' = entry /\ SysRegs(m') = SysRegs(m)
        /\ answer' = <<m.r.edx, m.r.eax>> /\ Finished(m, entry, call)
    BY <2>1 DEF TakenStep, ContractInv
  <2>3. AbstractCall(call) # [fn |-> "none"]
    BY CallsApart
  <2>4. Contract!Return
    BY <2>2, <2>3 DEF Contract!Return, Contract!NoCall, Finished, Target
  <2> QED
    BY <2>4 DEF Contract!Next
<1>4. CASE UNCHANGED vars
  <2>1. UNCHANGED Contract!vars
    BY <1>4 DEF vars, Contract!vars
  <2> QED
    BY <2>1
<1> QED
  BY <1>1, <1>2, <1>3, <1>4 DEF Next, Step

(* The functions implement what their callers rely on: between a call and
   its return, no register of the system changes but the one the function
   is named for, to the value it was given, and the answer is that of the
   register it is named for. *)
THEOREM ContractImplemented == Spec => ImplementsContract
<1>1. Init => Contract!Init
  BY DEF Init, Contract!Init, Contract!NoCall
<1>2. Init => ContractInv
  BY ContractInvInit
<1>3. ContractInv /\ [Next]_vars => ContractInv'
  BY ContractInvNext
<1>4. ContractInv /\ [Next]_vars => [Contract!Next]_(Contract!vars)
  BY ContractStep
<1> QED
  BY <1>1, <1>2, <1>3, <1>4, PTL DEF Spec, ImplementsContract, Contract!Spec
=================================================================================
