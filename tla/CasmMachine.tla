------------------------------ MODULE CasmMachine ------------------------------
(***************************************************************************)
(* CASM functions running on the CPU of the hardware model, called from C  *)
(* one after the other as the verification drivers of libxmhfhw and        *)
(* libxmhfgeec do (CASM_FUNCCALL): the arguments are pushed, the function  *)
(* runs instruction by instruction, returns, and the caller removes the    *)
(* arguments and reads the answer.                                         *)
(*                                                                         *)
(* A step is one instruction.  bsrl of zero has no next step: the loop of  *)
(* the hardware model does not end.  The driver of the entry stub calls it *)
(* once, so that its run is over when the stub returns, when it leaves for *)
(* the sentinel (a slab that answers there is not resumed), or when an     *)
(* undefined access stops it.                                              *)
(***************************************************************************)
EXTENDS CasmFuncs

CONSTANT MaxCalls   \* calls made in one behaviour
ASSUME MaxCallsAssumption == MaxCalls \in Nat \ {0}

VARIABLES m,      \* the machine
          phase,  \* of the call: idle, run, returned; done, left, stopped: no more calls
          pc,     \* the next instruction of the running function
          call,   \* function and arguments
          entry,  \* history: the machine when the function was entered
          answer, \* edx and eax as the caller reads them after the call
          calls   \* calls made so far

vars == <<m, phase, pc, call, entry, answer, calls>>

CASM_RET_EIP == 246267631
WordAt(a) == a..(a + 3)
NoCall == [fn |-> "none", args |-> <<>>]
Insn == Program[call.fn][pc]
-----------------------------------------------------------------------------
InitRegs == [reg \in Gprs |-> IF reg = "esp" THEN StackTop ELSE 0]
(* Variables the drivers pass pointers to: a cpuid leaf, a descriptor, a
   free lock. *)
InitMem ==
  LET zero == [r |-> InitRegs, fl |-> 0, sys |-> InitSys, mem |-> [a \in Memory |-> 0]]
      leaf == Write32(Write32(zero, EcxVar, 7), SysmemSrc, 259)
  IN  Write32(Write32(Write16(leaf, Desc, 47), Desc + 2, 82220), SmpLock, 1)

Init ==
  /\ m = InitMem
  /\ phase = "idle"
  /\ pc = 1
  /\ call = NoCall
  /\ entry = InitMem
  /\ answer = <<0, 0>>
  /\ calls = 0

(* cabi_establish: known values in the registers a function must keep. *)
cabi_establish(n) == [n EXCEPT !.r.ebx = 5, !.r.esi = 6, !.r.edi = 7]

(* The parameters of a slab call as the driver of the entry stub sets them. *)
SetParams(n, ctype) ==
  Write32(Write32(Write32(n, SlabParams, ctype), SlabParams + 4, 5), SlabParams + 8, 6)

PushParams(n, args) ==
  LET reversed == PP_REVERSEARGS(args)
      pushed[i \in 0..Len(reversed)] == IF i = 0 THEN n ELSE pushl_mem(pushed[i - 1], reversed[i])
  IN  pushed[Len(reversed)]
CASM_FUNCCALL(n, args) == pushl_mem(PushParams(n, args), CASM_RET_EIP)
(* The caller takes the arguments off the stack, one after the other. *)
RemoveParams(n, args) ==
  LET sizes == PP_FOREACH([arg \in Nat |-> 4], PP_REVERSEARGS(args))
      removed[i \in 0..Len(sizes)] ==
        IF i = 0 THEN n ELSE addl_imm_esp(removed[i - 1], sizes[i])
  IN  removed[Len(sizes)]

Call ==
  /\ phase = "idle" /\ calls < MaxCalls
  /\ \E c \in Calls, ctype \in CallTypes :
       /\ c.fn = "slab_entrystub" \/ ctype = CALL_FROM_VfT_PROG
       /\ LET set == IF c.fn = "slab_entrystub" THEN SetParams(m, ctype) ELSE m
              entered == CASM_FUNCCALL(cabi_establish(set), c.args)
          IN  m' = entered /\ entry' = entered
       /\ call' = [fn |-> c.fn, args |-> c.args]
  /\ phase' = "run"
  /\ pc' = 1
  /\ calls' = calls + 1
  /\ UNCHANGED answer

(* An access through eax outside every object of the program. *)
ThroughEax == {"cmpl_imm_meax", "movl_imm_meax", "movl_meax", "movl_reg_meax"}
Address(n, i) == At(n, "eax", IF i[1] \in {"movl_meax", "movl_reg_meax"} THEN i[2] ELSE i[3])
Stray(n, i) == i[1] \in ThroughEax /\ ~(WordAt(Address(n, i)) \subseteq Memory)

Execute ==
  /\ phase = "run" /\ ~Stray(m, Insn)
  /\ Insn[1] \notin Branches \cup Returns \cup {"call_c_1p", "jmpsentinel"}
  /\ Insn[1] = "bsrl_mesp_eax" => bsrl_ends(m, Insn[2])
  /\ m' = Exec(m, Insn)
  /\ pc' = pc + 1
  /\ UNCHANGED <<phase, call, entry, answer, calls>>

Branch ==
  /\ phase = "run" /\ Insn[1] \in Branches
  /\ pc' = IF Taken(m, Insn[1]) THEN Insn[2] ELSE pc + 1
  /\ UNCHANGED <<m, phase, call, entry, answer, calls>>

(* Such an access is undefined.  It stops the run (the analysis ends there,
   a machine faults); or a load brings some value, so that a comparison may
   find it equal or not, and a store changes nothing the program has. *)
Undefined(n, i) ==
  CASE i[1] = "cmpl_imm_meax" -> {n, [n EXCEPT !.fl = SetBit(@, EFLAGS_ZF)]}
    [] i[1] = "movl_meax"     -> {SetReg(n, i[3], v) : v \in Values}
    [] OTHER                  -> {n}
StrayAccess ==
  /\ phase = "run" /\ Stray(m, Insn)
  /\ \/ phase' = "stopped" /\ UNCHANGED <<m, pc>>
     \/ phase' = "run" /\ m' \in Undefined(m, Insn) /\ pc' = pc + 1
  /\ UNCHANGED <<call, entry, answer, calls>>

(* A call of a C function, slab_main: its return address is pushed, and the
   function, which is C and knows nothing of the stack of the hardware
   model, leaves it there.  The CASM functions it calls may leave any value
   in the registers its caller does not rely on. *)
CallC ==
  /\ phase = "run" /\ Insn[1] = "call_c_1p"
  /\ \E eax, edx \in Values :
       m' = SetReg(SetReg(pushl_mem(m, CASM_RET_EIP), "eax", eax), "edx", edx)
  /\ pc' = pc + 1
  /\ UNCHANGED <<phase, call, entry, answer, calls>>

FuncReturn ==
  /\ phase = "run" /\ Insn[1] \in Returns
  /\ m' = Return(m, Insn[1])
  /\ phase' = "returned"
  /\ UNCHANGED <<pc, call, entry, answer, calls>>

(* The caller removes the arguments and takes edx:eax.  main of the driver
   of the entry stub ends there. *)
Teardown ==
  /\ phase = "returned"
  /\ m' = RemoveParams(m, call.args)
  /\ answer' = <<m.r.edx, m.r.eax>>
  /\ phase' = IF call.fn = "slab_entrystub" THEN "done" ELSE "idle"
  /\ call' = NoCall
  /\ UNCHANGED <<pc, entry, calls>>

JmpSentinel ==
  /\ phase = "run" /\ Insn[1] = "jmpsentinel"
  /\ phase' = "left"
  /\ UNCHANGED <<m, pc, call, entry, answer, calls>>

Step == Execute \/ StrayAccess \/ Branch \/ CallC \/ FuncReturn \/ Teardown \/ JmpSentinel
Next == Call \/ Step
(* A CPU that can execute an instruction eventually does; nothing says that
   there will be another call. *)
Spec == Init /\ [][Next]_vars /\ WF_vars(Step)
-----------------------------------------------------------------------------
(* Every register holds a word and every byte of memory a byte: the
   operators of the CPU model stay within the width of the machine. *)
TypeOK ==
  /\ \A reg \in Gprs : m.r[reg] \in 0..(Word - 1)
  /\ m.fl \in 0..(Word - 1)
  /\ \A a \in Memory : m.mem[a] \in 0..(Byte - 1)
  /\ DOMAIN m.mem = Memory
  /\ phase \in {"idle", "run", "returned", "done", "left", "stopped"}
  /\ phase = "run" => pc \in DOMAIN Program[call.fn]

(* What a caller that follows the C convention relies on: a function that
   returns has restored ebx, esi and edi (cabi_check of the drivers). *)
CalleeSavedPreserved ==
  phase \in {"returned", "idle", "done"} /\ calls > 0 =>
    m.r.ebx = 5 /\ m.r.esi = 6 /\ m.r.edi = 7

(* A function returns to its caller, and the caller finds its stack as it
   was (the asserts at the end of main of the driver of libxmhfhw);
   reloadcs, which moves its own return address, included.  The entry stub
   is the exception: the return address of slab_main stays on the stack,
   ret takes the pushed parameter for the return address, and the caller is
   left one word below where it was.  Of the two asserts of the driver of
   the stub the one on esp holds, and the one on eip does not. *)
StackBalanced ==
  /\ phase = "idle" => m.r.esp = StackTop /\ (calls > 0 => m.r.eip = CASM_RET_EIP)
  /\ phase = "done" => m.r.esp = StackTop - 4 /\ m.r.eip = SlabParams

(* The macros that reverse and push the arguments put the i-th argument
   where functions look for it. *)
ParamsInPlace ==
  phase \notin {"idle", "done"} =>
    \A i \in DOMAIN call.args : Read32(entry, entry.r.esp + 4 * i) = call.args[i]

(* The memory a function may write through the pointers it is given. *)
OutPointers ==
  CASE call.fn = "xmhfhw_cpu_cpuid" -> UNION {WordAt(call.args[i]) : i \in 2..5}
    [] call.fn \in {"spin_lock", "spin_unlock"} -> WordAt(call.args[1])
    [] call.fn = "sysmemaccess_copy" -> call.args[1]..(call.args[1] + call.args[3] - 1)
    [] OTHER -> {}
(* Nothing else is written above the return address: not the
   arguments, not the caller's frame, not another variable, and not the
   parameters of the slab call that an entry stub should answer. *)
MemoryFrame ==
  phase \in {"returned", "left", "stopped"} =>
    \A a \in Memory : a >= entry.r.esp + 4 /\ a \notin OutPointers => m.mem[a] = entry.mem[a]

(* What a function leaves in memory for its caller. *)
OutputsInMemory ==
  phase = "returned" =>
    CASE call.fn = "xmhfhw_cpu_cpuid" ->
           LET asked == cpuid([entry EXCEPT !.r.eax = call.args[1], !.r.ecx = Read32(entry, EcxVar)])
           IN  /\ Read32(m, EaxVar) = asked.r.eax /\ Read32(m, EbxVar) = asked.r.ebx
               /\ Read32(m, EcxVar) = asked.r.ecx /\ Read32(m, EdxVar) = asked.r.edx
      [] call.fn = "spin_lock" -> Read32(entry, SmpLock) = 1 /\ Read32(m, SmpLock) = 0
      [] call.fn = "spin_unlock" -> Read32(m, SmpLock) = 1
      [] call.fn = "sysmemaccess_copy" -> Read32(m, SysmemDst) = Read32(entry, SysmemSrc)
      [] OTHER -> TRUE

(* The functions implement what their callers rely on. *)
SysFields == {"gdtr", "idtr", "tr", "xcr0", "cr0", "cr2", "cr3", "cr4", "rdtsc", "pci_addr", "halted"}
SysRegs(n) ==
  [i \in SysFields \cup {"intr"} \cup Selectors \cup DOMAIN Msr \cup DOMAIN Vmcs |->
     CASE i \in SysFields   -> n.sys[i]
       [] i = "intr"        -> Bit(n.fl, EFLAGS_IF)
       [] i \in Selectors   -> n.sys.sel[i]
       [] i \in DOMAIN Msr  -> n.sys.msr[i]
       [] i \in DOMAIN Vmcs -> n.sys.vmcs[i]]
DescAt(n) == [limit |-> Read16(n, Desc), base |-> Read32(n, Desc + 2)]
AbstractCall(c) == [fn |-> c.fn, args |-> c.args, desc |-> DescAt(InitMem)]

Contract == INSTANCE AbstractCpu WITH
  HalfWord <- Half, CallSet <- {AbstractCall(c) : c \in Calls},
  MsrNumber <- Msr, Writable <- WritableMsrs, FieldNumber <- Vmcs,
  PciPort <- PCI_CONFIG_ADDR_PORT,
  regs <- SysRegs(m), before <- SysRegs(entry), answer <- answer,
  call <- IF phase \in {"idle", "done"} THEN [fn |-> "none"] ELSE AbstractCall(call)
ImplementsContract == Contract!Spec

(* Every call ends, in a return, at the sentinel or where an undefined
   access stops it, except the search for the highest bit of zero and the
   wait for a lock that is taken. *)
Ends ==
  /\ call.fn = "bsrl" => call.args[1] # 0
  /\ call.fn = "spin_lock" => Bit(Read32(entry, SmpLock), 0) = 1
CallsComplete == (phase = "run" /\ Ends) ~> (phase \in {"idle", "done", "left", "stopped"})
=============================================================================
