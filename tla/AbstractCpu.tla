------------------------------ MODULE AbstractCpu ------------------------------
(***************************************************************************)
(* What the callers of the CASM functions rely on: a call changes the      *)
(* system registers it is named for, to the values it was given, and no    *)
(* other, and answers with the register it is named for.  Registers are    *)
(* changed one at a time, each at most once during a call.                 *)
(*                                                                         *)
(* regs is a function from the names of the system registers to their      *)
(* values.  A pair <<hi, lo>> is a value of two words.                     *)
(***************************************************************************)
EXTENDS Naturals, Sequences

CONSTANTS HalfWord,    \* a selector is below HalfWord, a word below HalfWord ^ 2
          CallSet,     \* records [fn, args, desc]: desc is the descriptor pointed to
          MsrNumber,   \* the numbers of the model specific registers by name
          Writable,    \* those that keep what is written to them
          FieldNumber, \* the numbers of the VMCS fields by name
          PciPort      \* the port of the PCI configuration address

VARIABLES regs,    \* the system registers
          before,  \* and their values at the last call
          call,    \* the call in progress, if any
          answer   \* what the last call returned

vars == <<regs, before, call, answer>>
NoCall == [fn |-> "none"]

Named(numbers, n) == {i \in DOMAIN numbers : numbers[i] = n}

(* The next value of a counter of two words. *)
Word == HalfWord * HalfWord
Ticked(p) == IF p[2] = Word - 1 THEN <<(p[1] + 1) % Word, 0>> ELSE <<p[1], p[2] + 1>>

(* The registers a call is named for, with their new values;
   b is the registers before it. *)
Changes(b, c) ==
  CASE c.fn = "write_cr0" -> [cr0 |-> c.args[1]]
    [] c.fn = "write_cr3" -> [cr3 |-> c.args[1]]
    [] c.fn = "write_cr4" -> [cr4 |-> c.args[1]]
    [] c.fn = "write_eflags" -> [intr |-> (c.args[1] \div 512) % 2]
    [] c.fn = "enable_intr" -> [intr |-> 1]
    [] c.fn = "xmhfhw_cpu_disable_intr" -> [intr |-> 0]
    [] c.fn = "xmhfhw_cpu_loadGDT" -> [gdtr |-> c.desc]
    [] c.fn = "xmhfhw_cpu_loadIDT" -> [idtr |-> c.desc]
    [] c.fn = "xmhfhw_cpu_loadTR" -> [tr |-> c.args[1] % HalfWord]
    [] c.fn = "xmhfhw_cpu_reloadcs" -> [cs |-> c.args[1]]
    [] c.fn = "xmhfhw_cpu_reloaddsregs" ->
         [s \in {"ds", "es", "fs", "gs", "ss"} |-> c.args[1]]
    [] c.fn = "wrmsr64" -> [i \in Named(MsrNumber, c.args[1]) \cap Writable |->
                              <<c.args[3], c.args[2]>>]
    [] c.fn = "vmwrite" -> [f \in Named(FieldNumber, c.args[1]) |-> c.args[2]]
    [] c.fn = "xsetbv" -> [xcr0 |-> <<c.args[3], c.args[2]>>]
    [] c.fn = "outl" -> IF c.args[2] = PciPort THEN [pci_addr |-> c.args[1]] ELSE <<>>
    [] c.fn = "rdtsc64" -> [rdtsc |-> Ticked(b.rdtsc)]
    [] c.fn = "hlt" -> [halted |-> TRUE]
    [] OTHER -> <<>>

After(b, c) == [i \in DOMAIN b |-> IF i \in DOMAIN Changes(b, c) THEN Changes(b, c)[i] ELSE b[i]]

(* One value for each of edx and eax. *)
IsWord(a, v) == a[2] = v
IsPair(a, p) == a = p

(* The exact answer of the functions that read a register. *)
Answers(b, c, a) ==
  LET port == IF c.args[1] = PciPort THEN b.pci_addr ELSE 0
  IN  CASE c.fn = "bsrl" -> 2 ^ a[2] <= c.args[1] /\ c.args[1] < 2 ^ (a[2] + 1)
        [] c.fn = "read_cr0" -> IsPair(a, <<0, b.cr0>>)
        [] c.fn = "read_cr2" -> IsWord(a, b.cr2)
        [] c.fn = "read_cr3" -> IsPair(a, <<0, b.cr3>>)
        [] c.fn = "read_cr4" -> IsPair(a, <<0, b.cr4>>)
        [] c.fn = "read_tr_sel" -> IsWord(a, b.tr)
        [] c.fn = "read_segreg_cs" -> IsWord(a, b.cs)
        [] c.fn = "read_segreg_ds" -> IsWord(a, b.ds)
        [] c.fn = "read_segreg_es" -> IsWord(a, b.es)
        [] c.fn = "read_segreg_fs" -> IsWord(a, b.fs)
        [] c.fn = "read_segreg_gs" -> IsWord(a, b.gs)
        [] c.fn = "read_segreg_ss" -> IsWord(a, b.ss)
        [] c.fn = "read_eflags" -> (a[2] \div 512) % 2 = b.intr
        [] c.fn = "getgdtbase" -> IsWord(a, b.gdtr.base)
        [] c.fn \in {"inb", "inw"} -> IsWord(a, 0)
        [] c.fn = "inl" -> IsWord(a, port)
        [] c.fn = "rdmsr64" -> \A i \in Named(MsrNumber, c.args[1]) \ {"apic_base"} : IsPair(a, b[i])
        [] c.fn = "vmread" -> \A f \in Named(FieldNumber, c.args[1]) : IsWord(a, b[f])
        [] c.fn = "xgetbv" -> IsPair(a, b.xcr0)
        [] c.fn = "rdtsc64" -> IsPair(a, b.rdtsc)
        [] c.fn = "vmxon" -> IsWord(a, 1)
        [] c.fn \in {"vmclear", "vmptrld", "vmx_invept"} -> a[2] \in {0, 1}
        [] OTHER -> TRUE
-----------------------------------------------------------------------------
Init ==
  /\ call = NoCall
  /\ before = regs
  /\ answer = <<0, 0>>

Call ==
  /\ call = NoCall
  /\ call' \in CallSet
  /\ before' = regs
  /\ UNCHANGED <<regs, answer>>

(* Part of the effect: some registers that have not changed yet do. *)
Effect ==
  /\ call # NoCall
  /\ DOMAIN regs' = DOMAIN regs
  /\ \A i \in DOMAIN regs :
       \/ regs'[i] = regs[i]
       \/ regs[i] = before[i] /\ regs'[i] = After(before, call)[i]
  /\ UNCHANGED <<before, call, answer>>

Return ==
  /\ call # NoCall
  /\ regs = After(before, call)
  /\ Answers(before, call, answer')
  /\ call' = NoCall
  /\ UNCHANGED <<regs, before>>

Next == Call \/ Effect \/ Return
Spec == Init /\ [][Next]_vars
=============================================================================
