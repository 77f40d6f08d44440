------------------------------ MODULE SpinLock ------------------------------
(***************************************************************************)
(* spin_lock and spin_unlock (src/src/libs/libxmhfhw/xmhfhw_cpu_spinlock.cS *)
(* and xmhfhw_cpu_spinunlock.cS), executed by any number of CPUs with the  *)
(* store buffers of x86.  Bit 0 of the lock word is 1 when the lock is     *)
(* free.  The acquiring side first polls the bit with a plain btl and then *)
(* claims it with a locked btrl; the releasing side sets it with a btsl    *)
(* that is NOT locked, so its store may sit in the CPU's store buffer.     *)
(*                                                                         *)
(* The caller is external: every critical section loads a shared word and  *)
(* stores its successor, the least a caller of the lock does.              *)
(*                                                                         *)
(* A store buffer is a FIFO.  A locked instruction waits for it to be      *)
(* empty, so between two claims it holds at most the caller's store        *)
(* followed by the store of btsl: dataBuf and unlockBuf.                   *)
(***************************************************************************)
EXTENDS Naturals

CONSTANTS
    CPU,        \* the CPUs
    NoCPU,      \* not a CPU
    NoStore,    \* an empty store-buffer slot
    Modulus     \* number of values of the shared word (2^32 in the code)

ASSUME SpinLockAssumption ==
    /\ NoCPU \notin CPU
    /\ Modulus \in Nat \ {0}
    /\ NoStore \notin 0 .. Modulus - 1

VARIABLES
    lock,       \* bit 0 of *lock in memory
    pc,         \* where each CPU is
    word,       \* the shared word in memory
    local,      \* the register the caller loaded the shared word into
    dataBuf,    \* store of the caller that is not yet in memory
    unlockBuf,  \* the store of btsl is not yet in memory
    done        \* updates made so far, modulo Modulus (history variable)

vars == <<lock, pc, word, local, dataBuf, unlockBuf, done>>

Word == 0 .. Modulus - 1
Location == {"idle", "btl", "btrl", "held", "loaded", "stored"}
Bump(v) == (v + 1) % Modulus

Init ==
    /\ lock = 1
    /\ pc = [c \in CPU |-> "idle"]
    /\ word = 0
    /\ local = [c \in CPU |-> 0]
    /\ dataBuf = [c \in CPU |-> NoStore]
    /\ unlockBuf = [c \in CPU |-> FALSE]
    /\ done = 0

Goto(c, from, to) ==
    /\ pc[c] = from
    /\ pc' = [pc EXCEPT ![c] = to]

\* A CPU reads its own pending stores before memory.
LockSeenBy(c) == IF unlockBuf[c] THEN 1 ELSE lock
WordSeenBy(c) == IF dataBuf[c] # NoStore THEN dataBuf[c] ELSE word

Drained(c) == dataBuf[c] = NoStore /\ ~unlockBuf[c]

---------------------------------------------------------------------------
(* spin_lock *)

Call(c) ==
    /\ Goto(c, "idle", "btl")
    /\ UNCHANGED <<lock, word, local, dataBuf, unlockBuf, done>>

\* btl; jnc splock: fall through only when the bit is seen set.
Btl(c) ==
    /\ LockSeenBy(c) = 1
    /\ Goto(c, "btl", "btrl")
    /\ UNCHANGED <<lock, word, local, dataBuf, unlockBuf, done>>

\* Mutant of Btrl: the second jnc is missing, the test result is ignored.
BtrlNoRetry(c) ==
    /\ Drained(c)
    /\ Goto(c, "btrl", "held")
    /\ lock' = 0
    /\ UNCHANGED <<word, local, dataBuf, unlockBuf, done>>

\* Mutant of Btrl: the bit is claimed by decrementing the word.
BtrlDecrement(c) ==
    /\ Drained(c)
    /\ Goto(c, "btrl", "held")
    /\ lock' = lock - 1
    /\ UNCHANGED <<word, local, dataBuf, unlockBuf, done>>

\* Mutant of Btrl: nothing orders the claim after the CPU's own older stores.
BtrlUnordered(c) ==
    /\ \/ /\ LockSeenBy(c) = 1
          /\ lock' = 0
          /\ Goto(c, "btrl", "held")
       \/ /\ LockSeenBy(c) = 0
          /\ Goto(c, "btrl", "btl")
          /\ UNCHANGED lock
    /\ UNCHANGED <<word, local, dataBuf, unlockBuf, done>>

\* lock btrl; jnc splock: test and clear in one step, retry if it was clear.
Btrl(c) ==
    /\ Drained(c)
    /\ \/ /\ lock = 1
          /\ lock' = 0
          /\ Goto(c, "btrl", "held")
       \/ /\ lock = 0
          /\ Goto(c, "btrl", "btl")
          /\ UNCHANGED lock
    /\ UNCHANGED <<word, local, dataBuf, unlockBuf, done>>

---------------------------------------------------------------------------
(* the critical section of the caller *)

LoadWord(c) ==
    /\ Goto(c, "held", "loaded")
    /\ local' = [local EXCEPT ![c] = WordSeenBy(c)]
    /\ UNCHANGED <<lock, word, dataBuf, unlockBuf, done>>

StoreWord(c) ==
    /\ Goto(c, "loaded", "stored")
    /\ dataBuf' = [dataBuf EXCEPT ![c] = Bump(local[c])]
    /\ done' = Bump(done)
    /\ UNCHANGED <<lock, word, local, unlockBuf>>

---------------------------------------------------------------------------
(* spin_unlock *)

\* Mutant of Btsl: spin_unlock returns without setting the bit.
BtslForgotten(c) ==
    /\ Goto(c, "stored", "idle")
    /\ UNCHANGED <<lock, word, local, dataBuf, unlockBuf, done>>

Btsl(c) ==
    /\ Goto(c, "stored", "idle")
    /\ unlockBuf' = [unlockBuf EXCEPT ![c] = TRUE]
    /\ UNCHANGED <<lock, word, local, dataBuf, done>>

---------------------------------------------------------------------------
(* the memory system: stores leave a buffer in program order *)

DrainData(c) ==
    /\ dataBuf[c] # NoStore
    /\ word' = dataBuf[c]
    /\ dataBuf' = [dataBuf EXCEPT ![c] = NoStore]
    /\ UNCHANGED <<lock, pc, local, unlockBuf, done>>

\* Mutant of DrainUnlock: stores may leave the buffer out of program order.
DrainUnlockEarly(c) ==
    /\ unlockBuf[c]
    /\ lock' = 1
    /\ unlockBuf' = [unlockBuf EXCEPT ![c] = FALSE]
    /\ UNCHANGED <<pc, word, local, dataBuf, done>>

DrainUnlock(c) ==
    /\ unlockBuf[c]
    /\ dataBuf[c] = NoStore
    /\ lock' = 1
    /\ unlockBuf' = [unlockBuf EXCEPT ![c] = FALSE]
    /\ UNCHANGED <<pc, word, local, dataBuf, done>>

---------------------------------------------------------------------------

Execute(c) == Btl(c) \/ Btrl(c) \/ LoadWord(c) \/ StoreWord(c) \/ Btsl(c)
Drain(c) == DrainData(c) \/ DrainUnlock(c)

Next == \E c \in CPU : Call(c) \/ Execute(c) \/ Drain(c)

Spec == Init /\ [][Next]_vars

\* A running CPU keeps executing and a store buffer keeps draining; a caller
\* need not call.
FairSpec ==
    /\ Spec
    /\ \A c \in CPU : WF_vars(Execute(c)) /\ WF_vars(Drain(c))

---------------------------------------------------------------------------
(* Properties *)

TypeOK ==
    /\ lock \in {0, 1}
    /\ pc \in [CPU -> Location]
    /\ word \in Word
    /\ local \in [CPU -> Word]
    /\ dataBuf \in [CPU -> Word \cup {NoStore}]
    /\ unlockBuf \in [CPU -> BOOLEAN]
    /\ done \in Word

InSection(c) == pc[c] \in {"held", "loaded", "stored"}

\* Two CPUs never run their critical sections at the same time, although
\* spin_unlock releases the lock with an unlocked instruction.
MutualExclusion ==
    \A c, d \in CPU : InSection(c) /\ InSection(d) => c = d

\* A CPU that is about to load, or has loaded, the shared word inside its
\* critical section sees every update made before: the unlock store of the
\* previous holder never becomes visible before that holder's data.
NoLostUpdate ==
    \A c \in CPU :
        /\ pc[c] = "held" => WordSeenBy(c) = done
        /\ pc[c] = "loaded" => local[c] = done

\* The lock implements the abstract lock: a CPU owns it from its locked btrl
\* to its btsl, and the value is the newest store, buffered or in memory.
Owner ==
    IF \E c \in CPU : InSection(c) THEN CHOOSE c \in CPU : InSection(c)
    ELSE NoCPU
NewestWord ==
    IF \E c \in CPU : dataBuf[c] # NoStore
    THEN dataBuf[CHOOSE c \in CPU : dataBuf[c] # NoStore]
    ELSE word
Abstract == INSTANCE AbstractLock WITH
    owner <- Owner, value <- NewestWord,
    updated <- \E c \in CPU : pc[c] = "stored"
ImplementsAbstractLock == Abstract!ASpec

\* As long as some CPU spins in spin_lock, some CPU eventually gets the lock
\* (a particular CPU may starve: the code has no queue).
SomeSpinnerEnters ==
    (\E c \in CPU : pc[c] \in {"btl", "btrl"}) ~> (\E c \in CPU : pc[c] = "held")

=============================================================================
