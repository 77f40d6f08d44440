--------------------------- MODULE SpinLockProofs ---------------------------
(***************************************************************************)
(* Proofs about SpinLock for every set of CPUs and every word size: type   *)
(* correctness, mutual exclusion, no lost update, and refinement of        *)
(* AbstractLock.                                                           *)
(***************************************************************************)
EXTENDS SpinLock, TLAPS

\* A CPU owns the lock from its locked btrl until its btsl reaches memory.
Owns(c) == InSection(c) \/ unlockBuf[c]

SoleOwner == \A c, d \in CPU : Owns(c) /\ Owns(d) => c = d
FreeMeansUnowned == lock = 1 => \A c \in CPU : ~Owns(c)

\* What may sit in a store buffer, and when.
BufferShape ==
    \A c \in CPU :
        /\ InSection(c) => ~unlockBuf[c]
        /\ dataBuf[c] # NoStore => pc[c] = "stored" \/ unlockBuf[c]

\* The newest store of the shared word is the last update, wherever it is.
NewestIsDone ==
    /\ (\A c \in CPU : dataBuf[c] = NoStore) => word = done
    /\ \A c \in CPU : dataBuf[c] # NoStore => dataBuf[c] = done
    /\ \A c \in CPU : pc[c] = "loaded" => local[c] = done

IInv == TypeOK /\ SoleOwner /\ FreeMeansUnowned /\ BufferShape /\ NewestIsDone

\* The successor of a word is a word and never the empty-slot marker.
LEMMA BumpWord ==
    ASSUME NEW v \in Word
    PROVE  Bump(v) \in Word /\ Bump(v) # NoStore
<1>1. (v + 1) % Modulus \in 0 .. Modulus - 1
  BY SpinLockAssumption DEF Word
<1>2. QED  BY <1>1, SpinLockAssumption DEF Bump, Word

\* The initial state satisfies the inductive invariant.
LEMMA InitIInv == Init => IInv
<1> SUFFICES ASSUME Init PROVE IInv  OBVIOUS
<1>1. TypeOK
  BY SpinLockAssumption DEF Init, TypeOK, Word, Location
<1>2. QED
  BY <1>1 DEF Init, IInv, SoleOwner, FreeMeansUnowned, BufferShape,
              NewestIsDone, Owns, InSection

\* Every step of every CPU and of every store buffer preserves it.
LEMMA StepIInv == IInv /\ [Next]_vars => IInv'
<1> SUFFICES ASSUME IInv, [Next]_vars PROVE IInv'  OBVIOUS
<1> USE SpinLockAssumption
    DEF IInv, TypeOK, SoleOwner, FreeMeansUnowned, BufferShape, NewestIsDone,
        Owns, InSection, Location
<1>1. ASSUME NEW c \in CPU, Call(c) PROVE IInv'
  BY <1>1 DEF Call, Goto
<1>2. ASSUME NEW c \in CPU, Btl(c) PROVE IInv'
  BY <1>2 DEF Btl, Goto
<1>3. ASSUME NEW c \in CPU, Btrl(c) PROVE IInv'
  <2>1. CASE lock = 1
    BY <1>3, <2>1 DEF Btrl, Goto, Drained
  <2>2. CASE lock = 0
    BY <1>3, <2>2 DEF Btrl, Goto, Drained
  <2>3. QED  BY <2>1, <2>2
<1>4. ASSUME NEW c \in CPU, LoadWord(c) PROVE IInv'
  <2>1. \A d \in CPU : dataBuf[d] = NoStore
    BY <1>4 DEF LoadWord, Goto
  <2>2. WordSeenBy(c) = done
    BY <1>4, <2>1 DEF WordSeenBy
  <2>3. QED  BY <1>4, <2>2 DEF LoadWord, Goto
<1>5. ASSUME NEW c \in CPU, StoreWord(c) PROVE IInv'
  <2>1. \A d \in CPU \ {c} : dataBuf[d] = NoStore /\ pc[d] # "loaded"
    BY <1>5 DEF StoreWord, Goto
  <2>2. local[c] = done
    BY <1>5 DEF StoreWord, Goto
  <2>3. Bump(done) \in Word /\ Bump(done) # NoStore
    BY BumpWord
  <2>4. QED  BY <1>5, <2>1, <2>2, <2>3 DEF StoreWord, Goto
<1>6. ASSUME NEW c \in CPU, Btsl(c) PROVE IInv'
  BY <1>6 DEF Btsl, Goto
<1>7. ASSUME NEW c \in CPU, DrainData(c) PROVE IInv'
  BY <1>7 DEF DrainData
<1>8. ASSUME NEW c \in CPU, DrainUnlock(c) PROVE IInv'
  BY <1>8 DEF DrainUnlock
<1>9. CASE UNCHANGED vars
  BY <1>9 DEF vars
<1>10. QED
  BY <1>1, <1>2, <1>3, <1>4, <1>5, <1>6, <1>7, <1>8, <1>9
     DEF Next, Execute, Drain

---------------------------------------------------------------------------

\* The inductive invariant holds in every reachable state.
THEOREM InductiveInvariant == Spec => []IInv
<1>1. QED  BY InitIInv, StepIInv, PTL DEF Spec

\* Every variable of the lock and of its callers keeps its type.
THEOREM TypeCorrect == Spec => []TypeOK
<1>1. IInv => TypeOK  BY DEF IInv
<1>2. QED  BY <1>1, InductiveInvariant, PTL

\* However many CPUs call spin_lock, at most one is in its critical section.
THEOREM Mutex == Spec => []MutualExclusion
<1>1. IInv => MutualExclusion
  BY DEF IInv, SoleOwner, Owns, MutualExclusion
<1>2. QED  BY <1>1, InductiveInvariant, PTL

\* A critical section always starts from the newest value of the shared word,
\* although the unlock store is neither locked nor fenced.
THEOREM SeesNewest == Spec => []NoLostUpdate
<1>1. ASSUME IInv, NEW c \in CPU, pc[c] = "held" PROVE WordSeenBy(c) = done
  <2>1. \A d \in CPU : dataBuf[d] = NoStore
    BY <1>1 DEF IInv, SoleOwner, BufferShape, Owns, InSection
  <2>2. QED  BY <1>1, <2>1 DEF IInv, NewestIsDone, WordSeenBy
<1>2. IInv => NoLostUpdate
  BY <1>1 DEF IInv, NewestIsDone, NoLostUpdate
<1>3. QED  BY <1>2, InductiveInvariant, PTL

---------------------------------------------------------------------------
(* Refinement of AbstractLock *)

\* The CPU in its critical section is the owner of the abstract lock.
LEMMA OwnerIs ==
    ASSUME MutualExclusion, NEW c \in CPU, InSection(c)
    PROVE  Owner = c
BY DEF Owner, MutualExclusion

\* Nobody in a critical section: the abstract lock is free.
LEMMA OwnerIsNobody ==
    ASSUME \A c \in CPU : ~InSection(c)
    PROVE  Owner = NoCPU
BY DEF Owner

\* The newest store of the shared word, wherever it is, is the last update.
LEMMA NewestWordIsDone ==
    ASSUME NewestIsDone
    PROVE  NewestWord = done
<1>1. CASE \E c \in CPU : dataBuf[c] # NoStore
  BY <1>1 DEF NewestWord, NewestIsDone
<1>2. CASE \A c \in CPU : dataBuf[c] = NoStore
  BY <1>2 DEF NewestWord, NewestIsDone
<1>3. QED  BY <1>1, <1>2

\* The initial state is an initial state of the abstract lock.
LEMMA InitRefines == Init => Abstract!AInit
<1> SUFFICES ASSUME Init PROVE Abstract!AInit  OBVIOUS
<1>1. Owner = NoCPU
  BY OwnerIsNobody DEF Init, InSection
<1>2. NewestWord = 0
  BY DEF Init, NewestWord
<1>3. QED  BY <1>1, <1>2 DEF Init, Abstract!AInit

\* Every step of the detailed lock is a step of the abstract one or a stutter.
LEMMA StepRefines ==
    IInv /\ IInv' /\ [Next]_vars => [Abstract!ANext]_(Abstract!avars)
<1> SUFFICES ASSUME IInv, IInv', [Next]_vars
             PROVE  [Abstract!ANext]_(Abstract!avars)
  OBVIOUS
<1> DEFINE updated == \E c \in CPU : pc[c] = "stored"
<1>1. MutualExclusion /\ MutualExclusion'
  BY DEF IInv, SoleOwner, Owns, MutualExclusion
<1>2. NewestWord = done /\ NewestWord' = done'
  BY NewestWordIsDone DEF IInv, NewestWord, NewestIsDone
<1>3. ASSUME NEW c \in CPU, InSection(c) PROVE Owner = c
  BY <1>1, <1>3, OwnerIs
<1>4. ASSUME NEW c \in CPU, InSection(c)' PROVE Owner' = c
  BY <1>1, <1>4 DEF Owner, MutualExclusion
<1>5. ASSUME \A c \in CPU : ~InSection(c) PROVE Owner = NoCPU
  BY <1>5, OwnerIsNobody
<1>6. ASSUME \A c \in CPU : ~InSection(c)' PROVE Owner' = NoCPU
  BY <1>6 DEF Owner
<1>7. ASSUME \A c \in CPU : InSection(c)' = InSection(c),
             updated' = updated, done' = done
      PROVE  [Abstract!ANext]_(Abstract!avars)
  <2>1. Owner' = Owner
    BY <1>3, <1>4, <1>5, <1>6, <1>7
  <2>2. QED  BY <2>1, <1>2, <1>7 DEF Abstract!avars
<1>8. ASSUME NEW c \in CPU, Call(c) \/ Btl(c) \/ Drain(c)
      PROVE  [Abstract!ANext]_(Abstract!avars)
  BY <1>7, <1>8
     DEF IInv, TypeOK, Call, Btl, Drain, DrainData, DrainUnlock, Goto, InSection
<1>9. ASSUME NEW c \in CPU, Btrl(c) PROVE [Abstract!ANext]_(Abstract!avars)
  <2>1. CASE lock = 1
    <3>1. \A d \in CPU : ~InSection(d)
      BY <2>1 DEF IInv, FreeMeansUnowned, Owns
    <3>2. InSection(c)' /\ done' = done
      BY <1>9, <2>1 DEF Btrl, Goto, InSection, IInv, TypeOK
    <3>3. ~updated /\ ~updated'
      BY <1>9, <2>1, <3>1 DEF Btrl, Goto, InSection, IInv, TypeOK
    <3>4. Owner = NoCPU /\ Owner' = c
      BY <3>1, <3>2, <1>4, <1>5
    <3>5. QED
      BY <3>2, <3>3, <3>4, <1>2 DEF Abstract!ANext, Abstract!Acquire
  <2>2. CASE lock = 0
    BY <1>7, <1>9, <2>2 DEF Btrl, Goto, InSection, IInv, TypeOK
  <2>3. QED  BY <1>9, <2>1, <2>2 DEF Btrl
<1>10. ASSUME NEW c \in CPU, LoadWord(c)
       PROVE  [Abstract!ANext]_(Abstract!avars)
  BY <1>7, <1>10 DEF LoadWord, Goto, InSection, IInv, TypeOK
<1>11. ASSUME NEW c \in CPU, StoreWord(c)
       PROVE  [Abstract!ANext]_(Abstract!avars)
  <2>1. InSection(c) /\ InSection(c)' /\ done' = Bump(done)
    BY <1>11 DEF StoreWord, Goto, InSection, IInv, TypeOK
  <2>2. ~updated
    BY <1>1, <1>11 DEF MutualExclusion, StoreWord, Goto, InSection
  <2>3. updated'
    BY <1>11 DEF StoreWord, Goto, IInv, TypeOK
  <2>4. Owner = c /\ Owner' = c
    BY <2>1, <1>3, <1>4
  <2>5. QED
    BY <2>1, <2>2, <2>3, <2>4, <1>2
       DEF Abstract!ANext, Abstract!Update, Abstract!Bump, Bump
<1>12. ASSUME NEW c \in CPU, Btsl(c) PROVE [Abstract!ANext]_(Abstract!avars)
  <2>1. InSection(c) /\ updated /\ done' = done
    BY <1>12 DEF Btsl, Goto, InSection
  <2>2. \A d \in CPU : ~InSection(d)'
    BY <1>1, <1>12 DEF MutualExclusion, Btsl, Goto, InSection, IInv, TypeOK
  <2>3. ~updated'
    BY <2>2 DEF InSection
  <2>4. Owner = c /\ Owner' = NoCPU
    BY <2>1, <2>2, <1>3, <1>6
  <2>5. QED
    BY <2>1, <2>3, <2>4, <1>2 DEF Abstract!ANext, Abstract!Release
<1>13. CASE UNCHANGED vars
  BY <1>7, <1>13 DEF vars, InSection
<1>14. QED
  BY <1>8, <1>9, <1>10, <1>11, <1>12, <1>13 DEF Next, Execute

\* The spin lock with store buffers implements the abstract lock.
THEOREM Refinement == Spec => ImplementsAbstractLock
<1>1. QED
  BY InductiveInvariant, InitRefines, StepRefines, PTL
     DEF Spec, ImplementsAbstractLock, Abstract!ASpec

=============================================================================
