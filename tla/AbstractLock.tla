---------------------------- MODULE AbstractLock ----------------------------
(***************************************************************************)
(* What spin_lock / spin_unlock of libxmhfhw promise their callers: the    *)
(* critical sections of all CPUs are serialised, and each update made in   *)
(* one of them is applied to the value the previous one left behind.       *)
(***************************************************************************)
EXTENDS Naturals

CONSTANTS
    CPU,        \* the CPUs that use the lock
    NoCPU,      \* "nobody holds the lock"
    Modulus     \* number of values of the word the callers protect

VARIABLES
    owner,      \* the CPU inside the critical section, or NoCPU
    value,      \* the protected word
    updated     \* the owner has made its update

avars == <<owner, value, updated>>

Bump(v) == (v + 1) % Modulus

AInit ==
    /\ owner = NoCPU
    /\ value = 0
    /\ updated = FALSE

Acquire(c) ==
    /\ owner = NoCPU
    /\ owner' = c
    /\ updated' = FALSE
    /\ UNCHANGED value

Update(c) ==
    /\ owner = c
    /\ ~updated
    /\ value' = Bump(value)
    /\ updated' = TRUE
    /\ UNCHANGED owner

Release(c) ==
    /\ owner = c
    /\ updated
    /\ owner' = NoCPU
    /\ updated' = FALSE
    /\ UNCHANGED value

ANext == \E c \in CPU : Acquire(c) \/ Update(c) \/ Release(c)

ASpec == AInit /\ [][ANext]_avars

=============================================================================
