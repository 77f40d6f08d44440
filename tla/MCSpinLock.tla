----------------------------- MODULE MCSpinLock -----------------------------
(***************************************************************************)
(* Instances of SpinLock for TLC: three CPUs (the smallest number in which *)
(* one CPU can enter while two others race at the locked btrl) and a word  *)
(* of Modulus values, so that rounds repeat without end.                   *)
(***************************************************************************)
EXTENDS SpinLock

=============================================================================
