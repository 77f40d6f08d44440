------------------------------ MODULE MCStaging ------------------------------
(***************************************************************************)
(* Instances of Staging for TLC.  Two names are enough besides nothing:    *)
(* the installed `default' and one that does not exist at first, so that   *)
(* every command meets an existing, a missing and the current staging.     *)
(***************************************************************************)
EXTENDS Staging, TLC

\* Processes are interchangeable: no action and no property names one.
Symmetry == Permutations(Proc)
=============================================================================
