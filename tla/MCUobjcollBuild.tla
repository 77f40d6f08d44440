--------------------------- MODULE MCUobjcollBuild ---------------------------
(***************************************************************************)
(* Instances of UobjcollBuild for TLC: the collection is configured with   *)
(* one bridge of each kind, a manifest leaves each of them alone, names    *)
(* another one, or has an ill-typed field.                                 *)
(***************************************************************************)
EXTENDS UobjcollBuild

CONSTANTS Default, Other    \* two bridges

MCCollConfig == [k \in Kind |-> Default]
MCManifest == [Kind -> {Other, Keep, Illtyped}] \cup {NoSettings}
=============================================================================
