-------------------------- MODULE MCUobjcollLayout --------------------------
(***************************************************************************)
(* Instances of UobjcollLayout for TLC.  The unit is half of the 0x200000  *)
(* to which config/uberspark.json aligns everything, so that sizes that    *)
(* are not aligned exist.  Two uobjs are enough for one to follow another. *)
(***************************************************************************)
EXTENDS UobjcollLayout

CONSTANTS main, other, call, jump

Golden == [sectionAlign |-> 2, defaultSize |-> 2, uobjAlign |-> 2,
           uobjSize |-> 36, uniform |-> FALSE, collAlign |-> 2, load |-> 96]
MCConfigs ==
    {Golden,
     [Golden EXCEPT !.uniform = TRUE],
     [Golden EXCEPT !.uobjAlign = 4, !.collAlign = 4],
     [Golden EXCEPT !.uobjAlign = 4],
     [Golden EXCEPT !.sectionAlign = 3, !.uobjAlign = 4, !.collAlign = 4]}

Uobjs ==
    [name : {main}, methods : {0, 1}, sections : {<<>>, <<1, 3>>}]
Others ==
    [name : {other}, methods : {1}, sections : {<<3>>, <<2, 2, 2, 2, 2>>}]
MCCollections ==
    [uobjs : {<<a, b>> : a \in Uobjs, b \in Others},
     exposed : {{}, {[uobj |-> 2, method |-> 1, type |-> call]}},
     intra : {{}, {call}, {jump}}]
    \cup [uobjs : {<<[name |-> main, methods |-> 1, sections |-> <<>>],
                     [name |-> main, methods |-> 1, sections |-> <<2>>]>>},
          exposed : {{[uobj |-> 1, method |-> 2, type |-> call]}},
          intra : {{}}]

MCCodeSize ==
    [c \in Facet \X {call, jump} |-> IF c = <<"inter", call>> THEN 2 ELSE 3]
=============================================================================
