\* Two users, crashes between any two system calls, failing copies.
CONSTANTS
    Proc = {p1, p2}
    Name = {default, s1}
    Default = default
    NoLink = NoLink
    Setting = {k1}
    Value = {v0}
    Invalid = Invalid
    GoldenValue = v0
    MayCrash = TRUE
    CopyMayFail = TRUE
SPECIFICATION Spec
INVARIANTS LinkHasOneOwner LinkNeverLost
PROPERTY StuckForever
SYMMETRY Symmetry
