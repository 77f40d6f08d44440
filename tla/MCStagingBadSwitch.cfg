\* switch with a name that no staging has.
CONSTANTS
    Proc = {p1}
    Name = {default, s1}
    Default = default
    NoLink = NoLink
    Setting = {k1}
    Value = {v0, v1}
    Invalid = Invalid
    GoldenValue = v0
    MayCrash = FALSE
    CopyMayFail = FALSE
SPECIFICATION Spec
INVARIANT SwitchOnlyToExisting
