\* One user, no faults: what a sequence of commands guarantees.
CONSTANTS
    Proc = {p1}
    Name = {default, s1, s2}
    Default = default
    NoLink = NoLink
    Setting = {k1, k2}
    Value = {v0, v1}
    Invalid = Invalid
    GoldenValue = v0
    MayCrash = FALSE
    CopyMayFail = FALSE
SPECIFICATION Spec
INVARIANTS TypeOK CurrentUsableAtRest
PROPERTY ConfigSetChangesOneSetting
