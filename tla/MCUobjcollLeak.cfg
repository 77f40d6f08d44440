\* A uobj with settings before one without.
CONSTANTS
    Bridge = {b0, b1}
    Default = b0
    Other = b1
    Unspecified = Unspecified
    Keep = Keep
    Illtyped = Illtyped
    NoSettings = NoSettings
    NoBridge = NoBridge
    Mixed = Mixed
    NUobjs = 2
    CollConfig <- MCCollConfig
    Manifest <- MCManifest
    Origin = Origin
    Source = Source
    Build = Build
SPECIFICATION Spec
INVARIANT NoSettingsMeansDefault
