\* A collection of two uobjs, every answer of every tool.
CONSTANTS
    Bridge = {b0, b1}
    Default = b0
    Other = b1
    Unspecified = Unspecified
    Keep = Keep
    Illtyped = Illtyped
    NoSettings = NoSettings
    NoBridge = NoBridge
    Mixed = Mixed
    NUobjs = 2
    CollConfig <- MCCollConfig
    Manifest <- MCManifest
    Origin = Origin
    Source = Source
    Build = Build
SPECIFICATION Spec
INVARIANTS TypeOK LinkedFromAllImages BridgesMatchConfig GeneratedInBuildDir DefaultsStayDefaults
