\* Safety, refinement and progress, three CPUs, any number of rounds.
\* No symmetry: one of the properties is a liveness property.
CONSTANTS
    CPU = {p1, p2, p3}
    NoCPU = NoCPU
    NoStore = NoStore
    Modulus = 3
SPECIFICATION FairSpec
INVARIANTS TypeOK MutualExclusion NoLostUpdate
PROPERTIES ImplementsAbstractLock SomeSpinnerEnters
