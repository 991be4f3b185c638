SPECIFICATION Spec
SYMMETRY Symmetry
CONSTANTS
    Targets = {a, b}
    Returns = {0, 1, 2}
    MaxTxs = 2
    MaxCalls = 4
INVARIANTS
    TypeOK
    NeverStuck
    RootReached
    EtherBalanced
    DerivedRoot
    PairsReconstructed
PROPERTIES
    ImplementsSynchronousCalls
