SPECIFICATION Spec
CONSTANTS
    MaxInits = 2
    MaxMissed = 1
INVARIANTS
    TypeOK
    PoolOnFiles
    RollbackRestores
    TeardownComplete
    NatBalanced
