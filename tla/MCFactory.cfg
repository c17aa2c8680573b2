SPECIFICATION Spec
CONSTANTS
    v1 = v1
    v2 = v2
    v3 = v3
    s1 = s1
    s2 = s2
    Slots = {v1, v2, v3}
    IDs = {s1, s2}
    TapNames = {s1, s2}
    SessionOf <- MixedSessions
    TapOf <- OwnName
    MaxVMs = 2
    UIDStart = 1
    UIDSize = 2
    SubnetSize = 5
    Ports = {80}
    Ephemeral = {80}
    Requests = {0, 80}
    MaxMappings = 2
    NoOne = NoOne
    LinkFound = TRUE
    DeleteWorks = TRUE
    ExitsInTime = TRUE
SYMMETRY Symmetry
INVARIANTS
    TypeOK
    UIDExclusive
    UIDConserved
    AddressExclusive
    RulesLeadHome
    
    NothingLeaks
