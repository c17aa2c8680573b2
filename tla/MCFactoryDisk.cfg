SPECIFICATION Spec
CONSTANTS
    v1 = v1
    v2 = v2
    v3 = v3
    s1 = s1
    s2 = s2
    Slots = {v1, v2}
    IDs = {s1, s2}
    TapNames = {s1, s2}
    SessionOf <- MixedSessions
    TapOf <- OwnName
    MaxVMs = 2
    UIDStart = 1
    UIDSize = 2
    SubnetSize = 5
    Ports = {80, 81}
    Ephemeral = {80}
    Requests = {}
    MaxMappings = 0
    NoOne = NoOne
    LinkFound = TRUE
    DeleteWorks = TRUE
    ExitsInTime = TRUE
INVARIANT OwnDisk
