SPECIFICATION FairSpec
CONSTANTS
    Sessions = {s1}
    Procs = {p1, p2}
    Leases = {1, 2, 3, 4}
    RuleSets = {{"ttl"}, {"idle"}}
    NoSession = NoSession
    NoLease = NoLease
INVARIANTS
    TypeOK
    NoOrphanWorker
    NeverOvercounted
PROPERTIES
    TTLEnforced
    AbandonedIsReaped
