CONSTANTS
    MaxTries = 2
    W = W
    Shells = {s1}
    Orphans = {o1, o2}
SPECIFICATION FairSpec
INVARIANTS TypeOK ReadyFirst
PROPERTIES ZombiesReaped DialledIsServed AbandonedShutsDown
CHECK_DEADLOCK FALSE
