SPECIFICATION LibSpec
CONSTANTS
    Sessions = {s1, s2}
    Serials = {1, 2, 3, 4}
    Procs = {p1, p2, p3}
    Max = 1
    IDIsSession = FALSE
    Features = {"release"}
    NoSession = NoSession
    NoWorker = NoWorker
    NoChan = NoChan
    ClosedChan = ClosedChan
INVARIANT LiveAtMostMax
CHECK_DEADLOCK FALSE
