SPECIFICATION FairSpec
CONSTANTS
    Sessions = {s1, s2}
    Serials = {1, 2, 3}
    Procs = {p1, p2, p3}
    Max = 1
    IDIsSession = TRUE
    NoSession = NoSession
    NoWorker = NoWorker
    NoChan = NoChan
    ClosedChan = ClosedChan
PROPERTIES
    TicketHolderReturns
    WaitersWake
