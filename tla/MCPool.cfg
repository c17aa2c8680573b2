SPECIFICATION Spec
CONSTANTS
    Sessions = {s1, s2}
    Serials = {1, 2, 3, 4, 5}
    Procs = {p1, p2, p3}
    Max = 2
    IDIsSession = TRUE
    NoSession = NoSession
    NoWorker = NoWorker
    NoChan = NoChan
    ClosedChan = ClosedChan
SYMMETRY Symmetry
INVARIANTS
    TypeOK
    TicketConservation
    LiveAtMostMax
    SingleFlight
    OneOwner
    PinnedIsListed
PROPERTIES
    Implements
