SPECIFICATION FairDaemonSpec
CONSTANTS
    Sessions = {s1}
    Serials = {1, 2, 3, 4}
    Procs = {h1, b1, reaper}
    Handlers = {h1}
    Boots = {b1}
    Reaper = reaper
    Max = 2
    IDIsSession = TRUE
    NoSession = NoSession
    NoWorker = NoWorker
    NoChan = NoChan
    ClosedChan = ClosedChan
INVARIANTS
    DaemonTypeOK
    CleanExit
PROPERTIES
    DaemonStops
    BootEnds
