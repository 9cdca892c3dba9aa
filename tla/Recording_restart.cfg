SPECIFICATION Spec
CONSTANTS
    u1 = u1
    u2 = u2
    p1 = p1
    p2 = p2
    c1 = c1
    c2 = c2
    MaxRec = 2
    Url <- OneUrl
    Mpd <- OneUrl
    Pid <- Pids
    ForeignPid <- Pids
    Client <- OneClient
    Janitor = janitor
    Closer = closer
    Delivering = {1}
    Aging = {1}
    PageSize = 1
    MaxRestart = 1
    DbFaults = FALSE
    Nil = nil
SYMMETRY PidSymmetry
PROPERTIES ImplementsLedger NoRemovalUnderRecorder
CHECK_DEADLOCK FALSE
