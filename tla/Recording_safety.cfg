SPECIFICATION Spec
CONSTANTS
    u1 = u1
    u2 = u2
    p1 = p1
    p2 = p2
    c1 = c1
    c2 = c2
    MaxRec = 2
    Url <- OneUrl
    Mpd <- OneUrl
    Pid <- Pids
    ForeignPid = {}
    Client <- Clients
    Janitor = janitor
    Closer = closer
    Delivering = {}
    Aging = {}
    PageSize = 1
    MaxRestart = 0
    DbFaults = TRUE
    Nil = nil
SYMMETRY Symmetry
CONSTRAINT UpOrWritten
INVARIANTS TypeOK NoUntrackedRecorder RecordingRowMonitored
PROPERTIES FinishedStaysFinished
CHECK_DEADLOCK FALSE
