SPECIFICATION FairSpec
CONSTANTS
    u1 = u1
    u2 = u2
    p1 = p1
    p2 = p2
    c1 = c1
    c2 = c2
    MaxRec = 1
    Url <- OneUrl
    Mpd <- OneUrl
    Pid <- OnePid
    ForeignPid = {}
    Client <- Clients
    Janitor = janitor
    Closer = closer
    Delivering = {}
    Aging = {}
    PageSize = 1
    MaxRestart = 0
    DbFaults = TRUE
    Nil = nil
PROPERTIES StopReturns StartsSettle RecordingsEnd
CHECK_DEADLOCK FALSE
