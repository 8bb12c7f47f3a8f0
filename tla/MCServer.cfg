SPECIFICATION FairSpec
CONSTANTS
    Client = {}
    Room = {r1}
    QueueDepth = 1
    HistoryLimit = 1
    MaxMessages = 2
    MaxTime = 1
    Listener = {"web"}
    Unbindable = {"web"}
    Request = {q1}
    Impatient = {q1}
    NoRequest = NoRequest
    MaxSampled = 1
    Pooled = TRUE
INVARIANTS
    ProcessTypeOK
    CleanExit
    AnswersAreCurrent
PROPERTIES
    HubReturns
    SnapshotReturns
    ShutdownCompletes
