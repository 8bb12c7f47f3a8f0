SPECIFICATION Spec
CONSTANTS
    Client = {c1}
    Room = {r1, r2}
    QueueDepth = 2
    HistoryLimit = 2
    MaxMessages = 3
    MaxTime = 2
SYMMETRY MCSymmetry
INVARIANTS
    TypeOK
    StoredInOrder
    AccountedFor
    HistoryBeforeLive
    HistoryIsTail
PROPERTY ImplementsLog
