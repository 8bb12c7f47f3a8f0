SPECIFICATION Spec
CONSTANTS
    Client = {c1}
    Room = {r1}
    QueueDepth = 2
    HistoryLimit = 2
    MaxMessages = 4
    MaxTime = 2
SYMMETRY MCSymmetry
INVARIANT JoinSeesRecent
