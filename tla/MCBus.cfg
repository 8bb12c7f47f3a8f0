SPECIFICATION FairSpec
CONSTANTS
    Publisher = {p1, p2}
    Subscription = {s1, s2}
    Buffer = 2
    MaxMessages = 4
INVARIANTS
    TypeOK
    NoSendOnClosed
    InOrder
    ServedOrSkipped
PROPERTY CancelledIsClosed
CHECK_DEADLOCK FALSE
