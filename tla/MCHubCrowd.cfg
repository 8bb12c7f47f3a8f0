SPECIFICATION Spec
CONSTANTS
    Client = {c1, c2, c3}
    Room = {r1}
    NoClient = NoClient
    SendBuffer = 2
    MaxFrames = 5
    Answers = {"history"}
    Failing = {}
    Leaving = {}
    Cancels = FALSE
SYMMETRY MCSymmetry
INVARIANTS
    InOrder
    NoSilentLoss
CHECK_DEADLOCK FALSE
