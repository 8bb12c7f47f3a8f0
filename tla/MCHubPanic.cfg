SPECIFICATION Spec
CONSTANTS
    Client = {c1, c2}
    Room = {r1}
    NoClient = NoClient
    SendBuffer = 1
    MaxFrames = 4
    Answers = {"none"}
    Failing = {c1, c2}
    Leaving = {}
    Cancels = FALSE
SYMMETRY MCSymmetry
INVARIANT HubNeverPanics
