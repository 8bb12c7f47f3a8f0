SPECIFICATION FairSpec
CONSTANTS
    Client = {c1, c2}
    Room = {r1}
    NoClient = NoClient
    SendBuffer = 1
    MaxFrames = 2
    Answers = {"none", "history"}
    Failing = {}
    Leaving = {c1}
    Cancels = TRUE
PROPERTIES
    ConnectionTornDown
    DroppedIsDisconnected
    HubAnswers
    ShutdownCompletes
