SPECIFICATION Spec
CONSTANTS
    Client = {c1, c2}
    Room = {r1, r2}
    NoClient = NoClient
    SendBuffer = 1
    MaxFrames = 4
    Answers = {"none"}
    Failing = {c1, c2}
    Leaving = {}
    Cancels = TRUE
SYMMETRY MCSymmetry
INVARIANTS
    TypeOK
    NoDoubleClose
    Lifecycle
    MembersAreConnected
    NoEmptyRooms
PROPERTIES
    RosterAnnounced
    ImplementsService
