SPECIFICATION FairSpec
CONSTANTS
    Room = {r1, r2}
    NoRoom = NoRoom
    MaxSockets = 6
    MaxSubmits = 1
    MaxLogouts = 2
    MaxFailures = 2
    MaxMoves = 3
    MaxPosts = 1
INVARIANTS
    TypeOK
    JoinedWhatIsShown
    NeverStranded
    NothingTwice
PROPERTIES
    PostsReachTheRoom
    Reconnects
\* A page that is left alone stops.
CHECK_DEADLOCK FALSE
