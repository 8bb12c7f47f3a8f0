SPECIFICATION Spec
CONSTANTS
    Request = {q1, q2, q3}
    Browser = {b1, b2}
    Username = {alice}
    Password = {good, other, short, long}
    Refused = {short}
    TooLong = {long}
    NoOne = NoOne
    TTL = 1
    MaxTime = 1
    Failures = {"before", "after"}
SYMMETRY MCSymmetry
INVARIANTS
    TypeOK
    OneOwner
    SessionsStand
PROPERTY AdmittedRightly
