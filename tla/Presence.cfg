CONSTANTS
    a = a
    b = b
    Clients = {a, b}
    Sockets = {s1, s2, s3}
    Nobody = nobody
    MaxClock <- MCMaxClock
    MaxFrames = 2
SPECIFICATION Spec
SYMMETRY Symmetry
INVARIANTS
    TypeOK
    PresenceIsOwned
    RemovalReaches
    ClockIsKnown
