CONSTANTS
    Conns = {c1, c2}
    Reqs = {r1}
    Flusher = flusher
    Nobody = nobody
    Updates = {u1}
    MaxGeneration = 2
    Faults = {"redis_write", "crash"}
SPECIFICATION Spec
SYMMETRY Symmetry
INVARIANTS
    RoomHasDocument
    NoStrandedEdit
    NoMissedUpdate
    ShutdownLosesNothing
PROPERTIES
    ImplementsDurableDocument
