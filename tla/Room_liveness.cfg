CONSTANTS
    Conns = {c1}
    Reqs = {r1}
    Flusher = flusher
    Nobody = nobody
    Updates = {u1}
    MaxGeneration = 1
    Faults = {"redis_read", "redis_write", "database"}
SPECIFICATION FairSpec
INVARIANTS
    CleanMeansSaved
    CheckpointedMeansRecoverable
    CaptureSeesSave
PROPERTIES
    EveryRequestReturns
    OrphanEvicted
    EditIsCheckpointed
