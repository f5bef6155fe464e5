CONSTANTS
    Jobs = {j1, j2}
    Nobody = nobody
    Faults = {"api", "worker", "redis", "docker", "database"}
    MaxFaults = 3
SPECIFICATION FairSpec
INVARIANTS
    RunsAtMostOnce
    SandboxOfJob
    OnlyErrorsAbandon
PROPERTIES
    TerminalIsFinal
    FinishedNeverStarts
    FinishedStops
    EveryJobEnds
CHECK_DEADLOCK FALSE
