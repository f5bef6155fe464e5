CONSTANTS
    Streams = {"stdout"}
    MaxOutput <- MCMaxOutput
    Limit = 2
    QueueSize = 1
    End = end
    Faults = {"redis", "docker", "database"}
SPECIFICATION StreamFairSpec
INVARIANTS
    LiveIsPrefix
    LiveIsComplete
    ResultIsLast
PROPERTIES
    ImplementsLiveOutput
    ProcessReturns
    ThreadEnds
CHECK_DEADLOCK FALSE
