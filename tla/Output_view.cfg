CONSTANTS
    Streams = {"stdout"}
    MaxOutput <- MCMaxOutput
    Limit = 1
    First = first
    Slots = {r1}
SPECIFICATION ViewFairSpec
INVARIANTS
    ViewTypeOK
    ShowsResult
PROPERTIES
    ViewSettles
CHECK_DEADLOCK FALSE
