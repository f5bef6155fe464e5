CONSTANTS
    Jobs = {j1}
    Nobody = nobody
    Faults = {"redis"}
    MaxFaults = 1
SPECIFICATION Spec
INVARIANTS
    ClaimIsHeld
CHECK_DEADLOCK FALSE
