CONSTANTS
    Users = {u1}
    Sockets = {s1}
    Admins = {a1, a2}
    Savers = {}
    Nobody = nobody
    Faults = {}
    MaxVersion = 1
    MaxEdits = 1
SPECIFICATION Spec
SYMMETRY Symmetry
INVARIANTS
    AcknowledgedRoleHolds
