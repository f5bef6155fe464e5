CONSTANTS
    Users = {u1}
    Sockets = {s1, s2}
    Admins = {a1}
    Savers = {h1}
    Nobody = nobody
    Faults = {"commit"}
    MaxVersion = 2
    MaxEdits = 1
SPECIFICATION Spec
SYMMETRY Symmetry
INVARIANTS
    CachedRoleIsCurrent
PROPERTIES
    OnlyEditorsWrite
    OnlyMembersRead
