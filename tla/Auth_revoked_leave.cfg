CONSTANTS
    Users = {u1}
    Sockets = {s1}
    Admins = {a1}
    Savers = {h1}
    Nobody = nobody
    Faults = {"commit", "refresh"}
    MaxVersion = 1
    MaxEdits = 1
SPECIFICATION FairSpec
PROPERTIES
    RevokedLeave
