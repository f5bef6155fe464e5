--------------------------- MODULE MCRoomDurability ---------------------------
(* RoomDurability on a small instance.  Clients are interchangeable, and   *)
(* so are update identities: no definition tells two of them apart.        *)
EXTENDS RoomDurability, TLC

Symmetry == Permutations(Conns) \cup Permutations(Updates)
=============================================================================
