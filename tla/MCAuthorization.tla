--------------------------- MODULE MCAuthorization ---------------------------
(* Authorization on a small instance.  Users, and the slots of each kind,  *)
(* are interchangeable.                                                    *)
EXTENDS Authorization, TLC

Symmetry ==
    Permutations(Users) \cup Permutations(Sockets) \cup Permutations(Admins)
=============================================================================
