---------------------------- MODULE MCAwareness ----------------------------
(* Model of Awareness for TLC: one client's clock advances, connections are *)
(* interchangeable.                                                        *)
EXTENDS Awareness, TLC

CONSTANTS a, b

MCMaxClock == a :> 2 @@ b :> 1
Symmetry == Permutations(Sockets)

=============================================================================
