---------------------------- MODULE MCSaveStatus ----------------------------
(* SaveStatus on a small instance.  Updates are interchangeable.           *)
EXTENDS SaveStatus, TLC

Symmetry == Permutations(Updates)
=============================================================================
