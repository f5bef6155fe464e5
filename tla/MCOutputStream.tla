--------------------------- MODULE MCOutputStream ---------------------------
(* OutputStream on a small instance: a stream that exceeds the limit.      *)
EXTENDS OutputStream

MCMaxOutput == [s \in Streams |-> 3]
=============================================================================
