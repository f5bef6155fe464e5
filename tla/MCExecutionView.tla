--------------------------- MODULE MCExecutionView ---------------------------
(* ExecutionView on a small instance: a program whose output is one chunk. *)
EXTENDS ExecutionView

MCMaxOutput == [s \in Streams |-> 1]
=============================================================================
