---------------------------- MODULE OutputEvents ----------------------------
(***************************************************************************)
(* The events of one execution on its session's Pub/Sub channel, shared by *)
(* the worker that publishes them and the pages that show them.  The bytes *)
(* of a stream are numbered and a chunk is an interval of them.            *)
(***************************************************************************)
EXTENDS Integers, Sequences

CONSTANTS
    Streams,        \* stdout and stderr
    MaxOutput,      \* BOUND: what the program writes to each stream at most
    Limit           \* settings.execution_output_limit_bytes

ASSUME StreamAssumption == MaxOutput \in [Streams -> Nat] /\ Limit \in Nat

Active == {"queued", "starting", "running"}

(* ended: COMPLETED, FAILED or TIMEOUT with the program's output; failed:  *)
(* FAILED with the worker's own error.                                     *)
Rows == Active \cup {"cancelled", "ended", "failed"}

(* What stdout and stderr of the row hold.                                 *)
Texts == {"null", "logs", "error"}

(* _publish_output with a chunk, _publish_output with the notice that the  *)
(* rest is not shown, _publish.                                            *)
Output(s, from, to) == [kind |-> "output", stream |-> s, from |-> from, to |-> to]
Notice(s) == [kind |-> "notice", stream |-> s]
Status(r, x) == [kind |-> "status", row |-> r, text |-> x]

Event ==
    [kind : {"output"}, stream : Streams, from : Nat, to : Nat]
        \cup [kind : {"notice"}, stream : Streams]
        \cup [kind : {"status"}, row : Rows, text : Texts]

OutputOf(s, e) == e.kind = "output" /\ e.stream = s

(* The next byte of stream s to publish is number n: no event of s reaches *)
(* beyond it, and one reaches it.                                          *)
PublishedUpTo(events, s, n) ==
    /\ \A i \in DOMAIN events : OutputOf(s, events[i]) => events[i].to <= n
    /\ n = 0 \/ \E i \in DOMAIN events : OutputOf(s, events[i]) /\ events[i].to = n
=============================================================================
