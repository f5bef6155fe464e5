----------------------------- MODULE LiveOutput -----------------------------
(***************************************************************************)
(* What the worker promises of one execution to those who only see its row *)
(* and its events: live output in order and within the limit, a status     *)
(* event for what the row holds, and no output behind a stored result.     *)
(* Sandboxes, threads, queues and exceptions do not exist at this level.   *)
(***************************************************************************)
EXTENDS OutputEvents

VARIABLES
    row,            \* Execution.status
    text,           \* what its stdout and stderr hold
    open,           \* live output may still be published
    published       \* history: the events on the channel after STARTING

liveVars == <<row, text, open, published>>

LiveInit ==
    /\ row = "starting" /\ text = "null" /\ open = TRUE
    /\ published = <<>>

Publish(e) == published' = Append(published, e)

(* Notices and status events are published once.                           *)
New(e) == \A i \in DOMAIN published : published[i] # e

(* What may follow of stream s: its next chunk within the limit, or, once  *)
(* the limit is reached, the notice that there is more.                    *)
Continues(s, e) ==
    IF e.kind = "output"
       THEN /\ e.from < e.to /\ e.to <= MaxOutput[s]
            /\ PublishedUpTo(published, s, e.from)
       ELSE /\ Limit < MaxOutput[s]
            /\ PublishedUpTo(published, s, Limit)
            /\ New(e)

(* Live output.  The publisher may end with it.                            *)
Emit(s) ==
    /\ open
    /\ open' \in BOOLEAN
    /\ \E e \in {Output(s, from, to) : from, to \in 0 .. Limit} \cup {Notice(s)} :
        Continues(s, e) /\ Publish(e)
    /\ UNCHANGED <<row, text>>

Close ==
    /\ open
    /\ open' = FALSE
    /\ UNCHANGED <<row, text, published>>

(* The program runs.                                                       *)
Start ==
    /\ row = "starting"
    /\ row' = "running"
    /\ UNCHANGED <<text, open, published>>

CancelRow ==
    /\ row = "running"
    /\ row' = "cancelled"
    /\ UNCHANGED <<text, open, published>>

(* A status event tells what the row holds, or that it was running before  *)
(* it was cancelled.                                                       *)
Report ==
    /\ row # "starting"
    /\ \/ New(Status(row, text)) /\ Publish(Status(row, text))
       \/ /\ row = "cancelled"
          /\ New(Status("running", "null"))
          /\ Publish(Status("running", "null"))
    /\ UNCHANGED <<row, text, open>>

(* The result is stored once live output is over; a cancellation stands.   *)
StoreResult ==
    /\ ~open
    /\ row \in {"running", "cancelled"} /\ text = "null"
    /\ row' = IF row = "cancelled" THEN row ELSE "ended"
    /\ text' = "logs"
    /\ UNCHANGED <<open, published>>

(* An exception of the worker is the result, unless there is one.          *)
StoreError ==
    /\ row \in {"starting", "running", "cancelled"}
    /\ row' = IF row = "cancelled" THEN row ELSE "failed"
    /\ text' = "error"
    /\ UNCHANGED <<open, published>>

LiveNext ==
    \/ \E s \in Streams : Emit(s)
    \/ Close \/ Start \/ CancelRow \/ Report \/ StoreResult \/ StoreError

LiveSpec == LiveInit /\ [][LiveNext]_liveVars
=============================================================================
