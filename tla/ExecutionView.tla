--------------------------- MODULE ExecutionView ---------------------------
(***************************************************************************)
(* One execution as a session page shows it: the relay from the Pub/Sub    *)
(* channel to the room's connections (events.run_execution_event_relay,    *)
(* websocket.broadcast_execution_event), the requests of the page, and     *)
(* what the page makes of both (SessionPage.tsx).  The worker is any that  *)
(* keeps the promise of LiveOutput.                                        *)
(*                                                                         *)
(* The channel has no replay: an event is skipped while the relay          *)
(* reconnects, while the page is offline, or when a send fails.  An answer *)
(* to a request holds the row as it was when the server read it, comes     *)
(* whenever it likes or not at all, and never cancels another one.         *)
(***************************************************************************)
EXTENDS LiveOutput

CONSTANTS
    First,          \* the request that the page begins with
    Slots           \* BOUND: later requests that are under way at a time

VARIABLES
    delivered,      \* events that the page can no longer receive
    request,        \* each request under way
    view,           \* the page's record of the execution
    selected,       \* the page shows this execution
    got             \* history: the page has had the event with the result

pageVars == <<delivered, request, view, selected, got>>
viewVars == <<liveVars, pageVars>>

Requests == {First} \cup Slots

None == [state |-> "none"]
Asked(how) == [state |-> "asked", how |-> how]
Answer(how, r, x) == [state |-> "answer", how |-> how, row |-> r, text |-> x]

(* GET, POST /run, the list; a list that was read before this execution    *)
(* was created.                                                            *)
Hows == {"get", "run", "list", "olderList"}

(* text: the stored text shown, null if none; more: live output behind it. *)
Views == [known : BOOLEAN, row : Rows, text : Texts, more : BOOLEAN]

Unknown == [known |-> FALSE, row |-> "queued", text |-> "null", more |-> FALSE]

ViewTypeOK ==
    /\ delivered \in 0 .. Len(published)
    /\ request \in [Requests ->
           {None} \cup {Asked(h) : h \in Hows}
               \cup {Answer(h, r, x) : h \in Hows, r \in Rows, x \in Texts}]
    /\ view \in Views
    /\ ~view.known => view = Unknown
    /\ selected \in BOOLEAN /\ got \in BOOLEAN

(* The page has just been opened and lists the executions, perhaps those   *)
(* before this one, or the answer to its POST /run is on its way.          *)
ViewInit ==
    /\ LiveInit
    /\ delivered = 0
    /\ \E r \in {Asked("list"), Answer("olderList", "queued", "null"),
                Answer("run", "queued", "null")} :
           request = [s \in Requests |-> IF s = First THEN r ELSE None]
    /\ view = Unknown
    /\ selected = FALSE /\ got = FALSE

-----------------------------------------------------------------------------
(***************************************************************************)
(* Events                                                                  *)
(***************************************************************************)

(* The stored text of a status event is added to the live output.          *)
Mut_Applied(v, e) ==
    IF e.kind = "status"
       THEN [v EXCEPT !.row = e.row,
                      !.text = IF e.text = "null" THEN @ ELSE e.text]
       ELSE [v EXCEPT !.more = TRUE]

(* handleExecutionEvent on a known execution: output is appended, a status *)
(* replaces the text unless it carries none.                               *)
Applied(v, e) ==
    IF e.kind = "status"
       THEN [v EXCEPT !.row = e.row,
                      !.text = IF e.text = "null" THEN @ ELSE e.text,
                      !.more = @ /\ e.text = "null"]
       ELSE [v EXCEPT !.more = TRUE]

(* An event creates the record it tells about.                             *)
Mut_Deliver ==
    /\ delivered < Len(published)
    /\ delivered' = delivered + 1
    /\ view' = Applied(view, published[delivered + 1])
    /\ selected' = TRUE
    /\ UNCHANGED <<liveVars, request, got>>

(* An event of an execution the page does not know makes it ask.           *)
Deliver ==
    /\ delivered < Len(published)
    /\ delivered' = delivered + 1
    /\ LET e == published[delivered + 1] IN
        IF view.known
           THEN /\ view' = Applied(view, e)
                /\ got' = (got \/ (e.kind = "status" /\ e.text = "logs"))
                /\ UNCHANGED request
           ELSE /\ \E s \in Slots :
                    /\ request[s] = None
                    /\ request' = [request EXCEPT ![s] = Asked("get")]
                /\ UNCHANGED <<view, got>>
    /\ selected' = TRUE
    /\ UNCHANGED liveVars

Skip ==
    /\ delivered < Len(published)
    /\ delivered' = delivered + 1
    /\ UNCHANGED <<liveVars, request, view, selected, got>>

-----------------------------------------------------------------------------
(***************************************************************************)
(* Requests                                                                *)
(***************************************************************************)

(* The page polls what it was told first: any unfinished execution.        *)
Mut_Poll ==
    /\ selected /\ view.known /\ view.row \in {"queued", "starting"}
    /\ \E s \in Slots :
        /\ request[s] = None
        /\ request' = [request EXCEPT ![s] = Asked("get")]
    /\ UNCHANGED <<liveVars, delivered, view, selected, got>>

(* Once a second while the selected execution looks unfinished.            *)
Poll ==
    /\ selected /\ view.known /\ view.row \in Active
    /\ \E s \in Slots :
        /\ request[s] = None
        /\ request' = [request EXCEPT ![s] = Asked("get")]
    /\ UNCHANGED <<liveVars, delivered, view, selected, got>>

(* The server reads the row: execution_detail, execution_history.          *)
Serve(s) ==
    /\ request[s].state = "asked"
    /\ request' = [request EXCEPT ![s] = Answer(@.how, row, text)]
    /\ UNCHANGED <<liveVars, delivered, view, selected, got>>

(* The page cancels the execution: cancel_execution commits and answers.   *)
ClickCancel ==
    /\ selected /\ view.known
    /\ CancelRow
    /\ \E s \in Slots :
        /\ request[s] = None
        /\ request' = [request EXCEPT ![s] = Answer("get", "cancelled", text)]
    /\ UNCHANGED <<delivered, view, selected, got>>

(* upsertExecution: a text of null keeps the one shown.                    *)
Upserted(v, a) ==
    IF a.text = "null" THEN [v EXCEPT !.known = TRUE, !.row = a.row]
    ELSE [known |-> TRUE, row |-> a.row, text |-> a.text, more |-> FALSE]

(* A list replaces all records, and selects one if none is.                *)
Listed(a) == [known |-> TRUE, row |-> a.row, text |-> a.text, more |-> FALSE]

Receive(s) ==
    /\ request[s].state = "answer"
    /\ request' = [request EXCEPT ![s] = None]
    /\ LET a == request[s] IN
        \/ /\ a.how \in {"get", "run"}
           /\ view' = Upserted(view, a)
           /\ selected' = (selected \/ a.how = "run")
           /\ UNCHANGED got
        \/ /\ a.how = "list"
           /\ view' = Listed(a)
           /\ selected' \in {selected, TRUE}
           /\ got' = (got /\ a.text # "null")
        \/ /\ a.how = "olderList"
           /\ view' = Unknown
           /\ got' = FALSE
           /\ UNCHANGED selected
    /\ UNCHANGED <<liveVars, delivered>>

(* The request fails, or its answer is lost.                               *)
Drop(s) ==
    /\ request[s] # None
    /\ request' = [request EXCEPT ![s] = None]
    /\ UNCHANGED <<liveVars, delivered, view, selected, got>>

(* Another execution is selected, by the user or by an event of its own.   *)
SelectOther ==
    /\ selected
    /\ selected' = FALSE
    /\ UNCHANGED <<liveVars, delivered, request, view, got>>

SelectThis ==
    /\ ~selected /\ view.known
    /\ selected' = TRUE
    /\ UNCHANGED <<liveVars, delivered, request, view, got>>

-----------------------------------------------------------------------------
PageStep ==
    \/ Deliver \/ Skip
    \/ Poll \/ ClickCancel \/ SelectOther \/ SelectThis
    \/ \E s \in Requests : Serve(s) \/ Receive(s) \/ Drop(s)

ViewNext == (LiveNext /\ UNCHANGED pageVars) \/ PageStep

ViewSpec == ViewInit /\ [][ViewNext]_viewVars

(* The interval fires, and of many requests some is served and some answer *)
(* arrives.                                                                *)
ViewFairness ==
    /\ WF_viewVars(Poll)
    /\ \A s \in Slots : /\ SF_viewVars(Serve(s))
                        /\ SF_viewVars(Receive(s))

ViewFairSpec == ViewSpec /\ ViewFairness

-----------------------------------------------------------------------------
(***************************************************************************)
(* Properties                                                              *)
(***************************************************************************)
(* A page that has had the event with the result shows that result and     *)
(* nothing else from then on, however polls, events and live output        *)
(* overtake each other: late output is not left behind it, and an old      *)
(* answer takes back no text.  A list is the exception: it may be from     *)
(* before the result (handleExecutionEvent, upsertExecution).              *)
ShowsResult == (got /\ text = "logs") => (view.text = "logs" /\ ~view.more)

(* An execution that stays selected is in the end shown with the status    *)
(* that its row ended with, although late events and old answers turn a    *)
(* finished execution back into a running one (the polling effect).        *)
ViewSettles ==
    (<>[](selected /\ view.known) /\ <>(row \notin Active)) => <>[](view.row = row)
=============================================================================
