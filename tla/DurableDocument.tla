--------------------------- MODULE DurableDocument ---------------------------
(***************************************************************************)
(* What a session's document promises, whoever uses it: three sets of      *)
(* updates.  Edits enter `live`; an explicit save and a recovery backup    *)
(* copy from it and only ever grow.  Only the end of the server process    *)
(* can take `live` back, to what those two hold and no further: a crash,   *)
(* or a stop whose last backup failed, but not one whose backup succeeded. *)
(* Loading, evicting and reloading the document do not exist at this       *)
(* level: nobody can tell.                                                 *)
(***************************************************************************)
CONSTANT Updates

VARIABLES
    live,       \* the document as users see it
    explicit,   \* what the last explicit save made durable
    recovery,   \* what the last backup made recoverable
    process     \* "running", or how the server process has ended

document == <<live, explicit, recovery>>
vars == <<document, process>>

Init == live = {} /\ explicit = {} /\ recovery = {} /\ process = "running"

Edit ==
    /\ \E us \in SUBSET Updates : live' = live \cup us
    /\ UNCHANGED <<explicit, recovery>>

Save ==
    /\ explicit' \in SUBSET live
    /\ explicit \subseteq explicit'
    /\ UNCHANGED <<live, recovery>>

Backup ==
    /\ recovery' \in SUBSET live
    /\ recovery \subseteq recovery'
    /\ UNCHANGED <<live, explicit>>

Use == process = "running" /\ (Edit \/ Save \/ Backup) /\ UNCHANGED process

Lose == live' = explicit \cup recovery /\ UNCHANGED <<explicit, recovery>>

(* A stop, with its last backup or without it.                             *)
Stop ==
    /\ process = "running"
    /\ process' \in {"stopped", "unsaved"}
    /\ UNCHANGED document

Crash ==
    /\ process # "crashed"
    /\ process' = "crashed"
    /\ Lose

(* A new process.  It finds all that a clean stop has left.                *)
Start ==
    /\ process # "running"
    /\ process' = "running"
    /\ IF process = "unsaved" THEN Lose ELSE UNCHANGED document

Next == Use \/ Stop \/ Crash \/ Start

Spec == Init /\ [][Next]_vars
=============================================================================
