----------------------------- MODULE SaveStatus -----------------------------
(***************************************************************************)
(* The save indicator of one browser: SessionPage.tsx, which saves over    *)
(* HTTP, and CollaborativeEditor.tsx, which compares the server's status   *)
(* frames with a digest of the local Y.Doc that is computed asynchronously.*)
(* The server and the other users are the environment.                     *)
(*                                                                         *)
(* A Yjs state is the set of its updates and its digest is that set.  One  *)
(* action is one task of the browser's event loop.                         *)
(***************************************************************************)
EXTENDS Integers

CONSTANTS
    Updates,
    MaxVersion,         \* bound: changes that one editor reports
    MaxRequest,         \* bound: saves and authorization changes
    MaxComparison       \* bound: comparisons and invalidations in one editor

ASSUME SaveStatusAssumption ==
    MaxVersion \in Nat /\ MaxRequest \in Nat /\ MaxComparison \in Nat

VARIABLES
    server,         \* the live document on the server
    saved,          \* the document of the last explicit save
    doc,            \* the editor's Y.Doc
    synced,         \* initialSyncComplete
    leaving,        \* the page has replaced this editor but not yet rendered
    latest,         \* latestSaveStatus: no frame, or the last one
    comparison,     \* comparisonVersion
    digests,        \* the digest computations under way
    undecided,      \* history: the last comparison failed
    status,         \* saveStatus, what the user sees
    editable,       \* effectiveRole is not viewer
    exported,       \* getDocumentStateRef.current is set
    version,        \* documentVersionRef
    request,        \* saveRequestRef
    inFlight,       \* saveInFlightRef
    calls           \* HTTP saves that the page awaits

serverVars == <<server, saved>>
editorVars == <<doc, synced, latest, comparison, digests, undecided>>
saveVars == <<status, version, request, inFlight>>
pageVars == <<leaving, editable, exported>>
vars == <<serverVars, editorVars, saveVars, pageVars, calls>>

States == SUBSET Updates
Frames == [dirty : BOOLEAN, state : States]
Digests == [version : 1 .. MaxComparison, matches : BOOLEAN, dirty : BOOLEAN]
Calls == [id : 1 .. MaxRequest, version : 0 .. MaxVersion, state : States,
          answer : {"none", "clean", "dirty", "error"}]

TypeOK ==
    /\ server \in States /\ saved \in States
    /\ doc \in States
    /\ synced \in BOOLEAN
    /\ latest \subseteq Frames /\ \A f, g \in latest : f = g
    /\ comparison \in 0 .. MaxComparison
    /\ digests \subseteq Digests
    /\ undecided \in BOOLEAN
    /\ status \in {"idle", "unsaved", "saving", "saved", "error"}
    /\ version \in 0 .. MaxVersion
    /\ request \in 0 .. MaxRequest
    /\ inFlight \in BOOLEAN
    /\ leaving \in BOOLEAN /\ editable \in BOOLEAN
    /\ exported \in BOOLEAN /\ (exported => synced /\ ~leaving)
    /\ calls \subseteq Calls

(* The server's document may be older than the page.                       *)
Init ==
    /\ server \in States /\ saved \in SUBSET server
    /\ doc = {} /\ synced = FALSE /\ latest = {} /\ comparison = 0 /\ digests = {}
    /\ undecided = FALSE
    /\ status = "idle" /\ version = 0 /\ request = 0 /\ inFlight = FALSE
    /\ leaving = FALSE /\ editable \in BOOLEAN /\ exported = FALSE
    /\ calls = {}

-----------------------------------------------------------------------------
(***************************************************************************)
(* The environment                                                         *)
(***************************************************************************)
(* An update of this browser or of another reaches the server.             *)
ServerEdit ==
    /\ \E u \in Updates \ server : server' = server \cup {u}
    /\ UNCHANGED <<saved, editorVars, saveVars, pageVars, calls>>

(* Another user saves.                                                     *)
PeerSave ==
    /\ saved' = server
    /\ UNCHANGED <<server, editorVars, saveVars, pageVars, calls>>

Answered(k, answer) == calls' = (calls \ {k}) \cup {[k EXCEPT !.answer = answer]}

(* The save endpoint merges the upload and persists; edits that arrive     *)
(* meanwhile make the result dirty.                                        *)
ServerSaves(k) ==
    /\ k.answer = "none"
    /\ server' = server \cup k.state
    /\ saved' = server'
    /\ Answered(k, "clean") \/ Answered(k, "dirty")
    /\ UNCHANGED <<editorVars, saveVars, pageVars>>

(* It is refused or fails, having merged the upload or not, or its answer  *)
(* is lost.                                                                *)
SaveFails(k) ==
    /\ \/ k.answer = "none" /\ server' \in {server, server \cup k.state}
       \/ k.answer \in {"clean", "dirty"} /\ UNCHANGED server
    /\ Answered(k, "error")
    /\ UNCHANGED <<saved, editorVars, saveVars, pageVars>>

-----------------------------------------------------------------------------
(***************************************************************************)
(* CollaborativeEditor                                                     *)
(***************************************************************************)
(* publishSaveStatus: the digest of the document as it is now is requested.*)
PublishSaveStatus(frame, state, invalidated) ==
    /\ comparison + invalidated + 1 <= MaxComparison
    /\ comparison' = comparison + invalidated + 1
    /\ digests' = digests \cup
                  {[version |-> comparison', matches |-> state = frame.state,
                    dirty |-> frame.dirty]}
    /\ undecided' = FALSE

(* The update does not invalidate the comparison under way.                *)
Mut_DocumentUpdate(state) ==
    /\ doc' = state
    /\ UNCHANGED <<comparison, synced, latest, digests, undecided>>
    /\ IF synced
         THEN /\ version < MaxVersion
              /\ version' = version + 1
              /\ status' = IF status = "saving" THEN status ELSE "unsaved"
         ELSE UNCHANGED <<version, status>>
    /\ UNCHANGED <<request, inFlight>>

(* handleDocumentUpdate, and the page's handleDocumentChange.              *)
DocumentUpdate(state) ==
    /\ doc' = state
    /\ comparison < MaxComparison
    /\ comparison' = comparison + 1 /\ undecided' = FALSE
    /\ IF synced
         THEN /\ version < MaxVersion
              /\ version' = version + 1
              /\ status' = IF status = "saving" THEN status ELSE "unsaved"
         ELSE UNCHANGED <<version, status>>
    /\ UNCHANGED <<synced, latest, digests, request, inFlight>>

(* The user types, connected or not.                                       *)
Type ==
    /\ editable
    /\ \E u \in Updates \ (doc \cup server) : DocumentUpdate(doc \cup {u})
    /\ UNCHANGED <<serverVars, pageVars, calls>>

ReceiveUpdate ==
    /\ ~leaving
    /\ \E u \in server \ doc : DocumentUpdate(doc \cup {u})
    /\ UNCHANGED <<serverVars, pageVars, calls>>

(* A status frame: after a save or on connection, possibly late, so that   *)
(* it tells of the last explicit save or of one before it.                 *)
ReceiveStatus ==
    /\ ~leaving
    /\ \E f \in Frames :
          /\ f.state \subseteq saved
          /\ latest' = {f}
          /\ PublishSaveStatus(f, doc, 0)
    /\ UNCHANGED <<serverVars, doc, synced, saveVars, pageVars, calls>>

(* The server's state arrives for the first time (its status came before): *)
(* handleDocumentUpdate, then handleSync.                                  *)
Sync ==
    /\ ~leaving /\ ~synced
    /\ \E got \in SUBSET server, f \in latest :
          /\ doc' = doc \cup got
          /\ PublishSaveStatus(f, doc', IF got \subseteq doc THEN 0 ELSE 1)
    /\ synced' = TRUE /\ exported' = TRUE
    /\ UNCHANGED <<serverVars, latest, saveVars, leaving, editable, calls>>

(* The page's handleDocumentSaveStatus.                                    *)
HandleDocumentSaveStatus(matches, dirty) ==
    status' = IF inFlight THEN "saving"
              ELSE IF ~dirty /\ matches THEN "saved" ELSE "unsaved"

(* A digest is there; it counts if neither the document nor latest, which  *)
(* changes with comparisonVersion, has changed since.                      *)
Compared ==
    /\ \E d \in digests :
          /\ digests' = digests \ {d}
          /\ IF d.version = comparison
               THEN HandleDocumentSaveStatus(d.matches, d.dirty)
               ELSE UNCHANGED status
    /\ UNCHANGED <<serverVars, doc, synced, latest, comparison, undecided,
                   version, request, inFlight, pageVars, calls>>

(* The browser cannot compute it: the indicator stays as it is.            *)
CompareFails ==
    /\ \E d \in digests :
          /\ digests' = digests \ {d}
          /\ undecided' = (undecided \/ d.version = comparison)
    /\ UNCHANGED <<serverVars, doc, synced, latest, comparison, saveVars, pageVars,
                   calls>>

-----------------------------------------------------------------------------
(***************************************************************************)
(* SessionPage                                                             *)
(***************************************************************************)
(* handleSave while the document is not ready.                             *)
SaveTooEarly ==
    /\ editable /\ ~inFlight /\ ~exported
    /\ status' = "error"
    /\ UNCHANGED <<serverVars, editorVars, version, request, inFlight,
                   pageVars, calls>>

Save ==
    /\ editable /\ ~inFlight /\ exported
    /\ request < MaxRequest
    /\ request' = request + 1
    /\ inFlight' = TRUE
    /\ status' = "saving"
    /\ calls' = calls \cup {[id |-> request', version |-> version, state |-> doc,
                             answer |-> "none"]}
    /\ UNCHANGED <<serverVars, editorVars, version, pageVars>>

(* The version is not compared.                                            *)
Mut_Verdict(k) ==
    CASE k.answer = "error" -> "error"
      [] k.answer = "clean" -> "saved"
      [] OTHER              -> "unsaved"

Verdict(k) ==
    CASE k.answer = "error"                        -> "error"
      [] k.answer = "clean" /\ version = k.version -> "saved"
      [] OTHER                                     -> "unsaved"

(* The answer arrives; that of a superseded request is ignored.            *)
SaveReturns(k) ==
    /\ k.answer # "none"
    /\ calls' = calls \ {k}
    /\ IF k.id = request
         THEN inFlight' = FALSE /\ status' = Verdict(k)
         ELSE UNCHANGED <<inFlight, status>>
    /\ UNCHANGED <<serverVars, editorVars, version, request, pageVars>>

(* handleSnapshotRestored.                                                 *)
SnapshotRestored ==
    /\ version < MaxVersion
    /\ version' = version + 1
    /\ status' = "unsaved"
    /\ UNCHANGED <<serverVars, editorVars, request, inFlight, pageVars, calls>>

(* The save under way is not given up.                                     *)
Mut_AuthorizationChange ==
    /\ ~leaving
    /\ request < MaxRequest
    /\ leaving' = TRUE /\ exported' = FALSE
    /\ version' = 0 /\ request' = request + 1
    /\ status' = "idle"
    /\ UNCHANGED <<serverVars, editorVars, inFlight, editable, calls>>

(* The server closed the connection for a change of role: the page forgets *)
(* the document and the save under way.                                    *)
AuthorizationChange ==
    /\ ~leaving
    /\ request < MaxRequest
    /\ leaving' = TRUE /\ exported' = FALSE
    /\ version' = 0 /\ request' = request + 1 /\ inFlight' = FALSE
    /\ status' = "idle"
    /\ UNCHANGED <<serverVars, editorVars, editable, calls>>

(* handleEditorMount: an empty document and no status.                     *)
NewEditor ==
    /\ doc' = {} /\ synced' = FALSE /\ latest' = {}
    /\ comparison' = 0 /\ digests' = {} /\ undecided' = FALSE

(* The page is rendered with a new editor and, until the session has been  *)
(* fetched again, for a viewer.  Comparisons of the old editor are void.   *)
Remount ==
    /\ leaving
    /\ leaving' = FALSE /\ editable' = FALSE /\ exported' = FALSE
    /\ NewEditor
    /\ UNCHANGED <<serverVars, saveVars, calls>>

(* The session is there again, with the member's role as it is now.        *)
RoleFetched ==
    /\ ~leaving
    /\ editable' \in BOOLEAN
    /\ UNCHANGED <<serverVars, editorVars, saveVars, leaving, exported, calls>>

-----------------------------------------------------------------------------
CallStep(k) == ServerSaves(k) \/ SaveFails(k) \/ SaveReturns(k)

Next ==
    \/ ServerEdit \/ PeerSave
    \/ Type \/ ReceiveUpdate \/ ReceiveStatus \/ Sync
    \/ Compared \/ CompareFails
    \/ SaveTooEarly \/ Save \/ SnapshotRestored
    \/ AuthorizationChange \/ Remount \/ RoleFetched
    \/ \E k \in calls : CallStep(k)

Spec == Init /\ [][Next]_vars

-----------------------------------------------------------------------------
(***************************************************************************)
(* Properties                                                              *)
(***************************************************************************)
(* "Saved" is shown only when everything in the editor is in the explicit  *)
(* save, or a comparison that will correct it is under way, although       *)
(* edits, answers, status frames and digests overtake each other           *)
(* (SessionPage.handleSave, CollaborativeEditor.publishSaveStatus).  Two   *)
(* cases are excepted, in which it can stand for text that nobody saved:   *)
(* an editor that has not had its first synchronisation reports no edits,  *)
(* so that a frame that matched the document before them is the last word  *)
(* (CollaborativeEditor.tsx:196-201); and a comparison that fails corrects *)
(* nothing (CollaborativeEditor.tsx:153-156).                              *)
SavedIsSaved ==
    status = "saved" =>
        \/ doc \subseteq saved
        \/ \E d \in digests : d.version = comparison
        \/ ~synced
        \/ undecided

(* The page waits only for an answer that will come: neither the indicator *)
(* nor the guard against a second save outlives the request, whatever an   *)
(* authorization change interrupts (SessionPage.handleSave).               *)
SavingIsReal ==
    /\ status = "saving" => inFlight
    /\ inFlight => \E k \in calls : k.id = request

-----------------------------------------------------------------------------
(***************************************************************************)
(* Inductive strengthening                                                 *)
(***************************************************************************)
ServerSound == saved \subseteq server

(* What the editor has been told was saved.                                *)
LatestSound == \A f \in latest : f.state \subseteq saved

(* A digest that counts is one of the document as it is.                   *)
DigestsSound ==
    \A d \in digests :
        /\ d.version <= comparison
        /\ d.version = comparison /\ d.matches => doc \subseteq saved

(* An answer that counts is for this editor, and at an equal version for   *)
(* the document as it is.                                                  *)
CallsSound ==
    \A k \in calls :
        /\ k.id <= request
        /\ k.answer \in {"clean", "dirty"} => k.state \subseteq saved
        /\ k.id = request => /\ synced /\ ~leaving
                             /\ k.version <= version
                             /\ k.version = version => doc \subseteq k.state

IInv ==
    /\ TypeOK /\ ServerSound /\ LatestSound /\ DigestsSound /\ CallsSound
    /\ SavedIsSaved /\ SavingIsReal

=============================================================================
