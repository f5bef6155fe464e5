-------------------------- MODULE SaveStatusProofs --------------------------
(***************************************************************************)
(* Proofs about SaveStatus, for any set of updates and any bounds.         *)
(***************************************************************************)
EXTENDS SaveStatus, TLAPS

(* Counters start within their bounds.                                     *)
LEMMA ZeroBounds ==
    0 \in 0 .. MaxVersion /\ 0 \in 0 .. MaxRequest /\ 0 \in 0 .. MaxComparison
  BY SaveStatusAssumption

(* The initial states satisfy the invariant.                               *)
LEMMA InitIInv == Init => IInv
<1> SUFFICES ASSUME Init PROVE IInv
  OBVIOUS
<1>1. TypeOK
  BY ZeroBounds DEF Init, TypeOK, States
<1>2. ServerSound /\ LatestSound /\ DigestsSound /\ CallsSound
  BY DEF Init, ServerSound, LatestSound, DigestsSound, CallsSound
<1>3. SavedIsSaved /\ SavingIsReal
  BY DEF Init, SavedIsSaved, SavingIsReal
<1> QED BY <1>1, <1>2, <1>3 DEF IInv

(* A call that is answered keeps its identity.                             *)
LEMMA AnsweredIds ==
    ASSUME TypeOK, NEW k \in calls, NEW a, Answered(k, a), NEW i,
           \E c \in calls : c.id = i
    PROVE  \E c \in calls' : c.id = i
<1>1. PICK c \in calls : c.id = i
  OBVIOUS
<1>2. [k EXCEPT !.answer = a].id = k.id
  BY DEF TypeOK, Calls
<1>3. CASE c = k
  <2>1. [k EXCEPT !.answer = a] \in calls'
    BY DEF Answered
  <2> QED BY <1>1, <1>2, <1>3, <2>1
<1>4. CASE c # k
  BY <1>1, <1>4 DEF Answered
<1> QED BY <1>3, <1>4

(* ServerEdit preserves the invariant.                                      *)
LEMMA ServerEditIInv ==
    ASSUME IInv, ServerEdit
    PROVE  IInv'
<1> USE DEF serverVars, editorVars, saveVars, pageVars
<1>1. TypeOK'
  BY SaveStatusAssumption DEF ServerEdit, IInv, TypeOK, States, Frames, Digests, Calls
<1>2. ServerSound' /\ LatestSound'
  BY DEF ServerEdit, IInv, TypeOK, ServerSound, LatestSound
<1>3. DigestsSound'
  BY DEF ServerEdit, IInv, TypeOK, Digests, ServerSound, DigestsSound
<1>4. CallsSound'
  BY DEF ServerEdit, IInv, TypeOK, Calls, ServerSound, CallsSound
<1>5. SavedIsSaved'
  BY DEF ServerEdit, IInv, TypeOK, ServerSound, DigestsSound, CallsSound, SavedIsSaved
<1>6. SavingIsReal'
  BY DEF ServerEdit, IInv, TypeOK, CallsSound, SavingIsReal
<1> QED BY <1>1, <1>2, <1>3, <1>4, <1>5, <1>6 DEF IInv

(* PeerSave preserves the invariant.                                        *)
LEMMA PeerSaveIInv ==
    ASSUME IInv, PeerSave
    PROVE  IInv'
<1> USE DEF serverVars, editorVars, saveVars, pageVars
<1>1. TypeOK'
  BY SaveStatusAssumption DEF PeerSave, IInv, TypeOK, States, Frames, Digests, Calls
<1>2. ServerSound' /\ LatestSound'
  BY DEF PeerSave, IInv, TypeOK, ServerSound, LatestSound
<1>3. DigestsSound'
  BY DEF PeerSave, IInv, TypeOK, Digests, ServerSound, DigestsSound
<1>4. CallsSound'
  BY DEF PeerSave, IInv, TypeOK, Calls, ServerSound, CallsSound
<1>5. SavedIsSaved'
  BY DEF PeerSave, IInv, TypeOK, ServerSound, DigestsSound, CallsSound, SavedIsSaved
<1>6. SavingIsReal'
  BY DEF PeerSave, IInv, TypeOK, CallsSound, SavingIsReal
<1> QED BY <1>1, <1>2, <1>3, <1>4, <1>5, <1>6 DEF IInv

(* SaveTooEarly preserves the invariant.                                    *)
LEMMA SaveTooEarlyIInv ==
    ASSUME IInv, SaveTooEarly
    PROVE  IInv'
<1> USE DEF serverVars, editorVars, saveVars, pageVars
<1>1. TypeOK'
  BY SaveStatusAssumption DEF SaveTooEarly, IInv, TypeOK, States, Frames, Digests, Calls
<1>2. ServerSound' /\ LatestSound'
  BY DEF SaveTooEarly, IInv, TypeOK, ServerSound, LatestSound
<1>3. DigestsSound'
  BY DEF SaveTooEarly, IInv, TypeOK, Digests, ServerSound, DigestsSound
<1>4. CallsSound'
  BY DEF SaveTooEarly, IInv, TypeOK, Calls, ServerSound, CallsSound
<1>5. SavedIsSaved'
  BY DEF SaveTooEarly, IInv, TypeOK, ServerSound, DigestsSound, CallsSound, SavedIsSaved
<1>6. SavingIsReal'
  BY DEF SaveTooEarly, IInv, TypeOK, CallsSound, SavingIsReal
<1> QED BY <1>1, <1>2, <1>3, <1>4, <1>5, <1>6 DEF IInv

(* SnapshotRestored preserves the invariant.                                *)
LEMMA SnapshotRestoredIInv ==
    ASSUME IInv, SnapshotRestored
    PROVE  IInv'
<1> USE DEF serverVars, editorVars, saveVars, pageVars
<1>1. TypeOK'
  BY SaveStatusAssumption DEF SnapshotRestored, IInv, TypeOK, States, Frames, Digests, Calls
<1>2. ServerSound' /\ LatestSound'
  BY DEF SnapshotRestored, IInv, TypeOK, ServerSound, LatestSound
<1>3. DigestsSound'
  BY DEF SnapshotRestored, IInv, TypeOK, Digests, ServerSound, DigestsSound
<1>4. CallsSound'
  BY DEF SnapshotRestored, IInv, TypeOK, Calls, ServerSound, CallsSound
<1>5. SavedIsSaved'
  BY DEF SnapshotRestored, IInv, TypeOK, ServerSound, DigestsSound, CallsSound, SavedIsSaved
<1>6. SavingIsReal'
  BY DEF SnapshotRestored, IInv, TypeOK, CallsSound, SavingIsReal
<1> QED BY <1>1, <1>2, <1>3, <1>4, <1>5, <1>6 DEF IInv

(* AuthorizationChange preserves the invariant.                             *)
LEMMA AuthorizationChangeIInv ==
    ASSUME IInv, AuthorizationChange
    PROVE  IInv'
<1> USE DEF serverVars, editorVars, saveVars, pageVars
<1>1. TypeOK'
  <2>1. version' \in 0 .. MaxVersion
    BY ZeroBounds DEF AuthorizationChange
  <2>2. request' \in 0 .. MaxRequest
    BY SaveStatusAssumption DEF AuthorizationChange, IInv, TypeOK
  <2> QED BY <2>1, <2>2 DEF AuthorizationChange, IInv, TypeOK
<1>2. ServerSound' /\ LatestSound'
  BY DEF AuthorizationChange, IInv, TypeOK, ServerSound, LatestSound
<1>3. DigestsSound'
  BY DEF AuthorizationChange, IInv, TypeOK, Digests, ServerSound, DigestsSound
<1>4. CallsSound'
  BY DEF AuthorizationChange, IInv, TypeOK, Calls, ServerSound, CallsSound
<1>5. SavedIsSaved'
  BY DEF AuthorizationChange, IInv, TypeOK, ServerSound, DigestsSound, CallsSound, SavedIsSaved
<1>6. SavingIsReal'
  BY DEF AuthorizationChange, IInv, TypeOK, CallsSound, SavingIsReal
<1> QED BY <1>1, <1>2, <1>3, <1>4, <1>5, <1>6 DEF IInv

(* Remount preserves the invariant.                                         *)
LEMMA RemountIInv ==
    ASSUME IInv, Remount
    PROVE  IInv'
<1> USE DEF serverVars, editorVars, saveVars, pageVars
<1>1. TypeOK'
  BY ZeroBounds DEF Remount, NewEditor, IInv, TypeOK, States, Frames, Digests, Calls
<1>2. ServerSound' /\ LatestSound'
  BY DEF Remount, NewEditor, IInv, TypeOK, ServerSound, LatestSound
<1>3. DigestsSound'
  BY DEF Remount, NewEditor, IInv, TypeOK, Digests, ServerSound, DigestsSound
<1>4. CallsSound'
  BY DEF Remount, NewEditor, IInv, TypeOK, Calls, ServerSound, CallsSound
<1>5. SavedIsSaved'
  BY DEF Remount, NewEditor, IInv, TypeOK, ServerSound, DigestsSound, CallsSound, SavedIsSaved
<1>6. SavingIsReal'
  BY DEF Remount, NewEditor, IInv, TypeOK, CallsSound, SavingIsReal
<1> QED BY <1>1, <1>2, <1>3, <1>4, <1>5, <1>6 DEF IInv

(* RoleFetched preserves the invariant.                                     *)
LEMMA RoleFetchedIInv ==
    ASSUME IInv, RoleFetched
    PROVE  IInv'
<1> USE DEF serverVars, editorVars, saveVars, pageVars
<1>1. TypeOK'
  BY SaveStatusAssumption DEF RoleFetched, IInv, TypeOK, States, Frames, Digests, Calls
<1>2. ServerSound' /\ LatestSound'
  BY DEF RoleFetched, IInv, TypeOK, ServerSound, LatestSound
<1>3. DigestsSound'
  BY DEF RoleFetched, IInv, TypeOK, Digests, ServerSound, DigestsSound
<1>4. CallsSound'
  BY DEF RoleFetched, IInv, TypeOK, Calls, ServerSound, CallsSound
<1>5. SavedIsSaved'
  BY DEF RoleFetched, IInv, TypeOK, ServerSound, DigestsSound, CallsSound, SavedIsSaved
<1>6. SavingIsReal'
  BY DEF RoleFetched, IInv, TypeOK, CallsSound, SavingIsReal
<1> QED BY <1>1, <1>2, <1>3, <1>4, <1>5, <1>6 DEF IInv

(* Save preserves the invariant.                                            *)
LEMMA SaveIInv ==
    ASSUME IInv, Save
    PROVE  IInv'
<1> USE DEF serverVars, editorVars, saveVars, pageVars
<1>1. TypeOK'
  BY SaveStatusAssumption DEF Save, IInv, TypeOK, States, Frames, Digests, Calls
<1>2. ServerSound' /\ LatestSound'
  BY DEF Save, IInv, TypeOK, ServerSound, LatestSound
<1>3. DigestsSound'
  BY DEF Save, IInv, TypeOK, Digests, ServerSound, DigestsSound
<1>0. PICK c : c = [id |-> request', version |-> version, state |-> doc, answer |-> "none"]
  OBVIOUS
<1>bound. calls' = calls \cup {c} /\ c.id = request + 1 /\ c.version = version
       /\ c.state = doc /\ c.answer = "none" /\ request' = request + 1
  BY <1>0 DEF Save
<1>4. CallsSound'
  <2> SUFFICES ASSUME NEW k \in calls'
               PROVE  /\ k.id <= request'
                      /\ k.answer \in {"clean", "dirty"} => k.state \subseteq saved'
                      /\ k.id = request' => /\ synced' /\ ~leaving'
                                            /\ k.version <= version'
                                            /\ k.version = version' => doc' \subseteq k.state
    BY DEF CallsSound
  <2>1. CASE k \in calls
    <3>1. k.id <= request /\ k.id \in Nat /\ request \in Nat
      BY <2>1, SaveStatusAssumption DEF IInv, TypeOK, Calls, CallsSound
    <3>2. k.answer \in {"clean", "dirty"} => k.state \subseteq saved
      BY <2>1 DEF IInv, CallsSound
    <3> QED BY <1>bound, <3>1, <3>2 DEF Save
  <2>2. CASE k = c
    <3>1. synced /\ ~leaving
      BY DEF Save, IInv, TypeOK
    <3> QED BY <1>bound, <2>2, <3>1, SaveStatusAssumption DEF Save, IInv, TypeOK
  <2> QED BY <1>bound, <2>1, <2>2
<1>5. SavedIsSaved'
  BY DEF Save, IInv, TypeOK, ServerSound, DigestsSound, CallsSound, SavedIsSaved
<1>6. SavingIsReal'
  BY <1>bound DEF Save, SavingIsReal
<1> QED BY <1>1, <1>2, <1>3, <1>4, <1>5, <1>6 DEF IInv

(* Type preserves the invariant.                                            *)
LEMMA TypeIInv ==
    ASSUME IInv, Type
    PROVE  IInv'
<1> USE DEF serverVars, editorVars, saveVars, pageVars
<1>1. TypeOK'
  <2>1. doc' \in States
    BY DEF Type, DocumentUpdate, IInv, TypeOK, States
  <2>2. comparison' \in 0 .. MaxComparison /\ version' \in 0 .. MaxVersion
    BY SaveStatusAssumption DEF Type, DocumentUpdate, IInv, TypeOK
  <2>3. status' \in {"idle", "unsaved", "saving", "saved", "error"}
    BY DEF Type, DocumentUpdate, IInv, TypeOK
  <2>4. undecided' \in BOOLEAN
    BY DEF Type, DocumentUpdate
  <2>5. UNCHANGED <<server, saved, synced, latest, digests, request, inFlight,
                    leaving, editable, exported, calls>>
    BY DEF Type, DocumentUpdate
  <2> QED BY <2>1, <2>2, <2>3, <2>4, <2>5 DEF IInv, TypeOK
<1>2. ServerSound' /\ LatestSound'
  BY DEF Type, DocumentUpdate, IInv, TypeOK, ServerSound, LatestSound
<1>3. DigestsSound'
  BY DEF Type, DocumentUpdate, IInv, TypeOK, Digests, ServerSound, DigestsSound
<1>4. CallsSound'
  BY DEF Type, DocumentUpdate, IInv, TypeOK, Calls, ServerSound, CallsSound
<1>5. SavedIsSaved'
  BY DEF Type, DocumentUpdate, IInv, TypeOK, ServerSound, DigestsSound, CallsSound, SavedIsSaved
<1>6. SavingIsReal'
  BY DEF Type, DocumentUpdate, IInv, TypeOK, CallsSound, SavingIsReal
<1> QED BY <1>1, <1>2, <1>3, <1>4, <1>5, <1>6 DEF IInv

(* ReceiveUpdate preserves the invariant.                                   *)
LEMMA ReceiveUpdateIInv ==
    ASSUME IInv, ReceiveUpdate
    PROVE  IInv'
<1> USE DEF serverVars, editorVars, saveVars, pageVars
<1>1. TypeOK'
  <2>1. doc' \in States
    BY DEF ReceiveUpdate, DocumentUpdate, IInv, TypeOK, States
  <2>2. comparison' \in 0 .. MaxComparison /\ version' \in 0 .. MaxVersion
    BY SaveStatusAssumption DEF ReceiveUpdate, DocumentUpdate, IInv, TypeOK
  <2>3. status' \in {"idle", "unsaved", "saving", "saved", "error"}
    BY DEF ReceiveUpdate, DocumentUpdate, IInv, TypeOK
  <2>4. undecided' \in BOOLEAN
    BY DEF ReceiveUpdate, DocumentUpdate
  <2>5. UNCHANGED <<server, saved, synced, latest, digests, request, inFlight,
                    leaving, editable, exported, calls>>
    BY DEF ReceiveUpdate, DocumentUpdate
  <2> QED BY <2>1, <2>2, <2>3, <2>4, <2>5 DEF IInv, TypeOK
<1>2. ServerSound' /\ LatestSound'
  BY DEF ReceiveUpdate, DocumentUpdate, IInv, TypeOK, ServerSound, LatestSound
<1>3. DigestsSound'
  BY DEF ReceiveUpdate, DocumentUpdate, IInv, TypeOK, Digests, ServerSound, DigestsSound
<1>4. CallsSound'
  BY DEF ReceiveUpdate, DocumentUpdate, IInv, TypeOK, Calls, ServerSound, CallsSound
<1>5. SavedIsSaved'
  BY DEF ReceiveUpdate, DocumentUpdate, IInv, TypeOK, ServerSound, DigestsSound, CallsSound, SavedIsSaved
<1>6. SavingIsReal'
  BY DEF ReceiveUpdate, DocumentUpdate, IInv, TypeOK, CallsSound, SavingIsReal
<1> QED BY <1>1, <1>2, <1>3, <1>4, <1>5, <1>6 DEF IInv

(* ReceiveStatus preserves the invariant.                                   *)
LEMMA ReceiveStatusIInv ==
    ASSUME IInv, ReceiveStatus
    PROVE  IInv'
<1> USE DEF serverVars, editorVars, saveVars, pageVars
<1>0. PICK f \in Frames : /\ f.state \subseteq saved
                            /\ latest' = {f}
                            /\ PublishSaveStatus(f, doc, 0)
  BY DEF ReceiveStatus
<1>bound. comparison' = comparison + 1 /\ comparison' \in 1 .. MaxComparison
  BY <1>0, SaveStatusAssumption DEF PublishSaveStatus, IInv, TypeOK
<1>new. PICK d : d = [version |-> comparison', matches |-> doc = f.state, dirty |-> f.dirty]
  OBVIOUS
<1>added. digests' = digests \cup {d} /\ d.version = comparison'
  BY <1>0, <1>new DEF PublishSaveStatus
<1>1. TypeOK'
  <2>1. d \in Digests
    BY <1>bound, <1>new DEF Digests, Frames
  <2>2. latest' \subseteq Frames /\ \A g, h \in latest' : g = h
    BY <1>0
  <2>3. comparison' \in 0 .. MaxComparison
    BY <1>bound, SaveStatusAssumption
  <2>4. undecided' \in BOOLEAN
    BY <1>0 DEF PublishSaveStatus
  <2> QED BY <1>added, <2>1, <2>2, <2>3, <2>4 DEF ReceiveStatus, IInv, TypeOK
<1>2. ServerSound' /\ LatestSound'
  BY DEF ReceiveStatus, PublishSaveStatus, IInv, TypeOK, ServerSound, LatestSound
<1>3. DigestsSound'
  BY DEF ReceiveStatus, PublishSaveStatus, IInv, TypeOK, Digests, ServerSound, DigestsSound
<1>4. CallsSound'
  BY DEF ReceiveStatus, PublishSaveStatus, IInv, TypeOK, Calls, ServerSound, CallsSound
<1>5. SavedIsSaved'
  BY <1>added DEF SavedIsSaved
<1>6. SavingIsReal'
  BY DEF ReceiveStatus, PublishSaveStatus, IInv, TypeOK, CallsSound, SavingIsReal
<1> QED BY <1>1, <1>2, <1>3, <1>4, <1>5, <1>6 DEF IInv

(* Sync preserves the invariant.                                            *)
LEMMA SyncIInv ==
    ASSUME IInv, Sync
    PROVE  IInv'
<1> USE DEF serverVars, editorVars, saveVars, pageVars
<1>0. PICK got \in SUBSET server, f \in latest :
           /\ doc' = doc \cup got
           /\ PublishSaveStatus(f, doc', IF got \subseteq doc THEN 0 ELSE 1)
  BY DEF Sync
<1>bound. comparison' > comparison /\ comparison' \in 1 .. MaxComparison
  BY <1>0, SaveStatusAssumption DEF PublishSaveStatus, IInv, TypeOK
<1>new. PICK d : d = [version |-> comparison', matches |-> doc' = f.state, dirty |-> f.dirty]
  OBVIOUS
<1>added. digests' = digests \cup {d} /\ d.version = comparison' /\ (d.matches => doc' = f.state)
  BY <1>0, <1>new DEF PublishSaveStatus
<1>1. TypeOK'
  <2>1. d \in Digests
    BY <1>0, <1>bound, <1>new DEF Digests, Frames, IInv, TypeOK
  <2>2. doc' \in States
    BY <1>0 DEF IInv, TypeOK, States
  <2>3. comparison' \in 0 .. MaxComparison
    BY <1>bound, SaveStatusAssumption
  <2>4. undecided' \in BOOLEAN
    BY <1>0 DEF PublishSaveStatus
  <2> QED BY <1>added, <2>1, <2>2, <2>3, <2>4 DEF Sync, IInv, TypeOK
<1>2. ServerSound' /\ LatestSound'
  BY DEF Sync, PublishSaveStatus, IInv, TypeOK, ServerSound, LatestSound
<1>3. DigestsSound'
  <2> SUFFICES ASSUME NEW e \in digests'
               PROVE  /\ e.version <= comparison'
                      /\ e.version = comparison' /\ e.matches => doc' \subseteq saved'
    BY DEF DigestsSound
  <2>1. CASE e \in digests
    <3>1. e.version <= comparison /\ e.version \in Nat /\ comparison \in Nat
      BY <2>1, SaveStatusAssumption DEF IInv, TypeOK, Digests, DigestsSound
    <3> QED BY <1>bound, <3>1
  <2>2. CASE e = d
    <3>1. f.state \subseteq saved /\ saved' = saved
      BY <1>0 DEF Sync, IInv, LatestSound
    <3> QED BY <1>bound, <1>added, <2>2, <3>1
  <2> QED BY <1>added, <2>1, <2>2
<1>4. CallsSound'
  BY DEF Sync, PublishSaveStatus, IInv, TypeOK, Calls, ServerSound, CallsSound
<1>5. SavedIsSaved'
  BY <1>added DEF SavedIsSaved
<1>6. SavingIsReal'
  BY DEF Sync, PublishSaveStatus, IInv, TypeOK, CallsSound, SavingIsReal
<1> QED BY <1>1, <1>2, <1>3, <1>4, <1>5, <1>6 DEF IInv

(* Compared preserves the invariant.                                        *)
LEMMA ComparedIInv ==
    ASSUME IInv, Compared
    PROVE  IInv'
<1> USE DEF serverVars, editorVars, saveVars, pageVars
<1>1. TypeOK'
  BY SaveStatusAssumption DEF Compared, HandleDocumentSaveStatus, IInv, TypeOK, States, Frames, Digests, Calls
<1>2. ServerSound' /\ LatestSound'
  BY DEF Compared, HandleDocumentSaveStatus, IInv, TypeOK, ServerSound, LatestSound
<1>3. DigestsSound'
  BY DEF Compared, HandleDocumentSaveStatus, IInv, TypeOK, Digests, ServerSound, DigestsSound
<1>4. CallsSound'
  BY DEF Compared, HandleDocumentSaveStatus, IInv, TypeOK, Calls, ServerSound, CallsSound
<1>5. SavedIsSaved'
  BY DEF Compared, HandleDocumentSaveStatus, IInv, TypeOK, ServerSound, DigestsSound, CallsSound, SavedIsSaved
<1>6. SavingIsReal'
  BY DEF Compared, HandleDocumentSaveStatus, IInv, TypeOK, CallsSound, SavingIsReal
<1> QED BY <1>1, <1>2, <1>3, <1>4, <1>5, <1>6 DEF IInv

(* CompareFails preserves the invariant.                                    *)
LEMMA CompareFailsIInv ==
    ASSUME IInv, CompareFails
    PROVE  IInv'
<1> USE DEF serverVars, editorVars, saveVars, pageVars
<1>0. PICK d \in digests : /\ digests' = digests \ {d}
                           /\ undecided' = (undecided \/ d.version = comparison)
  BY DEF CompareFails
<1>1. TypeOK'
  BY <1>0 DEF CompareFails, IInv, TypeOK
<1>2. ServerSound' /\ LatestSound'
  BY DEF CompareFails, IInv, ServerSound, LatestSound
<1>3. DigestsSound'
  BY <1>0 DEF CompareFails, IInv, DigestsSound
<1>4. CallsSound'
  BY DEF CompareFails, IInv, CallsSound
<1>5. SavedIsSaved'
  BY <1>0 DEF CompareFails, IInv, SavedIsSaved
<1>6. SavingIsReal'
  BY DEF CompareFails, IInv, SavingIsReal
<1> QED BY <1>1, <1>2, <1>3, <1>4, <1>5, <1>6 DEF IInv

(* ServerSaves preserves the invariant.                                     *)
LEMMA ServerSavesIInv ==
    ASSUME IInv, NEW k \in calls, ServerSaves(k)
    PROVE  IInv'
<1> USE DEF serverVars, editorVars, saveVars, pageVars
<1>1. TypeOK'
  BY SaveStatusAssumption DEF ServerSaves, Answered, IInv, TypeOK, States, Frames, Digests, Calls
<1>2. ServerSound' /\ LatestSound'
  BY DEF ServerSaves, Answered, IInv, TypeOK, ServerSound, LatestSound
<1>3. DigestsSound'
  BY DEF ServerSaves, Answered, IInv, TypeOK, Digests, ServerSound, DigestsSound
<1>4. CallsSound'
  BY DEF ServerSaves, Answered, IInv, TypeOK, Calls, ServerSound, CallsSound
<1>5. SavedIsSaved'
  BY DEF ServerSaves, Answered, IInv, TypeOK, ServerSound, DigestsSound, CallsSound, SavedIsSaved
<1>6. SavingIsReal'
  <2>1. PICK a : Answered(k, a)
    BY DEF ServerSaves
  <2>2. (\E c \in calls : c.id = request) => \E c \in calls' : c.id = request
    BY <2>1, AnsweredIds DEF IInv
  <2> QED BY <2>2 DEF ServerSaves, IInv, SavingIsReal
<1> QED BY <1>1, <1>2, <1>3, <1>4, <1>5, <1>6 DEF IInv

(* SaveFails preserves the invariant.                                       *)
LEMMA SaveFailsIInv ==
    ASSUME IInv, NEW k \in calls, SaveFails(k)
    PROVE  IInv'
<1> USE DEF serverVars, editorVars, saveVars, pageVars
<1>1. TypeOK'
  BY SaveStatusAssumption DEF SaveFails, Answered, IInv, TypeOK, States, Frames, Digests, Calls
<1>2. ServerSound' /\ LatestSound'
  BY DEF SaveFails, Answered, IInv, TypeOK, ServerSound, LatestSound
<1>3. DigestsSound'
  BY DEF SaveFails, Answered, IInv, TypeOK, Digests, ServerSound, DigestsSound
<1>4. CallsSound'
  BY DEF SaveFails, Answered, IInv, TypeOK, Calls, ServerSound, CallsSound
<1>5. SavedIsSaved'
  BY DEF SaveFails, Answered, IInv, TypeOK, ServerSound, DigestsSound, CallsSound, SavedIsSaved
<1>6. SavingIsReal'
  <2>1. (\E c \in calls : c.id = request) => \E c \in calls' : c.id = request
    BY AnsweredIds DEF SaveFails, IInv
  <2> QED BY <2>1 DEF SaveFails, IInv, SavingIsReal
<1> QED BY <1>1, <1>2, <1>3, <1>4, <1>5, <1>6 DEF IInv

(* SaveReturns preserves the invariant.                                     *)
LEMMA SaveReturnsIInv ==
    ASSUME IInv, NEW k \in calls, SaveReturns(k)
    PROVE  IInv'
<1> USE DEF serverVars, editorVars, saveVars, pageVars
<1>1. TypeOK'
  BY SaveStatusAssumption DEF SaveReturns, Verdict, IInv, TypeOK, States, Frames, Digests, Calls
<1>2. ServerSound' /\ LatestSound'
  BY DEF SaveReturns, Verdict, IInv, TypeOK, ServerSound, LatestSound
<1>3. DigestsSound'
  BY DEF SaveReturns, Verdict, IInv, TypeOK, Digests, ServerSound, DigestsSound
<1>4. CallsSound'
  BY DEF SaveReturns, Verdict, IInv, TypeOK, Calls, ServerSound, CallsSound
<1>5. SavedIsSaved'
  BY DEF SaveReturns, Verdict, IInv, TypeOK, ServerSound, DigestsSound, CallsSound, SavedIsSaved
<1>6. SavingIsReal'
  BY DEF SaveReturns, Verdict, IInv, TypeOK, CallsSound, SavingIsReal
<1> QED BY <1>1, <1>2, <1>3, <1>4, <1>5, <1>6 DEF IInv

(* Every step preserves the invariant.                                     *)
LEMMA NextIInv == IInv /\ [Next]_vars => IInv'
<1> SUFFICES ASSUME IInv, [Next]_vars PROVE IInv'
  OBVIOUS
<1>1. CASE UNCHANGED vars
  BY <1>1 DEF vars, serverVars, editorVars, saveVars, pageVars, IInv, TypeOK,
              ServerSound, LatestSound, DigestsSound, CallsSound, SavedIsSaved, SavingIsReal
<1>2. ASSUME NEW k \in calls, CallStep(k) PROVE IInv'
  BY <1>2, ServerSavesIInv, SaveFailsIInv, SaveReturnsIInv DEF CallStep
<1> QED
  BY <1>1, <1>2, ServerEditIInv, PeerSaveIInv, SaveTooEarlyIInv, SnapshotRestoredIInv,
     AuthorizationChangeIInv, RemountIInv, RoleFetchedIInv, SaveIInv, TypeIInv,
     ReceiveUpdateIInv, ReceiveStatusIInv, SyncIInv, ComparedIInv,
     CompareFailsIInv
     DEF Next

(* The inductive invariant holds in every reachable state.                 *)
THEOREM Invariance == Spec => []IInv
  BY InitIInv, NextIInv, PTL DEF Spec

(* Type correctness of the page, the editor and the saves under way.       *)
THEOREM TypeCorrect == Spec => []TypeOK
<1>1. IInv => TypeOK
  BY DEF IInv
<1> QED BY <1>1, Invariance, PTL

(* The indicator shows "saved" only for a document that is saved, or while *)
(* a comparison that corrects it is under way, whatever overtakes what,    *)
(* except before the editor's first synchronisation and after a comparison *)
(* that failed (SessionPage.handleSave,                                    *)
(* CollaborativeEditor.publishSaveStatus, handleDocumentUpdate).           *)
THEOREM SavedIsHonest == Spec => []SavedIsSaved
<1>1. IInv => SavedIsSaved
  BY DEF IInv
<1> QED BY <1>1, Invariance, PTL

(* The page waits only for the answer of a request that is under way       *)
(* (SessionPage.handleSave, handleAuthorizationChange).                    *)
THEOREM SavingNeverStuck == Spec => []SavingIsReal
<1>1. IInv => SavingIsReal
  BY DEF IInv
<1> QED BY <1>1, Invariance, PTL

=============================================================================
