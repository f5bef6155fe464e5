------------------------------ MODULE CollabRoom ------------------------------
(***************************************************************************)
(* One collaborative session: the WebSocket room, its room lock, the HTTP  *)
(* endpoints that use the live document (save, snapshot, restore, run) and *)
(* the periodic maintenance task, composed with DocumentStore.             *)
(*                                                                         *)
(* Every task is a coroutine of the one event loop; an action runs from    *)
(* one suspension point to the next.  Two locks interleave them: the room  *)
(* lock (_room_locks) and, inside it or without it, the document guard.    *)
(***************************************************************************)
EXTENDS DocumentStore, FiniteSets

CONSTANTS
    Conns,          \* clients, each with one WebSocket at a time
    Reqs,           \* HTTP request slots
    Flusher,        \* the periodic checkpoint task
    MaxGeneration   \* BOUND: saves are issued below this generation

Tasks == Conns \cup Reqs \cup {Flusher}

ASSUME TasksAssumption ==
    /\ Conns \cap Reqs = {}
    /\ Flusher \notin Conns \cup Reqs
    /\ Nobody \notin Tasks

ASSUME MaxGenerationAssumption == MaxGeneration \in Nat

VARIABLES
    roomLock,   \* the task holding _room_locks[session], or Nobody
    room,       \* _rooms[session]: the joined connections
    pc,         \* where each task is suspended
    payload,    \* the updates a task is applying, sending or has captured
    targets,    \* the connections a running broadcast has still to reach
    live,       \* has_connections, as yielded by document_room_lifecycle
    kind,       \* which endpoint a request runs
    replica,    \* each client's own Y.Doc
    outbox,     \* updates a client has sent that its handler has not received
    issued      \* update identities in use

roomVars == <<roomLock, room>>
clientVars == <<replica, outbox, issued>>
taskVars == <<pc, payload, targets, live, kind>>
vars == <<storeVars, roomVars, taskVars, clientVars>>

Kinds == {"none", "save", "snapshot", "restore", "run"}

ConnPcs == {"away", "join", "load", "hello", "open", "update", "send",
            "leave", "evict"}
ReqPcs == {"idle", "lock", "load", "apply", "capture", "persist", "ckpt",
           "evict", "send"}
FlusherPcs == {"sleep", "maintain", "ckpt", "evict", "final", "stopped", "unsaved",
               "crashed"}

Rest(t) == IF t \in Conns THEN "away"
           ELSE IF t \in Reqs THEN "idle" ELSE "sleep"

TypeOK ==
    /\ StoreTypeOK
    /\ guard \in Tasks \cup {Nobody}
    /\ roomLock \in Tasks \cup {Nobody}
    /\ room \in SUBSET Conns
    /\ pc \in [Tasks -> ConnPcs \cup ReqPcs \cup FlusherPcs]
    /\ \A c \in Conns : pc[c] \in ConnPcs
    /\ \A r \in Reqs : pc[r] \in ReqPcs
    /\ pc[Flusher] \in FlusherPcs
    /\ payload \in [Tasks -> SUBSET Updates]
    /\ targets \in [Tasks -> SUBSET Conns]
    /\ live \in [Reqs -> BOOLEAN]
    /\ kind \in [Reqs -> Kinds]
    /\ replica \in [Conns -> SUBSET Updates]
    /\ outbox \in [Conns -> SUBSET Updates]
    /\ issued \in SUBSET Updates

Init ==
    /\ StoreInit
    /\ roomLock = Nobody
    /\ room = {}
    /\ pc = [t \in Tasks |-> Rest(t)]
    /\ payload = [t \in Tasks |-> {}]
    /\ targets = [t \in Tasks |-> {}]
    /\ live = [r \in Reqs |-> FALSE]
    /\ kind = [r \in Reqs |-> "none"]
    /\ replica = [c \in Conns |-> {}]
    /\ outbox = [c \in Conns |-> {}]
    /\ issued = {}

-----------------------------------------------------------------------------
(* Helpers: a task moves on; the room lock is taken, kept or released.     *)
At(t, where) == pc[t] = where
Goto(t, where) == pc' = [pc EXCEPT ![t] = where]

Acquire(t) == roomLock = Nobody /\ roomLock' = t
LockFree == roomLock = Nobody /\ UNCHANGED roomLock
Release(t) == roomLock' = IF roomLock = t THEN Nobody ELSE roomLock

(* The process accepts connections and requests.                           *)
Serving == pc[Flusher] \notin {"final", "stopped", "unsaved", "crashed"}

(* The socket of c is open as far as its client knows.                     *)
Attached(c) == pc[c] \in {"join", "load", "hello", "open", "update", "send"}

-----------------------------------------------------------------------------
(***************************************************************************)
(* Clients                                                                 *)
(***************************************************************************)

(* A user types: the edit enters the local Y.Doc, and the provider sends   *)
(* it when its socket is open.                                             *)
ClientEdit(c) ==
    \E u \in Updates \ issued :
        /\ issued' = issued \cup {u}
        /\ replica' = [replica EXCEPT ![c] = @ \cup {u}]
        /\ outbox' = IF Attached(c) THEN [outbox EXCEPT ![c] = @ \cup {u}]
                                    ELSE outbox
        /\ UNCHANGED <<storeVars, roomVars, taskVars>>

(* The browser tab of a disconnected client is closed.                     *)
CloseTab(c) ==
    /\ At(c, "away")
    /\ replica[c] # {}
    /\ replica' = [replica EXCEPT ![c] = {}]
    /\ UNCHANGED <<storeVars, roomVars, taskVars, outbox, issued>>

-----------------------------------------------------------------------------
(***************************************************************************)
(* Joining: websocket_endpoint up to the receive loop                      *)
(***************************************************************************)
Connect(c) ==
    /\ At(c, "away")
    /\ Serving
    /\ Goto(c, "join")
    /\ UNCHANGED <<storeVars, roomVars, payload, targets, live, kind, clientVars>>

(* The server sends no state vector of its own, so nothing is resent.      *)
Mut_EnterRoom(c) ==
    /\ room' = room \cup {c}
    /\ Goto(c, "hello")
    /\ UNCHANGED <<payload, targets, live, kind, clientVars>>

(* c enters the room, and is sent the server's state vector; the client    *)
(* answers (sync step 2) with what the document lacked at that moment.     *)
EnterRoom(c) ==
    /\ room' = room \cup {c}
    /\ outbox' = [outbox EXCEPT ![c] = @ \cup (replica[c] \ doc')]
    /\ Goto(c, "hello")
    /\ UNCHANGED <<payload, targets, live, kind, replica, issued>>

(* _join_room when others are there: nothing is awaited under the lock.    *)
JoinOccupied(c) ==
    /\ At(c, "join")
    /\ LockFree
    /\ room # {}
    /\ UNCHANGED storeVars
    /\ EnterRoom(c)

(* _join_room of the first connection: it loads while holding the lock.    *)
JoinEmpty(c) ==
    /\ At(c, "join")
    /\ Acquire(c)
    /\ room = {}
    /\ Goto(c, "load")
    /\ UNCHANGED <<storeVars, room, payload, targets, live, kind, clientVars>>

(* The client's own sync step 1 arrives, always its first frame: the       *)
(* server answers from get_or_create's document, without the room lock.    *)
Handshake(c) ==
    /\ At(c, "hello")
    /\ GetOrCreate
    /\ replica' = [replica EXCEPT ![c] = @ \cup doc']
    /\ Goto(c, "open")
    /\ UNCHANGED <<callVars, diskVars, roomVars, payload, targets, live, kind,
                   outbox, issued>>

-----------------------------------------------------------------------------
(***************************************************************************)
(* Loading, on behalf of the first connection or of a request              *)
(***************************************************************************)
AfterLoad(t) ==
    \/ /\ t \in Conns
       /\ EnterRoom(t)
       /\ Release(t)
    \/ /\ t \in Reqs
       /\ Goto(t, IF kind[t] \in {"save", "restore"} THEN "apply" ELSE "capture")
       /\ UNCHANGED <<roomVars, payload, targets, live, kind, clientVars>>

FinishLoad(t) ==
    /\ At(t, "load")
    /\ LoadHit(t) \/ LoadPublish(t) \/ LoadWithoutRedis(t)
    /\ AfterLoad(t)

ContinueLoad(t) ==
    /\ At(t, "load")
    /\ LoadStart(t) \/ LoadReadDb(t)
    /\ UNCHANGED <<roomVars, taskVars, clientVars>>

(* A request is over, and its slot is free again.                          *)
ResetTask(t) ==
    /\ Goto(t, Rest(t))
    /\ payload' = [payload EXCEPT ![t] = {}]
    /\ live' = IF t \in Reqs THEN [live EXCEPT ![t] = FALSE] ELSE live
    /\ kind' = IF t \in Reqs THEN [kind EXCEPT ![t] = "none"] ELSE kind

(* The exception leaves _join_room (the socket never joined and closes)    *)
(* or the endpoint (a 500 response); the lock is released on the way.      *)
AbortLoad(t) ==
    /\ At(t, "load")
    /\ LoadFail(t)
    /\ Release(t)
    /\ ResetTask(t)
    /\ outbox' = IF t \in Conns THEN [outbox EXCEPT ![t] = {}] ELSE outbox
    /\ UNCHANGED <<room, targets, replica, issued>>

-----------------------------------------------------------------------------
(***************************************************************************)
(* The receive loop: a document update                                     *)
(***************************************************************************)
ReceiveUpdate(c) ==
    /\ At(c, "open")
    /\ \E u \in outbox[c] :
        /\ outbox' = [outbox EXCEPT ![c] = @ \ {u}]
        /\ payload' = [payload EXCEPT ![c] = {u}]
    /\ Goto(c, "update")
    /\ UNCHANGED <<storeVars, roomVars, targets, live, kind, replica, issued>>

(* Under the room lock, without an await: the update is applied.  The      *)
(* broadcast begins as the lock is released: it captures the room then.    *)
ApplyFrame(c) ==
    /\ At(c, "update")
    /\ LockFree
    /\ ApplyUpdate(payload[c])
    /\ targets' = [targets EXCEPT ![c] = room]
    /\ Goto(c, "send")
    /\ UNCHANGED <<callVars, diskVars, room, payload, live, kind, clientVars>>

(* _broadcast_binary awaits each send in turn; a send to a closed socket   *)
(* raises, and is skipped.                                                 *)
Send(t) ==
    /\ At(t, "send")
    /\ \E d \in targets[t] :
        /\ targets' = [targets EXCEPT ![t] = @ \ {d}]
        /\ replica' = IF Attached(d)
                         THEN [replica EXCEPT ![d] = @ \cup payload[t]]
                         ELSE replica
    /\ UNCHANGED <<storeVars, roomVars, pc, payload, live, kind, outbox, issued>>

SendDone(t) ==
    /\ At(t, "send")
    /\ targets[t] = {}
    /\ IF t \in Conns
          THEN /\ Goto(t, "open")
               /\ payload' = [payload EXCEPT ![t] = {}]
               /\ UNCHANGED <<live, kind>>
          ELSE ResetTask(t)
    /\ UNCHANGED <<storeVars, roomVars, targets, clientVars>>

-----------------------------------------------------------------------------
(***************************************************************************)
(* Leaving                                                                 *)
(***************************************************************************)

(* The socket closes: frames in flight in either direction are dropped.    *)
Disconnect(c) ==
    /\ pc[c] \in {"hello", "open"}
    /\ Goto(c, "leave")
    /\ outbox' = [outbox EXCEPT ![c] = {}]
    /\ UNCHANGED <<storeVars, roomVars, payload, targets, live, kind, replica,
                   issued>>

(* The lock is released before the eviction.                               *)
Mut_LeaveRoom(c) ==
    /\ At(c, "leave")
    /\ LockFree
    /\ room' = room \ {c}
    /\ targets' = [t \in Tasks |-> targets[t] \ {c}]
    /\ Goto(c, IF room' = {} THEN "evict" ELSE "away")
    /\ UNCHANGED <<storeVars, payload, live, kind, clientVars>>

(* _leave_room; the last one out evicts the document under the lock.  A    *)
(* broadcast that still has c to reach would only find its closed socket.  *)
LeaveRoom(c) ==
    /\ At(c, "leave")
    /\ roomLock = Nobody
    /\ room' = room \ {c}
    /\ targets' = [t \in Tasks |-> targets[t] \ {c}]
    /\ IF room' = {} THEN roomLock' = c /\ Goto(c, "evict")
                     ELSE roomLock' = Nobody /\ Goto(c, "away")
    /\ UNCHANGED <<storeVars, payload, live, kind, clientVars>>

-----------------------------------------------------------------------------
(***************************************************************************)
(* HTTP endpoints on the live document: save, snapshot, restore and run.   *)
(* Which callers _require_current_editor lets through is left open.        *)
(***************************************************************************)

(* A save uploads the whole state of some client's Y.Doc.                  *)
Request(r) ==
    /\ At(r, "idle")
    /\ Serving
    /\ \/ /\ generation < MaxGeneration
          /\ kind' = [kind EXCEPT ![r] = "save"]
          /\ \E c \in Conns : payload' = [payload EXCEPT ![r] = replica[c]]
       \/ /\ \E k \in {"snapshot", "restore", "run"} :
                kind' = [kind EXCEPT ![r] = k]
          /\ UNCHANGED payload
    /\ Goto(r, "lock")
    /\ UNCHANGED <<storeVars, roomVars, targets, live, clientVars>>

(* document_room_lifecycle                                                 *)
LockRoom(r) ==
    /\ At(r, "lock")
    /\ Acquire(r)
    /\ live' = [live EXCEPT ![r] = room # {}]
    /\ Goto(r, "load")
    /\ UNCHANGED <<storeVars, room, payload, targets, kind, clientVars>>

(* _require_current_editor refuses the caller, or the snapshot is unknown  *)
(* or too large: the endpoint leaves before it loads anything.             *)
Refuse(r) ==
    /\ At(r, "load")
    /\ guard # r
    /\ Release(r)
    /\ ResetTask(r)
    /\ UNCHANGED <<storeVars, room, targets, clientVars>>

(* What follows the endpoint's own work: an active room is checkpointed,   *)
(* a document loaded only for this request is evicted.                     *)
Tail(r) == IF live[r] THEN "ckpt" ELSE "evict"

(* save_session_document merges the upload before it persists.             *)
ApplySave(r) ==
    /\ At(r, "apply")
    /\ kind[r] = "save"
    /\ ApplyUpdate(payload[r])
    /\ Goto(r, "persist")
    /\ UNCHANGED <<callVars, diskVars, roomVars, payload, targets, live, kind,
                   clientVars>>

(* restore_text_from_state: a new edit, unless the text is already that of *)
(* the snapshot.                                                           *)
ApplyRestore(r) ==
    /\ At(r, "apply")
    /\ kind[r] = "restore"
    /\ \/ /\ GetOrCreate
          /\ UNCHANGED <<payload, issued>>
       \/ \E u \in Updates \ issued :
            /\ issued' = issued \cup {u}
            /\ payload' = [payload EXCEPT ![r] = {u}]
            /\ ApplyUpdate({u})
    /\ Goto(r, Tail(r))
    /\ UNCHANGED <<callVars, diskVars, roomVars, targets, live, kind, replica,
                   outbox>>

(* Snapshot and run read the live document; only an unattended document is *)
(* evicted afterwards.                                                     *)
Capture(r) ==
    /\ At(r, "capture")
    /\ IF live[r] THEN Release(r) /\ ResetTask(r)
                  ELSE /\ Goto(r, "evict")
                       /\ UNCHANGED <<roomLock, payload, live, kind>>
    /\ UNCHANGED <<storeVars, room, targets, clientVars>>

(* An upload or a snapshot that does not decode (422), a state over the    *)
(* limit (413), a failed snapshot INSERT (500): the document stays loaded. *)
RejectBody(r) ==
    /\ pc[r] \in {"apply", "capture"}
    /\ kind[r] # "run"
    /\ Release(r)
    /\ ResetTask(r)
    /\ UNCHANGED <<storeVars, room, targets, clientVars>>

ContinuePersist(r) ==
    /\ At(r, "persist")
    /\ PersistStart(r) \/ DbCommit(r)
    /\ UNCHANGED <<roomVars, taskVars, clientVars>>

FinishPersist(r) ==
    /\ At(r, "persist")
    /\ PersistReturn(r)
    /\ Goto(r, Tail(r))
    /\ UNCHANGED <<roomVars, payload, targets, live, kind, clientVars>>

(* The lock is kept when the save fails.                                   *)
Mut_AbortPersist(r) ==
    /\ At(r, "persist")
    /\ PersistFail(r)
    /\ UNCHANGED roomLock
    /\ ResetTask(r)
    /\ UNCHANGED <<room, targets, clientVars>>

(* The save failed: 500, and the merged document stays in memory.          *)
AbortPersist(r) ==
    /\ At(r, "persist")
    /\ PersistFail(r)
    /\ Release(r)
    /\ ResetTask(r)
    /\ UNCHANGED <<room, targets, clientVars>>

-----------------------------------------------------------------------------
(***************************************************************************)
(* The periodic task: maintain_document_checkpoint                         *)
(***************************************************************************)
(* Only sessions with a room are maintained.                               *)
Mut_Tick(f) ==
    /\ At(f, "sleep")
    /\ loaded
    /\ room # {}
    /\ Goto(f, "maintain")
    /\ UNCHANGED <<storeVars, roomVars, payload, targets, live, kind, clientVars>>

(* The interval elapsed and the session is among active_sessions.          *)
Tick(f) ==
    /\ At(f, "sleep")
    /\ loaded
    /\ Goto(f, "maintain")
    /\ UNCHANGED <<storeVars, roomVars, payload, targets, live, kind, clientVars>>

(* An empty room: eviction is retried under the room lock.                 *)
MaintainOrphan(f) ==
    /\ At(f, "maintain")
    /\ Acquire(f)
    /\ room = {}
    /\ Goto(f, "evict")
    /\ UNCHANGED <<storeVars, room, payload, targets, live, kind, clientVars>>

(* An active room is left to its connections.                              *)
Mut_MaintainActive(f) ==
    /\ At(f, "maintain")
    /\ LockFree
    /\ room # {}
    /\ Goto(f, "sleep")
    /\ UNCHANGED <<storeVars, room, payload, targets, live, kind, clientVars>>

(* An active room: the lock is released before the checkpoint.             *)
MaintainActive(f) ==
    /\ At(f, "maintain")
    /\ LockFree
    /\ room # {}
    /\ Goto(f, "ckpt")
    /\ UNCHANGED <<storeVars, room, payload, targets, live, kind, clientVars>>

-----------------------------------------------------------------------------
(***************************************************************************)
(* Checkpoint and eviction, on behalf of any task                          *)
(***************************************************************************)
ContinueCheckpoint(t) ==
    /\ pc[t] \in {"ckpt", "evict", "final"}
    /\ CheckpointStart(t) \/ RedisSet(t)
    /\ UNCHANGED <<roomVars, taskVars, clientVars>>

(* A restore is not broadcast.                                             *)
Mut_AfterCheckpoint(t) ==
    /\ Release(t)
    /\ IF t \in Reqs /\ kind[t] = "save"
          THEN /\ Goto(t, "send")
               /\ targets' = [targets EXCEPT ![t] = room]
               /\ UNCHANGED <<payload, live, kind>>
          ELSE ResetTask(t) /\ UNCHANGED targets
    /\ UNCHANGED <<room, clientVars>>

(* The lock is released, and save and restore broadcast their update to    *)
(* the room as it is then.                                                 *)
AfterCheckpoint(t) ==
    /\ Release(t)
    /\ IF t \in Reqs /\ kind[t] \in {"save", "restore"}
          THEN /\ Goto(t, "send")
               /\ targets' = [targets EXCEPT ![t] = room]
               /\ UNCHANGED <<payload, live, kind>>
          ELSE ResetTask(t) /\ UNCHANGED targets
    /\ UNCHANGED <<room, clientVars>>

FinishCheckpoint(t) ==
    /\ \/ At(t, "ckpt") /\ CheckpointReturn(t)
       \/ At(t, "evict") /\ EvictReturn(t)
       \/ pc[t] \in {"ckpt", "evict"} /\ CheckpointNothing(t)
    /\ AfterCheckpoint(t)

(* An eviction whose write raised removes the document all the same.       *)
Mut_FailCheckpoint(t) ==
    /\ pc[t] \in {"ckpt", "evict"}
    /\ "redis_write" \in Faults
    /\ Inside(t, "redis_set") \/ Inside(t, "redis_ack")
    /\ IF At(t, "evict") THEN Unload ELSE UNCHANGED memVars
    /\ Exit
    /\ UNCHANGED diskVars
    /\ AfterCheckpoint(t)

(* The write raised: every caller logs it and goes on, so the document     *)
(* stays in memory and the periodic task tries again.                      *)
FailCheckpoint(t) ==
    /\ pc[t] \in {"ckpt", "evict"}
    /\ RedisSetFail(t)
    /\ AfterCheckpoint(t)

-----------------------------------------------------------------------------
(***************************************************************************)
(* Shutdown: the end of main.lifespan, which goes on where the periodic    *)
(* task has stopped.  The server runs it when every connection and request *)
(* is over and accepts no more of them (uvicorn, without a grace period).  *)
(***************************************************************************)
(* The final checkpoints do not wait for the handlers.                     *)
Mut_Shutdown(f) ==
    /\ At(f, "sleep")
    /\ Goto(f, "final")
    /\ UNCHANGED <<storeVars, roomVars, payload, targets, live, kind, clientVars>>

(* flush_stop is set and the periodic task drained.                        *)
Shutdown(f) ==
    /\ At(f, "sleep")
    /\ \A t \in Conns \cup Reqs : At(t, Rest(t))
    /\ Goto(f, "final")
    /\ UNCHANGED <<storeVars, roomVars, payload, targets, live, kind, clientVars>>

(* What a failed eviction or save left loaded has been written ...         *)
FinishShutdown(f) ==
    /\ At(f, "final")
    /\ CheckpointReturn(f) \/ CheckpointNothing(f)
    /\ Goto(f, "stopped")
    /\ UNCHANGED <<roomVars, payload, targets, live, kind, clientVars>>

(* ... or the write raised, and is only logged.                            *)
FailShutdown(f) ==
    /\ At(f, "final")
    /\ RedisSetFail(f)
    /\ Goto(f, "unsaved")
    /\ UNCHANGED <<roomVars, payload, targets, live, kind, clientVars>>

(* The process ends; the browsers keep their documents.                    *)
Die(where) ==
    /\ StoreCrash
    /\ roomLock' = Nobody
    /\ room' = {}
    /\ pc' = [t \in Tasks |-> IF t = Flusher THEN where ELSE Rest(t)]
    /\ payload' = [t \in Tasks |-> {}]
    /\ targets' = [t \in Tasks |-> {}]
    /\ live' = [r \in Reqs |-> FALSE]
    /\ kind' = [r \in Reqs |-> "none"]
    /\ outbox' = [c \in Conns |-> {}]
    /\ UNCHANGED <<replica, issued>>

(* After a shutdown another process starts ...                             *)
ProcessExit == pc[Flusher] \in {"stopped", "unsaved"} /\ Die("sleep")

Crash == "crash" \in Faults /\ ~At(Flusher, "crashed") /\ Die("crashed")

(* ... and after a crash, too (docker-compose: restart: unless-stopped).   *)
Reboot(f) ==
    /\ At(f, "crashed")
    /\ Goto(f, "sleep")
    /\ UNCHANGED <<storeVars, roomVars, payload, targets, live, kind, clientVars>>

ConnStep(c) ==
    \/ ClientEdit(c) \/ CloseTab(c) \/ Connect(c)
    \/ JoinOccupied(c) \/ JoinEmpty(c) \/ Handshake(c)
    \/ ReceiveUpdate(c) \/ ApplyFrame(c)
    \/ Disconnect(c) \/ LeaveRoom(c)

ReqStep(r) ==
    \/ Request(r) \/ LockRoom(r) \/ Refuse(r)
    \/ ApplySave(r) \/ ApplyRestore(r) \/ Capture(r) \/ RejectBody(r)
    \/ ContinuePersist(r) \/ FinishPersist(r) \/ AbortPersist(r)

FlusherStep(f) ==
    \/ Tick(f) \/ MaintainOrphan(f) \/ MaintainActive(f)
    \/ Shutdown(f) \/ FinishShutdown(f) \/ FailShutdown(f) \/ Reboot(f)

SharedStep(t) ==
    \/ ContinueLoad(t) \/ FinishLoad(t) \/ AbortLoad(t)
    \/ Send(t) \/ SendDone(t)
    \/ ContinueCheckpoint(t) \/ FinishCheckpoint(t) \/ FailCheckpoint(t)

Next ==
    \/ \E c \in Conns : ConnStep(c)
    \/ \E r \in Reqs : ReqStep(r)
    \/ FlusherStep(Flusher)
    \/ \E t \in Tasks : SharedStep(t)
    \/ ProcessExit \/ Crash

Spec == Init /\ [][Next]_vars

-----------------------------------------------------------------------------
(***************************************************************************)
(* Fairness.  The event loop runs every ready coroutine (weak fairness);   *)
(* asyncio.Lock wakes waiters in FIFO order, so a request or the periodic  *)
(* task that waits for the room lock or for the guard is not overtaken for *)
(* ever (strong fairness; of connections the properties do not need it).   *)
(* Clients, new requests and crashes are never obliged to happen.  Redis   *)
(* outages end: of the periodic task's writes some eventually succeed.     *)
(***************************************************************************)
WaitsForRoom(t) ==
    \/ t \in Conns /\ (JoinOccupied(t) \/ JoinEmpty(t) \/ ApplyFrame(t) \/ LeaveRoom(t))
    \/ t \in Reqs /\ LockRoom(t)
    \/ t = Flusher /\ (MaintainOrphan(t) \/ MaintainActive(t))

RunsOn(t) ==
    \/ t \in Conns /\ (Handshake(t) \/ ReceiveUpdate(t))
    \/ t \in Reqs /\ (ApplySave(t) \/ ApplyRestore(t) \/ Capture(t) \/ RejectBody(t))
    \/ t = Flusher /\ (Tick(t) \/ ProcessExit \/ Reboot(t))

WaitsForGuard(t) ==
    \/ SharedStep(t)
    \/ t \in Reqs /\ (ContinuePersist(t) \/ FinishPersist(t) \/ AbortPersist(t))
    \/ t = Flusher /\ (FinishShutdown(t) \/ FailShutdown(t))

FlusherWrites ==
    /\ pc[Flusher] \in {"ckpt", "evict"}
    /\ RedisSet(Flusher)
    /\ UNCHANGED <<roomVars, taskVars, clientVars>>

Fairness ==
    /\ \A c \in Conns : WF_vars(RunsOn(c) \/ WaitsForRoom(c) \/ WaitsForGuard(c))
    /\ \A t \in Reqs \cup {Flusher} :
        SF_vars(RunsOn(t) \/ WaitsForRoom(t) \/ WaitsForGuard(t))
    /\ SF_vars(FlusherWrites)
    /\ SF_vars(FinishCheckpoint(Flusher))

FairSpec == Spec /\ Fairness

-----------------------------------------------------------------------------
(***************************************************************************)
(* Properties                                                              *)
(***************************************************************************)

(* While a connection is in the room the document is loaded, so sync step  *)
(* 1, which runs without the room lock, and every applied update use the   *)
(* recovered document and never the empty one of get_or_create             *)
(* (websocket._join_room, _leave_room, maintain_document_checkpoint).      *)
RoomHasDocument == room # {} => loaded

(* The flag "no unsaved changes" is truthful: a loaded document that       *)
(* get_document_status calls clean is what PostgreSQL holds                *)
(* (document._persist_to_db_locked, get_document_status).                  *)
CleanMeansSaved == loaded /\ ~Dirty => doc = dbState

(* A document whose current generation counts as checkpointed can be       *)
(* rebuilt from Redis and PostgreSQL, whatever edits came during the write *)
(* (document._checkpoint_to_redis_locked).                                 *)
CheckpointedMeansRecoverable ==
    loaded /\ checkpointed = generation => doc \subseteq checkpoint \cup dbState

(* What a snapshot or a run captures is never older than the last explicit *)
(* save, also when the document was loaded only for that request           *)
(* (snapshots.router, execution.router: load_from_storage, then read).     *)
CaptureSeesSave ==
    \A r \in Reqs : At(r, "capture") => loaded /\ dbState \subseteq doc

(* No connected client that has completed its handshake misses an update   *)
(* of the document: it has it, or a broadcast that includes it is on its   *)
(* way (websocket._broadcast_binary, sessions.router.save_session_document,*)
(* snapshots.router.restore_snapshot_endpoint).                            *)
Announced(u, c) ==
    \E t \in Tasks :
        /\ u \in payload[t]
        /\ \/ At(t, "send") /\ c \in targets[t]
           \/ t \in Reqs /\ kind[t] \in {"save", "restore"}
              /\ pc[t] \in {"persist", "ckpt", "evict"}

NoMissedUpdate ==
    \A c \in room : pc[c] \in {"open", "update", "send"} =>
        \A u \in doc : u \in replica[c] \/ Announced(u, c)

(* No edit of a connected client is stranded in its browser: the document  *)
(* has it, or the client's connection is still carrying it                 *)
(* (websocket_endpoint: sync step 1 to the client, then the receive loop). *)
NoStrandedEdit ==
    \A c \in room : ~At(c, "leave") =>
        replica[c] \subseteq doc \cup outbox[c] \cup payload[c]

(* An explicit save never discards what an earlier one made durable: the   *)
(* PostgreSQL state only grows (save_session_document merges before it     *)
(* persists).                                                              *)
SaveNeverLoses == [][dbState \subseteq dbState']_vars

(* A clean shutdown loses nothing: when the final checkpoint has returned, *)
(* the stores hold every edit that any handler has applied, and none is    *)
(* applied between its capture and the end of the process (main.lifespan). *)
ShutdownLosesNothing ==
    At(Flusher, "stopped") /\ loaded => doc \subseteq checkpoint \cup dbState

(* No request waits for ever: neither the two locks nor a failing store    *)
(* leaves an endpoint suspended (document_room_lifecycle inside which      *)
(* DocumentManager takes the guard).                                       *)
EveryRequestReturns == \A r \in Reqs : ~At(r, "idle") ~> At(r, "idle")

(* A document left behind by a failed eviction, save or snapshot is        *)
(* eventually evicted, unless someone joins again                          *)
(* (main._periodic_crdt_flush, websocket.maintain_document_checkpoint).    *)
OrphanEvicted == (loaded /\ room = {}) ~> (~loaded \/ room # {})

(* An edit of the live document is eventually recoverable, unless the      *)
(* process dies first; an eviction has written before it forgets           *)
(* (main._periodic_crdt_flush, document.checkpoint_and_remove).            *)
EditIsCheckpointed ==
    \A u \in Updates : u \in doc ~> (u \in checkpoint \/ ~loaded)

=============================================================================
