--------------------------- MODULE CollabRoomProofs ---------------------------
(***************************************************************************)
(* Proofs about CollabRoom, for every set of clients, request slots and    *)
(* updates and for every set of injected failures.                         *)
(***************************************************************************)
EXTENDS RoomDurability, TLAPS

(* The process ends, and with it all that it has in memory.                *)
Restart == Die("sleep") \/ Die("crashed")

(* The program points at which a task holds the room lock.                 *)
HoldsRoom(t) ==
    \/ pc[t] \in {"load", "apply", "capture", "persist", "evict"}
    \/ t \in Reqs /\ pc[t] = "ckpt"

LocksAgree == \A t \in Tasks : roomLock = t <=> HoldsRoom(t)

(* The guard's holder is inside the storage call its program point names.  *)
InCall(t) ==
    \/ pc[t] = "load" /\ io.step \in {"db_read", "redis_read"}
    \/ pc[t] \in {"ckpt", "evict", "final"} /\ io.step \in {"redis_set", "redis_ack"}
    \/ pc[t] = "persist" /\ io.step \in {"commit", "commit_ack"}

GuardAgrees ==
    /\ guard = Nobody <=> io.step = "none"
    /\ \A t \in Tasks : guard = t => InCall(t)

(* Who is in the room, and what the lock's holder knows about it.          *)
RoomAgrees ==
    /\ \A c \in Conns :
        c \in room <=> pc[c] \in {"hello", "open", "update", "send", "leave"}
    /\ \A t \in Tasks : pc[t] = "evict" => room = {}
    /\ \A c \in Conns : pc[c] = "load" => room = {}
    /\ \A r \in Reqs :
        pc[r] \in {"load", "apply", "capture", "persist"} => (live[r] <=> room # {})

(* The document is there whenever somebody relies on it.                   *)
DocumentThere ==
    /\ RoomHasDocument
    /\ \A t \in Tasks : pc[t] \in {"apply", "capture", "persist"} => loaded

(* How the document, its metadata, the call in progress and the stores are *)
(* related.                                                                *)
DocumentSound ==
    loaded => /\ ~Loading
              /\ dbState \subseteq doc
              /\ saved \subseteq dbState
              /\ checkpointed <= generation

CallSound ==
    /\ io.step = "redis_read" => io.state = dbState
    /\ io.step \in {"redis_set", "redis_ack"} =>
        /\ loaded
        /\ io.state \subseteq doc
        /\ checkpointed <= io.gen
        /\ io.gen <= generation
        /\ io.gen = generation => io.state = doc
    /\ io.step = "redis_ack" => checkpoint = io.state
    /\ io.step \in {"commit", "commit_ack"} =>
        /\ loaded
        /\ io.state \subseteq doc
        /\ dbState \subseteq io.state
    /\ io.step = "commit_ack" => dbState = io.state

(* Nobody edits during a shutdown, so what is written is the document.     *)
ShutdownSound ==
    /\ ~Serving => \A t \in Conns \cup Reqs : At(t, Rest(t))
    /\ At(Flusher, "final") /\ io.step \in {"redis_set", "redis_ack"} =>
        io.gen = generation
    /\ At(Flusher, "stopped") /\ loaded => checkpointed = generation

IInv ==
    /\ TypeOK
    /\ LocksAgree
    /\ GuardAgrees
    /\ RoomAgrees
    /\ DocumentThere
    /\ DocumentSound
    /\ CallSound
    /\ CheckpointedMeansRecoverable
    /\ ShutdownSound

-----------------------------------------------------------------------------
(***************************************************************************)
(* Type correctness                                                        *)
(***************************************************************************)
LEMMA RestIsTyped ==
    \A t \in Tasks : /\ t \in Conns => Rest(t) \in ConnPcs
                     /\ t \in Reqs => Rest(t) \in ReqPcs
                     /\ t = Flusher => Rest(t) \in FlusherPcs
BY TasksAssumption DEF Rest, Tasks, ConnPcs, ReqPcs, FlusherPcs

LEMMA InitTypeOK == Init => TypeOK
<1> SUFFICES ASSUME Init PROVE TypeOK
  OBVIOUS
<1>1. StoreTypeOK
  BY DEF Init, StoreInit, StoreTypeOK, NoCall, IoSteps
<1>2. /\ pc \in [Tasks -> ConnPcs \cup ReqPcs \cup FlusherPcs]
      /\ \A c \in Conns : pc[c] \in ConnPcs
      /\ \A r \in Reqs : pc[r] \in ReqPcs
      /\ pc[Flusher] \in FlusherPcs
  BY RestIsTyped DEF Init, Tasks
<1> QED
  BY <1>1, <1>2 DEF Init, StoreInit, TypeOK, Kinds

(* The operations that change only the document and its metadata.          *)
LEMMA SynchronousTypeOK ==
    ASSUME StoreTypeOK, NEW us \in SUBSET Updates,
           GetOrCreate \/ ApplyUpdate(us), UNCHANGED <<io, diskVars>>
    PROVE  StoreTypeOK'
<1>1. CASE GetOrCreate
  <2>1. CASE loaded \/ Loading
    BY <1>1, <2>1 DEF GetOrCreate, memVars, diskVars, StoreTypeOK
  <2>2. CASE ~(loaded \/ Loading)
    BY <1>1, <2>2 DEF GetOrCreate, Publish, diskVars, StoreTypeOK
  <2> QED BY <2>1, <2>2
<1>2. CASE ApplyUpdate(us)
  <2>1. CASE loaded
    BY <1>2, <2>1 DEF ApplyUpdate, Publish, diskVars, StoreTypeOK
  <2>2. CASE ~loaded /\ Loading
    BY <1>2, <2>2 DEF ApplyUpdate, memVars, diskVars, StoreTypeOK
  <2>3. CASE ~loaded /\ ~Loading
    BY <1>2, <2>3 DEF ApplyUpdate, Publish, diskVars, StoreTypeOK
  <2> QED BY <2>1, <2>2, <2>3
<1> QED BY <1>1, <1>2

LEMMA ConnStepTypeOK ==
    ASSUME TypeOK, NEW c \in Conns, ConnStep(c)
    PROVE  TypeOK'
<1> USE TasksAssumption DEF TypeOK, Tasks, At, Goto, ConnPcs, ReqPcs, FlusherPcs,
        storeVars, memVars, callVars, diskVars, roomVars, clientVars, taskVars
<1>1. CASE ClientEdit(c)
  BY <1>1 DEF ClientEdit, StoreTypeOK
<1>2. CASE CloseTab(c)
  BY <1>2 DEF CloseTab, StoreTypeOK
<1>3. CASE Connect(c)
  BY <1>3 DEF Connect, StoreTypeOK
<1>4. CASE JoinOccupied(c)
  BY <1>4 DEF JoinOccupied, EnterRoom, LockFree, StoreTypeOK
<1>5. CASE JoinEmpty(c)
  BY <1>5 DEF JoinEmpty, Acquire, StoreTypeOK
<1>6. CASE Handshake(c)
  <2>1. StoreTypeOK'
    BY <1>6, SynchronousTypeOK DEF Handshake
  <2> QED BY <1>6, <2>1 DEF Handshake, StoreTypeOK
<1>7. CASE ReceiveUpdate(c)
  BY <1>7 DEF ReceiveUpdate, StoreTypeOK
<1>8. CASE ApplyFrame(c)
  <2>1. StoreTypeOK'
    BY <1>8, SynchronousTypeOK DEF ApplyFrame
  <2> QED BY <1>8, <2>1 DEF ApplyFrame, LockFree
<1>9. CASE Disconnect(c)
  BY <1>9 DEF Disconnect, StoreTypeOK
<1>10. CASE LeaveRoom(c)
  BY <1>10 DEF LeaveRoom, StoreTypeOK
<1> QED
  BY <1>1, <1>2, <1>3, <1>4, <1>5, <1>6, <1>7, <1>8, <1>9, <1>10 DEF ConnStep

(* The variables ResetTask sets.                                           *)
TaskTypeOK ==
    /\ pc \in [Tasks -> ConnPcs \cup ReqPcs \cup FlusherPcs]
    /\ \A c \in Conns : pc[c] \in ConnPcs
    /\ \A r \in Reqs : pc[r] \in ReqPcs
    /\ pc[Flusher] \in FlusherPcs
    /\ payload \in [Tasks -> SUBSET Updates]
    /\ live \in [Reqs -> BOOLEAN]
    /\ kind \in [Reqs -> Kinds]

LEMMA ResetTaskTypeOK ==
    ASSUME TypeOK, NEW t \in Tasks, ResetTask(t)
    PROVE  TaskTypeOK'
BY TasksAssumption
   DEF ResetTask, TypeOK, TaskTypeOK, Goto, Rest, Tasks, ConnPcs, ReqPcs,
       FlusherPcs, Kinds

LEMMA ReqStepTypeOK ==
    ASSUME TypeOK, NEW r \in Reqs, ReqStep(r)
    PROVE  TypeOK'
<1> USE TasksAssumption DEF TypeOK, Tasks, At, Goto, ConnPcs, ReqPcs, FlusherPcs,
        storeVars, memVars, callVars, diskVars, roomVars, clientVars, taskVars
<1>1. CASE Request(r)
  BY <1>1 DEF Request, Kinds, StoreTypeOK
<1>2. CASE LockRoom(r)
  BY <1>2 DEF LockRoom, Acquire, StoreTypeOK
<1>3. CASE ApplySave(r)
  <2>1. StoreTypeOK'
    BY <1>3, SynchronousTypeOK DEF ApplySave
  <2> QED BY <1>3, <2>1 DEF ApplySave
<1>4. CASE ApplyRestore(r)
  <2>1. StoreTypeOK'
    BY <1>4, SynchronousTypeOK DEF ApplyRestore
  <2>2. payload' \in [Tasks -> SUBSET Updates] /\ issued' \in SUBSET Updates
    <3>1. CASE UNCHANGED <<payload, issued>>
      BY <3>1
    <3>2. ASSUME NEW u \in Updates \ issued, issued' = issued \cup {u},
                 payload' = [payload EXCEPT ![r] = {u}]
          PROVE  payload' \in [Tasks -> SUBSET Updates] /\ issued' \in SUBSET Updates
      BY <3>2
    <3> QED BY <1>4, <3>1, <3>2 DEF ApplyRestore
  <2>3. Tail(r) \in ReqPcs
    BY DEF Tail
  <2> QED BY <1>4, <2>1, <2>2, <2>3 DEF ApplyRestore
<1>5. CASE Capture(r)
  <2>1. CASE live[r]
    BY <1>5, <2>1, ResetTaskTypeOK DEF Capture, Release, TaskTypeOK, StoreTypeOK
  <2>2. CASE ~live[r]
    BY <1>5, <2>2 DEF Capture, StoreTypeOK
  <2> QED BY <2>1, <2>2
<1>6. CASE RejectBody(r) \/ Refuse(r)
  BY <1>6, ResetTaskTypeOK DEF RejectBody, Refuse, Release, TaskTypeOK, StoreTypeOK
<1>7. CASE ContinuePersist(r)
  BY <1>7 DEF ContinuePersist, PersistStart, DbCommit, Enter, Inside, IoSteps, StoreTypeOK
<1>8. CASE FinishPersist(r)
  BY <1>8 DEF FinishPersist, PersistReturn, Exit, NoCall, IoSteps, Tail, StoreTypeOK
<1>9. CASE AbortPersist(r)
  BY <1>9, ResetTaskTypeOK
     DEF AbortPersist, PersistFail, Exit, NoCall, IoSteps, Release, TaskTypeOK, StoreTypeOK
<1> QED
  BY <1>1, <1>2, <1>3, <1>4, <1>5, <1>6, <1>7, <1>8, <1>9 DEF ReqStep

LEMMA FlusherStepTypeOK ==
    ASSUME TypeOK, FlusherStep(Flusher)
    PROVE  TypeOK'
<1> USE TasksAssumption DEF TypeOK, Tasks, At, Goto, ConnPcs, ReqPcs, FlusherPcs,
        storeVars, memVars, callVars, diskVars, roomVars, clientVars, taskVars
<1>1. CASE Tick(Flusher) \/ MaintainOrphan(Flusher) \/ MaintainActive(Flusher)
           \/ Shutdown(Flusher)
  BY <1>1 DEF Tick, MaintainOrphan, MaintainActive, Shutdown, Acquire, LockFree, StoreTypeOK
<1>2. CASE FinishShutdown(Flusher)
  <2>1. CASE CheckpointReturn(Flusher)
    BY <1>2, <2>1 DEF FinishShutdown, CheckpointReturn, Exit, NoCall, IoSteps, StoreTypeOK
  <2>2. CASE CheckpointNothing(Flusher)
    BY <1>2, <2>2 DEF FinishShutdown, CheckpointNothing, StoreTypeOK
  <2> QED BY <1>2, <2>1, <2>2 DEF FinishShutdown
<1>3. CASE FailShutdown(Flusher)
  BY <1>3 DEF FailShutdown, RedisSetFail, Exit, NoCall, IoSteps, StoreTypeOK
<1>4. CASE Reboot(Flusher)
  BY <1>4 DEF Reboot, StoreTypeOK
<1> QED
  BY <1>1, <1>2, <1>3, <1>4 DEF FlusherStep

LEMMA SharedStepTypeOK ==
    ASSUME TypeOK, NEW t \in Tasks, SharedStep(t)
    PROVE  TypeOK'
<1> USE TasksAssumption DEF TypeOK, Tasks, At, Goto, ConnPcs, ReqPcs, FlusherPcs,
        storeVars, memVars, callVars, diskVars, roomVars, clientVars, taskVars
<1>1. CASE ContinueLoad(t)
  <2>1. CASE LoadStart(t)
    BY <1>1, <2>1 DEF ContinueLoad, LoadStart, Enter, IoSteps, StoreTypeOK
  <2>2. CASE LoadReadDb(t)
    BY <1>1, <2>2 DEF ContinueLoad, LoadReadDb, IoSteps, StoreTypeOK
  <2> QED BY <1>1, <2>1, <2>2 DEF ContinueLoad
<1>2. CASE FinishLoad(t)
  <2>1. StoreTypeOK' /\ guard' \in Tasks \cup {Nobody}
    <3>1. CASE LoadHit(t)
      BY <3>1 DEF LoadHit, StoreTypeOK
    <3>2. CASE LoadPublish(t)
      BY <3>2 DEF LoadPublish, Inside, Publish, Exit, NoCall, IoSteps, StoreTypeOK
    <3>3. CASE LoadWithoutRedis(t)
      BY <3>3 DEF LoadWithoutRedis, Inside, Publish, Exit, NoCall, IoSteps, StoreTypeOK
    <3> QED BY <1>2, <3>1, <3>2, <3>3 DEF FinishLoad
  <2>2. CASE t \in Conns /\ EnterRoom(t) /\ Release(t)
    BY <2>1, <2>2 DEF EnterRoom, Release
  <2>3. CASE t \in Reqs /\ ~(t \in Conns)
    BY <1>2, <2>1, <2>3 DEF FinishLoad, AfterLoad
  <2> QED BY <1>2, <2>2, <2>3 DEF FinishLoad, AfterLoad
<1>3. CASE AbortLoad(t)
  BY <1>3, ResetTaskTypeOK
     DEF AbortLoad, LoadFail, Exit, NoCall, IoSteps, Release, TaskTypeOK, StoreTypeOK
<1>4. CASE Send(t)
  BY <1>4 DEF Send, StoreTypeOK
<1>5. CASE SendDone(t)
  <2>1. TaskTypeOK'
    <3>1. CASE t \in Conns
      BY <1>5, <3>1 DEF SendDone, TaskTypeOK
    <3>2. CASE t \notin Conns
      BY <1>5, <3>2, ResetTaskTypeOK DEF SendDone
    <3> QED BY <3>1, <3>2
  <2> QED BY <1>5, <2>1 DEF SendDone, TaskTypeOK, StoreTypeOK
<1>6. CASE ContinueCheckpoint(t)
  <2>1. CASE CheckpointStart(t)
    BY <1>6, <2>1 DEF ContinueCheckpoint, CheckpointStart, Enter, IoSteps, StoreTypeOK
  <2>2. CASE RedisSet(t)
    BY <1>6, <2>2 DEF ContinueCheckpoint, RedisSet, IoSteps, StoreTypeOK
  <2> QED BY <1>6, <2>1, <2>2 DEF ContinueCheckpoint
<1>7. ASSUME AfterCheckpoint(t)
      PROVE  TaskTypeOK' /\ targets' \in [Tasks -> SUBSET Conns]
             /\ roomLock' \in Tasks \cup {Nobody}
             /\ UNCHANGED <<room, clientVars>>
  <2>1. CASE t \in Reqs /\ kind[t] \in {"save", "restore"}
    BY <1>7, <2>1 DEF AfterCheckpoint, Release, TaskTypeOK
  <2>2. CASE ~(t \in Reqs /\ kind[t] \in {"save", "restore"})
    BY <1>7, <2>2, ResetTaskTypeOK DEF AfterCheckpoint, Release
  <2> QED BY <2>1, <2>2
<1>8. CASE FinishCheckpoint(t)
  <2>1. StoreTypeOK' /\ guard' \in Tasks \cup {Nobody}
    <3>1. CASE CheckpointReturn(t)
      BY <3>1 DEF CheckpointReturn, Exit, NoCall, IoSteps, StoreTypeOK
    <3>2. CASE EvictReturn(t)
      <4>1. CASE generation = io.gen
        <5>1. Unload
          BY <3>2, <4>1 DEF EvictReturn
        <5> QED BY <3>2, <5>1 DEF EvictReturn, Unload, Exit, NoCall, IoSteps, StoreTypeOK
      <4>2. CASE generation # io.gen
        <5>1. checkpointed' = io.gen /\ UNCHANGED <<loaded, doc, generation, saved>>
          BY <3>2, <4>2 DEF EvictReturn
        <5> QED BY <3>2, <5>1 DEF EvictReturn, Exit, NoCall, IoSteps, StoreTypeOK
      <4> QED BY <4>1, <4>2
    <3>3. CASE CheckpointNothing(t)
      BY <3>3 DEF CheckpointNothing, StoreTypeOK
    <3> QED BY <1>8, <3>1, <3>2, <3>3 DEF FinishCheckpoint
  <2> QED BY <1>7, <1>8, <2>1 DEF FinishCheckpoint, TaskTypeOK
<1>9. CASE FailCheckpoint(t)
  <2>1. StoreTypeOK' /\ guard' \in Tasks \cup {Nobody}
    BY <1>9 DEF FailCheckpoint, RedisSetFail, Exit, NoCall, IoSteps, StoreTypeOK
  <2> QED BY <1>7, <1>9, <2>1 DEF FailCheckpoint, TaskTypeOK
<1> QED
  BY <1>1, <1>2, <1>3, <1>4, <1>5, <1>6, <1>8, <1>9 DEF SharedStep

LEMMA RestartTypeOK ==
    ASSUME TypeOK, Restart
    PROVE  TypeOK'
<1>1. StoreTypeOK' /\ guard' = Nobody
  <2>1. StoreCrash
    BY DEF Restart, Die
  <2> QED
    BY <2>1 DEF StoreCrash, Unload, Exit, NoCall, IoSteps, diskVars, TypeOK, StoreTypeOK
<1>2. \A t \in Tasks : pc'[t] = Rest(t) \/ (t = Flusher /\ pc'[t] \in {"sleep", "crashed"})
  BY DEF Restart, Die
<1>3. /\ \A c \in Conns : pc'[c] \in ConnPcs
      /\ \A q \in Reqs : pc'[q] \in ReqPcs
      /\ pc'[Flusher] \in FlusherPcs
  BY <1>2, RestIsTyped, TasksAssumption DEF Tasks, FlusherPcs
<1>4. pc' \in [Tasks -> ConnPcs \cup ReqPcs \cup FlusherPcs]
  BY <1>3 DEF Restart, Die, Tasks
<1> QED
  BY <1>1, <1>3, <1>4 DEF Restart, Die, TypeOK, Kinds, Tasks

LEMMA NextTypeOK == TypeOK /\ [Next]_vars => TypeOK'
<1> SUFFICES ASSUME TypeOK, [Next]_vars PROVE TypeOK'
  OBVIOUS
<1>1. CASE UNCHANGED vars
  BY <1>1 DEF vars, storeVars, memVars, callVars, diskVars, roomVars, taskVars,
              clientVars, TypeOK, StoreTypeOK
<1> QED
  BY <1>1, ConnStepTypeOK, ReqStepTypeOK, FlusherStepTypeOK, SharedStepTypeOK,
     RestartTypeOK DEF Next, ProcessExit, Crash, Restart

(* Every variable keeps its type, whichever failures are injected.         *)
THEOREM TypeCorrect == Spec => []TypeOK
<1> QED BY InitTypeOK, NextTypeOK, PTL DEF Spec

-----------------------------------------------------------------------------
(***************************************************************************)
(* The locks: their holders are where the locks say                        *)
(***************************************************************************)
LEMMA LocksStep ==
    ASSUME IInv, Next
    PROVE  LocksAgree'
<1> USE TasksAssumption DEF IInv, TypeOK, LocksAgree, HoldsRoom, Tasks, At, Goto, Rest,
        storeVars, memVars, callVars, diskVars, roomVars, clientVars, taskVars
<1>1. ASSUME NEW c \in Conns, ConnStep(c)
      PROVE  LocksAgree'
  <2>1. CASE ClientEdit(c) \/ CloseTab(c)
    BY <2>1 DEF ClientEdit, CloseTab
  <2>2. CASE Connect(c)
    BY <2>2 DEF Connect
  <2>3. CASE JoinOccupied(c)
    BY <2>3 DEF JoinOccupied, EnterRoom, LockFree
  <2>4. CASE JoinEmpty(c)
    BY <2>4 DEF JoinEmpty, Acquire
  <2>5. CASE Handshake(c)
    BY <2>5 DEF Handshake
  <2>6. CASE ReceiveUpdate(c)
    BY <2>6 DEF ReceiveUpdate
  <2>7. CASE ApplyFrame(c)
    BY <2>7 DEF ApplyFrame, LockFree
  <2>8. CASE Disconnect(c)
    BY <2>8 DEF Disconnect
  <2>9. CASE LeaveRoom(c)
    BY <2>9 DEF LeaveRoom
  <2> QED
    BY <1>1, <2>1, <2>2, <2>3, <2>4, <2>5, <2>6, <2>7, <2>8, <2>9 DEF ConnStep
<1>2. ASSUME NEW r \in Reqs, ReqStep(r)
      PROVE  LocksAgree'
  <2>1. CASE Request(r)
    BY <2>1 DEF Request
  <2>2. CASE LockRoom(r)
    BY <2>2 DEF LockRoom, Acquire
  <2>3. CASE ApplySave(r)
    BY <2>3 DEF ApplySave
  <2>4. CASE ApplyRestore(r)
    BY <2>4 DEF ApplyRestore, Tail
  <2>5. CASE Capture(r)
    BY <2>5 DEF Capture, Release, ResetTask
  <2>6. CASE RejectBody(r) \/ Refuse(r)
    BY <2>6 DEF RejectBody, Refuse, Release, ResetTask
  <2>7. CASE ContinuePersist(r)
    BY <2>7 DEF ContinuePersist
  <2>8. CASE FinishPersist(r)
    BY <2>8 DEF FinishPersist, Tail
  <2>9. CASE AbortPersist(r)
    BY <2>9 DEF AbortPersist, Release, ResetTask
  <2> QED
    BY <1>2, <2>1, <2>2, <2>3, <2>4, <2>5, <2>6, <2>7, <2>8, <2>9 DEF ReqStep
<1>3. CASE FlusherStep(Flusher)
  BY <1>3 DEF FlusherStep, Tick, MaintainOrphan, MaintainActive, Acquire, LockFree,
              Shutdown, FinishShutdown, FailShutdown, Reboot
<1>4. ASSUME NEW t \in Tasks, SharedStep(t)
      PROVE  LocksAgree'
  <2>1. CASE ContinueLoad(t)
    BY <2>1 DEF ContinueLoad
  <2>2. CASE FinishLoad(t)
    BY <2>2 DEF FinishLoad, AfterLoad, EnterRoom, Release
  <2>3. CASE AbortLoad(t)
    BY <2>3 DEF AbortLoad, Release, ResetTask
  <2>4. CASE Send(t)
    BY <2>4 DEF Send
  <2>5. CASE SendDone(t)
    BY <2>5 DEF SendDone, ResetTask
  <2>6. CASE ContinueCheckpoint(t)
    BY <2>6 DEF ContinueCheckpoint
  <2>7. CASE AfterCheckpoint(t)
    BY <2>7 DEF AfterCheckpoint, Release, ResetTask
  <2> QED
    BY <1>4, <2>1, <2>2, <2>3, <2>4, <2>5, <2>6, <2>7
       DEF SharedStep, FinishCheckpoint, FailCheckpoint
<1>5. CASE Restart
  BY <1>5 DEF Restart, Die
<1> QED
  BY <1>1, <1>2, <1>3, <1>4, <1>5 DEF Next, ProcessExit, Crash, Restart

-----------------------------------------------------------------------------
(***************************************************************************)
(* The guard: its holder is inside the call that `io` describes            *)
(***************************************************************************)
LEMMA GuardStep ==
    ASSUME IInv, Next
    PROVE  GuardAgrees'
<1> USE TasksAssumption
        DEF IInv, TypeOK, StoreTypeOK, GuardAgrees, InCall, Tasks, At, Goto, Rest,
            storeVars, memVars, callVars, diskVars, roomVars, clientVars, taskVars
<1>1. ASSUME NEW c \in Conns, ConnStep(c)
      PROVE  GuardAgrees'
  <2>1. UNCHANGED callVars
    BY <1>1 DEF ConnStep, ClientEdit, CloseTab, Connect, JoinOccupied, JoinEmpty,
                Handshake, ReceiveUpdate, ApplyFrame, Disconnect, LeaveRoom
  <2>2. pc[c] \notin {"load", "ckpt", "evict", "final", "persist"} \/ UNCHANGED pc
    BY <1>1 DEF ConnStep, ClientEdit, CloseTab, Connect, JoinOccupied, JoinEmpty,
                Handshake, ReceiveUpdate, ApplyFrame, Disconnect, LeaveRoom
  <2>3. \A t \in Tasks : t # c => pc'[t] = pc[t]
    BY <1>1 DEF ConnStep, ClientEdit, CloseTab, Connect, JoinOccupied, EnterRoom, JoinEmpty,
                Handshake, ReceiveUpdate, ApplyFrame, Disconnect, LeaveRoom
  <2> QED
    BY <2>1, <2>2, <2>3
<1>2. ASSUME NEW r \in Reqs, ReqStep(r)
      PROVE  GuardAgrees'
  <2>1. CASE Request(r) \/ LockRoom(r)
    BY <2>1 DEF Request, LockRoom
  <2>2. CASE ApplySave(r)
    BY <2>2 DEF ApplySave
  <2>3. CASE ApplyRestore(r)
    BY <2>3 DEF ApplyRestore
  <2>4. CASE Capture(r)
    BY <2>4 DEF Capture, ResetTask
  <2>5. CASE RejectBody(r) \/ Refuse(r)
    BY <2>5 DEF RejectBody, Refuse, ResetTask
  <2>6. CASE ContinuePersist(r)
    BY <2>6 DEF ContinuePersist, PersistStart, DbCommit, Enter, Inside
  <2>7. CASE FinishPersist(r)
    BY <2>7 DEF FinishPersist, PersistReturn, Inside, Exit, NoCall
  <2>8. CASE AbortPersist(r)
    BY <2>8 DEF AbortPersist, PersistFail, Inside, Exit, NoCall
  <2> QED
    BY <1>2, <2>1, <2>2, <2>3, <2>4, <2>5, <2>6, <2>7, <2>8 DEF ReqStep
<1>3. CASE FlusherStep(Flusher)
  <2>1. CASE Tick(Flusher) \/ MaintainOrphan(Flusher) \/ MaintainActive(Flusher)
             \/ Shutdown(Flusher)
    BY <2>1 DEF Tick, MaintainOrphan, MaintainActive, Shutdown
  <2>2. CASE FinishShutdown(Flusher)
    BY <2>2 DEF FinishShutdown, CheckpointReturn, CheckpointNothing, Exit, NoCall
  <2>3. CASE FailShutdown(Flusher)
    BY <2>3 DEF FailShutdown, RedisSetFail, Exit, NoCall
  <2>4. CASE Reboot(Flusher)
    BY <2>4 DEF Reboot
  <2> QED BY <1>3, <2>1, <2>2, <2>3, <2>4 DEF FlusherStep
<1>4. ASSUME NEW t \in Tasks, SharedStep(t)
      PROVE  GuardAgrees'
  <2>1. CASE ContinueLoad(t)
    <3>1. CASE LoadStart(t)
      BY <2>1, <3>1 DEF ContinueLoad, LoadStart, Enter
    <3>2. CASE LoadReadDb(t)
      BY <2>1, <3>2 DEF ContinueLoad, LoadReadDb, Inside
    <3> QED BY <2>1, <3>1, <3>2 DEF ContinueLoad
  <2>2. CASE FinishLoad(t)
    <3>1. CASE LoadHit(t)
      BY <2>2, <3>1 DEF FinishLoad, LoadHit
    <3>2. CASE LoadPublish(t) \/ LoadWithoutRedis(t)
      BY <3>2 DEF LoadPublish, LoadWithoutRedis, Exit, NoCall
    <3> QED BY <2>2, <3>1, <3>2 DEF FinishLoad
  <2>3. CASE AbortLoad(t)
    BY <2>3 DEF AbortLoad, LoadFail, Exit, NoCall
  <2>4. CASE Send(t)
    BY <2>4 DEF Send
  <2>5. CASE SendDone(t)
    BY <2>5 DEF SendDone, ResetTask
  <2>6. CASE ContinueCheckpoint(t)
    BY <2>6 DEF ContinueCheckpoint, CheckpointStart, RedisSet, Enter, Inside
  <2>7. CASE FinishCheckpoint(t)
    <3>1. CASE CheckpointReturn(t) \/ EvictReturn(t)
      BY <3>1 DEF CheckpointReturn, EvictReturn, Exit, NoCall
    <3>2. CASE CheckpointNothing(t)
      BY <3>2 DEF CheckpointNothing
    <3> QED BY <2>7, <3>1, <3>2 DEF FinishCheckpoint
  <2>8. CASE FailCheckpoint(t)
    BY <2>8 DEF FailCheckpoint, RedisSetFail, Exit, NoCall
  <2> QED
    BY <1>4, <2>1, <2>2, <2>3, <2>4, <2>5, <2>6, <2>7, <2>8 DEF SharedStep
<1>5. CASE Restart
  BY <1>5 DEF Restart, Die, StoreCrash, Exit, NoCall
<1> QED
  BY <1>1, <1>2, <1>3, <1>4, <1>5 DEF Next, ProcessExit, Crash, Restart

-----------------------------------------------------------------------------
(***************************************************************************)
(* The room: who is in it, and what the lock's holder knows                *)
(***************************************************************************)
LEMMA RoomStep ==
    ASSUME IInv, Next
    PROVE  RoomAgrees'
<1> USE TasksAssumption
        DEF IInv, TypeOK, LocksAgree, HoldsRoom, RoomAgrees, Tasks, At, Goto, Rest,
            ConnPcs, ReqPcs, FlusherPcs,
            storeVars, memVars, callVars, diskVars, roomVars, clientVars, taskVars
<1>1. ASSUME NEW c \in Conns, ConnStep(c)
      PROVE  RoomAgrees'
  <2>1. CASE ClientEdit(c) \/ CloseTab(c)
    BY <2>1 DEF ClientEdit, CloseTab
  <2>2. CASE Connect(c)
    BY <2>2 DEF Connect
  <2>3. CASE JoinOccupied(c)
    BY <2>3 DEF JoinOccupied, EnterRoom, LockFree
  <2>4. CASE JoinEmpty(c)
    BY <2>4 DEF JoinEmpty, Acquire
  <2>5. CASE Handshake(c)
    BY <2>5 DEF Handshake
  <2>6. CASE ReceiveUpdate(c)
    BY <2>6 DEF ReceiveUpdate
  <2>7. CASE ApplyFrame(c)
    BY <2>7 DEF ApplyFrame, LockFree
  <2>8. CASE Disconnect(c)
    BY <2>8 DEF Disconnect
  <2>9. CASE LeaveRoom(c)
    BY <2>9 DEF LeaveRoom
  <2> QED
    BY <1>1, <2>1, <2>2, <2>3, <2>4, <2>5, <2>6, <2>7, <2>8, <2>9 DEF ConnStep
<1>2. ASSUME NEW r \in Reqs, ReqStep(r)
      PROVE  RoomAgrees'
  <2>1. CASE Request(r)
    BY <2>1 DEF Request
  <2>2. CASE LockRoom(r)
    BY <2>2 DEF LockRoom, Acquire
  <2>3. CASE ApplySave(r)
    BY <2>3 DEF ApplySave
  <2>4. CASE ApplyRestore(r)
    BY <2>4 DEF ApplyRestore, Tail
  <2>5. CASE Capture(r)
    BY <2>5 DEF Capture, ResetTask
  <2>6. CASE RejectBody(r) \/ Refuse(r)
    BY <2>6 DEF RejectBody, Refuse, ResetTask
  <2>7. CASE ContinuePersist(r)
    BY <2>7 DEF ContinuePersist
  <2>8. CASE FinishPersist(r)
    BY <2>8 DEF FinishPersist, Tail
  <2>9. CASE AbortPersist(r)
    BY <2>9 DEF AbortPersist, ResetTask
  <2> QED
    BY <1>2, <2>1, <2>2, <2>3, <2>4, <2>5, <2>6, <2>7, <2>8, <2>9 DEF ReqStep
<1>3. CASE FlusherStep(Flusher)
  BY <1>3 DEF FlusherStep, Tick, MaintainOrphan, MaintainActive, Acquire, LockFree,
              Shutdown, FinishShutdown, FailShutdown, Reboot
<1>4. ASSUME NEW t \in Tasks, SharedStep(t)
      PROVE  RoomAgrees'
  <2>1. CASE ContinueLoad(t)
    BY <2>1 DEF ContinueLoad
  <2>2. CASE FinishLoad(t)
    <3>1. CASE t \in Conns
      BY <2>2, <3>1 DEF FinishLoad, AfterLoad, EnterRoom
    <3>2. CASE t \in Reqs
      BY <2>2, <3>2 DEF FinishLoad, AfterLoad
    <3> QED BY <2>2, <3>1, <3>2 DEF FinishLoad, AfterLoad
  <2>3. CASE AbortLoad(t)
    BY <2>3 DEF AbortLoad, ResetTask
  <2>4. CASE Send(t)
    BY <2>4 DEF Send
  <2>5. CASE SendDone(t)
    BY <2>5 DEF SendDone, ResetTask
  <2>6. CASE ContinueCheckpoint(t)
    BY <2>6 DEF ContinueCheckpoint
  <2>7. CASE pc[t] \in {"ckpt", "evict"} /\ AfterCheckpoint(t)
    BY <2>7 DEF AfterCheckpoint, ResetTask
  <2> QED
    BY <1>4, <2>1, <2>2, <2>3, <2>4, <2>5, <2>6, <2>7
       DEF SharedStep, FinishCheckpoint, FailCheckpoint
<1>5. CASE Restart
  BY <1>5 DEF Restart, Die
<1> QED
  BY <1>1, <1>2, <1>3, <1>4, <1>5 DEF Next, ProcessExit, Crash, Restart

-----------------------------------------------------------------------------
(***************************************************************************)
(* The document is there whenever somebody relies on it                    *)
(***************************************************************************)
LEMMA DocumentThereStep ==
    ASSUME IInv, Next
    PROVE  DocumentThere'
<1> USE TasksAssumption
        DEF IInv, TypeOK, LocksAgree, HoldsRoom, RoomAgrees, DocumentThere,
            RoomHasDocument, Tasks, At, Goto, Rest, ConnPcs, ReqPcs, FlusherPcs,
            storeVars, memVars, callVars, diskVars, roomVars, clientVars, taskVars
<1>1. ASSUME NEW c \in Conns, ConnStep(c)
      PROVE  DocumentThere'
  <2>1. CASE ClientEdit(c) \/ CloseTab(c)
    BY <2>1 DEF ClientEdit, CloseTab
  <2>2. CASE Connect(c)
    BY <2>2 DEF Connect
  <2>3. CASE JoinOccupied(c)
    BY <2>3 DEF JoinOccupied, EnterRoom, LockFree
  <2>4. CASE JoinEmpty(c)
    BY <2>4 DEF JoinEmpty, Acquire
  <2>5. CASE Handshake(c)
    BY <2>5 DEF Handshake, GetOrCreate
  <2>6. CASE ReceiveUpdate(c)
    BY <2>6 DEF ReceiveUpdate
  <2>7. CASE ApplyFrame(c)
    BY <2>7 DEF ApplyFrame, LockFree, ApplyUpdate, Publish
  <2>8. CASE Disconnect(c)
    BY <2>8 DEF Disconnect
  <2>9. CASE LeaveRoom(c)
    BY <2>9 DEF LeaveRoom
  <2> QED
    BY <1>1, <2>1, <2>2, <2>3, <2>4, <2>5, <2>6, <2>7, <2>8, <2>9 DEF ConnStep
<1>2. ASSUME NEW r \in Reqs, ReqStep(r)
      PROVE  DocumentThere'
  <2>1. CASE Request(r)
    BY <2>1 DEF Request
  <2>2. CASE LockRoom(r)
    BY <2>2 DEF LockRoom, Acquire
  <2>3. CASE ApplySave(r)
    BY <2>3 DEF ApplySave, ApplyUpdate, Publish
  <2>4. CASE ApplyRestore(r)
    <3>1. loaded'
      BY <2>4 DEF ApplyRestore, GetOrCreate, ApplyUpdate, Publish
    <3> QED BY <3>1
  <2>5. CASE Capture(r)
    BY <2>5 DEF Capture, ResetTask
  <2>6. CASE RejectBody(r) \/ Refuse(r)
    BY <2>6 DEF RejectBody, Refuse, ResetTask
  <2>7. CASE ContinuePersist(r)
    BY <2>7 DEF ContinuePersist, PersistStart, DbCommit
  <2>8. CASE FinishPersist(r)
    BY <2>8 DEF FinishPersist, PersistReturn, Tail
  <2>9. CASE AbortPersist(r)
    BY <2>9 DEF AbortPersist, PersistFail, ResetTask
  <2> QED
    BY <1>2, <2>1, <2>2, <2>3, <2>4, <2>5, <2>6, <2>7, <2>8, <2>9 DEF ReqStep
<1>3. CASE FlusherStep(Flusher)
  BY <1>3 DEF FlusherStep, Tick, MaintainOrphan, MaintainActive, Shutdown,
              FinishShutdown, FailShutdown, Reboot, CheckpointReturn, CheckpointNothing, RedisSetFail
<1>4. ASSUME NEW t \in Tasks, SharedStep(t)
      PROVE  DocumentThere'
  <2>1. CASE ContinueLoad(t)
    BY <2>1 DEF ContinueLoad, LoadStart, LoadReadDb
  <2>2. CASE FinishLoad(t)
    <3>1. loaded'
      BY <2>2 DEF FinishLoad, LoadHit, LoadPublish, LoadWithoutRedis, Publish
    <3> QED BY <3>1
  <2>3. CASE AbortLoad(t)
    BY <2>3 DEF AbortLoad, LoadFail, ResetTask
  <2>4. CASE Send(t)
    BY <2>4 DEF Send
  <2>5. CASE SendDone(t)
    BY <2>5 DEF SendDone, ResetTask
  <2>6. CASE ContinueCheckpoint(t)
    BY <2>6 DEF ContinueCheckpoint, CheckpointStart, RedisSet
  <2>7. ASSUME pc[t] \in {"ckpt", "evict"}, AfterCheckpoint(t)
        PROVE  /\ room' = room
               /\ \A q \in Tasks : pc'[q] \in {"apply", "capture", "persist"} =>
                                   q # t /\ pc[q] \in {"apply", "capture", "persist"}
    BY <2>7 DEF AfterCheckpoint, ResetTask
  <2>8. CASE FinishCheckpoint(t)
    <3>1. CASE At(t, "ckpt") /\ CheckpointReturn(t)
      BY <2>7, <2>8, <3>1 DEF FinishCheckpoint, CheckpointReturn
    <3>2. CASE At(t, "evict") /\ EvictReturn(t)
      <4>1. room' = {}
        BY <2>7, <2>8, <3>2 DEF FinishCheckpoint
      <4>2. \A q \in Tasks : pc'[q] \notin {"apply", "capture", "persist"}
        BY <2>7, <2>8, <3>2 DEF FinishCheckpoint
      <4> QED BY <4>1, <4>2
    <3>3. CASE pc[t] \in {"ckpt", "evict"} /\ CheckpointNothing(t)
      BY <2>7, <2>8, <3>3 DEF FinishCheckpoint, CheckpointNothing
    <3> QED BY <2>8, <3>1, <3>2, <3>3 DEF FinishCheckpoint
  <2>9. CASE FailCheckpoint(t)
    BY <2>7, <2>9 DEF FailCheckpoint, RedisSetFail
  <2> QED
    BY <1>4, <2>1, <2>2, <2>3, <2>4, <2>5, <2>6, <2>8, <2>9 DEF SharedStep
<1>5. CASE Restart
  BY <1>5 DEF Restart, Die
<1> QED
  BY <1>1, <1>2, <1>3, <1>4, <1>5 DEF Next, ProcessExit, Crash, Restart

-----------------------------------------------------------------------------
(***************************************************************************)
(* The document, the call in progress and the stores                       *)
(***************************************************************************)
StoreSound == DocumentSound /\ CallSound /\ CheckpointedMeansRecoverable

(* Steps that leave the store alone.                                       *)
LEMMA UnchangedSound ==
    ASSUME StoreSound, UNCHANGED storeVars
    PROVE  StoreSound'
BY DEF StoreSound, DocumentSound, CallSound, CheckpointedMeansRecoverable, Loading,
       storeVars, memVars, callVars, diskVars

(* The storage calls, step by step.                                        *)
LoadCall(t) ==
    \/ LoadHit(t) \/ LoadStart(t) \/ LoadReadDb(t) \/ LoadFail(t)
    \/ LoadPublish(t) \/ LoadWithoutRedis(t)

CheckpointCall(t) ==
    \/ CheckpointNothing(t) \/ CheckpointStart(t) \/ RedisSet(t)
    \/ RedisSetFail(t) \/ CheckpointReturn(t) \/ EvictReturn(t)

PersistCall(t) ==
    PersistStart(t) \/ DbCommit(t) \/ PersistFail(t) \/ PersistReturn(t)

(* An edit, of a document that is loaded.                                  *)
Edits(us) ==
    /\ loaded
    /\ GetOrCreate \/ ApplyUpdate(us)
    /\ UNCHANGED <<callVars, diskVars>>

(* An edit of the live document, also while a write is in flight.          *)
LEMMA EditSound ==
    ASSUME StoreTypeOK, StoreSound, NEW us \in SUBSET Updates, Edits(us)
    PROVE  StoreSound'
<1> USE DEF Edits
<1>1. CASE GetOrCreate
  BY <1>1, UnchangedSound DEF GetOrCreate, storeVars
<1>2. CASE ApplyUpdate(us)
  <2>1. Publish(doc \cup us, saved, checkpointed, generation + 1)
    BY <1>2 DEF ApplyUpdate
  <2>2. generation \in Nat /\ checkpointed \in Int /\ io.gen \in Nat
    BY DEF StoreTypeOK, NoGeneration
  <2> QED
    BY <2>1, <2>2 DEF Publish, StoreSound, DocumentSound, CallSound,
       CheckpointedMeansRecoverable, Loading, callVars, diskVars
<1> QED BY <1>1, <1>2

LEMMA LoadSound ==
    ASSUME StoreTypeOK, StoreSound, NEW t, LoadCall(t)
    PROVE  StoreSound'
<1> USE DEF StoreSound, DocumentSound, CallSound, CheckpointedMeansRecoverable,
            Loading, StoreTypeOK, memVars, callVars, diskVars
<1>1. CASE LoadHit(t)
  BY <1>1, UnchangedSound DEF LoadHit
<1>2. CASE LoadStart(t)
  BY <1>2 DEF LoadStart, Enter
<1>3. CASE LoadReadDb(t)
  BY <1>3 DEF LoadReadDb, Inside
<1>4. CASE LoadFail(t)
  BY <1>4 DEF LoadFail, Inside, Exit, NoCall
<1>5. CASE LoadPublish(t)
  BY <1>5 DEF LoadPublish, Inside, Publish, Exit, NoCall, NoGeneration
<1>6. CASE LoadWithoutRedis(t)
  BY <1>6 DEF LoadWithoutRedis, Inside, Publish, Exit, NoCall, NoGeneration
<1> QED BY <1>1, <1>2, <1>3, <1>4, <1>5, <1>6 DEF LoadCall

LEMMA CheckpointSound ==
    ASSUME StoreTypeOK, StoreSound, NEW t, CheckpointCall(t)
    PROVE  StoreSound'
<1> USE DEF StoreSound, DocumentSound, CallSound, CheckpointedMeansRecoverable,
            Loading, StoreTypeOK, NoGeneration, memVars, callVars, diskVars
<1>1. CASE CheckpointNothing(t)
  BY <1>1, UnchangedSound DEF CheckpointNothing
<1>2. CASE CheckpointStart(t)
  BY <1>2 DEF CheckpointStart, Enter
<1>3. CASE RedisSet(t)
  BY <1>3 DEF RedisSet, Inside
<1>4. CASE RedisSetFail(t)
  BY <1>4 DEF RedisSetFail, Inside, Exit, NoCall
<1>5. CASE CheckpointReturn(t)
  BY <1>5 DEF CheckpointReturn, Inside, Exit, NoCall
<1>6. CASE EvictReturn(t)
  <2>1. CASE generation = io.gen
    BY <1>6, <2>1 DEF EvictReturn, Inside, Unload, Exit, NoCall
  <2>2. CASE generation # io.gen
    BY <1>6, <2>2 DEF EvictReturn, Inside, Exit, NoCall
  <2> QED BY <2>1, <2>2
<1> QED BY <1>1, <1>2, <1>3, <1>4, <1>5, <1>6 DEF CheckpointCall

LEMMA PersistSound ==
    ASSUME StoreTypeOK, StoreSound, NEW t, PersistCall(t)
    PROVE  StoreSound'
<1> USE DEF StoreSound, DocumentSound, CallSound, CheckpointedMeansRecoverable,
            Loading, StoreTypeOK, NoGeneration, memVars, callVars, diskVars
<1>1. CASE PersistStart(t)
  BY <1>1 DEF PersistStart, Enter
<1>2. CASE DbCommit(t)
  BY <1>2 DEF DbCommit, Inside
<1>3. CASE PersistFail(t)
  BY <1>3 DEF PersistFail, Inside, Exit, NoCall
<1>4. CASE PersistReturn(t)
  BY <1>4 DEF PersistReturn, Inside, Exit, NoCall
<1> QED BY <1>1, <1>2, <1>3, <1>4 DEF PersistCall

LEMMA CrashSound ==
    ASSUME StoreCrash
    PROVE  StoreSound'
BY DEF StoreCrash, Unload, Exit, NoCall, StoreSound, DocumentSound, CallSound,
       CheckpointedMeansRecoverable, Loading

(* What a step of the room does to the store.                              *)
LEMMA StoreSteps ==
    ASSUME IInv, [Next]_vars
    PROVE  \/ UNCHANGED storeVars
           \/ \E us \in SUBSET Updates : Edits(us)
           \/ \E t \in Tasks : LoadCall(t) \/ CheckpointCall(t) \/ PersistCall(t)
           \/ StoreCrash /\ (ProcessExit \/ Crash)
<1>1. ASSUME NEW c \in Conns, ConnStep(c)
      PROVE  UNCHANGED storeVars \/ \E us \in SUBSET Updates : Edits(us)
  <2>1. payload[c] \in SUBSET Updates /\ {} \in SUBSET Updates
    BY DEF IInv, TypeOK, Tasks
  <2>2. pc[c] \in {"hello", "update"} => loaded
    BY DEF IInv, RoomAgrees, DocumentThere, RoomHasDocument
  <2>3. CASE Handshake(c)
    BY <2>1, <2>2, <2>3 DEF Handshake, At, Edits
  <2>4. CASE ApplyFrame(c)
    BY <2>1, <2>2, <2>4 DEF ApplyFrame, At, Edits
  <2> QED
    BY <1>1, <2>3, <2>4
       DEF ConnStep, ClientEdit, CloseTab, Connect, JoinOccupied, JoinEmpty,
           ReceiveUpdate, Disconnect, LeaveRoom
<1>2. ASSUME NEW r \in Reqs, ReqStep(r)
      PROVE  \/ UNCHANGED storeVars
             \/ \E us \in SUBSET Updates : Edits(us)
             \/ PersistCall(r)
  <2>1. r \in Tasks /\ payload[r] \in SUBSET Updates
    BY DEF IInv, TypeOK, Tasks
  <2>2. pc[r] = "apply" => loaded
    BY <2>1 DEF IInv, DocumentThere
  <2>3. CASE ApplySave(r)
    BY <2>1, <2>2, <2>3 DEF ApplySave, At, Edits
  <2>4. CASE ApplyRestore(r)
    BY <2>1, <2>2, <2>4 DEF ApplyRestore, At, Edits
  <2>5. CASE ContinuePersist(r) \/ FinishPersist(r) \/ AbortPersist(r)
    BY <2>5 DEF ContinuePersist, FinishPersist, AbortPersist, PersistCall
  <2> QED
    BY <1>2, <2>3, <2>4, <2>5 DEF ReqStep, Request, LockRoom, Capture, RejectBody, Refuse
<1>3. ASSUME NEW t \in Tasks, SharedStep(t)
      PROVE  UNCHANGED storeVars \/ LoadCall(t) \/ CheckpointCall(t)
  BY <1>3 DEF SharedStep, ContinueLoad, FinishLoad, AbortLoad, ContinueCheckpoint,
              FinishCheckpoint, FailCheckpoint, Send, SendDone, LoadCall, CheckpointCall
<1>4. ASSUME FlusherStep(Flusher) \/ UNCHANGED vars
      PROVE  UNCHANGED storeVars \/ CheckpointCall(Flusher)
  BY <1>4 DEF FlusherStep, Tick, MaintainOrphan, MaintainActive, Shutdown, FinishShutdown,
              FailShutdown, Reboot, CheckpointCall, vars
<1>5. ASSUME ProcessExit \/ Crash
      PROVE  StoreCrash
  BY <1>5 DEF ProcessExit, Crash, Die
<1> QED
  BY <1>1, <1>2, <1>3, <1>4, <1>5 DEF Next, Tasks

LEMMA SoundStep ==
    ASSUME IInv, [Next]_vars
    PROVE  StoreSound'
<1>1. StoreTypeOK /\ StoreSound
  BY DEF IInv, TypeOK, StoreSound
<1> QED
  BY <1>1, StoreSteps, UnchangedSound, EditSound, LoadSound, CheckpointSound, PersistSound,
     CrashSound

-----------------------------------------------------------------------------
(***************************************************************************)
(* Shutdown: from the beginning of the final checkpoints nobody edits      *)
(***************************************************************************)
LEMMA ShutdownStep ==
    ASSUME IInv, Next
    PROVE  ShutdownSound'
<1> USE TasksAssumption
        DEF IInv, TypeOK, StoreTypeOK, GuardAgrees, InCall, ShutdownSound, Serving,
            Tasks, At, Goto, Rest, ConnPcs, ReqPcs, FlusherPcs,
            storeVars, memVars, callVars, diskVars, roomVars, clientVars, taskVars
<1>1. ASSUME NEW c \in Conns, ConnStep(c)
      PROVE  ShutdownSound'
  <2>1. CASE Serving
    <3>1. Serving'
      BY <1>1, <2>1 DEF ConnStep, ClientEdit, CloseTab, Connect, JoinOccupied, EnterRoom,
         JoinEmpty, Handshake, ReceiveUpdate, ApplyFrame, Disconnect, LeaveRoom
    <3> QED BY <3>1
  <2>2. CASE ~Serving
    <3>1. ClientEdit(c) \/ CloseTab(c)
      BY <1>1, <2>2 DEF ConnStep, Connect, JoinOccupied, JoinEmpty, Handshake,
         ReceiveUpdate, ApplyFrame, Disconnect, LeaveRoom
    <3> QED BY <3>1 DEF ClientEdit, CloseTab
  <2> QED BY <2>1, <2>2
<1>2. ASSUME NEW r \in Reqs, ReqStep(r)
      PROVE  ShutdownSound'
  <2>1. Serving
    BY <1>2 DEF ReqStep, Request, LockRoom, Refuse, ApplySave, ApplyRestore, Capture,
       RejectBody, ContinuePersist, FinishPersist, AbortPersist
  <2>2. pc'[Flusher] = pc[Flusher]
    BY <1>2 DEF ReqStep, Request, LockRoom, Refuse, ApplySave, ApplyRestore, Capture,
       RejectBody, ContinuePersist, FinishPersist, AbortPersist, ResetTask
  <2> QED BY <2>1, <2>2
<1>3. CASE FlusherStep(Flusher)
  <2>1. CASE Tick(Flusher) \/ MaintainOrphan(Flusher) \/ MaintainActive(Flusher)
    BY <2>1 DEF Tick, MaintainOrphan, MaintainActive
  <2>2. CASE Shutdown(Flusher)
    <3>1. guard = Nobody \/ guard = Flusher
      BY <2>2 DEF Shutdown
    <3>2. io.step \notin {"redis_set", "redis_ack"}
      BY <2>2, <3>1 DEF Shutdown
    <3> QED BY <2>2, <3>2 DEF Shutdown
  <2>3. CASE FinishShutdown(Flusher)
    BY <2>3 DEF FinishShutdown, CheckpointReturn, CheckpointNothing, Inside, Exit, NoCall
  <2>4. CASE FailShutdown(Flusher)
    BY <2>4 DEF FailShutdown, RedisSetFail, Exit, NoCall
  <2>5. CASE Reboot(Flusher)
    BY <2>5 DEF Reboot
  <2> QED BY <1>3, <2>1, <2>2, <2>3, <2>4, <2>5 DEF FlusherStep
<1>4. ASSUME NEW t \in Tasks, SharedStep(t)
      PROVE  ShutdownSound'
  <2>1. CASE Serving
    <3>1. pc[t] \notin {"final", "stopped", "unsaved", "crashed"}
      BY <2>1
    <3>2. Serving'
      BY <1>4, <2>1, <3>1 DEF SharedStep, ContinueLoad, FinishLoad, AfterLoad, EnterRoom,
         AbortLoad, Send, SendDone, ContinueCheckpoint, FinishCheckpoint, FailCheckpoint,
         AfterCheckpoint, ResetTask
    <3> QED BY <3>2
  <2>2. CASE ~Serving
    <3>1. t = Flusher /\ ContinueCheckpoint(t)
      BY <1>4, <2>2 DEF SharedStep, ContinueLoad, FinishLoad, AbortLoad, Send, SendDone,
         ContinueCheckpoint, FinishCheckpoint, FailCheckpoint
    <3>2. CASE CheckpointStart(t)
      BY <2>2, <3>1, <3>2 DEF ContinueCheckpoint, CheckpointStart, Enter
    <3>3. CASE RedisSet(t)
      BY <2>2, <3>1, <3>3 DEF ContinueCheckpoint, RedisSet, Inside
    <3> QED BY <3>1, <3>2, <3>3 DEF ContinueCheckpoint
  <2> QED BY <2>1, <2>2
<1>5. CASE Restart
  BY <1>5 DEF Restart, Die
<1> QED
  BY <1>1, <1>2, <1>3, <1>4, <1>5 DEF Next, ProcessExit, Crash, Restart

-----------------------------------------------------------------------------
(***************************************************************************)
(* The inductive invariant and what follows from it                        *)
(***************************************************************************)
LEMMA InitIInv == Init => IInv
<1> SUFFICES ASSUME Init PROVE IInv
  OBVIOUS
<1>1. TypeOK
  BY InitTypeOK
<1>2. \A t \in Tasks : pc[t] \in {"away", "idle", "sleep"} /\ roomLock = Nobody /\ guard = Nobody
  BY DEF Init, StoreInit, Rest
<1>3. LocksAgree /\ GuardAgrees
  BY <1>2, TasksAssumption DEF LocksAgree, HoldsRoom, GuardAgrees, Init, StoreInit, NoCall
<1>4. RoomAgrees /\ DocumentThere
  BY <1>2 DEF RoomAgrees, DocumentThere, RoomHasDocument, Init, StoreInit, Tasks
<1>5. DocumentSound /\ CallSound /\ CheckpointedMeansRecoverable
  BY DEF DocumentSound, CallSound, CheckpointedMeansRecoverable, Init, StoreInit, NoCall
<1>6. ShutdownSound
  BY <1>1, TasksAssumption
     DEF ShutdownSound, Serving, At, Rest, Init, StoreInit, Tasks, NoCall
<1> QED
  BY <1>1, <1>3, <1>4, <1>5, <1>6 DEF IInv

LEMMA NextIInv == IInv /\ [Next]_vars => IInv'
<1> SUFFICES ASSUME IInv, [Next]_vars PROVE IInv'
  OBVIOUS
<1>1. TypeOK'
  BY NextTypeOK DEF IInv
<1>2. CASE Next
  BY <1>1, <1>2, LocksStep, GuardStep, RoomStep, DocumentThereStep, SoundStep,
     ShutdownStep DEF IInv, StoreSound
<1>3. CASE UNCHANGED vars
  <2>1. LocksAgree' /\ GuardAgrees'
    BY <1>3 DEF IInv, LocksAgree, HoldsRoom, GuardAgrees, InCall, vars, roomVars,
                taskVars, storeVars, callVars
  <2>2. RoomAgrees' /\ DocumentThere'
    BY <1>3 DEF IInv, RoomAgrees, DocumentThere, RoomHasDocument, vars, roomVars,
                taskVars, storeVars, memVars
  <2>3. ShutdownSound'
    BY <1>3 DEF IInv, ShutdownSound, Serving, At, vars, taskVars, storeVars, memVars,
                callVars
  <2> QED
    BY <1>1, <2>1, <2>2, <2>3, SoundStep DEF IInv, StoreSound
<1> QED
  BY <1>2, <1>3

THEOREM Invariance == Spec => []IInv
<1> QED BY InitIInv, NextIInv, PTL DEF Spec

(* While anybody is in the room the document is loaded: no frame handler   *)
(* ever meets get_or_create's empty document.                              *)
THEOREM RoomAlwaysHasDocument == Spec => []RoomHasDocument
<1>1. IInv => RoomHasDocument
  BY DEF IInv, DocumentThere
<1> QED BY <1>1, Invariance, PTL

(* A document reported as having no unsaved changes is what PostgreSQL     *)
(* holds.                                                                  *)
THEOREM CleanIsSaved == Spec => []CleanMeansSaved
<1>1. IInv => CleanMeansSaved
  BY DEF IInv, DocumentSound, CleanMeansSaved, Dirty
<1> QED BY <1>1, Invariance, PTL

(* A checkpointed generation can be rebuilt from the two stores.           *)
THEOREM CheckpointedIsRecoverable == Spec => []CheckpointedMeansRecoverable
<1>1. IInv => CheckpointedMeansRecoverable
  BY DEF IInv
<1> QED BY <1>1, Invariance, PTL

(* A snapshot or a run never captures less than the last explicit save.    *)
THEOREM CaptureSeesTheSave == Spec => []CaptureSeesSave
<1>1. IInv => CaptureSeesSave
  BY DEF IInv, DocumentThere, DocumentSound, CaptureSeesSave, At, Tasks
<1> QED BY <1>1, Invariance, PTL

(* A shutdown that has written its final checkpoints loses no edit.        *)
THEOREM ShutdownIsClean == Spec => []ShutdownLosesNothing
<1>1. IInv => ShutdownLosesNothing
  BY DEF IInv, ShutdownSound, CheckpointedMeansRecoverable, ShutdownLosesNothing
<1> QED BY <1>1, Invariance, PTL

LEMMA DbStateStep == IInv /\ [Next]_vars => dbState \subseteq dbState'
<1> SUFFICES ASSUME IInv, [Next]_vars PROVE dbState \subseteq dbState'
  OBVIOUS
<1> USE DEF storeVars, memVars, callVars, diskVars
<1>1. ASSUME UNCHANGED storeVars \/ StoreCrash \/ \E us \in SUBSET Updates : Edits(us)
      PROVE  dbState' = dbState
  BY <1>1 DEF StoreCrash, Edits
<1>2. ASSUME NEW t \in Tasks, LoadCall(t) \/ CheckpointCall(t)
      PROVE  dbState' = dbState
  BY <1>2 DEF LoadCall, LoadHit, LoadStart, LoadReadDb, LoadFail, LoadPublish,
              LoadWithoutRedis, CheckpointCall, CheckpointNothing, CheckpointStart,
              RedisSet, RedisSetFail, CheckpointReturn, EvictReturn
<1>3. ASSUME NEW t \in Tasks, PersistCall(t)
      PROVE  dbState \subseteq dbState'
  BY <1>3 DEF PersistCall, PersistStart, DbCommit, PersistFail, PersistReturn, Inside,
              IInv, CallSound
<1> QED
  BY <1>1, <1>2, <1>3, StoreSteps

(* No save, by anyone, ever discards what an earlier save made durable.    *)
THEOREM SavesOnlyGrow == Spec => SaveNeverLoses
<1>1. IInv /\ [Next]_vars => [dbState \subseteq dbState']_vars
  BY DbStateStep
<1> QED BY <1>1, Invariance, PTL DEF Spec, SaveNeverLoses

-----------------------------------------------------------------------------
(***************************************************************************)
(* Delivery: nothing the clients type is left behind in a browser, and     *)
(* nothing the document holds misses one of them.                          *)
(***************************************************************************)

(* What is on its way to the clients: a broadcast reaches for members of   *)
(* the room, and whatever a task still has to send is in the document.     *)
TargetsInRoom == \A t \in Tasks : targets[t] \subseteq room

FramesSound ==
    \A c \in Conns :
        /\ At(c, "send") => payload[c] \subseteq doc
        /\ pc[c] \notin {"update", "send"} => payload[c] = {}

EndpointsSound ==
    \A r \in Reqs :
        /\ At(r, "idle") => payload[r] = {}
        /\ pc[r] \in {"lock", "load", "apply"} /\ kind[r] # "save" => payload[r] = {}
        /\ At(r, "ckpt") => room # {}
        /\ pc[r] \in {"persist", "ckpt"} => payload[r] \subseteq doc
        /\ At(r, "send") /\ targets[r] # {} => payload[r] \subseteq doc

DeliveryInv ==
    /\ TargetsInRoom
    /\ FramesSound
    /\ EndpointsSound
    /\ NoStrandedEdit

-----------------------------------------------------------------------------
(***************************************************************************)
(* A loaded document only grows, until it is evicted or the process ends   *)
(***************************************************************************)
LEMMA DocumentGrows ==
    ASSUME IInv, Next, loaded
    PROVE  doc \subseteq doc' \/ Restart \/ \E t \in Tasks : At(t, "evict")
<1> USE DEF memVars, storeVars, callVars, diskVars, Publish
<1>1. ~Loading
  BY DEF IInv, DocumentSound
<1>2. ASSUME NEW c \in Conns, ConnStep(c)
      PROVE  doc \subseteq doc'
  <2>1. CASE Handshake(c)
    BY <2>1 DEF Handshake, GetOrCreate
  <2>2. CASE ApplyFrame(c)
    BY <2>2 DEF ApplyFrame, ApplyUpdate
  <2> QED
    BY <1>2, <2>1, <2>2
       DEF ConnStep, ClientEdit, CloseTab, Connect, JoinOccupied, JoinEmpty,
           ReceiveUpdate, Disconnect, LeaveRoom
<1>3. ASSUME NEW r \in Reqs, ReqStep(r)
      PROVE  doc \subseteq doc'
  <2>1. CASE ApplySave(r)
    BY <2>1 DEF ApplySave, ApplyUpdate
  <2>2. CASE ApplyRestore(r)
    BY <2>2 DEF ApplyRestore, ApplyUpdate, GetOrCreate
  <2>3. CASE ContinuePersist(r) \/ FinishPersist(r) \/ AbortPersist(r)
    BY <2>3 DEF ContinuePersist, FinishPersist, AbortPersist, PersistStart, DbCommit,
                PersistReturn, PersistFail
  <2> QED
    BY <1>3, <2>1, <2>2, <2>3 DEF ReqStep, Request, LockRoom, Refuse, Capture, RejectBody
<1>4. CASE FlusherStep(Flusher)
  BY <1>4 DEF FlusherStep, Tick, MaintainOrphan, MaintainActive, Shutdown, FinishShutdown,
              FailShutdown, Reboot, CheckpointReturn, CheckpointNothing, RedisSetFail
<1>5. ASSUME NEW t \in Tasks, SharedStep(t), ~At(t, "evict")
      PROVE  doc \subseteq doc'
  <2>1. CASE ContinueLoad(t) \/ FinishLoad(t) \/ AbortLoad(t)
    BY <1>1, <2>1 DEF ContinueLoad, FinishLoad, AbortLoad, LoadStart, LoadReadDb, LoadHit,
                LoadPublish, LoadWithoutRedis, LoadFail, Inside, Loading
  <2>2. CASE ContinueCheckpoint(t) \/ FinishCheckpoint(t) \/ FailCheckpoint(t)
    BY <1>5, <2>2 DEF ContinueCheckpoint, FinishCheckpoint, FailCheckpoint, CheckpointStart,
                RedisSet, CheckpointReturn, CheckpointNothing, RedisSetFail, At
  <2> QED
    BY <1>5, <2>1, <2>2 DEF SharedStep, Send, SendDone
<1> QED
  BY <1>2, <1>3, <1>4, <1>5 DEF Next, ProcessExit, Crash, Restart

(* While anybody is in the room nobody evicts.                             *)
LEMMA OccupiedDocumentGrows ==
    ASSUME IInv, Next, room # {}, room' # {}
    PROVE  loaded /\ doc \subseteq doc'
<1>1. loaded
  BY DEF IInv, DocumentThere, RoomHasDocument
<1>2. ~Restart
  BY DEF Restart, Die
<1>3. \A t \in Tasks : ~At(t, "evict")
  BY DEF IInv, RoomAgrees, At
<1> QED BY <1>1, <1>2, <1>3, DocumentGrows

(* Nor while an endpoint holds the room lock to persist or checkpoint.     *)
LEMMA EndpointDocumentGrows ==
    ASSUME IInv, Next, ~Restart, NEW r \in Reqs, pc[r] \in {"persist", "ckpt"}, loaded
    PROVE  doc \subseteq doc'
<1>1. roomLock = r /\ r \in Tasks
  BY DEF IInv, LocksAgree, HoldsRoom, Tasks
<1>2. \A t \in Tasks : ~At(t, "evict")
  BY <1>1 DEF IInv, LocksAgree, HoldsRoom, At, Tasks
<1> QED BY <1>1, <1>2, DocumentGrows

-----------------------------------------------------------------------------
(***************************************************************************)
(* Broadcasts reach for members of the room                                *)
(***************************************************************************)
LEMMA TargetsStep ==
    ASSUME IInv, TargetsInRoom, Next
    PROVE  TargetsInRoom'
<1> USE TasksAssumption DEF IInv, TypeOK, TargetsInRoom, Tasks,
        storeVars, memVars, callVars, diskVars, roomVars, clientVars, taskVars
<1>1. ASSUME NEW c \in Conns, ConnStep(c)
      PROVE  TargetsInRoom'
  <2>1. CASE ApplyFrame(c)
    BY <2>1 DEF ApplyFrame
  <2>2. CASE LeaveRoom(c)
    BY <2>2 DEF LeaveRoom
  <2> QED
    BY <1>1, <2>1, <2>2
       DEF ConnStep, ClientEdit, CloseTab, Connect, JoinOccupied, EnterRoom, JoinEmpty,
           Handshake, ReceiveUpdate, Disconnect
<1>2. ASSUME NEW r \in Reqs, ReqStep(r)
      PROVE  UNCHANGED <<room, targets>>
  BY <1>2 DEF ReqStep, Request, LockRoom, Refuse, ApplySave, ApplyRestore, Capture,
              RejectBody, ContinuePersist, FinishPersist, AbortPersist
<1>3. CASE FlusherStep(Flusher)
  BY <1>3 DEF FlusherStep, Tick, MaintainOrphan, MaintainActive, Shutdown,
              FinishShutdown, FailShutdown, Reboot
<1>4. ASSUME NEW t \in Tasks, SharedStep(t)
      PROVE  TargetsInRoom'
  <2>1. CASE ContinueLoad(t) \/ FinishLoad(t) \/ AbortLoad(t)
    BY <2>1 DEF ContinueLoad, FinishLoad, AfterLoad, EnterRoom, AbortLoad
  <2>2. CASE Send(t) \/ SendDone(t)
    BY <2>2 DEF Send, SendDone
  <2>3. CASE ContinueCheckpoint(t)
    BY <2>3 DEF ContinueCheckpoint
  <2>4. CASE AfterCheckpoint(t)
    BY <2>4 DEF AfterCheckpoint
  <2> QED
    BY <1>4, <2>1, <2>2, <2>3, <2>4 DEF SharedStep, FinishCheckpoint, FailCheckpoint
<1>5. CASE Restart
  BY <1>5 DEF Restart, Die
<1> QED
  BY <1>1, <1>2, <1>3, <1>4, <1>5 DEF Next, ProcessExit, Crash, Restart

-----------------------------------------------------------------------------
(***************************************************************************)
(* What the frame handlers carry                                           *)
(***************************************************************************)
(* The steps of other tasks leave a connection where it is.                *)
LEMMA OthersLeaveConnection ==
    ASSUME IInv, Next, NEW c \in Conns, ~ConnStep(c), ~SharedStep(c), ~Restart
    PROVE  pc'[c] = pc[c] /\ payload'[c] = payload[c]
<1> USE TasksAssumption DEF IInv, TypeOK, Tasks, Goto,
        storeVars, memVars, callVars, diskVars, roomVars, clientVars, taskVars
<1>1. ASSUME NEW d \in Conns, d # c, ConnStep(d)
      PROVE  pc'[c] = pc[c] /\ payload'[c] = payload[c]
  BY <1>1 DEF ConnStep, ClientEdit, CloseTab, Connect, JoinOccupied, EnterRoom, JoinEmpty,
              Handshake, ReceiveUpdate, ApplyFrame, Disconnect, LeaveRoom
<1>2. ASSUME NEW r \in Reqs, ReqStep(r)
      PROVE  pc'[c] = pc[c] /\ payload'[c] = payload[c]
  BY <1>2 DEF ReqStep, Request, LockRoom, Refuse, ApplySave, ApplyRestore, Capture,
              RejectBody, ContinuePersist, FinishPersist, AbortPersist, ResetTask
<1>3. CASE FlusherStep(Flusher)
  BY <1>3 DEF FlusherStep, Tick, MaintainOrphan, MaintainActive, Shutdown,
              FinishShutdown, FailShutdown, Reboot
<1>4. ASSUME NEW t \in Tasks, t # c, SharedStep(t)
      PROVE  pc'[c] = pc[c] /\ payload'[c] = payload[c]
  BY <1>4 DEF SharedStep, ContinueLoad, FinishLoad, AfterLoad, EnterRoom, AbortLoad, Send,
              SendDone, ContinueCheckpoint, FinishCheckpoint, FailCheckpoint,
              AfterCheckpoint, ResetTask
<1> QED
  BY <1>1, <1>2, <1>3, <1>4 DEF Next, ProcessExit, Crash, Restart

LEMMA FramesStep ==
    ASSUME IInv, FramesSound, Next
    PROVE  FramesSound'
<1> SUFFICES ASSUME NEW c \in Conns
             PROVE  /\ pc'[c] = "send" => payload'[c] \subseteq doc'
                    /\ pc'[c] \notin {"update", "send"} => payload'[c] = {}
  BY DEF FramesSound, At
<1> DEFINE Goal == /\ pc'[c] = "send" => payload'[c] \subseteq doc'
                   /\ pc'[c] \notin {"update", "send"} => payload'[c] = {}
<1>1. pc[c] = "send" /\ pc'[c] = "send" => doc \subseteq doc'
  <2>1. IInv'
    BY NextIInv
  <2>2. pc[c] = "send" /\ pc'[c] = "send" => c \in room /\ c \in room'
    BY <2>1 DEF IInv, RoomAgrees
  <2> QED BY <2>2, OccupiedDocumentGrows
<1> USE TasksAssumption DEF IInv, TypeOK, FramesSound, RoomAgrees, Tasks, At, Goto, ConnPcs,
        storeVars, memVars, callVars, diskVars, roomVars, clientVars, taskVars
<1>2. CASE pc'[c] = pc[c] /\ payload'[c] = payload[c]
  BY <1>1, <1>2
<1>3. CASE ConnStep(c)
  <2>1. CASE ClientEdit(c) \/ CloseTab(c)
    BY <1>2, <2>1 DEF ClientEdit, CloseTab
  <2>2. CASE Connect(c) \/ JoinOccupied(c) \/ JoinEmpty(c) \/ Handshake(c)
    BY <2>2 DEF Connect, JoinOccupied, EnterRoom, JoinEmpty, Handshake
  <2>3. CASE ReceiveUpdate(c)
    BY <2>3 DEF ReceiveUpdate
  <2>4. CASE ApplyFrame(c)
    <3>1. loaded
      BY <2>4 DEF ApplyFrame, DocumentThere, RoomHasDocument
    <3> QED BY <2>4, <3>1 DEF ApplyFrame, ApplyUpdate, Publish
  <2>5. CASE Disconnect(c) \/ LeaveRoom(c)
    BY <2>5 DEF Disconnect, LeaveRoom
  <2> QED
    BY <1>3, <2>1, <2>2, <2>3, <2>4, <2>5 DEF ConnStep
<1>4. CASE SharedStep(c)
  <2>1. CASE ContinueLoad(c) \/ ContinueCheckpoint(c) \/ Send(c)
    BY <1>2, <2>1 DEF ContinueLoad, ContinueCheckpoint, Send
  <2>2. CASE FinishLoad(c)
    BY <2>2 DEF FinishLoad, AfterLoad, EnterRoom
  <2>3. CASE AbortLoad(c)
    BY <2>3 DEF AbortLoad, ResetTask, Rest
  <2>4. CASE SendDone(c)
    BY <2>4 DEF SendDone
  <2>5. CASE AfterCheckpoint(c)
    BY <2>5 DEF AfterCheckpoint, ResetTask, Rest
  <2> QED
    BY <1>4, <2>1, <2>2, <2>3, <2>4, <2>5 DEF SharedStep, FinishCheckpoint, FailCheckpoint
<1>5. CASE Restart
  BY <1>5 DEF Restart, Die, Rest
<1> QED
  BY <1>2, <1>3, <1>4, <1>5, OthersLeaveConnection

-----------------------------------------------------------------------------
(***************************************************************************)
(* What the endpoints carry                                                *)
(***************************************************************************)
(* The steps of other tasks leave a request where it is; a connection that *)
(* leaves is struck from its broadcast.                                    *)
LEMMA OthersLeaveRequest ==
    ASSUME IInv, Next, NEW r \in Reqs, ~ReqStep(r), ~SharedStep(r), ~Restart
    PROVE  /\ pc'[r] = pc[r] /\ payload'[r] = payload[r] /\ kind'[r] = kind[r]
           /\ targets'[r] \subseteq targets[r]
<1> DEFINE Left == /\ pc'[r] = pc[r] /\ payload'[r] = payload[r] /\ kind'[r] = kind[r]
                   /\ targets'[r] \subseteq targets[r]
<1> USE TasksAssumption DEF IInv, TypeOK, Tasks, Goto,
        storeVars, memVars, callVars, diskVars, roomVars, clientVars, taskVars
<1>1. ASSUME NEW d \in Conns, ConnStep(d)
      PROVE  Left
  BY <1>1 DEF ConnStep, ClientEdit, CloseTab, Connect, JoinOccupied, EnterRoom, JoinEmpty,
              Handshake, ReceiveUpdate, ApplyFrame, Disconnect, LeaveRoom
<1>2. ASSUME NEW q \in Reqs, q # r, ReqStep(q)
      PROVE  Left
  BY <1>2 DEF ReqStep, Request, LockRoom, Refuse, ApplySave, ApplyRestore, Capture,
              RejectBody, ContinuePersist, FinishPersist, AbortPersist, ResetTask
<1>3. CASE FlusherStep(Flusher)
  BY <1>3 DEF FlusherStep, Tick, MaintainOrphan, MaintainActive, Shutdown,
              FinishShutdown, FailShutdown, Reboot
<1>4. ASSUME NEW t \in Tasks, t # r, SharedStep(t)
      PROVE  Left
  BY <1>4 DEF SharedStep, ContinueLoad, FinishLoad, AfterLoad, EnterRoom, AbortLoad, Send,
              SendDone, ContinueCheckpoint, FinishCheckpoint, FailCheckpoint,
              AfterCheckpoint, ResetTask
<1> QED
  BY <1>1, <1>2, <1>3, <1>4 DEF Next, ProcessExit, Crash, Restart

(* Nobody enters or leaves while an endpoint holds the room lock.          *)
LEMMA LockedRoomStays ==
    ASSUME IInv, Next, ~Restart, NEW r \in Reqs, roomLock = r
    PROVE  room' = room
<1> USE TasksAssumption DEF IInv, LocksAgree, HoldsRoom, Tasks, At,
        storeVars, memVars, callVars, diskVars, roomVars, clientVars, taskVars
<1>1. ASSUME NEW c \in Conns, ConnStep(c)
      PROVE  room' = room
  BY <1>1 DEF ConnStep, ClientEdit, CloseTab, Connect, JoinOccupied, LockFree, JoinEmpty,
              Handshake, ReceiveUpdate, ApplyFrame, Disconnect, LeaveRoom
<1>2. ASSUME NEW q \in Reqs, ReqStep(q)
      PROVE  room' = room
  BY <1>2 DEF ReqStep, Request, LockRoom, Refuse, ApplySave, ApplyRestore, Capture,
              RejectBody, ContinuePersist, FinishPersist, AbortPersist
<1>3. CASE FlusherStep(Flusher)
  BY <1>3 DEF FlusherStep, Tick, MaintainOrphan, MaintainActive, Shutdown,
              FinishShutdown, FailShutdown, Reboot
<1>4. ASSUME NEW t \in Tasks, SharedStep(t)
      PROVE  room' = room
  BY <1>4 DEF SharedStep, ContinueLoad, FinishLoad, AfterLoad, AbortLoad, Send, SendDone,
              ContinueCheckpoint, FinishCheckpoint, FailCheckpoint, AfterCheckpoint
<1> QED
  BY <1>1, <1>2, <1>3, <1>4 DEF Next, ProcessExit, Crash, Restart

LEMMA EndpointsStep ==
    ASSUME IInv, TargetsInRoom, EndpointsSound, Next
    PROVE  EndpointsSound'
<1> DEFINE Sound(r) ==
        /\ pc'[r] = "idle" => payload'[r] = {}
        /\ pc'[r] \in {"lock", "load", "apply"} /\ kind'[r] # "save" => payload'[r] = {}
        /\ pc'[r] = "ckpt" => room' # {}
        /\ pc'[r] \in {"persist", "ckpt"} => payload'[r] \subseteq doc'
        /\ pc'[r] = "send" /\ targets'[r] # {} => payload'[r] \subseteq doc'
<1> SUFFICES ASSUME NEW r \in Reqs PROVE Sound(r)
  BY DEF EndpointsSound, At
<1>0. IInv' /\ TargetsInRoom'
  BY NextIInv, TargetsStep
<1>1. CASE Restart
  BY <1>1, TasksAssumption DEF Restart, Die, Rest, Tasks
<1>2. ASSUME ~Restart, pc[r] \in {"persist", "ckpt"}
      PROVE  doc \subseteq doc' /\ room' = room
  <2>1. roomLock = r /\ (pc[r] = "persist" => loaded) /\ (room # {} => loaded)
    BY <1>2 DEF IInv, LocksAgree, HoldsRoom, DocumentThere, RoomHasDocument, Tasks
  <2>2. loaded
    BY <1>2, <2>1 DEF EndpointsSound, At
  <2> QED BY <1>2, <2>1, <2>2, EndpointDocumentGrows, LockedRoomStays
<1>3. ASSUME targets[r] # {}, targets'[r] # {}
      PROVE  doc \subseteq doc'
  <2>1. room # {} /\ room' # {}
    BY <1>0, <1>3 DEF TargetsInRoom, Tasks
  <2> QED BY <2>1, OccupiedDocumentGrows
<1>4. CASE /\ ~Restart
           /\ pc'[r] = pc[r] /\ payload'[r] = payload[r] /\ kind'[r] = kind[r]
           /\ targets'[r] \subseteq targets[r]
  BY <1>2, <1>3, <1>4 DEF EndpointsSound, At
<1> USE TasksAssumption
        DEF IInv, TypeOK, RoomAgrees, DocumentThere, RoomHasDocument, EndpointsSound, Tasks,
            At, Goto, ConnPcs, ReqPcs, FlusherPcs,
            storeVars, memVars, callVars, diskVars, roomVars, clientVars, taskVars
<1>5. CASE ReqStep(r)
  <2>1. CASE Request(r)
    BY <2>1 DEF Request
  <2>2. CASE LockRoom(r)
    BY <2>2 DEF LockRoom
  <2>3. CASE ApplySave(r)
    BY <2>3 DEF ApplySave, ApplyUpdate, Publish
  <2>4. CASE ApplyRestore(r)
    <3>1. payload[r] = {} /\ loaded /\ room' = room /\ (live[r] <=> room # {})
      BY <2>4 DEF ApplyRestore
    <3>2. payload'[r] \subseteq doc'
      BY <2>4, <3>1 DEF ApplyRestore, ApplyUpdate, Publish
    <3>3. pc'[r] = Tail(r)
      BY <2>4 DEF ApplyRestore
    <3> QED BY <3>1, <3>2, <3>3 DEF Tail
  <2>5. CASE Capture(r) \/ RejectBody(r) \/ Refuse(r) \/ AbortPersist(r)
    BY <2>5 DEF Capture, RejectBody, Refuse, AbortPersist, ResetTask, Rest
  <2>6. CASE ContinuePersist(r)
    BY <2>6 DEF ContinuePersist, PersistStart, DbCommit
  <2>7. CASE FinishPersist(r)
    BY <2>7 DEF FinishPersist, PersistReturn, Tail
  <2> QED
    BY <1>5, <2>1, <2>2, <2>3, <2>4, <2>5, <2>6, <2>7 DEF ReqStep
<1>6. CASE SharedStep(r)
  <2>1. CASE ContinueLoad(r)
    BY <2>1 DEF ContinueLoad
  <2>2. CASE FinishLoad(r)
    BY <2>2 DEF FinishLoad, AfterLoad
  <2>3. CASE AbortLoad(r)
    BY <2>3 DEF AbortLoad, ResetTask, Rest
  <2>4. CASE Send(r)
    BY <2>4 DEF Send
  <2>5. CASE SendDone(r)
    BY <2>5 DEF SendDone, ResetTask, Rest
  <2>6. CASE ContinueCheckpoint(r)
    BY <2>6 DEF ContinueCheckpoint, CheckpointStart, RedisSet
  <2>7. CASE FinishCheckpoint(r) \/ FailCheckpoint(r)
    <3>1. AfterCheckpoint(r) /\ pc[r] \in {"ckpt", "evict"}
      BY <2>7 DEF FinishCheckpoint, FailCheckpoint
    <3>2. pc[r] = "ckpt" => doc' = doc
      BY <2>7 DEF FinishCheckpoint, FailCheckpoint, CheckpointReturn, CheckpointNothing,
                  RedisSetFail
    <3>3. pc[r] = "evict" => room = {}
      OBVIOUS
    <3>4. CASE kind[r] \in {"save", "restore"}
      BY <3>1, <3>2, <3>3, <3>4 DEF AfterCheckpoint
    <3>5. CASE kind[r] \notin {"save", "restore"}
      BY <3>1, <3>5 DEF AfterCheckpoint, ResetTask, Rest
    <3> QED BY <3>4, <3>5
  <2> QED
    BY <1>6, <2>1, <2>2, <2>3, <2>4, <2>5, <2>6, <2>7 DEF SharedStep
<1> QED
  BY <1>1, <1>4, <1>5, <1>6, OthersLeaveRequest

-----------------------------------------------------------------------------
(***************************************************************************)
(* No edit is stranded                                                     *)
(***************************************************************************)
(* Whatever a running broadcast still has to send is in the document.      *)
LEMMA SentIsInDocument ==
    ASSUME IInv, FramesSound, EndpointsSound,
           NEW t \in Tasks, At(t, "send"), targets[t] # {}
    PROVE  payload[t] \subseteq doc
BY DEF FramesSound, EndpointsSound, IInv, TypeOK, FlusherPcs, Tasks, At

LEMMA StrandedStep ==
    ASSUME IInv, DeliveryInv, Next
    PROVE  NoStrandedEdit'
<1> SUFFICES ASSUME NEW c \in Conns, c \in room', pc'[c] # "leave"
             PROVE  replica'[c] \subseteq doc' \cup outbox'[c] \cup payload'[c]
  <2>1. room' \subseteq Conns
    BY NextIInv DEF IInv, TypeOK
  <2> QED BY <2>1 DEF NoStrandedEdit, At
<1>1. FramesSound /\ EndpointsSound /\ TargetsInRoom
  BY DEF DeliveryInv
<1>2. c \in room => loaded /\ doc \subseteq doc'
  BY OccupiedDocumentGrows
<1>3. c \in room /\ pc[c] # "leave" =>
        replica[c] \subseteq doc \cup outbox[c] \cup payload[c]
  BY DEF DeliveryInv, NoStrandedEdit, At
<1>4. \A t \in Tasks : pc[t] = "evict" => c \notin room
  BY DEF IInv, RoomAgrees
<1> USE TasksAssumption
        DEF IInv, TypeOK, RoomAgrees, Tasks, At, Goto, ConnPcs, ReqPcs, FlusherPcs, Rest,
            storeVars, memVars, callVars, diskVars, roomVars, clientVars, taskVars
<1>5. ASSUME NEW d \in Conns, ConnStep(d)
      PROVE  replica'[c] \subseteq doc' \cup outbox'[c] \cup payload'[c]
  <2>1. CASE ClientEdit(d)
    BY <1>2, <1>3, <2>1 DEF ClientEdit, Attached
  <2>2. CASE CloseTab(d)
    BY <1>2, <1>3, <2>2 DEF CloseTab
  <2>3. CASE Connect(d) \/ JoinEmpty(d)
    BY <1>2, <1>3, <2>3 DEF Connect, JoinEmpty
  <2>4. CASE JoinOccupied(d)
    BY <1>2, <1>3, <2>4 DEF JoinOccupied, EnterRoom
  <2>5. CASE Handshake(d)
    BY <1>2, <1>3, <2>5 DEF Handshake
  <2>6. CASE ReceiveUpdate(d)
    <3>1. payload[d] = {}
      BY <1>1, <2>6 DEF FramesSound, ReceiveUpdate
    <3>2. PICK u \in outbox[d] : /\ outbox' = [outbox EXCEPT ![d] = @ \ {u}]
                                 /\ payload' = [payload EXCEPT ![d] = {u}]
      BY <2>6 DEF ReceiveUpdate
    <3>3. outbox[c] \cup payload[c] \subseteq outbox'[c] \cup payload'[c]
      BY <3>1, <3>2
    <3>4. c \in room /\ pc[c] # "leave" /\ replica' = replica
      BY <2>6 DEF ReceiveUpdate
    <3> QED BY <1>2, <1>3, <3>3, <3>4
  <2>7. CASE ApplyFrame(d)
    BY <1>2, <1>3, <2>7 DEF ApplyFrame
  <2>8. CASE Disconnect(d)
    BY <1>2, <1>3, <2>8 DEF Disconnect
  <2>9. CASE LeaveRoom(d)
    BY <1>2, <1>3, <2>9 DEF LeaveRoom
  <2> QED
    BY <1>5, <2>1, <2>2, <2>3, <2>4, <2>5, <2>6, <2>7, <2>8, <2>9 DEF ConnStep
<1>6. ASSUME NEW r \in Reqs, ReqStep(r)
      PROVE  replica'[c] \subseteq doc' \cup outbox'[c] \cup payload'[c]
  <2>1. /\ room' = room /\ replica' = replica /\ outbox' = outbox
        /\ pc'[c] = pc[c] /\ payload'[c] = payload[c]
    BY <1>6 DEF ReqStep, Request, LockRoom, Refuse, ApplySave, ApplyRestore, Capture,
                RejectBody, ContinuePersist, FinishPersist, AbortPersist, ResetTask
  <2> QED BY <1>2, <1>3, <2>1
<1>7. CASE FlusherStep(Flusher)
  BY <1>2, <1>3, <1>7 DEF FlusherStep, Tick, MaintainOrphan, MaintainActive, Shutdown,
                          FinishShutdown, FailShutdown, Reboot
<1>8. ASSUME NEW t \in Tasks, SharedStep(t)
      PROVE  replica'[c] \subseteq doc' \cup outbox'[c] \cup payload'[c]
  <2>1. CASE ContinueLoad(t) \/ ContinueCheckpoint(t)
    BY <1>2, <1>3, <2>1 DEF ContinueLoad, ContinueCheckpoint
  <2>2. CASE FinishLoad(t)
    BY <1>2, <1>3, <2>2 DEF FinishLoad, AfterLoad, EnterRoom
  <2>3. CASE AbortLoad(t)
    BY <1>2, <1>3, <2>3 DEF AbortLoad, ResetTask
  <2>4. CASE Send(t)
    <3>1. payload[t] \subseteq doc
      BY <1>1, <2>4, SentIsInDocument DEF Send
    <3>2. replica'[c] \subseteq replica[c] \cup payload[t]
      BY <2>4 DEF Send
    <3>3. UNCHANGED <<room, pc, outbox, payload>>
      BY <2>4 DEF Send
    <3> QED BY <1>2, <1>3, <3>1, <3>2, <3>3
  <2>5. CASE SendDone(t)
    <3>1. t = c => payload[c] \subseteq doc
      BY <1>1, <2>5 DEF SendDone, FramesSound
    <3>2. payload'[c] = payload[c] \/ t = c
      BY <2>5 DEF SendDone, ResetTask
    <3>3. UNCHANGED <<room, replica, outbox>> /\ (pc'[c] = pc[c] \/ pc[c] = "send")
      BY <2>5 DEF SendDone, ResetTask
    <3> QED BY <1>2, <1>3, <3>1, <3>2, <3>3
  <2>6. CASE AfterCheckpoint(t) /\ pc[t] \in {"ckpt", "evict"}
    <3>1. UNCHANGED <<room, replica, outbox>>
      BY <2>6 DEF AfterCheckpoint
    <3>2. c \in room /\ t # c
      BY <1>4, <2>6, <3>1
    <3>3. pc'[c] = pc[c] /\ payload'[c] = payload[c]
      BY <2>6, <3>2 DEF AfterCheckpoint, ResetTask
    <3> QED BY <1>2, <1>3, <3>1, <3>2, <3>3
  <2> QED
    BY <1>8, <2>1, <2>2, <2>3, <2>4, <2>5, <2>6
       DEF SharedStep, FinishCheckpoint, FailCheckpoint
<1>9. ~Restart
  BY DEF Restart, Die
<1> QED
  BY <1>5, <1>6, <1>7, <1>8, <1>9 DEF Next, ProcessExit, Crash, Restart

LEMMA InitDelivery == Init => DeliveryInv
<1> SUFFICES ASSUME Init PROVE DeliveryInv
  OBVIOUS
<1> QED
  BY TasksAssumption
     DEF Init, DeliveryInv, TargetsInRoom, FramesSound, EndpointsSound, NoStrandedEdit,
         At, Rest, Tasks

LEMMA NextDelivery == IInv /\ DeliveryInv /\ [Next]_vars => DeliveryInv'
<1> SUFFICES ASSUME IInv, DeliveryInv, [Next]_vars PROVE DeliveryInv'
  OBVIOUS
<1>1. CASE Next
  BY <1>1, TargetsStep, FramesStep, EndpointsStep, StrandedStep DEF DeliveryInv
<1>2. CASE UNCHANGED vars
  BY <1>2 DEF DeliveryInv, TargetsInRoom, FramesSound, EndpointsSound, NoStrandedEdit, At,
              vars, storeVars, memVars, roomVars, taskVars, clientVars
<1> QED BY <1>1, <1>2

(* What is broadcast stays within the document and the room, whatever      *)
(* fails (websocket.broadcast_document_update, sessions/router.py).        *)
THEOREM DeliveryInvariance == Spec => [](IInv /\ DeliveryInv)
<1>1. Init => IInv /\ DeliveryInv
  BY InitIInv, InitDelivery
<1>2. (IInv /\ DeliveryInv) /\ [Next]_vars => (IInv /\ DeliveryInv)'
  BY NextIInv, NextDelivery
<1> QED BY <1>1, <1>2, PTL DEF Spec

(* Whatever fails, no edit of a connected client stays behind in its       *)
(* browser: the document has it, or its connection is carrying it.         *)
THEOREM NothingStranded == Spec => []NoStrandedEdit
<1>1. DeliveryInv => NoStrandedEdit
  BY DEF DeliveryInv
<1> QED BY <1>1, DeliveryInvariance, PTL

-----------------------------------------------------------------------------
(***************************************************************************)
(* No update is missed, as long as no save fails: a failed save drops the  *)
(* broadcast of what it has merged (AbortPersist)                          *)
(***************************************************************************)
Listening == {"open", "update", "send"}

(* t is the one that brings u to c.                                        *)
Announces(t, u, c) ==
    /\ u \in payload[t]
    /\ \/ At(t, "send") /\ c \in targets[t]
       \/ t \in Reqs /\ kind[t] \in {"save", "restore"}
          /\ pc[t] \in {"persist", "ckpt", "evict"}

LEMMA AnnouncedByTask ==
    \A u, c : Announced(u, c) <=> \E t \in Tasks : Announces(t, u, c)
BY DEF Announced, Announces

(* A client begins to listen with all the document has.                    *)
LEMMA ListeningStarts ==
    ASSUME IInv, Next, NEW c \in Conns, pc'[c] \in Listening, ~(pc[c] \in Listening)
    PROVE  doc' \subseteq replica'[c]
<1> USE TasksAssumption
        DEF IInv, TypeOK, Listening, Tasks, At, Goto, Rest, ConnPcs,
            storeVars, memVars, callVars, diskVars, roomVars, clientVars, taskVars
<1>1. CASE ConnStep(c)
  <2>1. CASE Handshake(c)
    BY <2>1 DEF Handshake
  <2> QED
    BY <1>1, <2>1 DEF ConnStep, ClientEdit, CloseTab, Connect, JoinOccupied, EnterRoom,
       JoinEmpty, ReceiveUpdate, ApplyFrame, Disconnect, LeaveRoom
<1>2. CASE SharedStep(c)
  BY <1>2 DEF SharedStep, ContinueLoad, FinishLoad, AfterLoad, EnterRoom, AbortLoad, Send,
              SendDone, ContinueCheckpoint, FinishCheckpoint, FailCheckpoint,
              AfterCheckpoint, ResetTask
<1>3. CASE Restart
  BY <1>3 DEF Restart, Die
<1> QED
  BY <1>1, <1>2, <1>3, OthersLeaveConnection

(* What enters the document is announced to everybody in the room.         *)
LEMMA NewsIsAnnounced ==
    ASSUME IInv, Next, NEW c \in Conns, c \in room, c \in room',
           NEW u \in doc', u \notin doc
    PROVE  \E t \in Tasks : Announces(t, u, c)'
<1>1. loaded /\ ~Loading
  BY DEF IInv, DocumentThere, RoomHasDocument, DocumentSound
<1>2. ~Restart
  BY DEF Restart, Die
<1> USE TasksAssumption
        DEF IInv, TypeOK, RoomAgrees, Announces, Tasks, At, Goto, Publish,
            storeVars, memVars, callVars, diskVars, roomVars, clientVars, taskVars
<1>3. ASSUME NEW d \in Conns, ConnStep(d)
      PROVE  \E t \in Tasks : Announces(t, u, c)'
  <2>1. ApplyFrame(d)
    BY <1>1, <1>3 DEF ConnStep, ClientEdit, CloseTab, Connect, JoinOccupied, JoinEmpty,
       Handshake, GetOrCreate, ReceiveUpdate, Disconnect, LeaveRoom
  <2>2. u \in payload'[d] /\ pc'[d] = "send" /\ c \in targets'[d]
    BY <1>1, <2>1 DEF ApplyFrame, ApplyUpdate
  <2>3. Announces(d, u, c)'
    BY <2>2
  <2> QED BY <2>3
<1>4. ASSUME NEW r \in Reqs, ReqStep(r)
      PROVE  \E t \in Tasks : Announces(t, u, c)'
  <2>1. ApplySave(r) \/ ApplyRestore(r)
    BY <1>4 DEF ReqStep, Request, LockRoom, Refuse, Capture, RejectBody, ContinuePersist,
       PersistStart, DbCommit, FinishPersist, PersistReturn, AbortPersist, PersistFail
  <2>2. u \in payload'[r]
    <3>1. CASE ApplySave(r)
      BY <1>1, <3>1 DEF ApplySave, ApplyUpdate
    <3>2. CASE ApplyRestore(r)
      <4>1. PICK v \in Updates \ issued : /\ payload' = [payload EXCEPT ![r] = {v}]
                                          /\ ApplyUpdate({v})
        BY <1>1, <3>2 DEF ApplyRestore, GetOrCreate
      <4>2. doc' = doc \cup {v}
        BY <1>1, <4>1 DEF ApplyUpdate
      <4> QED BY <4>1, <4>2
    <3> QED BY <2>1, <3>1, <3>2
  <2>3. kind' = kind /\ kind[r] \in {"save", "restore"} /\ pc'[r] \in {"persist", "ckpt", "evict"}
    BY <2>1 DEF ApplySave, ApplyRestore, Tail
  <2>4. Announces(r, u, c)'
    BY <2>2, <2>3
  <2> QED BY <2>4
<1>5. ASSUME FlusherStep(Flusher) \/ \E t \in Tasks : SharedStep(t)
      PROVE  doc' \subseteq doc
  <2>1. CASE FlusherStep(Flusher)
    BY <2>1 DEF FlusherStep, Tick, MaintainOrphan, MaintainActive, Shutdown,
       FinishShutdown, FailShutdown, Reboot, CheckpointReturn, CheckpointNothing, RedisSetFail
  <2>2. ASSUME NEW t \in Tasks, SharedStep(t)
        PROVE  doc' \subseteq doc
    <3>1. CASE ContinueLoad(t) \/ FinishLoad(t) \/ AbortLoad(t)
      BY <1>1, <3>1 DEF ContinueLoad, FinishLoad, AbortLoad, LoadStart, LoadReadDb,
                  LoadHit, LoadPublish, LoadWithoutRedis, LoadFail, Inside, Loading
    <3>2. CASE FinishCheckpoint(t)
      BY <3>2 DEF FinishCheckpoint, CheckpointReturn, EvictReturn, Unload, CheckpointNothing
    <3>3. CASE ContinueCheckpoint(t) \/ FailCheckpoint(t)
      BY <3>3 DEF ContinueCheckpoint, CheckpointStart, RedisSet, FailCheckpoint, RedisSetFail
    <3> QED BY <2>2, <3>1, <3>2, <3>3 DEF SharedStep, Send, SendDone
  <2> QED BY <1>5, <2>1, <2>2
<1> QED
  BY <1>2, <1>3, <1>4, <1>5 DEF Next, ProcessExit, Crash, Restart

(* What a listening client has it keeps.                                   *)
LEMMA ReplicaGrows ==
    ASSUME IInv, Next, NEW c \in Conns, pc[c] \in Listening
    PROVE  replica[c] \subseteq replica'[c]
<1> USE DEF IInv, TypeOK, Listening, Tasks, At,
            storeVars, memVars, callVars, diskVars, roomVars, clientVars, taskVars
<1>1. ASSUME NEW d \in Conns, ConnStep(d)
      PROVE  replica[c] \subseteq replica'[c]
  BY <1>1 DEF ConnStep, ClientEdit, CloseTab, Connect, JoinOccupied, EnterRoom, JoinEmpty,
              Handshake, ReceiveUpdate, ApplyFrame, Disconnect, LeaveRoom
<1>2. ASSUME NEW r \in Reqs, ReqStep(r)
      PROVE  replica' = replica
  BY <1>2 DEF ReqStep, Request, LockRoom, Refuse, ApplySave, ApplyRestore, Capture,
              RejectBody, ContinuePersist, FinishPersist, AbortPersist
<1>3. CASE FlusherStep(Flusher)
  BY <1>3 DEF FlusherStep, Tick, MaintainOrphan, MaintainActive, Shutdown,
              FinishShutdown, FailShutdown, Reboot
<1>4. ASSUME NEW t \in Tasks, SharedStep(t)
      PROVE  replica[c] \subseteq replica'[c]
  BY <1>4 DEF SharedStep, ContinueLoad, FinishLoad, AfterLoad, EnterRoom, AbortLoad, Send,
              SendDone, ContinueCheckpoint, FinishCheckpoint, FailCheckpoint, AfterCheckpoint
<1> QED
  BY <1>1, <1>2, <1>3, <1>4 DEF Next, ProcessExit, Crash, Restart, Die

(* A broadcast is not lost before it has reached whom it reaches for.      *)
LEMMA AnnouncementStays ==
    ASSUME IInv, Next, "database" \notin Faults,
           NEW c \in Conns, pc[c] \in Listening, pc'[c] \in Listening,
           NEW u, NEW t \in Tasks, Announces(t, u, c)
    PROVE  u \in replica'[c] \/ Announces(t, u, c)'
<1> USE TasksAssumption
        DEF IInv, TypeOK, Announces, Listening, Tasks, At, Goto, ConnPcs, ReqPcs, FlusherPcs,
            storeVars, memVars, callVars, diskVars, roomVars, clientVars, taskVars
<1>1. c \in room /\ c \in room'
  BY NextIInv DEF RoomAgrees
<1>2. ~Restart
  BY <1>1 DEF Restart, Die
<1>3. CASE /\ pc'[t] = pc[t] /\ payload'[t] = payload[t]
           /\ t \in Reqs => kind'[t] = kind[t]
           /\ c \in targets[t] => c \in targets'[t]
  BY <1>3
<1>4. ASSUME NEW d \in Conns, ConnStep(d)
      PROVE  u \in replica'[c] \/ Announces(t, u, c)'
  <2>1. CASE LeaveRoom(d)
    BY <1>1, <1>3, <2>1 DEF LeaveRoom
  <2>2. CASE ApplyFrame(d)
    <3>1. t # d
      BY <2>2 DEF ApplyFrame
    <3> QED BY <1>3, <2>2, <3>1 DEF ApplyFrame
  <2> QED
    BY <1>3, <1>4, <2>1, <2>2 DEF ConnStep, ClientEdit, CloseTab, Connect, JoinOccupied,
       EnterRoom, JoinEmpty, Handshake, ReceiveUpdate, Disconnect
<1>5. ASSUME NEW r \in Reqs, ReqStep(r)
      PROVE  u \in replica'[c] \/ Announces(t, u, c)'
  <2>1. CASE t = r
    <3>1. pc[r] \in {"send", "persist", "ckpt", "evict"}
      BY <2>1
    <3>2. CASE ContinuePersist(r)
      BY <1>3, <2>1, <3>2 DEF ContinuePersist
    <3>3. CASE FinishPersist(r)
      BY <2>1, <3>3 DEF FinishPersist, Tail
    <3> QED
      BY <1>5, <3>1, <3>2, <3>3 DEF ReqStep, Request, LockRoom, Refuse, ApplySave,
         ApplyRestore, Capture, RejectBody, AbortPersist, PersistFail
  <2>2. CASE t # r
    BY <1>3, <1>5, <2>2 DEF ReqStep, Request, LockRoom, Refuse, ApplySave, ApplyRestore,
       Capture, RejectBody, ContinuePersist, FinishPersist, AbortPersist, ResetTask
  <2> QED BY <2>1, <2>2
<1>6. CASE FlusherStep(Flusher)
  BY <1>3, <1>6 DEF FlusherStep, Tick, MaintainOrphan, MaintainActive, Shutdown,
                    FinishShutdown, FailShutdown, Reboot
<1>7. ASSUME NEW q \in Tasks, SharedStep(q)
      PROVE  u \in replica'[c] \/ Announces(t, u, c)'
  <2>1. CASE ContinueLoad(q) \/ ContinueCheckpoint(q)
    BY <1>3, <2>1 DEF ContinueLoad, ContinueCheckpoint
  <2>2. CASE FinishLoad(q)
    BY <1>3, <2>2 DEF FinishLoad, AfterLoad, EnterRoom
  <2>3. CASE AbortLoad(q)
    BY <1>3, <2>3 DEF AbortLoad, ResetTask
  <2>4. CASE Send(q)
    BY <1>3, <2>4 DEF Send, Attached
  <2>5. CASE SendDone(q)
    BY <1>3, <2>5 DEF SendDone, ResetTask
  <2>6. CASE AfterCheckpoint(q) /\ pc[q] \in {"ckpt", "evict"}
    <3>1. CASE q # t
      BY <1>3, <2>6, <3>1 DEF AfterCheckpoint, ResetTask
    <3>2. CASE q = t
      BY <1>1, <2>6, <3>2 DEF AfterCheckpoint
    <3> QED BY <3>1, <3>2
  <2> QED
    BY <1>7, <2>1, <2>2, <2>3, <2>4, <2>5, <2>6
       DEF SharedStep, FinishCheckpoint, FailCheckpoint
<1> QED
  BY <1>2, <1>4, <1>5, <1>6, <1>7 DEF Next, ProcessExit, Crash, Restart

LEMMA MissedStep ==
    ASSUME IInv, NoMissedUpdate, "database" \notin Faults, Next
    PROVE  NoMissedUpdate'
<1> SUFFICES ASSUME NEW c \in Conns, c \in room', pc'[c] \in Listening, NEW u \in doc'
             PROVE  u \in replica'[c] \/ \E t \in Tasks : Announces(t, u, c)'
  <2>1. room' \subseteq Conns
    BY NextIInv DEF IInv, TypeOK
  <2> QED BY <2>1 DEF NoMissedUpdate, Listening, Announced, Announces, At
<1>1. CASE pc[c] \notin Listening
  BY <1>1, ListeningStarts
<1>2. CASE pc[c] \in Listening
  <2>1. c \in room
    BY <1>2 DEF IInv, RoomAgrees, Listening
  <2>2. CASE u \notin doc
    BY <2>1, <2>2, NewsIsAnnounced
  <2>3. CASE u \in doc /\ u \in replica[c]
    BY <1>2, <2>3, ReplicaGrows
  <2>4. CASE u \in doc /\ u \notin replica[c]
    <3>1. Announced(u, c)
      BY <1>2, <2>1, <2>4 DEF NoMissedUpdate, Listening
    <3>2. PICK t \in Tasks : Announces(t, u, c)
      BY <3>1, AnnouncedByTask
    <3> QED BY <1>2, <3>2, AnnouncementStays
  <2> QED BY <2>2, <2>3, <2>4
<1> QED BY <1>1, <1>2

(* Without a failing save, every update of the document reaches every      *)
(* client in the room: it has it, or a broadcast that includes it is on    *)
(* its way.                                                                *)
THEOREM NothingMissed ==
    ASSUME "database" \notin Faults
    PROVE  Spec => []NoMissedUpdate
<1>1. Init => NoMissedUpdate
  BY DEF Init, NoMissedUpdate
<1>2. IInv /\ NoMissedUpdate /\ [Next]_vars => NoMissedUpdate'
  <2> SUFFICES ASSUME IInv, NoMissedUpdate, [Next]_vars PROVE NoMissedUpdate'
    OBVIOUS
  <2>1. CASE Next
    BY <2>1, MissedStep
  <2>2. CASE UNCHANGED vars
    BY <2>2 DEF NoMissedUpdate, Announced, At, vars, storeVars, memVars, roomVars,
                taskVars, clientVars
  <2> QED BY <2>1, <2>2
<1> QED
  BY <1>1, <1>2, Invariance, PTL DEF Spec

-----------------------------------------------------------------------------
(***************************************************************************)
(* Durability: CollabRoom implements DurableDocument when Redis answers    *)
(* the reads of recovery checkpoints.                                      *)
(***************************************************************************)

RedisReadable == "redis_read" \notin Faults

(* The extra invariant: the live document, and a write in flight, contain  *)
(* the current checkpoint.  It is what a failed redis.get would break.     *)
ContainsCheckpoint ==
    /\ loaded => checkpoint \subseteq doc
    /\ io.step \in {"redis_set", "redis_ack"} => checkpoint \subseteq io.state

DInv == IInv /\ ContainsCheckpoint

(* What a step does to the abstract document while the process lives.      *)
DocumentStep ==
    Durable!Edit \/ Durable!Save \/ Durable!Backup \/ UNCHANGED Durable!document

AbstractStep == Durable!Next \/ UNCHANGED Durable!vars

LEMMA EditRefines ==
    ASSUME DInv, NEW us \in SUBSET Updates, Edits(us)
    PROVE  ContainsCheckpoint' /\ DocumentStep
<1> USE DEF DInv, Edits, callVars, diskVars
<1>1. /\ loaded /\ loaded' /\ UNCHANGED <<io, checkpoint, dbState>>
      /\ doc' = doc \/ doc' = doc \cup us
  BY DEF GetOrCreate, ApplyUpdate, Publish, memVars
<1>2. ContainsCheckpoint'
  BY <1>1 DEF ContainsCheckpoint
<1>3. Durable!Edit
  <2>1. CASE doc' = doc \cup us
    BY <1>1, <2>1 DEF Durable!Edit, LiveDocument
  <2>2. CASE doc' = doc
    <3>1. doc' = doc \cup {} /\ {} \in SUBSET Updates
      BY <2>2
    <3> QED BY <1>1, <3>1 DEF Durable!Edit, LiveDocument
  <2> QED BY <1>1, <2>1, <2>2
<1> QED
  BY <1>2, <1>3 DEF DocumentStep

LEMMA LoadRefines ==
    ASSUME RedisReadable, DInv, NEW t \in Tasks, LoadCall(t)
    PROVE  ContainsCheckpoint' /\ DocumentStep
<1> USE DEF DInv, storeVars, memVars, callVars, diskVars, Inside
<1>1. CASE LoadHit(t)
  BY <1>1 DEF LoadHit, ContainsCheckpoint, DocumentStep, Durable!document, LiveDocument
<1>2. CASE LoadStart(t)
  BY <1>2 DEF LoadStart, Enter, ContainsCheckpoint, DocumentStep, Durable!document, LiveDocument
<1>3. CASE LoadReadDb(t)
  BY <1>3 DEF LoadReadDb, ContainsCheckpoint, DocumentStep, Durable!document, LiveDocument,
              IInv, TypeOK, StoreTypeOK
<1>4. CASE LoadFail(t)
  BY <1>4 DEF LoadFail, Exit, NoCall, ContainsCheckpoint, DocumentStep, Durable!document,
              LiveDocument
<1>5. CASE LoadPublish(t)
  <2>1. ~loaded /\ io.state = dbState
    BY <1>5 DEF LoadPublish, IInv, DocumentSound, CallSound, Loading
  <2>2. ContainsCheckpoint'
    BY <1>5 DEF LoadPublish, Publish, Exit, NoCall, ContainsCheckpoint
  <2>3. UNCHANGED Durable!document
    BY <1>5, <2>1 DEF LoadPublish, Publish, Durable!document, LiveDocument
  <2> QED BY <2>2, <2>3 DEF DocumentStep
<1> QED
  BY <1>1, <1>2, <1>3, <1>4, <1>5 DEF LoadCall, RedisReadable, LoadWithoutRedis

LEMMA CheckpointRefines ==
    ASSUME DInv, NEW t \in Tasks, CheckpointCall(t)
    PROVE  ContainsCheckpoint' /\ DocumentStep
<1> USE DEF DInv, storeVars, memVars, callVars, diskVars, Inside
<1>1. CASE CheckpointNothing(t)
  BY <1>1 DEF CheckpointNothing, ContainsCheckpoint, DocumentStep, Durable!document, LiveDocument
<1>2. CASE CheckpointStart(t)
  BY <1>2 DEF CheckpointStart, Enter, ContainsCheckpoint, DocumentStep, Durable!document,
              LiveDocument
<1>3. CASE RedisSet(t)
  <2>1. loaded /\ io.state \subseteq doc /\ checkpoint \subseteq io.state
    BY <1>3 DEF RedisSet, IInv, CallSound, ContainsCheckpoint
  <2>2. io'.state = io.state
    BY <1>3 DEF RedisSet, IInv, TypeOK, StoreTypeOK
  <2>3. ContainsCheckpoint'
    BY <1>3, <2>1, <2>2 DEF RedisSet, ContainsCheckpoint
  <2>4. Durable!Backup
    BY <1>3, <2>1 DEF RedisSet, Durable!Backup, LiveDocument
  <2> QED BY <2>3, <2>4 DEF DocumentStep
<1>4. CASE RedisSetFail(t) \/ CheckpointReturn(t)
  BY <1>4 DEF RedisSetFail, CheckpointReturn, Exit, NoCall, ContainsCheckpoint,
              DocumentStep, Durable!document, LiveDocument
<1>5. CASE EvictReturn(t)
  <2>1. /\ loaded /\ dbState \subseteq doc /\ checkpoint = io.state
        /\ generation = io.gen => doc = checkpoint
    BY <1>5 DEF EvictReturn, IInv, CallSound, DocumentSound
  <2>2. ContainsCheckpoint'
    BY <1>5 DEF EvictReturn, Unload, Exit, NoCall, ContainsCheckpoint
  <2>3. UNCHANGED Durable!document
    BY <1>5, <2>1 DEF EvictReturn, Unload, Durable!document, LiveDocument
  <2> QED BY <2>2, <2>3 DEF DocumentStep
<1> QED
  BY <1>1, <1>2, <1>3, <1>4, <1>5 DEF CheckpointCall

LEMMA PersistRefines ==
    ASSUME DInv, NEW t \in Tasks, PersistCall(t)
    PROVE  ContainsCheckpoint' /\ DocumentStep
<1> USE DEF DInv, storeVars, memVars, callVars, diskVars, Inside
<1>1. CASE PersistStart(t)
  BY <1>1 DEF PersistStart, Enter, ContainsCheckpoint, DocumentStep, Durable!document, LiveDocument
<1>2. CASE DbCommit(t)
  <2>1. loaded /\ io.state \subseteq doc /\ dbState \subseteq io.state
    BY <1>2 DEF DbCommit, IInv, CallSound
  <2>2. ContainsCheckpoint'
    BY <1>2 DEF DbCommit, ContainsCheckpoint, IInv, TypeOK, StoreTypeOK
  <2>3. Durable!Save
    BY <1>2, <2>1 DEF DbCommit, Durable!Save, LiveDocument
  <2> QED BY <2>2, <2>3 DEF DocumentStep
<1>3. CASE PersistFail(t)
  BY <1>3 DEF PersistFail, Exit, NoCall, ContainsCheckpoint, DocumentStep, Durable!document,
              LiveDocument
<1>4. CASE PersistReturn(t)
  BY <1>4 DEF PersistReturn, Exit, NoCall, ContainsCheckpoint, DocumentStep, Durable!document,
              LiveDocument
<1> QED
  BY <1>1, <1>2, <1>3, <1>4 DEF PersistCall

LEMMA CrashRefines ==
    ASSUME DInv, StoreCrash
    PROVE  ContainsCheckpoint' /\ Durable!Lose
<1>1. ContainsCheckpoint'
  BY DEF StoreCrash, Unload, Exit, NoCall, ContainsCheckpoint
<1>2. Durable!Lose
  BY DEF StoreCrash, Unload, diskVars, Durable!Lose, LiveDocument
<1> QED
  BY <1>1, <1>2

LEMMA DocumentSteps ==
    ASSUME RedisReadable, DInv, [Next]_vars
    PROVE  ContainsCheckpoint' /\ (DocumentStep \/ ((ProcessExit \/ Crash) /\ Durable!Lose))
<1>1. ASSUME UNCHANGED storeVars
      PROVE  ContainsCheckpoint' /\ DocumentStep
  BY <1>1 DEF DInv, ContainsCheckpoint, storeVars, memVars, callVars, diskVars,
              DocumentStep, Durable!document, LiveDocument
<1> QED
  BY <1>1, StoreSteps, EditRefines, LoadRefines, CheckpointRefines, PersistRefines,
     CrashRefines DEF DInv

(* A process that has ended does nothing to its document.                  *)
LEMMA EndedIsQuiet ==
    ASSUME IInv, Next, ~ProcessExit, ~Crash, Process # "running"
    PROVE  UNCHANGED storeVars
<1> USE TasksAssumption
        DEF IInv, TypeOK, ShutdownSound, Serving, Process, Tasks, At, Rest, ConnPcs, ReqPcs
<1>1. /\ pc[Flusher] \in {"stopped", "unsaved", "crashed"}
      /\ \A t \in Conns \cup Reqs : pc[t] = Rest(t)
  OBVIOUS
<1>2. ASSUME NEW c \in Conns, ConnStep(c)
      PROVE  UNCHANGED storeVars
  BY <1>1, <1>2 DEF ConnStep, ClientEdit, CloseTab, Connect, JoinOccupied, JoinEmpty,
     Handshake, ReceiveUpdate, ApplyFrame, Disconnect, LeaveRoom
<1>3. ASSUME NEW r \in Reqs
      PROVE  ~ReqStep(r)
  BY <1>1 DEF ReqStep, Request, LockRoom, Refuse, ApplySave, ApplyRestore, Capture,
     RejectBody, ContinuePersist, FinishPersist, AbortPersist
<1>4. FlusherStep(Flusher) => UNCHANGED storeVars
  BY <1>1 DEF FlusherStep, Tick, MaintainOrphan, MaintainActive, Shutdown, FinishShutdown,
     FailShutdown, Reboot
<1>5. ASSUME NEW t \in Tasks
      PROVE  ~SharedStep(t)
  BY <1>1 DEF SharedStep, ContinueLoad, FinishLoad, AbortLoad, Send, SendDone,
     ContinueCheckpoint, FinishCheckpoint, FailCheckpoint
<1> QED
  BY <1>2, <1>3, <1>4, <1>5 DEF Next

(* How a process ends or starts.                                           *)
LEMMA ProcessSteps ==
    ASSUME IInv, Next, ~ProcessExit, ~Crash
    PROVE  Process' = Process \/ Durable!Stop \/ (Durable!Start /\ UNCHANGED storeVars)
<1> USE TasksAssumption
        DEF IInv, TypeOK, Process, Tasks, At, Goto, Rest, ConnPcs, ReqPcs, FlusherPcs,
            storeVars, memVars, callVars, diskVars, roomVars, clientVars, taskVars
<1>1. ASSUME NEW c \in Conns, ConnStep(c)
      PROVE  pc'[Flusher] = pc[Flusher]
  BY <1>1 DEF ConnStep, ClientEdit, CloseTab, Connect, JoinOccupied, EnterRoom,
     JoinEmpty, Handshake, ReceiveUpdate, ApplyFrame, Disconnect, LeaveRoom
<1>2. ASSUME NEW r \in Reqs, ReqStep(r)
      PROVE  pc'[Flusher] = pc[Flusher]
  BY <1>2 DEF ReqStep, Request, LockRoom, Refuse, ApplySave, ApplyRestore, Capture,
     RejectBody, ContinuePersist, FinishPersist, AbortPersist, ResetTask
<1>3. CASE FlusherStep(Flusher)
  <2>1. CASE Tick(Flusher) \/ MaintainOrphan(Flusher) \/ MaintainActive(Flusher)
             \/ Shutdown(Flusher)
    BY <2>1 DEF Tick, MaintainOrphan, MaintainActive, Shutdown
  <2>2. CASE FinishShutdown(Flusher) \/ FailShutdown(Flusher)
    <3>1. pc[Flusher] = "final" /\ pc'[Flusher] \in {"stopped", "unsaved"}
      BY <2>2 DEF FinishShutdown, FailShutdown
    <3>2. UNCHANGED <<loaded, doc, dbState, checkpoint>>
      BY <2>2 DEF FinishShutdown, FailShutdown, CheckpointReturn, CheckpointNothing,
                  RedisSetFail
    <3>3. UNCHANGED Durable!document
      BY <3>2 DEF Durable!document, LiveDocument
    <3> QED BY <3>1, <3>3 DEF Durable!Stop
  <2>3. CASE Reboot(Flusher)
    BY <2>3 DEF Reboot, Durable!Start, Durable!document, LiveDocument
  <2> QED BY <1>3, <2>1, <2>2, <2>3 DEF FlusherStep
<1>4. ASSUME NEW t \in Tasks, SharedStep(t)
      PROVE  Process' = Process
  <2>1. pc[t] \notin {"stopped", "unsaved", "crashed"}
    BY <1>4 DEF SharedStep, ContinueLoad, FinishLoad, AbortLoad, Send, SendDone,
       ContinueCheckpoint, FinishCheckpoint, FailCheckpoint
  <2>2. pc'[Flusher] = pc[Flusher] \/ (t = Flusher /\ pc'[Flusher] = "sleep")
    BY <1>4 DEF SharedStep, ContinueLoad, FinishLoad, AfterLoad, EnterRoom, AbortLoad,
       Send, SendDone, ContinueCheckpoint, FinishCheckpoint, FailCheckpoint,
       AfterCheckpoint, ResetTask
  <2> QED BY <2>1, <2>2
<1> QED
  BY <1>1, <1>2, <1>3, <1>4 DEF Next

(* The end of a process: a shutdown has written what there is, or has said *)
(* that it could not; a crash may happen at any time.                      *)
LEMMA DeathRefines ==
    ASSUME DInv, ProcessExit \/ Crash, Durable!Lose
    PROVE  Durable!Next
<1> USE TasksAssumption DEF DInv, IInv, TypeOK, Process, Tasks, At, FlusherPcs
<1>1. CASE Crash
  <2>1. pc[Flusher] # "crashed" /\ pc'[Flusher] = "crashed"
    BY <1>1 DEF Crash, Die
  <2>2. Process # "crashed" /\ Process' = "crashed"
    BY <2>1
  <2> QED BY <2>2 DEF Durable!Crash, Durable!Next
<1>2. CASE ProcessExit
  <2>1. pc[Flusher] \in {"stopped", "unsaved"} /\ pc'[Flusher] = "sleep"
    BY <1>2 DEF ProcessExit, Die
  <2>2. Process = pc[Flusher] /\ Process' = "running"
    BY <2>1
  <2>3. CASE pc[Flusher] = "unsaved"
    BY <2>2, <2>3 DEF Durable!Start, Durable!Next
  <2>4. CASE pc[Flusher] = "stopped"
    <3>1. LiveDocument = dbState \cup checkpoint
      BY <2>4 DEF LiveDocument, ShutdownSound, CheckpointedMeansRecoverable, DocumentSound,
                  ContainsCheckpoint
    <3>2. UNCHANGED Durable!document
      BY <3>1 DEF Durable!Lose, Durable!document
    <3> QED BY <2>2, <2>4, <3>2 DEF Durable!Start, Durable!Next
  <2> QED BY <2>1, <2>3, <2>4
<1> QED BY <1>1, <1>2

LEMMA StepRefines ==
    ASSUME RedisReadable, DInv, [Next]_vars
    PROVE  DInv' /\ AbstractStep
<1>1. DInv'
  BY NextIInv, DocumentSteps DEF DInv
<1>2. AbstractStep
  <2>1. CASE UNCHANGED vars
    <3>1. UNCHANGED <<loaded, doc, dbState, checkpoint, pc>>
      BY <2>1 DEF vars, storeVars, memVars, diskVars, taskVars
    <3> QED
      BY <3>1 DEF AbstractStep, Durable!vars, Durable!document, LiveDocument, Process
  <2>2. CASE ProcessExit \/ Crash
    <3>1. StoreCrash
      BY <2>2 DEF ProcessExit, Crash, Die
    <3> QED BY <2>2, <3>1, CrashRefines, DeathRefines DEF AbstractStep
  <2>3. CASE Next /\ ~ProcessExit /\ ~Crash
    <3>1. IInv
      BY DEF DInv
    <3>2. Process' = Process \/ Durable!Stop \/ (Durable!Start /\ UNCHANGED storeVars)
      BY <2>3, <3>1, ProcessSteps
    <3>3. CASE Durable!Stop \/ Durable!Start
      BY <3>3 DEF AbstractStep, Durable!Next
    <3>4. CASE Process' = Process /\ Process # "running"
      <4>1. UNCHANGED <<loaded, doc, dbState, checkpoint>>
        BY <2>3, <3>1, <3>4, EndedIsQuiet DEF storeVars, memVars, diskVars
      <4> QED
        BY <3>4, <4>1 DEF AbstractStep, Durable!vars, Durable!document, LiveDocument
    <3>5. CASE Process' = Process /\ Process = "running"
      <4>1. DocumentStep
        BY <2>3, DocumentSteps
      <4> QED
        BY <3>5, <4>1
           DEF DocumentStep, AbstractStep, Durable!Next, Durable!Use, Durable!vars
    <3> QED BY <3>2, <3>3, <3>4, <3>5
  <2> QED BY <2>1, <2>2, <2>3
<1> QED
  BY <1>1, <1>2

LEMMA InitRefines == Init => DInv /\ Durable!Init
<1>1. Init => ContainsCheckpoint /\ Durable!Init
  BY DEF Init, StoreInit, ContainsCheckpoint, NoCall, Durable!Init, LiveDocument,
         Process, Rest, Tasks
<1> QED BY <1>1, InitIInv DEF DInv

(* While Redis answers reads, the room with all its loading, evicting and  *)
(* failing is one durable document: only a crash, or a shutdown whose last *)
(* checkpoint failed, takes edits back, and none that a store holds.       *)
THEOREM RoomImplementsDurableDocument ==
    RedisReadable => (Spec => ImplementsDurableDocument)
<1>1. RedisReadable /\ DInv /\ [Next]_vars => DInv' /\ [Durable!Next]_(Durable!vars)
  BY StepRefines DEF AbstractStep
<1>2. CASE RedisReadable
  BY <1>1, <1>2, InitRefines, PTL DEF Spec, ImplementsDurableDocument, Durable!Spec
<1> QED BY <1>2

(* Under the same assumption a recovery checkpoint only ever grows; the    *)
(* assumption is needed: a load that cannot read the checkpoint starts     *)
(* without it, and the next checkpoint replaces it.                        *)
THEOREM CheckpointsOnlyGrow == RedisReadable => (Spec => CheckpointNeverLoses)
<1>1. AbstractStep => checkpoint \subseteq checkpoint'
  BY DEF AbstractStep, Durable!Next, Durable!Use, Durable!Edit, Durable!Save,
         Durable!Backup, Durable!Stop, Durable!Crash, Durable!Start, Durable!Lose,
         Durable!document, Durable!vars
<1>2. RedisReadable /\ DInv /\ [Next]_vars =>
          DInv' /\ [checkpoint \subseteq checkpoint']_vars
  BY <1>1, StepRefines
<1>3. CASE RedisReadable
  BY <1>2, <1>3, InitRefines, PTL DEF Spec, CheckpointNeverLoses
<1> QED BY <1>3

=============================================================================
