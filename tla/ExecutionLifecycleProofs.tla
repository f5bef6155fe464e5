---------------------- MODULE ExecutionLifecycleProofs ----------------------
(***************************************************************************)
(* Proofs about ExecutionLifecycle, for any number of executions and any   *)
(* number and kind of failures.                                            *)
(***************************************************************************)
EXTENDS ExecutionLifecycle, TLAPS

(* Where an execution has begun and its program has not been started.      *)
Beginning == {"announceStart", "create", "start"}

(* Recovery works on an entry that it has read.                            *)
RecoverySound == wpc \in RecoveryPcs => items[job] > 0

(* The API's transactions see the status that they found under the lock.   *)
RowsSound ==
    /\ \A j \in Jobs : create[j] = "new" => row[j] = "none"
    /\ \A j \in Jobs : cancel[j] = "signal" => row[j] = "RUNNING"
    /\ \A j \in Jobs : cancel[j] = "commit" => row[j] \in {"QUEUED", "RUNNING"}

(* A program that was started belongs to a row that left QUEUED for good.  *)
RunsSound ==
    /\ \A j \in Jobs : runs[j] \in {0, 1}
    /\ \A j \in Jobs : row[j] \in {"none", "QUEUED"} => runs[j] = 0
    /\ wpc \in Beginning => runs[job] = 0 /\ row[job] \in {"STARTING", "gone"}

(* Which sandboxes there are at which point.                               *)
SandboxesSound ==
    /\ SandboxOfJob
    /\ dying => wpc \in {"cleanup", "ack"}
    /\ wpc \in RecoveryPcs \cup {"claimed", "announceStart", "create"} =>
          \A j \in Jobs : container[j] # "none" => j \in refused
    /\ wpc = "ack" /\ ~dying => \A j \in Jobs : container[j] # "none" => j \in refused

(* The inductive invariant.                                                *)
IInv ==
    /\ TypeOK
    /\ RecoverySound
    /\ RowsSound
    /\ RunsSound
    /\ SandboxesSound

(* The invariant holds initially.                                          *)
LEMMA InitIInv == Init => IInv
<1> SUFFICES ASSUME Init PROVE IInv
  OBVIOUS
<1> USE DEF Init, NoEntries, IdlePcs, RecoveryPcs, ProcessPcs, Terminal, Unfinished
<1>1. TypeOK
  <2>1. queue \in Seq(Jobs) /\ processing \in [Jobs -> Nat] /\ items \in [Jobs -> Nat]
    OBVIOUS
  <2>2. row \in [Jobs -> {"none", "gone"} \cup Unfinished \cup Terminal]
    OBVIOUS
  <2>3. create \in [Jobs -> {"new", "enqueue", "undo", "done"}]
        /\ cancel \in [Jobs -> {"idle", "signal", "commit"}]
    OBVIOUS
  <2>4. wpc \in IdlePcs /\ job = Nobody /\ target \in Terminal /\ dying \in BOOLEAN
    OBVIOUS
  <2>5. runs \in [Jobs -> Nat] /\ container \in [Jobs -> {"none", "created", "running", "exited"}]
    OBVIOUS
  <2>6. cancelKey \subseteq Jobs /\ refused \subseteq Jobs /\ raised \subseteq Jobs
        /\ faults \in 0 .. MaxFaults
    BY FaultsAssumption
  <2> QED BY <2>1, <2>2, <2>3, <2>4, <2>5, <2>6 DEF TypeOK
<1>2. RecoverySound /\ RowsSound /\ RunsSound
  BY DEF RecoverySound, RowsSound, RunsSound, Beginning
<1>3. SandboxesSound
  BY DEF SandboxesSound, SandboxOfJob
<1> QED BY <1>1, <1>2, <1>3 DEF IInv

(* The API's steps preserve it: creation and cancellation.                 *)
LEMMA ApiIInv ==
    ASSUME IInv, NEW j \in Jobs, Create(j) \/ CreateStep(j) \/ Cancel(j) \/ CancelStep(j)
    PROVE  IInv'
<1> USE DEF dbVars, redisVars, apiVars, workerVars, dockerVars, history, IdlePcs,
            RecoveryPcs, ProcessPcs, Beginning, Terminal, Unfinished
<1>1. CASE Create(j)
  BY <1>1, JobsAssumption, FaultsAssumption
     DEF Create, SetRow, SetCreate, IInv, TypeOK, RecoverySound,
         RowsSound, RunsSound, SandboxesSound, SandboxOfJob
<1>2. CASE Enqueue(j)
  BY <1>2, JobsAssumption, FaultsAssumption
     DEF Enqueue, SetCreate, IInv, TypeOK, RecoverySound,
         RowsSound, RunsSound, SandboxesSound, SandboxOfJob
<1>3. CASE EnqueueFail(j)
  <2>0. Append(queue, j) \in Seq(Jobs)
    BY DEF IInv, TypeOK
  <2>1. TypeOK'
    <3>1. queue' \in Seq(Jobs)
      BY <1>3, <2>0 DEF EnqueueFail, IInv, TypeOK
    <3>2. create' \in [Jobs -> {"new", "enqueue", "undo", "done"}]
      BY <1>3 DEF EnqueueFail, SetCreate, IInv, TypeOK
    <3>3. faults' \in 0 .. MaxFaults
      BY <1>3, FaultsAssumption DEF EnqueueFail, Fault, IInv, TypeOK
    <3> QED BY <1>3, <3>1, <3>2, <3>3 DEF EnqueueFail, IInv, TypeOK
  <2>2. RecoverySound'
    BY <1>3 DEF EnqueueFail, SetCreate, Fault, IInv, TypeOK, RecoverySound
  <2>3. RowsSound'
    BY <1>3 DEF EnqueueFail, SetCreate, Fault, IInv, TypeOK, RowsSound
  <2>4. RunsSound'
    BY <1>3 DEF EnqueueFail, SetCreate, Fault, IInv, TypeOK, RowsSound, RunsSound
  <2>5. SandboxesSound'
    BY <1>3, JobsAssumption
       DEF EnqueueFail, SetCreate, Fault, IInv, TypeOK, SandboxesSound, SandboxOfJob
  <2> QED BY <2>1, <2>2, <2>3, <2>4, <2>5 DEF IInv
<1>4. CASE Undo(j)
  BY <1>4, JobsAssumption, FaultsAssumption
     DEF Undo, SetRow, SetCreate, Locked, IInv, TypeOK, RecoverySound,
         RowsSound, RunsSound, SandboxesSound, SandboxOfJob
<1>5. CASE CreateFail(j)
  BY <1>5, JobsAssumption, FaultsAssumption
     DEF CreateFail, SetCreate, Fault, IInv, TypeOK, RecoverySound,
         RowsSound, RunsSound, SandboxesSound, SandboxOfJob
<1>6. CASE Cancel(j)
  BY <1>6, JobsAssumption, FaultsAssumption
     DEF Cancel, SetCancel, Locked, IInv, TypeOK, RecoverySound,
         RowsSound, RunsSound, SandboxesSound, SandboxOfJob
<1>7. CASE Signal(j)
  BY <1>7, JobsAssumption, FaultsAssumption
     DEF Signal, SetCancel, IInv, TypeOK, RecoverySound,
         RowsSound, RunsSound, SandboxesSound, SandboxOfJob
<1>8. CASE SignalFail(j)
  BY <1>8, JobsAssumption, FaultsAssumption
     DEF SignalFail, SetCancel, Fault, IInv, TypeOK, RecoverySound,
         RowsSound, RunsSound, SandboxesSound, SandboxOfJob
<1>9. CASE CommitCancel(j)
  <2>1. TypeOK'
    BY <1>9 DEF CommitCancel, SetRow, SetCancel, IInv, TypeOK
  <2>2. RecoverySound'
    BY <1>9 DEF CommitCancel, IInv, RecoverySound
  <2>3. RowsSound'
    BY <1>9 DEF CommitCancel, SetRow, SetCancel, IInv, TypeOK, RowsSound
  <2>4. RunsSound'
    <3>1. row[j] \in {"QUEUED", "RUNNING"}
      BY <1>9 DEF CommitCancel, IInv, RowsSound
    <3> QED BY <1>9, <3>1 DEF CommitCancel, SetRow, IInv, TypeOK, RunsSound
  <2>5. SandboxesSound'
    BY <1>9 DEF CommitCancel, IInv, SandboxesSound, SandboxOfJob
  <2> QED BY <2>1, <2>2, <2>3, <2>4, <2>5 DEF IInv
<1>10. CASE CommitCancelFail(j)
  BY <1>10, JobsAssumption, FaultsAssumption
     DEF CommitCancelFail, SetCancel, Fault, IInv, TypeOK, RecoverySound,
         RowsSound, RunsSound, SandboxesSound, SandboxOfJob
<1> QED
  BY <1>1, <1>2, <1>3, <1>4, <1>5, <1>6, <1>7, <1>8, <1>9, <1>10 DEF CreateStep, CancelStep

(* The steps of a starting worker preserve it ...                          *)
LEMMA RecoveryIInv ==
    ASSUME IInv, Start \/ Requeue \/ Report \/ Forget \/ Recovered
    PROVE  IInv'
<1> USE DEF dbVars, redisVars, apiVars, workerVars, dockerVars, history, IdlePcs,
            RecoveryPcs, ProcessPcs, Beginning, Terminal, Unfinished
<1>1. CASE Start
  <2> PICK left \in SUBSET {j \in Jobs : container[j] # "none"} :
          /\ IF left = {} THEN UNCHANGED faults ELSE Fault("docker")
          /\ container' = [j \in Jobs |-> IF j \in left THEN container[j] ELSE "none"]
          /\ refused' = left
    BY <1>1 DEF Start
  <2>0. /\ wpc = "down" /\ wpc' = "recover" /\ items' = processing
        /\ UNCHANGED <<dbVars, redisVars, apiVars, job, target, dying, runs, raised>>
    BY <1>1 DEF Start
  <2>1. TypeOK'
    <3>1. faults' \in 0 .. MaxFaults
      BY FaultsAssumption DEF Fault, IInv, TypeOK
    <3> QED BY <2>0, <3>1 DEF IInv, TypeOK
  <2>2. RecoverySound' /\ RowsSound' /\ RunsSound'
    BY <2>0 DEF IInv, TypeOK, RecoverySound, RowsSound, RunsSound
  <2>3. SandboxesSound'
    BY <2>0, JobsAssumption DEF IInv, TypeOK, SandboxesSound, SandboxOfJob
  <2> QED BY <2>1, <2>2, <2>3 DEF IInv
<1>2. CASE Requeue
  BY <1>2, JobsAssumption, FaultsAssumption
     DEF Requeue, IInv, TypeOK, RecoverySound,
         RowsSound, RunsSound, SandboxesSound, SandboxOfJob
<1>3. CASE Report
  BY <1>3, JobsAssumption, FaultsAssumption
     DEF Report, IInv, TypeOK, RecoverySound,
         RowsSound, RunsSound, SandboxesSound, SandboxOfJob
<1>4. CASE Forget
  BY <1>4, JobsAssumption, FaultsAssumption
     DEF Forget, Remove, IInv, TypeOK, RecoverySound,
         RowsSound, RunsSound, SandboxesSound, SandboxOfJob
<1>5. CASE Recovered
  BY <1>5, JobsAssumption, FaultsAssumption
     DEF Recovered, IInv, TypeOK, RecoverySound,
         RowsSound, RunsSound, SandboxesSound, SandboxOfJob
<1> QED
  BY <1>1, <1>2, <1>3, <1>4, <1>5

(* ... and so do its decisions about the entries it read.                  *)
LEMMA RecoverIInv ==
    ASSUME IInv, NEW j \in Jobs, RecoverQueued(j) \/ RecoverStarted(j) \/ RecoverSettled(j)
    PROVE  IInv'
<1> USE DEF dbVars, redisVars, apiVars, workerVars, dockerVars, history, IdlePcs,
            RecoveryPcs, ProcessPcs, Beginning, Terminal, Unfinished
<1>1. CASE RecoverQueued(j)
  BY <1>1, JobsAssumption, FaultsAssumption
     DEF RecoverQueued, Locked, IInv, TypeOK, RecoverySound,
         RowsSound, RunsSound, SandboxesSound, SandboxOfJob
<1>2. CASE RecoverStarted(j)
  <2>1. TypeOK'
    BY <1>2, JobsAssumption DEF RecoverStarted, SetRow, IInv, TypeOK
  <2>2. RecoverySound'
    BY <1>2 DEF RecoverStarted, Locked, SetRow, IInv, TypeOK, RecoverySound
  <2>3. RowsSound'
    BY <1>2 DEF RecoverStarted, Locked, SetRow, IInv, TypeOK, RowsSound
  <2>4. RunsSound'
    BY <1>2 DEF RecoverStarted, Locked, SetRow, IInv, TypeOK, RowsSound, RunsSound
  <2>5. SandboxesSound'
    BY <1>2, JobsAssumption DEF RecoverStarted, Locked, SetRow, IInv, TypeOK, SandboxesSound, SandboxOfJob
  <2> QED BY <2>1, <2>2, <2>3, <2>4, <2>5 DEF IInv
<1>3. CASE RecoverSettled(j)
  BY <1>3, JobsAssumption, FaultsAssumption
     DEF RecoverSettled, Locked, IInv, TypeOK, RecoverySound,
         RowsSound, RunsSound, SandboxesSound, SandboxOfJob
<1> QED
  BY <1>1, <1>2, <1>3

(* The steps of run and process preserve it.                               *)
LEMMA ProcessIInv ==
    ASSUME IInv, ProcessStep
    PROVE  IInv'
<1> USE DEF dbVars, redisVars, apiVars, workerVars, dockerVars, history, IdlePcs,
            RecoveryPcs, ProcessPcs, Beginning, Terminal, Unfinished
<1>1. CASE Claim
  BY <1>1, JobsAssumption, FaultsAssumption
     DEF Claim, Move, IInv, TypeOK, RecoverySound,
         RowsSound, RunsSound, SandboxesSound, SandboxOfJob
<1>2. CASE Begin
  BY <1>2, JobsAssumption, FaultsAssumption
     DEF Begin, SetRow, Locked, IInv, TypeOK, RecoverySound,
         RowsSound, RunsSound, SandboxesSound, SandboxOfJob
<1>3. CASE Reject
  BY <1>3, JobsAssumption, FaultsAssumption
     DEF Reject, Locked, IInv, TypeOK, RecoverySound,
         RowsSound, RunsSound, SandboxesSound, SandboxOfJob
<1>4. CASE Announce
  BY <1>4, JobsAssumption, FaultsAssumption
     DEF Announce, Announced, IInv, TypeOK, RecoverySound,
         RowsSound, RunsSound, SandboxesSound, SandboxOfJob
<1>5. CASE CreateContainer
  BY <1>5, JobsAssumption, FaultsAssumption
     DEF CreateContainer, SetContainer, IInv, TypeOK, RecoverySound,
         RowsSound, RunsSound, SandboxesSound, SandboxOfJob
<1>6. CASE StartContainer
  BY <1>6, JobsAssumption, FaultsAssumption
     DEF StartContainer, SetContainer, IInv, TypeOK, RecoverySound,
         RowsSound, RunsSound, SandboxesSound, SandboxOfJob
<1>7. CASE MarkRunning
  BY <1>7, JobsAssumption, FaultsAssumption
     DEF MarkRunning, SetRow, Locked, IInv, TypeOK, RecoverySound,
         RowsSound, RunsSound, SandboxesSound, SandboxOfJob
<1>8. CASE Vanished
  BY <1>8, JobsAssumption, FaultsAssumption
     DEF Vanished, SetContainer, Locked, IInv, TypeOK, RecoverySound,
         RowsSound, RunsSound, SandboxesSound, SandboxOfJob
<1>9. CASE SeeCancel
  BY <1>9, JobsAssumption, FaultsAssumption
     DEF SeeCancel, IInv, TypeOK, RecoverySound,
         RowsSound, RunsSound, SandboxesSound, SandboxOfJob
<1>10. CASE SeeExit
  BY <1>10, JobsAssumption, FaultsAssumption
     DEF SeeExit, IInv, TypeOK, RecoverySound,
         RowsSound, RunsSound, SandboxesSound, SandboxOfJob
<1>11. CASE SeeDeadline
  BY <1>11, JobsAssumption, FaultsAssumption
     DEF SeeDeadline, IInv, TypeOK, RecoverySound,
         RowsSound, RunsSound, SandboxesSound, SandboxOfJob
<1>12. CASE Kill
  BY <1>12, JobsAssumption, FaultsAssumption
     DEF Kill, SetContainer, IInv, TypeOK, RecoverySound,
         RowsSound, RunsSound, SandboxesSound, SandboxOfJob
<1>13. CASE Finish
  <2>1. TypeOK'
    BY <1>13, JobsAssumption, FaultsAssumption
       DEF Finish, SetRow, Locked, Settles, Settled, ValidTransition, IInv, TypeOK,
           RecoverySound
  <2>2. RecoverySound'
    BY <1>13
       DEF Finish, SetRow, Locked, Settles, Settled, ValidTransition, IInv, TypeOK,
           RecoverySound
  <2>3. RowsSound'
    BY <1>13
       DEF Finish, SetRow, Locked, Settles, Settled, ValidTransition, IInv, TypeOK,
           RowsSound
  <2>4. RunsSound'
    BY <1>13
       DEF Finish, SetRow, Locked, Settles, Settled, ValidTransition, IInv, TypeOK,
           RowsSound, RunsSound
  <2>5. SandboxesSound'
    BY <1>13, JobsAssumption
       DEF Finish, SetRow, Locked, Settles, Settled, ValidTransition, IInv, TypeOK,
           SandboxesSound, SandboxOfJob
  <2> QED BY <2>1, <2>2, <2>3, <2>4, <2>5 DEF IInv
<1>14. CASE Fail
  <2>1. TypeOK'
    BY <1>14, JobsAssumption, FaultsAssumption
       DEF Fail, SetRow, Locked, Settles, Settled, ValidTransition, IInv, TypeOK,
           RecoverySound
  <2>2. RecoverySound'
    BY <1>14
       DEF Fail, SetRow, Locked, Settles, Settled, ValidTransition, IInv, TypeOK,
           RecoverySound
  <2>3. RowsSound'
    BY <1>14
       DEF Fail, SetRow, Locked, Settles, Settled, ValidTransition, IInv, TypeOK,
           RowsSound
  <2>4. RunsSound'
    BY <1>14
       DEF Fail, SetRow, Locked, Settles, Settled, ValidTransition, IInv, TypeOK,
           RowsSound, RunsSound
  <2>5. SandboxesSound'
    BY <1>14, JobsAssumption
       DEF Fail, SetRow, Locked, Settles, Settled, ValidTransition, IInv, TypeOK,
           SandboxesSound, SandboxOfJob
  <2> QED BY <2>1, <2>2, <2>3, <2>4, <2>5 DEF IInv
<1>15. CASE Cleanup
  BY <1>15, JobsAssumption, FaultsAssumption
     DEF Cleanup, SetContainer, IInv, TypeOK, RecoverySound,
         RowsSound, RunsSound, SandboxesSound, SandboxOfJob
<1>16. CASE Ack
  BY <1>16, JobsAssumption, FaultsAssumption
     DEF Ack, Remove, IInv, TypeOK, RecoverySound,
         RowsSound, RunsSound, SandboxesSound, SandboxOfJob
<1> QED
  BY <1>1, <1>2, <1>3, <1>4, <1>5, <1>6, <1>7, <1>8, <1>9, <1>10, <1>11, <1>12, <1>13, <1>14, <1>15, <1>16
     DEF ProcessStep

(* Failing calls preserve it.                                              *)
LEMMA FailureIInv ==
    ASSUME IInv, FailureStep
    PROVE  IInv'
<1> USE DEF dbVars, redisVars, apiVars, workerVars, dockerVars, history, IdlePcs,
            RecoveryPcs, ProcessPcs, Beginning, Terminal, Unfinished
<1>1. CASE BodyFail
  BY <1>1, JobsAssumption, FaultsAssumption
     DEF BodyFail, Needs, Fault, IInv, TypeOK, RecoverySound,
         RowsSound, RunsSound, SandboxesSound, SandboxOfJob
<1>2. CASE BeginFail
  BY <1>2, JobsAssumption, FaultsAssumption
     DEF BeginFail, Fault, IInv, TypeOK, RecoverySound,
         RowsSound, RunsSound, SandboxesSound, SandboxOfJob
<1>3. CASE FailFail
  BY <1>3, JobsAssumption, FaultsAssumption
     DEF FailFail, Fault, IInv, TypeOK, RecoverySound,
         RowsSound, RunsSound, SandboxesSound, SandboxOfJob
<1>4. CASE CleanupFail
  BY <1>4, JobsAssumption, FaultsAssumption
     DEF CleanupFail, Fault, IInv, TypeOK, RecoverySound,
         RowsSound, RunsSound, SandboxesSound, SandboxOfJob
<1>5. CASE ClaimLost
  BY <1>5, JobsAssumption, FaultsAssumption
     DEF ClaimLost, Move, Fault, IInv, TypeOK, RecoverySound,
         RowsSound, RunsSound, SandboxesSound, SandboxOfJob
<1>6. CASE CleanupRefused
  <2>1. TypeOK'
    <3>1. faults' \in 0 .. MaxFaults
      BY <1>6, FaultsAssumption DEF CleanupRefused, Fault, IInv, TypeOK
    <3>2. job \in Jobs /\ container' \in [Jobs -> {"none", "created", "running", "exited"}]
      BY <1>6 DEF CleanupRefused, SetContainer, IInv, TypeOK
    <3> QED BY <1>6, <3>1, <3>2 DEF CleanupRefused, IInv, TypeOK
  <2>2. RecoverySound'
    BY <1>6 DEF CleanupRefused, SetContainer, IInv, TypeOK, RecoverySound
  <2>3. RowsSound'
    BY <1>6 DEF CleanupRefused, SetContainer, IInv, TypeOK, RowsSound
  <2>4. RunsSound'
    BY <1>6 DEF CleanupRefused, SetContainer, IInv, TypeOK, RowsSound, RunsSound
  <2>5. SandboxesSound'
    BY <1>6, JobsAssumption DEF CleanupRefused, SetContainer, IInv, TypeOK, SandboxesSound, SandboxOfJob
  <2> QED BY <2>1, <2>2, <2>3, <2>4, <2>5 DEF IInv
<1> QED
  BY <1>1, <1>2, <1>3, <1>4, <1>5, <1>6 DEF FailureStep

(* Deaths of the two processes preserve it.                                *)
LEMMA CrashIInv ==
    ASSUME IInv, ApiCrash \/ WorkerCrash \/ WorkerExits
    PROVE  IInv'
<1> USE DEF dbVars, redisVars, apiVars, workerVars, dockerVars, history, IdlePcs,
            RecoveryPcs, ProcessPcs, Beginning, Terminal, Unfinished
<1>1. CASE ApiCrash
  BY <1>1, JobsAssumption, FaultsAssumption
     DEF ApiCrash, Fault, IInv, TypeOK, RecoverySound,
         RowsSound, RunsSound, SandboxesSound, SandboxOfJob
<1>2. CASE WorkerCrash
  <2>0. NoEntries \in [Jobs -> Nat]
    BY DEF NoEntries
  <2>1. TypeOK'
    <3>1. wpc' = "down" /\ job' = Nobody /\ items' \in [Jobs -> Nat] /\ dying' = FALSE
      BY <1>2, <2>0 DEF WorkerCrash
    <3>2. faults' \in 0 .. MaxFaults
      BY <1>2, FaultsAssumption DEF WorkerCrash, Fault, IInv, TypeOK
    <3>3. UNCHANGED <<row, queue, processing, cancelKey, create, cancel, target, container,
                      runs, refused, raised>>
      BY <1>2 DEF WorkerCrash
    <3> QED BY <3>1, <3>2, <3>3 DEF IInv, TypeOK
  <2>2. RecoverySound'
    BY <1>2 DEF WorkerCrash, Fault, IInv, TypeOK, RecoverySound
  <2>3. RowsSound'
    BY <1>2 DEF WorkerCrash, Fault, IInv, TypeOK, RowsSound
  <2>4. RunsSound'
    BY <1>2 DEF WorkerCrash, Fault, IInv, TypeOK, RowsSound, RunsSound
  <2>5. SandboxesSound'
    BY <1>2, JobsAssumption
       DEF WorkerCrash, Fault, IInv, TypeOK, SandboxesSound, SandboxOfJob
  <2> QED BY <2>1, <2>2, <2>3, <2>4, <2>5 DEF IInv
<1>3. CASE WorkerExits
  BY <1>3, JobsAssumption, FaultsAssumption
     DEF WorkerExits, IInv, TypeOK, RecoverySound,
         RowsSound, RunsSound, SandboxesSound, SandboxOfJob
<1> QED
  BY <1>1, <1>2, <1>3

(* A program that ends preserves it.                                       *)
LEMMA ProgramIInv ==
    ASSUME IInv, NEW j \in Jobs, ProgramExits(j)
    PROVE  IInv'
<1> USE DEF dbVars, redisVars, apiVars, workerVars, dockerVars, history, IdlePcs,
            RecoveryPcs, ProcessPcs, Beginning, Terminal, Unfinished
<1>1. CASE ProgramExits(j)
  BY <1>1, JobsAssumption, FaultsAssumption
     DEF ProgramExits, SetContainer, IInv, TypeOK, RecoverySound,
         RowsSound, RunsSound, SandboxesSound, SandboxOfJob
<1> QED
  BY <1>1

(* The invariant is inductive.                                             *)
LEMMA NextIInv == IInv /\ [Next]_vars => IInv'
<1> SUFFICES ASSUME IInv, [Next]_vars PROVE IInv'
  OBVIOUS
<1>1. CASE UNCHANGED vars
  BY <1>1
     DEF vars, dbVars, redisVars, apiVars, workerVars, dockerVars, history, IInv, TypeOK,
              RecoverySound, RowsSound, RunsSound, SandboxesSound, SandboxOfJob
<1> QED
  BY <1>1, ApiIInv, RecoveryIInv, RecoverIInv, ProcessIInv, FailureIInv, CrashIInv, ProgramIInv
     DEF Next, RecoveryStep

(* The inductive invariant holds in every reachable state.                 *)
THEOREM Invariance == Spec => []IInv
  BY InitIInv, NextIInv, PTL DEF Spec

(* Type correctness of rows, lists, requests, worker and sandboxes.        *)
THEOREM TypeCorrect == Spec => []TypeOK
<1>1. IInv => TypeOK
  BY DEF IInv
<1> QED BY <1>1, Invariance, PTL

(* No program is started twice, whatever fails and however often its       *)
(* identifier is in the queue (worker._transition, _recover_processing).   *)
THEOREM ProgramsRunAtMostOnce == Spec => []RunsAtMostOnce
<1>1. IInv => RunsAtMostOnce
  <2> SUFFICES ASSUME IInv, NEW j \in Jobs PROVE runs[j] <= 1
    BY DEF RunsAtMostOnce
  <2>1. runs[j] = 0 \/ runs[j] = 1
    BY DEF IInv, RunsSound
  <2> QED BY <2>1
<1> QED BY <1>1, Invariance, PTL

(* A worker that is up has no sandbox but that of its present execution    *)
(* and those that Docker has refused to remove, whatever failed before     *)
(* (worker._cleanup_orphans, worker.process).                              *)
THEOREM SandboxesBelongToTheJob == Spec => []SandboxOfJob
<1>1. IInv => SandboxOfJob
  BY DEF IInv, SandboxesSound
<1> QED BY <1>1, Invariance, PTL

-----------------------------------------------------------------------------
(* Which steps write a status, and over what.                              *)
LEMMA StatusStep ==
    ASSUME IInv, [Next]_vars, NEW k \in Jobs, row[k] \in Terminal
    PROVE  row'[k] \in {row[k], "gone"}
<1> USE DEF dbVars, redisVars, apiVars, workerVars, dockerVars, history, Terminal
<1>0. CASE UNCHANGED row
  BY <1>0
<1>1. ASSUME NEW j \in Jobs, Create(j) \/ Undo(j) \/ CommitCancel(j) \/ RecoverStarted(j)
      PROVE  row'[k] \in {row[k], "gone"}
  BY <1>1 DEF Create, Undo, CommitCancel, RecoverStarted, SetRow, IInv, TypeOK, RowsSound
<1>2. CASE Begin \/ MarkRunning
  BY <1>2 DEF Begin, MarkRunning, SetRow, IInv, TypeOK
<1>3. CASE Finish \/ Fail
  BY <1>3 DEF Finish, Fail, Settles, Settled, ValidTransition, SetRow, IInv, TypeOK
<1>4. ASSUME NEW j \in Jobs,
             \/ CreateStep(j) /\ ~Undo(j)
             \/ Cancel(j)
             \/ CancelStep(j) /\ ~CommitCancel(j)
             \/ RecoverQueued(j) \/ RecoverSettled(j) \/ ProgramExits(j)
      PROVE  UNCHANGED row
  BY <1>4
     DEF CreateStep, CancelStep, Enqueue, EnqueueFail, CreateFail, Cancel, Signal,
         SignalFail,
              CommitCancelFail, RecoverQueued, RecoverSettled, ProgramExits
<1>5. CASE ApiCrash \/ WorkerCrash \/ WorkerExits \/ FailureStep \/ UNCHANGED vars
  BY <1>0, <1>5
     DEF ApiCrash, WorkerCrash, WorkerExits, FailureStep, BodyFail, BeginFail, FailFail, CleanupFail,
         CleanupRefused,
              ClaimLost, vars
<1>6. CASE Start \/ Requeue \/ Report \/ Forget \/ Recovered
  BY <1>0, <1>6 DEF Start, Requeue, Report, Forget, Recovered
<1>7. CASE ProcessStep /\ ~(Begin \/ MarkRunning \/ Finish \/ Fail)
  BY <1>0, <1>7
     DEF ProcessStep, Claim, Reject, Announce, CreateContainer, StartContainer, Vanished,
              SeeCancel, SeeExit, SeeDeadline, Kill, Cleanup, Ack
<1> QED
  BY <1>0, <1>1, <1>2, <1>3, <1>4, <1>5, <1>6, <1>7
     DEF Next, RecoveryStep, CreateStep, CancelStep

(* A final status is never replaced, whatever fails (models.transition_to, *)
(* worker._finish, service.cancel_execution).                              *)
THEOREM FinalStatusStays == Spec => TerminalIsFinal
<1>1. IInv /\ [Next]_vars => [\A j \in Jobs : row[j] \in Terminal => row'[j] \in {row[j], "gone"}]_vars
  BY StatusStep
<1> QED BY <1>1, Invariance, PTL DEF Spec, TerminalIsFinal

(* Only StartContainer starts a program.                                   *)
LEMMA RunsStep ==
    ASSUME [Next]_vars
    PROVE  StartContainer \/ UNCHANGED runs
<1> USE DEF dbVars, redisVars, apiVars, workerVars, dockerVars, history
<1>1. ASSUME NEW j \in Jobs,
             \/ Create(j) \/ CreateStep(j) \/ Cancel(j) \/ CancelStep(j)
             \/ RecoverQueued(j) \/ RecoverStarted(j) \/ RecoverSettled(j) \/ ProgramExits(j)
      PROVE  UNCHANGED runs
  BY <1>1
     DEF Create, CreateStep, CancelStep, Enqueue, EnqueueFail, Undo, CreateFail, Cancel,
         Signal,
              SignalFail, CommitCancel, CommitCancelFail, RecoverQueued, RecoverStarted,
              RecoverSettled, ProgramExits
<1>2. CASE ApiCrash \/ WorkerCrash \/ WorkerExits \/ FailureStep \/ UNCHANGED vars
  BY <1>2
     DEF ApiCrash, WorkerCrash, WorkerExits, FailureStep, BodyFail, BeginFail, FailFail, CleanupFail,
         CleanupRefused,
              ClaimLost, vars
<1>3. CASE Start \/ Requeue \/ Report \/ Forget \/ Recovered
  BY <1>3 DEF Start, Requeue, Report, Forget, Recovered
<1>4. CASE ProcessStep
  BY <1>4
     DEF ProcessStep, Claim, Begin, Reject, Announce, CreateContainer, MarkRunning,
         Vanished,
              SeeCancel, SeeExit, SeeDeadline, Kill, Finish, Fail, Cleanup, Ack
<1> QED BY <1>1, <1>2, <1>3, <1>4 DEF Next, RecoveryStep

(* A cancelled or finished execution's program is never started            *)
(* (service.cancel_execution, worker.process).                             *)
THEOREM FinishedProgramsNeverStart == Spec => FinishedNeverStarts
<1>1. IInv /\ [Next]_vars => [\A j \in Jobs : runs'[j] # runs[j] => row[j] \notin Terminal]_vars
  <2> SUFFICES ASSUME IInv, [Next]_vars, NEW j \in Jobs, runs'[j] # runs[j]
               PROVE  row[j] \notin Terminal
    OBVIOUS
  <2>1. StartContainer /\ j = job
    BY RunsStep DEF StartContainer, IInv, TypeOK
  <2> QED BY <2>1 DEF StartContainer, IInv, RunsSound, Beginning, Terminal
<1> QED BY <1>1, Invariance, PTL DEF Spec, FinishedNeverStarts

-----------------------------------------------------------------------------
(***************************************************************************)
(* No execution is lost                                                    *)
(***************************************************************************)
InQueue(j) == \E i \in DOMAIN queue : queue[i] = j

(* Its identifier is in the queue or on its way there.                     *)
Waiting(j) == InQueue(j) \/ create[j] \in {"enqueue", "undo"} \/ j \in raised

(* The points of process at which the status is still to be written.       *)
Running == ProcessPcs \ {"claimed", "announceEnd", "announceFail", "cleanup", "ack"}

(* Whoever is going to give an execution that has begun its final status.  *)
Pursued(j) ==
    \/ wpc = "down"
    \/ wpc = "recover" /\ items[j] > 0
    \/ wpc \in RecoveryPcs /\ items[j] > 0 /\ j # job
    \/ wpc \in Running /\ j = job

WorkerKeeps ==
    /\ wpc \in ProcessPcs => processing[job] > 0
    /\ wpc \in ProcessPcs \ {"claimed", "ack"} => row[job] \notin {"none", "QUEUED"}
    /\ wpc = "started" => row[job] \in {"STARTING", "gone"}
    /\ wpc \in {"report", "forget", "ack"} /\ row[job] = "QUEUED" => Waiting(job)

QueuedKept == \A j \in Jobs : row[j] = "QUEUED" => Waiting(j) \/ processing[j] > 0

BegunKept ==
    \A j \in Jobs : row[j] \in {"STARTING", "RUNNING"} =>
        j \in raised \/ (processing[j] > 0 /\ Pursued(j))

KeptInv == WorkerKeeps /\ QueuedKept /\ BegunKept

LEMMA QueueStays ==
    ASSUME UNCHANGED queue
    PROVE  \A k : InQueue(k)' <=> InQueue(k)
BY DEF InQueue

LEMMA QueueGrows ==
    ASSUME queue \in Seq(Jobs), NEW j \in Jobs, queue' = Append(queue, j)
    PROVE  InQueue(j)' /\ \A k : InQueue(k) => InQueue(k)'
<1>1. /\ Len(queue') = Len(queue) + 1
      /\ queue'[Len(queue) + 1] = j
      /\ \A i \in 1 .. Len(queue) : queue'[i] = queue[i]
  OBVIOUS
<1>2. DOMAIN queue = 1 .. Len(queue) /\ DOMAIN queue' = 1 .. Len(queue) + 1
      /\ Len(queue) \in Nat
  BY <1>1
<1> QED BY <1>1, <1>2 DEF InQueue

LEMMA QueueShrinks ==
    ASSUME queue \in Seq(Jobs), queue # <<>>, queue' = Tail(queue)
    PROVE  /\ Head(queue) \in Jobs
           /\ \A k : InQueue(k) => k = Head(queue) \/ InQueue(k)'
<1>1. Len(queue) \in Nat \ {0} /\ DOMAIN queue = 1 .. Len(queue)
  OBVIOUS
<1>2. /\ DOMAIN queue' = 1 .. Len(queue) - 1
      /\ \A i \in 1 .. Len(queue) - 1 : queue'[i] = queue[i + 1]
  BY <1>1
<1>3. SUFFICES ASSUME NEW k, NEW i \in DOMAIN queue, queue[i] = k, i # 1
               PROVE  \E n \in DOMAIN queue' : queue'[n] = k
  BY <1>1 DEF InQueue
<1>4. i - 1 \in DOMAIN queue' /\ queue'[i - 1] = k
  BY <1>1, <1>2, <1>3
<1> QED BY <1>4

(* Nobody who waits is dropped, but by the worker that takes it.           *)
LEMMA WaitingStep ==
    ASSUME IInv, Next, NEW k \in Jobs, Waiting(k), row'[k] = "QUEUED"
    PROVE  Waiting(k)' \/ (wpc = "wait" /\ processing'[k] > 0)
<1> USE DEF dbVars, redisVars, apiVars, workerVars, dockerVars, history, Waiting
<1>1. ASSUME NEW j \in Jobs, Create(j) \/ CreateStep(j) \/ Cancel(j) \/ CancelStep(j)
      PROVE  Waiting(k)'
  <2>1. InQueue(k) => InQueue(k)'
    <3>1. CASE UNCHANGED queue
      BY <3>1, QueueStays
    <3>2. CASE queue' = Append(queue, j)
      BY <3>2, QueueGrows DEF IInv, TypeOK
    <3> QED
      BY <1>1, <3>1, <3>2 DEF Create, CreateStep, Enqueue, EnqueueFail, Undo, CreateFail, Cancel,
         CancelStep, Signal, SignalFail, CommitCancel, CommitCancelFail
  <2>2. CASE Create(j) \/ Cancel(j) \/ CancelStep(j)
    BY <2>1, <2>2 DEF Create, SetCreate, Cancel, CancelStep, Signal, SignalFail, CommitCancel,
       CommitCancelFail, IInv, TypeOK
  <2>3. CASE Enqueue(j)
    BY <2>1, <2>3, QueueGrows DEF Enqueue, SetCreate, IInv, TypeOK
  <2>4. CASE EnqueueFail(j)
    BY <2>1, <2>4 DEF EnqueueFail, SetCreate, IInv, TypeOK
  <2>5. CASE Undo(j)
    BY <2>1, <2>5 DEF Undo, SetCreate, SetRow, IInv, TypeOK
  <2>6. CASE CreateFail(j)
    BY <2>1, <2>6 DEF CreateFail, SetCreate, IInv, TypeOK
  <2> QED BY <1>1, <2>2, <2>3, <2>4, <2>5, <2>6 DEF CreateStep
<1>2. CASE ApiCrash
  BY <1>2, QueueStays DEF ApiCrash
<1>3. CASE Requeue
  BY <1>3, QueueGrows DEF Requeue, IInv, TypeOK, RecoveryPcs, IdlePcs
<1>4. CASE Claim \/ ClaimLost
  BY <1>4, QueueShrinks DEF Claim, ClaimLost, Move, IInv, TypeOK
<1>5. CASE \/ UNCHANGED <<queue, create, raised>>
           \/ UNCHANGED <<queue, create>> /\ raised' = raised \cup {job}
  BY <1>5, QueueStays
<1>6. CASE RecoveryStep /\ ~Requeue
  BY <1>5, <1>6 DEF RecoveryStep, Start, Report, Forget, Recovered, RecoverQueued,
                    RecoverStarted, RecoverSettled
<1>7. CASE ProcessStep /\ ~Claim
  BY <1>5, <1>7 DEF ProcessStep, Begin, Reject, Announce, CreateContainer, StartContainer,
       MarkRunning, Vanished, SeeCancel, SeeExit, SeeDeadline, Kill, Finish, Fail, Cleanup, Ack
<1>8. CASE (FailureStep /\ ~ClaimLost) \/ WorkerCrash \/ WorkerExits
  BY <1>5, <1>8 DEF FailureStep, BodyFail, BeginFail, FailFail, CleanupFail,
         CleanupRefused, WorkerCrash,
       WorkerExits
<1>9. ASSUME NEW j \in Jobs, ProgramExits(j)
      PROVE  Waiting(k)'
  BY QueueStays, <1>9 DEF ProgramExits
<1> QED
  BY <1>1, <1>2, <1>3, <1>4, <1>6, <1>7, <1>8, <1>9 DEF Next

(* An entry is removed only when its execution is acknowledged or, at the  *)
(* worker's start, settled.                                                *)
LEMMA EntryStep ==
    ASSUME IInv, Next, NEW k \in Jobs, processing[k] > 0
    PROVE  processing'[k] > 0 \/ (k = job /\ (Forget \/ Ack))
<1> USE DEF dbVars, redisVars, apiVars, workerVars, dockerVars, history
<1>1. CASE UNCHANGED processing
  BY <1>1
<1>2. CASE Forget \/ Ack
  BY <1>2 DEF Forget, Ack, Remove, IInv, TypeOK
<1>3. CASE Claim \/ ClaimLost
  <2>1. processing' = [processing EXCEPT ![Head(queue)] = @ + 1]
    BY <1>3 DEF Claim, ClaimLost, Move
  <2>2. processing \in [Jobs -> Nat]
    BY DEF IInv, TypeOK
  <2> QED BY <2>1, <2>2
<1>4. ASSUME NEW j \in Jobs, Create(j) \/ CreateStep(j) \/ Cancel(j) \/ CancelStep(j)
      PROVE  UNCHANGED processing
  BY <1>4 DEF Create, CreateStep, Enqueue, EnqueueFail, Undo, CreateFail, Cancel,
     CancelStep, Signal, SignalFail, CommitCancel, CommitCancelFail
<1>5. CASE RecoveryStep /\ ~Forget
  BY <1>1, <1>5 DEF RecoveryStep, Start, Requeue, Report, Recovered, RecoverQueued,
                    RecoverStarted, RecoverSettled
<1>6. CASE ProcessStep /\ ~Claim /\ ~Ack
  BY <1>1, <1>6 DEF ProcessStep, Begin, Reject, Announce, CreateContainer, StartContainer,
       MarkRunning, Vanished, SeeCancel, SeeExit, SeeDeadline, Kill, Finish, Fail, Cleanup
<1>7. CASE (FailureStep /\ ~ClaimLost) \/ WorkerCrash \/ WorkerExits \/ ApiCrash
  BY <1>1, <1>7 DEF FailureStep, BodyFail, BeginFail, FailFail, CleanupFail,
         CleanupRefused, WorkerCrash,
       WorkerExits, ApiCrash
<1>8. ASSUME NEW j \in Jobs, ProgramExits(j)
      PROVE  UNCHANGED processing
  BY <1>8 DEF ProgramExits
<1> QED
  BY <1>1, <1>2, <1>3, <1>4, <1>5, <1>6, <1>7, <1>8 DEF Next

(* How a status changes: who writes what.                                  *)
LEMMA RowStep ==
    ASSUME IInv, Next, NEW k \in Jobs, row'[k] # row[k]
    PROVE  \/ Create(k) \/ Undo(k) \/ CommitCancel(k) \/ RecoverStarted(k)
           \/ k = job /\ (Begin \/ MarkRunning \/ Finish \/ Fail)
<1> USE DEF dbVars, redisVars, apiVars, workerVars, dockerVars, history
<1>1. ASSUME NEW j \in Jobs, Create(j) \/ CreateStep(j) \/ Cancel(j) \/ CancelStep(j)
      PROVE  Create(k) \/ Undo(k) \/ CommitCancel(k)
  BY <1>1 DEF Create, CreateStep, Enqueue, EnqueueFail, Undo, CreateFail, Cancel,
     CancelStep, Signal, SignalFail, CommitCancel, CommitCancelFail, SetRow, IInv, TypeOK
<1>2. CASE RecoveryStep
  BY <1>2 DEF RecoveryStep, Start, Requeue, Report, Forget, Recovered, RecoverQueued,
              RecoverStarted, RecoverSettled, SetRow, IInv, TypeOK
<1>3. CASE ProcessStep
  BY <1>3 DEF ProcessStep, Claim, Begin, Reject, Announce, CreateContainer, StartContainer,
       MarkRunning, Vanished, SeeCancel, SeeExit, SeeDeadline, Kill, Finish, Fail, Cleanup,
       Ack, SetRow, IInv, TypeOK
<1>4. CASE FailureStep \/ WorkerCrash \/ WorkerExits \/ ApiCrash
  BY <1>4 DEF FailureStep, ClaimLost, BodyFail, BeginFail, FailFail, CleanupFail,
         CleanupRefused, WorkerCrash,
       WorkerExits, ApiCrash
<1>5. \A j \in Jobs : ~ProgramExits(j)
  BY DEF ProgramExits
<1> QED
  BY <1>1, <1>2, <1>3, <1>4, <1>5 DEF Next

(* A row becomes QUEUED when it is created, and not again.                 *)
LEMMA BecomesQueued ==
    ASSUME IInv, Next, NEW k \in Jobs, row'[k] = "QUEUED", row[k] # "QUEUED"
    PROVE  create'[k] = "enqueue"
<1>1. CASE Create(k)
  BY <1>1 DEF Create, SetCreate, IInv, TypeOK
<1>2. CASE Undo(k) \/ CommitCancel(k) \/ RecoverStarted(k)
  BY <1>2 DEF Undo, CommitCancel, RecoverStarted, SetRow, IInv, TypeOK
<1>3. CASE k = job /\ (Begin \/ MarkRunning)
  BY <1>3 DEF Begin, MarkRunning, SetRow, IInv, TypeOK
<1>4. CASE k = job /\ (Finish \/ Fail)
  BY <1>4 DEF Finish, Fail, Settled, SetRow, IInv, TypeOK, Terminal
<1> QED BY <1>1, <1>2, <1>3, <1>4, RowStep

LEMMA QueuedStep ==
    ASSUME IInv, KeptInv, Next
    PROVE  QueuedKept'
<1> SUFFICES ASSUME NEW k \in Jobs, row'[k] = "QUEUED"
             PROVE  Waiting(k)' \/ processing'[k] > 0
  BY DEF QueuedKept
<1>1. CASE row[k] # "QUEUED"
  BY <1>1, BecomesQueued DEF Waiting
<1>2. CASE Waiting(k)
  BY <1>2, WaitingStep
<1>3. CASE row[k] = "QUEUED" /\ ~Waiting(k)
  <2>1. processing[k] > 0
    BY <1>3 DEF KeptInv, QueuedKept
  <2>2. ~(k = job /\ (Forget \/ Ack))
    BY <1>3 DEF KeptInv, WorkerKeeps, Forget, Ack
  <2> QED BY <2>1, <2>2, EntryStep
<1> QED BY <1>1, <1>2, <1>3

(* A status that is past QUEUED stays so.                                  *)
LEMMA LeavesQueueForGood ==
    ASSUME IInv, Next, NEW k \in Jobs, row[k] \notin {"none", "QUEUED"}
    PROVE  row'[k] \notin {"none", "QUEUED"}
<1>1. CASE row'[k] = row[k]
  BY <1>1
<1>2. CASE Create(k)
  BY <1>2 DEF Create, IInv, RowsSound
<1>3. CASE Undo(k) \/ CommitCancel(k) \/ RecoverStarted(k)
  BY <1>3 DEF Undo, CommitCancel, RecoverStarted, SetRow, IInv, TypeOK
<1>4. CASE k = job /\ (Begin \/ MarkRunning)
  BY <1>4 DEF Begin, MarkRunning, SetRow, IInv, TypeOK
<1>5. CASE k = job /\ (Finish \/ Fail)
  BY <1>5 DEF Finish, Fail, Settled, SetRow, IInv, TypeOK, Terminal
<1> QED BY <1>1, <1>2, <1>3, <1>4, <1>5, RowStep

(* The steps of everybody but the worker.                                  *)
OutsideStep ==
    \/ \E j \in Jobs : Create(j) \/ CreateStep(j) \/ Cancel(j) \/ CancelStep(j)
    \/ ApiCrash
    \/ \E j \in Jobs : ProgramExits(j)

LEMMA OutsideLeavesWorker ==
    ASSUME OutsideStep
    PROVE  UNCHANGED workerVars
BY DEF OutsideStep, Create, CreateStep, Enqueue, EnqueueFail, Undo, CreateFail, Cancel,
       CancelStep, Signal, SignalFail, CommitCancel, CommitCancelFail, ApiCrash, ProgramExits,
       workerVars

(* (MarkRunning and Begin are the worker's.)                               *)
LEMMA StartedStays ==
    ASSUME IInv, Next, OutsideStep, NEW k \in Jobs, row[k] \in {"STARTING", "gone"}
    PROVE  row'[k] \in {"STARTING", "gone"}
<1>1. CASE row'[k] = row[k]
  BY <1>1
<1>2. CASE Create(k) \/ CommitCancel(k)
  BY <1>2 DEF Create, CommitCancel, IInv, RowsSound
<1>3. CASE Undo(k)
  BY <1>3 DEF Undo, SetRow, IInv, TypeOK
<1>4. UNCHANGED wpc
  BY OutsideLeavesWorker DEF workerVars
<1>5. ~RecoverStarted(k) /\ ~Begin /\ ~MarkRunning /\ ~Finish /\ ~Fail
  BY <1>4 DEF RecoverStarted, Begin, MarkRunning, Finish, Fail
<1> QED BY <1>1, <1>2, <1>3, <1>5, RowStep

LEMMA WorkerKeepsOutside ==
    ASSUME IInv, KeptInv, Next, OutsideStep
    PROVE  WorkerKeeps'
<1> USE DEF IdlePcs, RecoveryPcs, ProcessPcs
<1>1. wpc' = wpc /\ job' = job
  BY OutsideLeavesWorker DEF workerVars
<1>2. wpc \notin IdlePcs => job \in Jobs
  BY DEF IInv, TypeOK
<1>3. ASSUME wpc' \in ProcessPcs
      PROVE  processing'[job'] > 0
  <2>1. ~(Forget \/ Ack)
    BY <1>1 DEF Forget, Ack
  <2> QED BY <1>1, <1>2, <1>3, <2>1, EntryStep DEF KeptInv, WorkerKeeps
<1>4. ASSUME wpc' \in ProcessPcs \ {"claimed", "ack"}
      PROVE  row'[job'] \notin {"none", "QUEUED"}
  BY <1>1, <1>2, <1>4, LeavesQueueForGood DEF KeptInv, WorkerKeeps
<1>5. ASSUME wpc' = "started"
      PROVE  row'[job'] \in {"STARTING", "gone"}
  BY <1>1, <1>2, <1>5, StartedStays DEF KeptInv, WorkerKeeps
<1>6. ASSUME wpc' \in {"report", "forget", "ack"}, row'[job'] = "QUEUED"
      PROVE  Waiting(job)'
  <2>1. CASE row[job] = "QUEUED"
    <3>1. Waiting(job)
      BY <1>1, <1>6, <2>1 DEF KeptInv, WorkerKeeps
    <3>2. PICK k \in Jobs : k = job
      BY <1>1, <1>2, <1>6
    <3>3. Waiting(k)'
      BY <1>1, <1>6, <3>1, <3>2, WaitingStep
    <3> QED BY <1>1, <3>2, <3>3 DEF Waiting, InQueue
  <2>2. CASE row[job] # "QUEUED"
    BY <1>1, <1>2, <1>6, <2>2, BecomesQueued DEF Waiting
  <2> QED BY <2>1, <2>2
<1> QED BY <1>3, <1>4, <1>5, <1>6 DEF WorkerKeeps

LEMMA WorkerKeepsRecovery ==
    ASSUME IInv, KeptInv, RecoveryStep
    PROVE  WorkerKeeps'
<1> USE DEF IdlePcs, RecoveryPcs, ProcessPcs, WorkerKeeps,
            dbVars, redisVars, apiVars, workerVars, dockerVars, history
<1>1. CASE Start \/ Forget \/ Recovered
  BY <1>1 DEF Start, Forget, Recovered
<1>2. ASSUME NEW j \in Jobs, RecoverQueued(j)
      PROVE  WorkerKeeps'
  BY <1>2 DEF RecoverQueued
<1>3. CASE Requeue
  <2>1. InQueue(job)'
    BY <1>3, QueueGrows DEF Requeue, IInv, TypeOK
  <2> QED BY <1>3, <2>1 DEF Requeue, Waiting, InQueue
<1>4. ASSUME NEW j \in Jobs, RecoverStarted(j) \/ RecoverSettled(j)
      PROVE  WorkerKeeps'
  <2>1. row'[j] # "QUEUED" /\ job' = j
    BY <1>4 DEF RecoverStarted, RecoverSettled, SetRow, IInv, TypeOK, Unfinished
  <2> QED BY <1>4, <2>1 DEF RecoverStarted, RecoverSettled
<1>5. CASE Report
  BY <1>5 DEF Report, KeptInv, Waiting, InQueue
<1> QED BY <1>1, <1>2, <1>3, <1>4, <1>5 DEF RecoveryStep

LEMMA WorkerKeepsProcess ==
    ASSUME IInv, KeptInv, ProcessStep
    PROVE  WorkerKeeps'
<1> USE DEF IdlePcs, RecoveryPcs, ProcessPcs, WorkerKeeps, IInv, TypeOK, KeptInv,
            dbVars, redisVars, apiVars, workerVars, dockerVars, history
<1>1. CASE Claim
  <2>1. Head(queue) \in Jobs
    BY <1>1, QueueShrinks DEF Claim, Move
  <2> QED BY <1>1, <2>1 DEF Claim, Move
<1>2. CASE Begin
  BY <1>2 DEF Begin, SetRow
<1>3. CASE Reject
  BY <1>3 DEF Reject
<1>4. CASE Announce
  BY <1>4 DEF Announce, Announced
<1>5. CASE CreateContainer
  BY <1>5 DEF CreateContainer
<1>6. CASE StartContainer
  BY <1>6 DEF StartContainer, RunsSound, Beginning
<1>7. CASE MarkRunning
  BY <1>7 DEF MarkRunning, SetRow
<1>8. CASE Vanished \/ SeeCancel \/ SeeExit \/ SeeDeadline \/ Kill
  BY <1>8 DEF Vanished, SeeCancel, SeeExit, SeeDeadline, Kill
<1>9. CASE Finish \/ Fail
  <2>1. row'[job] \notin {"none", "QUEUED"}
    BY <1>9 DEF Finish, Fail, SetRow, Settled, Terminal
  <2> QED BY <1>9, <2>1 DEF Finish, Fail
<1>10. CASE Cleanup
  BY <1>10 DEF Cleanup
<1>11. CASE Ack
  BY <1>11 DEF Ack
<1> QED BY <1>1, <1>2, <1>3, <1>4, <1>5, <1>6, <1>7, <1>8, <1>9, <1>10, <1>11 DEF ProcessStep

LEMMA WorkerKeepsFailure ==
    ASSUME IInv, KeptInv, FailureStep \/ WorkerCrash \/ WorkerExits
    PROVE  WorkerKeeps'
<1> USE DEF IdlePcs, RecoveryPcs, ProcessPcs, WorkerKeeps, IInv, TypeOK, KeptInv,
            dbVars, redisVars, apiVars, workerVars, dockerVars, history
<1>1. CASE BodyFail
  BY <1>1 DEF BodyFail, Needs
<1>2. CASE BeginFail
  BY <1>2 DEF BeginFail, Waiting
<1>3. CASE FailFail \/ CleanupFail \/ CleanupRefused
  BY <1>3 DEF FailFail, CleanupFail, CleanupRefused
<1>4. CASE ClaimLost \/ WorkerCrash \/ WorkerExits
  BY <1>4 DEF ClaimLost, Move, WorkerCrash, WorkerExits
<1> QED BY <1>1, <1>2, <1>3, <1>4 DEF FailureStep

LEMMA BegunOutside ==
    ASSUME IInv, KeptInv, Next, OutsideStep
    PROVE  BegunKept'
<1> SUFFICES ASSUME NEW k \in Jobs, row'[k] \in {"STARTING", "RUNNING"}
             PROVE  k \in raised' \/ (processing'[k] > 0 /\ Pursued(k)')
  BY DEF BegunKept
<1>1. UNCHANGED workerVars
  BY OutsideLeavesWorker
<1>2. row'[k] = row[k]
  <2>1. CASE Create(k) \/ Undo(k) \/ CommitCancel(k)
    BY <2>1 DEF Create, Undo, CommitCancel, SetRow, IInv, TypeOK
  <2>2. ~RecoverStarted(k) /\ ~Begin /\ ~MarkRunning /\ ~Finish /\ ~Fail
    BY <1>1 DEF workerVars, RecoverStarted, Begin, MarkRunning, Finish, Fail
  <2> QED BY <2>1, <2>2, RowStep
<1>3. raised \subseteq raised'
  BY DEF OutsideStep, Create, CreateStep, Enqueue, EnqueueFail, Undo, CreateFail, Cancel,
       CancelStep, Signal, SignalFail, CommitCancel, CommitCancelFail, ApiCrash, ProgramExits,
       history
<1>4. ~(Forget \/ Ack)
  BY <1>1 DEF workerVars, Forget, Ack
<1>5. processing[k] > 0 => processing'[k] > 0
  BY <1>4, EntryStep
<1>6. Pursued(k) => Pursued(k)'
  BY <1>1 DEF Pursued, workerVars
<1> QED BY <1>2, <1>3, <1>5, <1>6 DEF KeptInv, BegunKept

LEMMA BegunRecovery ==
    ASSUME IInv, KeptInv, RecoveryStep
    PROVE  BegunKept'
<1> SUFFICES ASSUME NEW k \in Jobs, row'[k] \in {"STARTING", "RUNNING"}
             PROVE  k \in raised' \/ (processing'[k] > 0 /\ Pursued(k)')
  BY DEF BegunKept
<1>1. UNCHANGED raised
  BY DEF RecoveryStep, Start, Requeue, Report, Forget, Recovered, RecoverQueued,
         RecoverStarted, RecoverSettled, history
<1>2. row'[k] = row[k]
  BY DEF RecoveryStep, Start, Requeue, Report, Forget, Recovered, RecoverQueued,
         RecoverStarted, RecoverSettled, SetRow, IInv, TypeOK, dbVars
<1>3. CASE k \in raised
  BY <1>1, <1>3
<1>4. CASE processing[k] > 0 /\ Pursued(k)
  <2> USE DEF IdlePcs, RecoveryPcs, ProcessPcs, Running, Pursued, IInv, TypeOK,
              dbVars, redisVars, apiVars, workerVars, dockerVars, history
  <2>1. CASE Start
    BY <1>4, <2>1 DEF Start
  <2>2. ASSUME NEW j \in Jobs, RecoverQueued(j) \/ RecoverStarted(j) \/ RecoverSettled(j)
        PROVE  processing'[k] > 0 /\ Pursued(k)'
    <3>1. k # j
      BY <1>2, <2>2 DEF RecoverQueued, RecoverStarted, RecoverSettled, SetRow, Unfinished
    <3> QED BY <1>4, <2>2, <3>1 DEF RecoverQueued, RecoverStarted, RecoverSettled
  <2>3. CASE Requeue \/ Report
    BY <1>4, <2>3 DEF Requeue, Report
  <2>4. CASE Forget
    <3>1. k # job
      BY <1>4, <2>4 DEF Forget
    <3> QED BY <1>4, <2>4, <3>1 DEF Forget, Remove
  <2>5. ~Recovered
    BY <1>4 DEF Recovered, NoEntries
  <2> QED BY <2>1, <2>2, <2>3, <2>4, <2>5 DEF RecoveryStep
<1> QED BY <1>2, <1>3, <1>4 DEF KeptInv, BegunKept

LEMMA BegunProcess ==
    ASSUME IInv, KeptInv, ProcessStep
    PROVE  BegunKept'
<1> SUFFICES ASSUME NEW k \in Jobs, row'[k] \in {"STARTING", "RUNNING"}
             PROVE  k \in raised' \/ (processing'[k] > 0 /\ Pursued(k)')
  BY DEF BegunKept
<1>1. UNCHANGED raised
  BY DEF ProcessStep, Claim, Begin, Reject, Announce, CreateContainer, StartContainer,
       MarkRunning, Vanished, SeeCancel, SeeExit, SeeDeadline, Kill, Finish, Fail, Cleanup, Ack,
       history
<1>2. row[k] \in {"STARTING", "RUNNING"} => k \in raised \/ (processing[k] > 0 /\ Pursued(k))
  BY DEF KeptInv, BegunKept
<1> USE DEF IdlePcs, RecoveryPcs, ProcessPcs, Running, Pursued, IInv, TypeOK,
            dbVars, redisVars, apiVars, workerVars, dockerVars, history
<1>3. CASE Claim \/ Reject \/ Cleanup \/ Ack
  BY <1>1, <1>2, <1>3 DEF Claim, Move, Reject, Cleanup, Ack
<1>4. CASE Begin
  <2>1. processing[job] > 0
    BY <1>4 DEF Begin, KeptInv, WorkerKeeps
  <2> QED BY <1>1, <1>2, <1>4, <2>1 DEF Begin, SetRow
<1>5. CASE Announce
  BY <1>1, <1>2, <1>5 DEF Announce, Announced
<1>6. CASE CreateContainer \/ StartContainer \/ SeeCancel \/ SeeExit \/ SeeDeadline \/ Kill
  BY <1>1, <1>2, <1>6 DEF CreateContainer, StartContainer, SeeCancel, SeeExit, SeeDeadline, Kill
<1>7. CASE MarkRunning
  BY <1>1, <1>2, <1>7 DEF MarkRunning, SetRow
<1>8. CASE Vanished
  <2>1. row[job] = "gone"
    BY <1>8 DEF Vanished, KeptInv, WorkerKeeps
  <2> QED BY <1>1, <1>2, <1>8, <2>1 DEF Vanished
<1>9. CASE Finish \/ Fail
  <2>1. CASE k = job
    <3>1. row'[job] \in {"STARTING", "RUNNING"} => wpc' = "fail" /\ row' = row
      BY <1>9 DEF Finish, Fail, SetRow, Settles, Settled, ValidTransition, Terminal
    <3> QED BY <1>1, <1>2, <1>9, <2>1, <3>1 DEF Finish, Fail
  <2>2. CASE k # job
    <3>1. row'[k] = row[k]
      BY <1>9, <2>2 DEF Finish, Fail, SetRow
    <3> QED BY <1>1, <1>2, <1>9, <2>2, <3>1 DEF Finish, Fail
  <2> QED BY <2>1, <2>2
<1> QED BY <1>3, <1>4, <1>5, <1>6, <1>7, <1>8, <1>9 DEF ProcessStep

LEMMA BegunFailure ==
    ASSUME IInv, KeptInv, FailureStep \/ WorkerCrash \/ WorkerExits
    PROVE  BegunKept'
<1> SUFFICES ASSUME NEW k \in Jobs, row'[k] \in {"STARTING", "RUNNING"}
             PROVE  k \in raised' \/ (processing'[k] > 0 /\ Pursued(k)')
  BY DEF BegunKept
<1>1. row'[k] = row[k] /\ raised \subseteq raised'
  BY DEF FailureStep, ClaimLost, BodyFail, BeginFail, FailFail, CleanupFail,
         CleanupRefused, WorkerCrash,
       WorkerExits, dbVars, history
<1>2. k \in raised \/ (processing[k] > 0 /\ Pursued(k))
  BY <1>1 DEF KeptInv, BegunKept
<1> USE DEF IdlePcs, RecoveryPcs, ProcessPcs, Running, Pursued, IInv, TypeOK,
            dbVars, redisVars, apiVars, workerVars, dockerVars, history
<1>3. CASE BodyFail
  BY <1>1, <1>2, <1>3 DEF BodyFail, Needs
<1>4. CASE BeginFail \/ FailFail \/ CleanupFail \/ CleanupRefused
  BY <1>1, <1>2, <1>4 DEF BeginFail, FailFail, CleanupFail, CleanupRefused
<1>5. CASE ClaimLost \/ WorkerCrash \/ WorkerExits
  BY <1>1, <1>2, <1>5 DEF ClaimLost, Move, WorkerCrash, WorkerExits
<1> QED BY <1>3, <1>4, <1>5 DEF FailureStep

LEMMA InitKept == Init => KeptInv
BY DEF Init, KeptInv, WorkerKeeps, QueuedKept, BegunKept, ProcessPcs

LEMMA NextKept == IInv /\ KeptInv /\ [Next]_vars => KeptInv'
<1> SUFFICES ASSUME IInv, KeptInv, [Next]_vars PROVE KeptInv'
  OBVIOUS
<1>1. CASE Next
  <2>1. QueuedKept'
    BY <1>1, QueuedStep
  <2>2. CASE OutsideStep
    BY <1>1, <2>1, <2>2, WorkerKeepsOutside, BegunOutside DEF KeptInv
  <2>3. CASE RecoveryStep
    BY <2>1, <2>3, WorkerKeepsRecovery, BegunRecovery DEF KeptInv
  <2>4. CASE ProcessStep
    BY <2>1, <2>4, WorkerKeepsProcess, BegunProcess DEF KeptInv
  <2>5. CASE FailureStep \/ WorkerCrash \/ WorkerExits
    BY <2>1, <2>5, WorkerKeepsFailure, BegunFailure DEF KeptInv
  <2> QED BY <1>1, <2>2, <2>3, <2>4, <2>5 DEF Next, OutsideStep
<1>2. CASE UNCHANGED vars
  BY <1>2 DEF vars, dbVars, redisVars, apiVars, workerVars, dockerVars, history, KeptInv,
       WorkerKeeps, QueuedKept, BegunKept, Pursued, Waiting, InQueue
<1> QED BY <1>1, <1>2

(* Crashes of the worker, duplicates and cancellations lose no execution:  *)
(* one without a final status is in the queue, on the processing list or   *)
(* being created, unless an error was raised in its handling or the API    *)
(* died between its commit and its RPUSH (worker.run,                      *)
(* worker._recover_processing, service.create_queued_execution).           *)
THEOREM NoExecutionIsLost == Spec => []OnlyErrorsAbandon
<1>1. Init => IInv /\ KeptInv
  BY InitIInv, InitKept
<1>2. (IInv /\ KeptInv) /\ [Next]_vars => (IInv /\ KeptInv)'
  BY NextIInv, NextKept
<1>3. KeptInv => OnlyErrorsAbandon
  BY DEF KeptInv, QueuedKept, BegunKept, Waiting, InQueue, OnlyErrorsAbandon, Held, Unfinished
<1> QED BY <1>1, <1>2, <1>3, PTL DEF Spec

=============================================================================
