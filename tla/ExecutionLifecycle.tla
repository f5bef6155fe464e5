------------------------- MODULE ExecutionLifecycle -------------------------
(***************************************************************************)
(* The life of code executions: rows in PostgreSQL, a queue, a processing  *)
(* list and cancellation keys in Redis, the API (execution/service.py) and *)
(* the one worker process (execution/worker.py) with its Docker sandboxes. *)
(* An execution that queue entries name more than once, that is cancelled, *)
(* or whose worker or API dies at any point, is run at most once and keeps *)
(* its first final status.                                                 *)
(*                                                                         *)
(* A Docker call or a transaction that raises has had no effect; a Redis   *)
(* command that raises may have been executed.  Where the worker removes a *)
(* sandbox it suppresses what Docker raises and goes on without.  Keys do  *)
(* not expire: they live a minute longer than any program.                 *)
(***************************************************************************)
EXTENDS Integers, Sequences

CONSTANTS
    Jobs,           \* identifiers of executions
    Nobody,         \* the worker has claimed none
    Faults,         \* what may fail
    MaxFaults       \* bound: how often something fails

ASSUME JobsAssumption == Nobody \notin Jobs
ASSUME FaultsAssumption ==
    /\ Faults \subseteq {"api", "worker", "redis", "docker", "database"}
    /\ MaxFaults \in Nat

VARIABLES
    row,            \* Execution.status, "none" before and "gone" after the row
    queue,          \* EXECUTION_QUEUE_KEY
    processing,     \* EXECUTION_PROCESSING_QUEUE_KEY: entries per execution
    cancelKey,      \* executions whose cancellation key is set
    create,         \* where create_queued_execution is, per execution
    cancel,         \* where cancel_execution is, per execution
    wpc,            \* where the worker is
    job,            \* the execution it is working on
    items,          \* _recover_processing: what is left of the list it read
    target,         \* process: the status to finish with
    dying,          \* an exception is on its way out of process
    container,      \* the sandbox of each execution
    runs,           \* history: how often its program was started
    refused,        \* history: whose sandbox Docker last refused to remove
    raised,         \* history: executions whose handling raised an error, or
                    \* whose API died before it queued them
    faults          \* how many failures there were

dbVars == <<row>>
redisVars == <<queue, processing, cancelKey>>
apiVars == <<create, cancel>>
workerVars == <<wpc, job, items, target, dying>>
dockerVars == <<container, runs, refused>>
history == <<raised, faults>>
vars == <<dbVars, redisVars, apiVars, workerVars, dockerVars, history>>

Terminal == {"COMPLETED", "FAILED", "TIMEOUT", "CANCELLED"}
Unfinished == {"QUEUED", "STARTING", "RUNNING"}

(* models.VALID_TRANSITIONS *)
ValidTransition(from, to) ==
    \/ from = "QUEUED" /\ to \in {"STARTING", "CANCELLED"}
    \/ from = "STARTING" /\ to \in {"RUNNING", "FAILED"}
    \/ from = "RUNNING" /\ to \in Terminal

IdlePcs == {"down", "recover", "wait", "exiting"}
RecoveryPcs == {"requeue", "report", "forget"}
ProcessPcs == {"claimed", "announceStart", "create", "start", "started",
               "announceRun", "monitor", "kill", "finish", "announceEnd",
               "fail", "announceFail", "cleanup", "ack"}

TypeOK ==
    /\ row \in [Jobs -> {"none", "gone"} \cup Unfinished \cup Terminal]
    /\ queue \in Seq(Jobs)
    /\ processing \in [Jobs -> Nat]
    /\ cancelKey \subseteq Jobs
    /\ create \in [Jobs -> {"new", "enqueue", "undo", "done"}]
    /\ cancel \in [Jobs -> {"idle", "signal", "commit"}]
    /\ wpc \in IdlePcs \cup RecoveryPcs \cup ProcessPcs
    /\ job \in IF wpc \in IdlePcs THEN {Nobody} ELSE Jobs
    /\ items \in [Jobs -> Nat]
    /\ target \in Terminal
    /\ dying \in BOOLEAN
    /\ container \in [Jobs -> {"none", "created", "running", "exited"}]
    /\ runs \in [Jobs -> Nat]
    /\ refused \subseteq Jobs
    /\ raised \subseteq Jobs
    /\ faults \in 0 .. MaxFaults

NoEntries == [j \in Jobs |-> 0]

Init ==
    /\ row = [j \in Jobs |-> "none"]
    /\ queue = <<>> /\ processing = NoEntries /\ cancelKey = {}
    /\ create = [j \in Jobs |-> "new"]
    /\ cancel = [j \in Jobs |-> "idle"]
    /\ wpc = "down" /\ job = Nobody /\ items = NoEntries
    /\ target = "FAILED" /\ dying = FALSE
    /\ container = [j \in Jobs |-> "none"]
    /\ runs = [j \in Jobs |-> 0]
    /\ refused = {} /\ raised = {} /\ faults = 0

-----------------------------------------------------------------------------
(* Helpers.                                                                *)
Fault(f) == f \in Faults /\ faults < MaxFaults /\ faults' = faults + 1

(* SELECT ... FOR UPDATE waits for the other transaction on the row: a     *)
(* cancellation that is under way, or a recovery that requeues it.         *)
Locked(j) == cancel[j] # "idle" \/ (wpc = "requeue" /\ job = j)

SetRow(j, status) == row' = [row EXCEPT ![j] = status]
SetCreate(j, where) == create' = [create EXCEPT ![j] = where]
SetCancel(j, where) == cancel' = [cancel EXCEPT ![j] = where]
SetContainer(j, state) == container' = [container EXCEPT ![j] = state]
Remove(j) == processing' = [processing EXCEPT ![j] = 0]     \* LREM 0

-----------------------------------------------------------------------------
(***************************************************************************)
(* The API: service.create_queued_execution                                *)
(***************************************************************************)
(* The row is committed before Redis hears of it.                          *)
Create(j) ==
    /\ create[j] = "new"
    /\ SetRow(j, "QUEUED")
    /\ SetCreate(j, "enqueue")
    /\ UNCHANGED <<redisVars, cancel, workerVars, dockerVars, history>>

Enqueue(j) ==
    /\ create[j] = "enqueue"
    /\ queue' = Append(queue, j)
    /\ SetCreate(j, "done")
    /\ UNCHANGED <<dbVars, processing, cancelKey, cancel, workerVars, dockerVars,
                   history>>

(* RPUSH raised, perhaps after Redis executed it.                          *)
EnqueueFail(j) ==
    /\ create[j] = "enqueue"
    /\ Fault("redis")
    /\ queue' \in {queue, Append(queue, j)}
    /\ SetCreate(j, "undo")
    /\ UNCHANGED <<dbVars, processing, cancelKey, cancel, workerVars, dockerVars, raised>>

(* The row is deleted, whatever has become of it.                          *)
Undo(j) ==
    /\ create[j] = "undo"
    /\ ~Locked(j)
    /\ SetRow(j, "gone")
    /\ SetCreate(j, "done")
    /\ UNCHANGED <<redisVars, cancel, workerVars, dockerVars, history>>

(* The refresh after the commit, or the deletion, raises.                  *)
CreateFail(j) ==
    /\ create[j] \in {"enqueue", "undo"}
    /\ Fault("database")
    /\ SetCreate(j, "done")
    /\ raised' = raised \cup {j}
    /\ UNCHANGED <<dbVars, redisVars, cancel, workerVars, dockerVars>>

-----------------------------------------------------------------------------
(***************************************************************************)
(* The API: service.cancel_execution.  It locks the row to the end.        *)
(***************************************************************************)
(* An execution that is being started can be cancelled as well.            *)
Mut_Cancel(j) ==
    /\ cancel[j] = "idle"
    /\ ~Locked(j)
    /\ row[j] \in Unfinished
    /\ SetCancel(j, IF row[j] = "RUNNING" THEN "signal" ELSE "commit")
    /\ UNCHANGED <<dbVars, redisVars, create, workerVars, dockerVars, history>>

(* Only QUEUED and RUNNING can be cancelled; others get a 404 or 409.      *)
Cancel(j) ==
    /\ cancel[j] = "idle"
    /\ ~Locked(j)
    /\ row[j] \in {"QUEUED", "RUNNING"}
    /\ SetCancel(j, IF row[j] = "RUNNING" THEN "signal" ELSE "commit")
    /\ UNCHANGED <<dbVars, redisVars, create, workerVars, dockerVars, history>>

Signal(j) ==
    /\ cancel[j] = "signal"
    /\ cancelKey' = cancelKey \cup {j}
    /\ SetCancel(j, "commit")
    /\ UNCHANGED <<dbVars, queue, processing, create, workerVars, dockerVars, history>>

(* 503, although the key may have been set.                                *)
SignalFail(j) ==
    /\ cancel[j] = "signal"
    /\ Fault("redis")
    /\ cancelKey' \in {cancelKey, cancelKey \cup {j}}
    /\ SetCancel(j, "idle")
    /\ UNCHANGED <<dbVars, queue, processing, create, workerVars, dockerVars, raised>>

CommitCancel(j) ==
    /\ cancel[j] = "commit"
    /\ SetRow(j, "CANCELLED")
    /\ SetCancel(j, "idle")
    /\ UNCHANGED <<redisVars, create, workerVars, dockerVars, history>>

CommitCancelFail(j) ==
    /\ cancel[j] = "commit"
    /\ Fault("database")
    /\ SetCancel(j, "idle")
    /\ UNCHANGED <<dbVars, redisVars, create, workerVars, dockerVars, raised>>

(* The API dies: open transactions are rolled back.                        *)
ApiCrash ==
    /\ Fault("api")
    /\ create' = [j \in Jobs |-> IF create[j] = "new" THEN "new" ELSE "done"]
    /\ cancel' = [j \in Jobs |-> "idle"]
    /\ raised' = raised \cup {j \in Jobs : create[j] \in {"enqueue", "undo"}}
    /\ UNCHANGED <<dbVars, redisVars, workerVars, dockerVars>>

-----------------------------------------------------------------------------
(***************************************************************************)
(* The worker's start: _cleanup_orphans and _recover_processing, which     *)
(* takes the entries it read one by one (here in any order).  Whatever     *)
(* raises here ends the process: that is WorkerCrash.                      *)
(***************************************************************************)
(* Sandboxes of an earlier process are left alone.                         *)
Mut_Start ==
    /\ wpc = "down"
    /\ wpc' = "recover"
    /\ items' = processing
    /\ UNCHANGED <<dbVars, redisVars, apiVars, job, target, dying, dockerVars, history>>

(* Those that Docker does not remove are left behind without a word.       *)
Start ==
    /\ wpc = "down"
    /\ wpc' = "recover"
    /\ items' = processing
    /\ \E left \in SUBSET {j \in Jobs : container[j] # "none"} :
        /\ IF left = {} THEN UNCHANGED faults ELSE Fault("docker")
        /\ container' = [j \in Jobs |-> IF j \in left THEN container[j] ELSE "none"]
        /\ refused' = left
    /\ UNCHANGED <<dbVars, redisVars, apiVars, job, target, dying, runs, raised>>

(* The row is locked until the identifier is in the queue again.           *)
RecoverQueued(j) ==
    /\ wpc = "recover" /\ items[j] > 0
    /\ ~Locked(j)
    /\ row[j] = "QUEUED"
    /\ job' = j
    /\ wpc' = "requeue"
    /\ UNCHANGED <<dbVars, redisVars, apiVars, items, target, dying, dockerVars, history>>

Requeue ==
    /\ wpc = "requeue"
    /\ queue' = Append(queue, job)
    /\ wpc' = "forget"
    /\ UNCHANGED <<dbVars, processing, cancelKey, apiVars, job, items, target,
                   dying, dockerVars, history>>

(* Interrupted executions are only taken off the list.                     *)
Mut_RecoverStarted(j) ==
    /\ wpc = "recover" /\ items[j] > 0
    /\ ~Locked(j)
    /\ row[j] \in {"STARTING", "RUNNING"}
    /\ job' = j
    /\ wpc' = "report"
    /\ UNCHANGED <<dbVars, redisVars, apiVars, items, target, dying, dockerVars, history>>

RecoverStarted(j) ==
    /\ wpc = "recover" /\ items[j] > 0
    /\ ~Locked(j)
    /\ row[j] \in {"STARTING", "RUNNING"}
    /\ SetRow(j, "FAILED")
    /\ job' = j
    /\ wpc' = "report"
    /\ UNCHANGED <<redisVars, apiVars, items, target, dying, dockerVars, history>>

(* A final status, or no row; a failure is published again.                *)
RecoverSettled(j) ==
    /\ wpc = "recover" /\ items[j] > 0
    /\ ~Locked(j)
    /\ row[j] \notin Unfinished
    /\ job' = j
    /\ wpc' = IF row[j] = "FAILED" THEN "report" ELSE "forget"
    /\ UNCHANGED <<dbVars, redisVars, apiVars, items, target, dying, dockerVars, history>>

Report ==
    /\ wpc = "report"
    /\ wpc' = "forget"
    /\ UNCHANGED <<dbVars, redisVars, apiVars, job, items, target, dying,
                   dockerVars, history>>

Forget ==
    /\ wpc = "forget"
    /\ Remove(job)
    /\ items' = [items EXCEPT ![job] = @ - 1]
    /\ wpc' = "recover" /\ job' = Nobody
    /\ UNCHANGED <<dbVars, queue, cancelKey, apiVars, target, dying, dockerVars, history>>

Recovered ==
    /\ wpc = "recover" /\ items = NoEntries
    /\ wpc' = "wait"
    /\ UNCHANGED <<dbVars, redisVars, apiVars, job, items, target, dying,
                   dockerVars, history>>

-----------------------------------------------------------------------------
(***************************************************************************)
(* The worker's loop: run, process                                         *)
(***************************************************************************)
Move ==
    /\ wpc = "wait" /\ queue # <<>>
    /\ queue' = Tail(queue)
    /\ processing' = [processing EXCEPT ![Head(queue)] = @ + 1]

(* The identifier is taken off the queue and kept nowhere.                 *)
Mut_Claim ==
    /\ wpc = "wait" /\ queue # <<>>
    /\ queue' = Tail(queue)
    /\ wpc' = "claimed" /\ job' = Head(queue)
    /\ UNCHANGED <<dbVars, processing, cancelKey, apiVars, items, target, dying,
                   dockerVars, history>>

Claim ==
    /\ Move
    /\ wpc' = "claimed" /\ job' = Head(queue)
    /\ UNCHANGED <<dbVars, cancelKey, apiVars, items, target, dying, dockerVars, history>>

(* BLMOVE was executed, its reply lost: the worker asks for the next one.  *)
ClaimLost ==
    /\ Move
    /\ Fault("redis")
    /\ raised' = raised \cup {Head(queue)}
    /\ UNCHANGED <<dbVars, cancelKey, apiVars, workerVars, dockerVars>>

(* Whatever the status is, the execution begins.                           *)
Mut_Begin ==
    /\ wpc = "claimed"
    /\ ~Locked(job)
    /\ row[job] # "gone"
    /\ SetRow(job, "STARTING")
    /\ wpc' = "announceStart"
    /\ UNCHANGED <<redisVars, apiVars, job, items, target, dying, dockerVars, history>>

Begin ==
    /\ wpc = "claimed"
    /\ ~Locked(job)
    /\ row[job] = "QUEUED"
    /\ SetRow(job, "STARTING")
    /\ wpc' = "announceStart"
    /\ UNCHANGED <<redisVars, apiVars, job, items, target, dying, dockerVars, history>>

(* No longer QUEUED: a duplicate, or cancelled, or deleted.                *)
Reject ==
    /\ wpc = "claimed"
    /\ ~Locked(job)
    /\ row[job] # "QUEUED"
    /\ wpc' = "ack"
    /\ UNCHANGED <<dbVars, redisVars, apiVars, job, items, target, dying,
                   dockerVars, history>>

(* Events are published, with no effect on this state.                     *)
Announced == [announceStart |-> "create", announceRun |-> "monitor",
              announceEnd |-> "cleanup", announceFail |-> "cleanup"]
Announce ==
    /\ wpc \in DOMAIN Announced
    /\ wpc' = Announced[wpc]
    /\ UNCHANGED <<dbVars, redisVars, apiVars, job, items, target, dying,
                   dockerVars, history>>

CreateContainer ==
    /\ wpc = "create"
    /\ SetContainer(job, "created")
    /\ wpc' = "start"
    /\ UNCHANGED <<dbVars, redisVars, apiVars, job, items, target, dying, runs, refused,
                   history>>

StartContainer ==
    /\ wpc = "start"
    /\ SetContainer(job, "running")
    /\ runs' = [runs EXCEPT ![job] = @ + 1]
    /\ wpc' = "started"
    /\ UNCHANGED <<dbVars, redisVars, apiVars, job, items, target, dying, refused,
                   history>>

MarkRunning ==
    /\ wpc = "started"
    /\ ~Locked(job)
    /\ row[job] = "STARTING"
    /\ SetRow(job, "RUNNING")
    /\ wpc' = "announceRun"
    /\ UNCHANGED <<redisVars, apiVars, job, items, target, dying, dockerVars, history>>

(* The row has been deleted meanwhile: the program is killed, which raises *)
(* if it has ended by itself.                                              *)
Vanished ==
    /\ wpc = "started"
    /\ ~Locked(job)
    /\ row[job] # "STARTING"
    /\ SetContainer(job, "exited")
    /\ wpc' = IF container[job] = "running" THEN "cleanup" ELSE "fail"
    /\ UNCHANGED <<dbVars, redisVars, apiVars, job, items, target, dying, runs, refused,
                   history>>

(* _monitor: the key, then the program, then the deadline.  Each was read  *)
(* before the worker acts on it.                                           *)
SeeCancel ==
    /\ wpc = "monitor"
    /\ job \in cancelKey
    /\ target' = "CANCELLED"
    /\ wpc' = "kill"
    /\ UNCHANGED <<dbVars, redisVars, apiVars, job, items, dying, dockerVars, history>>

SeeExit ==
    /\ wpc = "monitor"
    /\ container[job] = "exited"
    /\ target' \in {"COMPLETED", "FAILED"}
    /\ wpc' = "finish"
    /\ UNCHANGED <<dbVars, redisVars, apiVars, job, items, dying, dockerVars, history>>

SeeDeadline ==
    /\ wpc = "monitor"
    /\ container[job] = "running"
    /\ target' = "TIMEOUT"
    /\ wpc' = "kill"
    /\ UNCHANGED <<dbVars, redisVars, apiVars, job, items, dying, dockerVars, history>>

(* kill raises when the program has just ended.                            *)
Kill ==
    /\ wpc = "kill"
    /\ SetContainer(job, "exited")
    /\ wpc' = IF container[job] = "running" THEN "finish" ELSE "fail"
    /\ UNCHANGED <<dbVars, redisVars, apiVars, job, items, target, dying, runs, refused,
                   history>>

(* The result replaces whatever status there is.                           *)
Mut_Settles(status) == row[job] # "gone"

(* _finish: a cancellation stands, a deleted row is ignored, anything else *)
(* must be a valid transition or raises.                                   *)
Settles(status) == row[job] = "CANCELLED" \/ ValidTransition(row[job], status)

(* What the row's status becomes then.                                     *)
Settled(status) == IF row[job] = "CANCELLED" THEN "CANCELLED" ELSE status

Finish ==
    /\ wpc = "finish"
    /\ ~Locked(job)
    /\ IF Settles(target) THEN SetRow(job, Settled(target)) ELSE UNCHANGED row
    /\ wpc' = CASE Settles(target) -> "announceEnd"
                [] row[job] = "gone" -> "cleanup"
                [] OTHER -> "fail"
    /\ UNCHANGED <<redisVars, apiVars, job, items, target, dying, dockerVars, history>>

(* The except clause.  An invalid transition escapes from it.              *)
Fail ==
    /\ wpc = "fail"
    /\ ~Locked(job)
    /\ IF Settles("FAILED") THEN SetRow(job, Settled("FAILED")) ELSE UNCHANGED row
    /\ wpc' = IF Settles("FAILED") THEN "announceFail" ELSE "cleanup"
    /\ dying' = (~Settles("FAILED") /\ row[job] # "gone")
    /\ UNCHANGED <<redisVars, apiVars, job, items, target, dockerVars, history>>

(* The finally clause: the key, then the sandbox.                          *)
Cleanup ==
    /\ wpc = "cleanup"
    /\ cancelKey' = cancelKey \ {job}
    /\ SetContainer(job, "none")
    /\ wpc' = "ack"
    /\ UNCHANGED <<dbVars, queue, processing, apiVars, job, items, target, dying,
                   runs, refused, history>>

(* run's finally clause.  An exception ends the process, which is          *)
(* restarted, but not before the thread that reads the sandbox's output    *)
(* has ended.  If there is one it may wait for a sandbox that was left in  *)
(* place, or for a slot in a full queue (OutputStream).                    *)
Ack ==
    /\ wpc = "ack"
    /\ Remove(job)
    /\ \/ ~dying /\ wpc' = "wait"
       \/ dying /\ wpc' = "down"
       \/ dying /\ (runs[job] > 0 \/ container[job] # "none") /\ wpc' = "exiting"
    /\ job' = Nobody /\ dying' = FALSE
    /\ UNCHANGED <<dbVars, queue, cancelKey, apiVars, items, target, dockerVars, history>>

(* The thread has ended after all.                                         *)
WorkerExits ==
    /\ wpc = "exiting"
    /\ wpc' = "down"
    /\ UNCHANGED <<dbVars, redisVars, apiVars, job, items, target, dying,
                   dockerVars, history>>

-----------------------------------------------------------------------------
(***************************************************************************)
(* Failures of the worker's calls                                          *)
(***************************************************************************)
(* What each call of the body of process needs, and hence what makes it    *)
(* raise into the except clause.                                           *)
Needs == [create |-> {"docker"}, start |-> {"docker"},
          started |-> {"database", "docker"}, announceRun |-> {"redis"},
          monitor |-> {"redis", "docker"}, kill |-> {"docker"},
          finish |-> {"database", "docker", "redis"}, announceEnd |-> {"redis"}]
BodyFail ==
    /\ wpc \in DOMAIN Needs
    /\ \E f \in Needs[wpc] : Fault(f)
    /\ wpc' = "fail"
    /\ UNCHANGED <<dbVars, redisVars, apiVars, job, items, target, dying,
                   dockerVars, raised>>

(* Before the try, an exception leaves process at once ...                 *)
BeginFail ==
    /\ \/ wpc = "claimed" /\ Fault("database")
       \/ wpc = "announceStart" /\ Fault("redis")
    /\ wpc' = "ack" /\ dying' = TRUE
    /\ raised' = raised \cup {job}
    /\ UNCHANGED <<dbVars, redisVars, apiVars, job, items, target, dockerVars>>

(* ... in the except clause, after the finally clause ...                  *)
FailFail ==
    /\ \/ wpc = "fail" /\ Fault("database")
       \/ wpc = "announceFail" /\ Fault("redis")
    /\ wpc' = "cleanup" /\ dying' = TRUE
    /\ raised' = raised \cup {job}
    /\ UNCHANGED <<dbVars, redisVars, apiVars, job, items, target, dockerVars>>

(* ... and in the finally clause, without removing the sandbox.            *)
CleanupFail ==
    /\ wpc = "cleanup"
    /\ Fault("redis")
    /\ cancelKey' \in {cancelKey, cancelKey \ {job}}
    /\ wpc' = "ack" /\ dying' = TRUE
    /\ UNCHANGED <<dbVars, queue, processing, apiVars, job, items, target,
                   dockerVars, raised>>

(* Docker refuses to remove the sandbox, and perhaps to kill it before.    *)
(* Both are suppressed: the worker goes on.                                *)
CleanupRefused ==
    /\ wpc = "cleanup"
    /\ container[job] # "none"
    /\ Fault("docker")
    /\ cancelKey' = cancelKey \ {job}
    /\ \/ UNCHANGED container
       \/ container[job] = "running" /\ SetContainer(job, "exited")
    /\ refused' = refused \cup {job}
    /\ wpc' = "ack"
    /\ UNCHANGED <<dbVars, queue, processing, apiVars, job, items, target, dying, runs,
                   raised>>

(* The worker dies; its sandboxes live on.                                 *)
WorkerCrash ==
    /\ wpc # "down"
    /\ Fault("worker")
    /\ wpc' = "down" /\ job' = Nobody /\ items' = NoEntries /\ dying' = FALSE
    /\ UNCHANGED <<dbVars, redisVars, apiVars, target, dockerVars, raised>>

(* A program ends by itself.                                               *)
ProgramExits(j) ==
    /\ container[j] = "running"
    /\ SetContainer(j, "exited")
    /\ UNCHANGED <<dbVars, redisVars, apiVars, workerVars, runs, refused, history>>

-----------------------------------------------------------------------------
CreateStep(j) == Enqueue(j) \/ EnqueueFail(j) \/ Undo(j) \/ CreateFail(j)
CancelStep(j) ==
    Signal(j) \/ SignalFail(j) \/ CommitCancel(j) \/ CommitCancelFail(j)

RecoveryStep ==
    \/ Start \/ Requeue \/ Report \/ Forget \/ Recovered
    \/ \E j \in Jobs : RecoverQueued(j) \/ RecoverStarted(j) \/ RecoverSettled(j)

ProcessStep ==
    \/ Claim \/ Begin \/ Reject \/ Announce
    \/ CreateContainer \/ StartContainer \/ MarkRunning \/ Vanished
    \/ SeeCancel \/ SeeExit \/ SeeDeadline \/ Kill
    \/ Finish \/ Fail \/ Cleanup \/ Ack

FailureStep ==
    BodyFail \/ BeginFail \/ FailFail \/ CleanupFail \/ CleanupRefused \/ ClaimLost

Next ==
    \/ \E j \in Jobs : Create(j) \/ CreateStep(j) \/ Cancel(j) \/ CancelStep(j)
    \/ ApiCrash
    \/ RecoveryStep \/ ProcessStep \/ FailureStep \/ WorkerCrash \/ WorkerExits
    \/ \E j \in Jobs : ProgramExits(j)

Spec == Init /\ [][Next]_vars

(* Requests and the worker go on; the worker is restarted (docker-compose: *)
(* restart: unless-stopped).  Programs need not end, nothing need be       *)
(* created or cancelled or fail; MaxFaults says that failures end.         *)
FairSpec ==
    /\ Spec
    /\ \A j \in Jobs : WF_vars(CreateStep(j)) /\ WF_vars(CancelStep(j))
    /\ WF_vars(RecoveryStep \/ ProcessStep)

-----------------------------------------------------------------------------
(***************************************************************************)
(* Properties                                                              *)
(***************************************************************************)
Held(j) == (\E i \in DOMAIN queue : queue[i] = j) \/ processing[j] > 0

(* A program is started at most once, although its identifier can be       *)
(* queued several times and be claimed by several worker processes         *)
(* (worker._transition, worker._recover_processing).                       *)
RunsAtMostOnce == \A j \in Jobs : runs[j] <= 1

(* The worker's sandboxes are those of the execution it works on and those *)
(* that Docker refused to remove: whatever else failed, one left by a dead *)
(* worker or by an exception is gone before the next execution is claimed  *)
(* (worker._cleanup_orphans, worker.process).                              *)
SandboxOfJob ==
    wpc \notin {"down", "exiting"} =>
        \A j \in Jobs : container[j] # "none" => j = job \/ j \in refused

(* An execution without a final status is in one of the lists or being     *)
(* created, unless an error was raised in its handling or the API died     *)
(* between its commit and its RPUSH: crashes of the worker, later crashes  *)
(* of the API and duplicates lose none (worker.run, _recover_processing,   *)
(* service.create_queued_execution).                                       *)
OnlyErrorsAbandon ==
    \A j \in Jobs : row[j] \in Unfinished =>
        Held(j) \/ create[j] \in {"enqueue", "undo"} \/ j \in raised

(* A final status is never replaced (models.transition_to, worker._finish).*)
TerminalIsFinal ==
    [][\A j \in Jobs : row[j] \in Terminal => row'[j] \in {row[j], "gone"}]_vars

(* The program of a cancelled or otherwise finished execution is never     *)
(* started (service.cancel_execution, worker.process).                     *)
FinishedNeverStarts ==
    [][\A j \in Jobs : runs'[j] # runs[j] => row[j] \notin Terminal]_vars

(* The program of an execution with a final status stops, whoever gave it  *)
(* that status and whichever process died, unless Docker refused to remove *)
(* its sandbox, which the worker does not try again before it restarts, or *)
(* the worker hangs in its exit (worker._monitor, process,                 *)
(* _cleanup_orphans).                                                      *)
FinishedStops ==
    \A j \in Jobs :
        row[j] \in Terminal ~>
            container[j] # "running" \/ j \in refused \/ wpc = "exiting"

(* Every execution gets a final status, or is deleted, unless an error was *)
(* raised in its handling, the API died before it queued it, or the worker *)
(* hangs in its exit (worker.run, worker._recover_processing).             *)
EveryJobEnds ==
    \A j \in Jobs :
        row[j] \in Unfinished ~>
            row[j] \notin Unfinished \/ j \in raised \/ wpc = "exiting"

(* An execution that a worker has begun is on the processing list, where   *)
(* recovery finds it ("Reconcile jobs claimed by a worker that stopped     *)
(* before acknowledgement", worker._recover_processing).                   *)
ClaimIsHeld ==
    \A j \in Jobs : row[j] \in {"STARTING", "RUNNING"} => processing[j] > 0

=============================================================================
