---------------------------- MODULE OutputStream ----------------------------
(***************************************************************************)
(* The output of ONE execution on its way out of the worker: a thread that *)
(* reads the sandbox's output, the bounded queue between it and the event  *)
(* loop, the task that publishes what the queue delivers                   *)
(* (worker._stream_output), and the part of worker.process that waits for  *)
(* that task, stores the result and cleans up.                             *)
(*                                                                         *)
(* A Redis command that raises may have been executed, a Docker call that  *)
(* raises has not.  ExecutionLifecycle has what comes before and after.    *)
(***************************************************************************)
EXTENDS OutputEvents

CONSTANTS
    QueueSize,      \* maxsize of the queue
    End,            \* the None that ends the queue
    Faults          \* what may fail

ASSUME QueueAssumption ==
    /\ QueueSize \in Nat \ {0}
    /\ Faults \subseteq {"redis", "docker", "database"}

Chunk == [stream : Streams, from : Nat, to : Nat]

ASSUME EndAssumption == End \notin Chunk

VARIABLES
    container,      \* the sandbox
    written,        \* bytes the program has written, per stream
    ppc,            \* where the thread is (produce)
    taken,          \* bytes it has read, per stream
    chunk,          \* what it is putting into the queue
    queue,
    cpc,            \* where _stream_output is
    item,           \* the chunk it works on
    emitted,        \* bytes published, per stream
    truncated,      \* streams whose notice was published
    wpc,            \* where process is
    escaping,       \* an exception will leave process after its finally clause
    row,            \* Execution.status
    text,           \* what stdout and stderr of the row hold
    published       \* history: the events on the channel after STARTING

programVars == <<container, written>>
threadVars == <<ppc, taken, chunk>>
taskVars == <<cpc, item, emitted, truncated>>
processVars == <<wpc, escaping, row, text>>
streamVars == <<programVars, threadVars, queue, taskVars, processVars, published>>

Finished == {"done", "failed", "cancelled"}     \* stream_task.done()

StreamTypeOK ==
    /\ container \in {"created", "running", "exited", "removed"}
    /\ written \in [Streams -> Nat]
    /\ ppc \in {"attach", "read", "put", "last", "done"}
    /\ taken \in [Streams -> Nat]
    /\ chunk \in Chunk \cup {End}
    /\ queue \in Seq(Chunk \cup {End}) /\ Len(queue) <= QueueSize
    /\ cpc \in {"get", "publish", "notice", "join"} \cup Finished
    /\ item \in Chunk \cup {End}
    /\ emitted \in [Streams -> Nat]
    /\ truncated \subseteq Streams
    /\ wpc \in {"launch", "announceRun", "monitor", "join", "finish", "announce", "fail",
                "announceFail", "cleanup", "drain", "remove", "done", "left",
                "dying", "torn", "down"}
    /\ escaping \in BOOLEAN
    /\ row \in Rows
    /\ text \in Texts
    /\ published \in Seq(Event)

(* The sandbox exists, STARTING was published, stream_task was created.    *)
StreamInit ==
    /\ container = "created" /\ written = [s \in Streams |-> 0]
    /\ ppc = "attach" /\ taken = [s \in Streams |-> 0] /\ chunk = End
    /\ queue = <<>>
    /\ cpc = "get" /\ item = End
    /\ emitted = [s \in Streams |-> 0] /\ truncated = {}
    /\ wpc = "launch" /\ escaping = FALSE /\ row = "starting" /\ text = "null"
    /\ published = <<>>

Fault(f) == f \in Faults
Full == Len(queue) = QueueSize
Publish(e) == published' = Append(published, e)

(* PUBLISH raised, or was cancelled, perhaps after it was executed.        *)
PublishRaised(e) == published' \in {published, Append(published, e)}

-----------------------------------------------------------------------------
(***************************************************************************)
(* The program                                                             *)
(***************************************************************************)
ProgramWrites(s) ==
    /\ container = "running"
    /\ written[s] < MaxOutput[s]
    /\ written' = [written EXCEPT ![s] = @ + 1]
    /\ UNCHANGED <<container, threadVars, queue, taskVars, processVars, published>>

ProgramExits ==
    /\ container = "running"
    /\ container' = "exited"
    /\ UNCHANGED <<written, threadVars, queue, taskVars, processVars, published>>

-----------------------------------------------------------------------------
(***************************************************************************)
(* The thread: produce                                                     *)
(***************************************************************************)
ThreadGoto(where) == ppc' = where /\ UNCHANGED <<taken, chunk>>

Attach ==
    /\ ppc = "attach"
    /\ container # "removed"
    /\ ThreadGoto("read")
    /\ UNCHANGED <<programVars, queue, taskVars, processVars, published>>

(* The generator yields what one stream has, or part of it.                *)
Read(s) ==
    /\ ppc = "read"
    /\ \E to \in (taken[s] + 1) .. written[s] :
        /\ chunk' = [stream |-> s, from |-> taken[s], to |-> to]
        /\ taken' = [taken EXCEPT ![s] = to]
    /\ ppc' = "put"
    /\ UNCHANGED <<programVars, queue, taskVars, processVars, published>>

(* The sandbox has no more to say, or is gone.                             *)
EndOfOutput ==
    /\ ppc = "read"
    /\ container = "removed" \/ (container = "exited" /\ taken = written)
    /\ ThreadGoto("last")
    /\ UNCHANGED <<programVars, queue, taskVars, processVars, published>>

(* The except clause: there is no such sandbox, or Docker fails.           *)
AttachTooLate ==
    /\ ppc = "attach"
    /\ container = "removed"
    /\ ThreadGoto("last")
    /\ UNCHANGED <<programVars, queue, taskVars, processVars, published>>

ReadFail ==
    /\ ppc \in {"attach", "read"}
    /\ Fault("docker")
    /\ ThreadGoto("last")
    /\ UNCHANGED <<programVars, queue, taskVars, processVars, published>>

(* put waits in the event loop for a free slot, and the thread for put.    *)
Put ==
    /\ ppc = "put"
    /\ ~Full
    /\ queue' = Append(queue, chunk)
    /\ ThreadGoto("read")
    /\ UNCHANGED <<programVars, taskVars, processVars, published>>

PutEnd ==
    /\ ppc = "last"
    /\ ~Full
    /\ queue' = Append(queue, End)
    /\ ThreadGoto("done")
    /\ UNCHANGED <<programVars, taskVars, processVars, published>>

(* The loop of a dying worker was closed before the thread called put.     *)
PutRaises ==
    /\ ppc \in {"put", "last"}
    /\ wpc = "torn"
    /\ ~Full
    /\ ThreadGoto("done")
    /\ UNCHANGED <<programVars, queue, taskVars, processVars, published>>

-----------------------------------------------------------------------------
(***************************************************************************)
(* The task: _stream_output                                                *)
(***************************************************************************)
Remaining(c) ==
    IF emitted[c.stream] < Limit THEN Limit - emitted[c.stream] ELSE 0
Exceeds(c) == c.to - c.from > Remaining(c)
Taken(c) == IF Exceeds(c) THEN Remaining(c) ELSE c.to - c.from
Accepted(c) == Output(c.stream, c.from, c.from + Taken(c))

(* Where a chunk leads after its accepted part.                            *)
AfterAccepted(c) ==
    IF Exceeds(c) /\ c.stream \notin truncated THEN "notice" ELSE "get"

Get ==
    /\ cpc = "get"
    /\ queue # <<>>
    /\ item' = Head(queue)
    /\ queue' = Tail(queue)
    /\ cpc' = IF Head(queue) = End THEN "join"
              ELSE IF Remaining(Head(queue)) > 0 THEN "publish"
              ELSE AfterAccepted(Head(queue))
    /\ UNCHANGED <<programVars, threadVars, emitted, truncated, processVars, published>>

(* The whole chunk is published, whatever the limit.                       *)
Mut_PublishOutput ==
    /\ cpc = "publish"
    /\ emitted' = [emitted EXCEPT ![item.stream] = @ + (item.to - item.from)]
    /\ Publish(Output(item.stream, item.from, item.to))
    /\ cpc' = AfterAccepted(item)
    /\ UNCHANGED <<programVars, threadVars, queue, item, truncated, processVars>>

PublishOutput ==
    /\ cpc = "publish"
    /\ emitted' = [emitted EXCEPT ![item.stream] = @ + Taken(item)]
    /\ Publish(Accepted(item))
    /\ cpc' = AfterAccepted(item)
    /\ UNCHANGED <<programVars, threadVars, queue, item, truncated, processVars>>

PublishNotice ==
    /\ cpc = "notice"
    /\ truncated' = truncated \cup {item.stream}
    /\ Publish(Notice(item.stream))
    /\ cpc' = "get"
    /\ UNCHANGED <<programVars, threadVars, queue, item, emitted, processVars>>

(* What is being published when the task is stopped.                       *)
Pending == IF cpc = "publish" THEN Accepted(item) ELSE Notice(item.stream)

(* The exception ends the task, whose counts nobody reads any more; nobody *)
(* empties the queue either.                                               *)
PublishFail ==
    /\ cpc \in {"publish", "notice"}
    /\ Fault("redis")
    /\ PublishRaised(Pending)
    /\ cpc' = "failed"
    /\ UNCHANGED <<programVars, threadVars, queue, item, emitted, truncated, processVars>>

(* await producer: the thread is over once its None is in the queue.       *)
JoinThread ==
    /\ cpc = "join"
    /\ ppc = "done"
    /\ cpc' = "done"
    /\ UNCHANGED <<programVars, threadVars, queue, item, emitted, truncated,
                   processVars, published>>

(* The task is cancelled where it is suspended, unless it is over.         *)
CancelTask ==
    /\ cpc' = IF cpc \in Finished THEN cpc ELSE "cancelled"
    /\ IF cpc \in {"publish", "notice"} THEN PublishRaised(Pending)
                                        ELSE UNCHANGED published
    /\ UNCHANGED <<item, emitted, truncated>>

-----------------------------------------------------------------------------
(***************************************************************************)
(* worker.process, from the creation of stream_task                        *)
(***************************************************************************)
Goto(where) == wpc' = where

Launch ==
    /\ wpc = "launch"
    /\ container' = "running"
    /\ row' = "running"
    /\ Goto("announceRun")
    /\ UNCHANGED <<written, threadVars, queue, taskVars, escaping, text, published>>

(* The row as refreshed after the commit: a cancellation may follow.       *)
AnnounceRun ==
    /\ wpc = "announceRun"
    /\ \E r \in {"running", row} : Publish(Status(r, "null"))
    /\ Goto("monitor")
    /\ UNCHANGED <<programVars, threadVars, queue, taskVars, escaping, row, text>>

(* start raised, or the transition.                                        *)
LaunchFail ==
    /\ wpc = "launch"
    /\ \/ Fault("docker") /\ container' \in {"created", "running"}
       \/ Fault("database") /\ container' = "running"
    /\ Goto("fail")
    /\ UNCHANGED <<written, threadVars, queue, taskVars, escaping, row, text, published>>

(* service.cancel_execution commits while the program runs.                *)
Cancel ==
    /\ row = "running"
    /\ row' = "cancelled"
    /\ UNCHANGED <<programVars, threadVars, queue, taskVars, wpc, escaping, text,
                   published>>

(* _monitor has seen the end of the program.                               *)
SeeExit ==
    /\ wpc = "monitor"
    /\ container = "exited"
    /\ Goto("join")
    /\ UNCHANGED <<programVars, threadVars, queue, taskVars, escaping, row, text,
                   published>>

(* A cancellation or the deadline; kill raises if the program has ended.   *)
Kill ==
    /\ wpc = "monitor"
    /\ container' = "exited"
    /\ Goto(IF container = "running" THEN "join" ELSE "fail")
    /\ UNCHANGED <<written, threadVars, queue, taskVars, escaping, row, text, published>>

(* The result is stored as soon as the program has ended.                  *)
Mut_JoinTask ==
    /\ wpc = "join"
    /\ Goto("finish")
    /\ UNCHANGED <<programVars, threadVars, queue, taskVars, escaping, row, text,
                   published>>

(* await stream_task raises what the task raised.                          *)
JoinTask ==
    /\ wpc = "join"
    /\ cpc \in Finished
    /\ Goto(IF cpc = "done" THEN "finish" ELSE "fail")
    /\ UNCHANGED <<programVars, threadVars, queue, taskVars, escaping, row, text,
                   published>>

(* container.logs, then _finish: a cancellation stands.                    *)
Finish ==
    /\ wpc = "finish"
    /\ row' = IF row = "cancelled" THEN row ELSE "ended"
    /\ text' = "logs"
    /\ Goto("announce")
    /\ UNCHANGED <<programVars, threadVars, queue, taskVars, escaping, published>>

Announce ==
    /\ wpc \in {"announce", "announceFail"}
    /\ Publish(Status(row, text))
    /\ Goto("cleanup")
    /\ UNCHANGED <<programVars, threadVars, queue, taskVars, escaping, row, text>>

(* The body raises: Redis, Docker or PostgreSQL.                           *)
BodyFail ==
    /\ \/ wpc = "monitor" /\ (Fault("redis") \/ Fault("docker"))
       \/ wpc = "join" /\ Fault("docker")
       \/ wpc = "finish" /\ (Fault("docker") \/ Fault("database"))
    /\ Goto("fail")
    /\ UNCHANGED <<programVars, threadVars, queue, taskVars, escaping, row, text,
                   published>>

AnnounceRunRaises ==
    /\ wpc = "announceRun"
    /\ Fault("redis")
    /\ \E r \in {"running", row} : PublishRaised(Status(r, "null"))
    /\ Goto("fail")
    /\ UNCHANGED <<programVars, threadVars, queue, taskVars, escaping, row, text>>

(* The result is committed and cannot be published: in the body this is    *)
(* one more exception, in the except clause it escapes.                    *)
AnnounceRaises ==
    /\ wpc \in {"announce", "announceFail"}
    /\ Fault("redis")
    /\ PublishRaised(Status(row, text))
    /\ Goto(IF wpc = "announce" THEN "fail" ELSE "cleanup")
    /\ escaping' = (escaping \/ wpc = "announceFail")
    /\ UNCHANGED <<programVars, threadVars, queue, taskVars, row, text>>

(* The status is overwritten without transition_to's check.                *)
Mut_Fail ==
    /\ wpc = "fail"
    /\ row' = IF row = "cancelled" THEN row ELSE "failed"
    /\ text' = "error"
    /\ Goto("announceFail")
    /\ UNCHANGED <<programVars, threadVars, queue, taskVars, escaping, published>>

(* The except clause: _finish with FAILED, which a stored result refuses   *)
(* and a cancelled execution accepts.                                      *)
Fail ==
    /\ wpc = "fail"
    /\ IF row = "ended"
          THEN escaping' = TRUE /\ Goto("cleanup") /\ UNCHANGED <<row, text>>
          ELSE /\ row' = IF row = "cancelled" THEN row ELSE "failed"
               /\ text' = "error"
               /\ Goto("announceFail")
               /\ UNCHANGED escaping
    /\ UNCHANGED <<programVars, threadVars, queue, taskVars, published>>

FailFail ==
    /\ wpc = "fail"
    /\ Fault("database")
    /\ escaping' = TRUE
    /\ Goto("cleanup")
    /\ UNCHANGED <<programVars, threadVars, queue, taskVars, row, text, published>>

(* The sandbox is removed only when the task is not over.                  *)
Mut_Cleanup ==
    /\ wpc = "cleanup"
    /\ IF cpc \in Finished
          THEN Goto(IF escaping THEN "dying" ELSE "done") /\ UNCHANGED container
          ELSE /\ Goto("drain")
               /\ \/ container' = IF container = "running" THEN "exited" ELSE container
                  \/ Fault("docker") /\ UNCHANGED container
    /\ UNCHANGED <<written, threadVars, queue, taskVars, escaping, row, text, published>>

(* The finally clause: a task that is not over is given the chance to end  *)
(* by a kill, whose failure is ignored.                                    *)
Cleanup ==
    /\ wpc = "cleanup"
    /\ IF cpc \in Finished
          THEN Goto("remove") /\ UNCHANGED container
          ELSE /\ Goto("drain")
               /\ \/ container' = IF container = "running" THEN "exited" ELSE container
                  \/ Fault("docker") /\ UNCHANGED container
    /\ UNCHANGED <<written, threadVars, queue, taskVars, escaping, row, text, published>>

(* The deletion of the cancellation key raises before anything is cleaned. *)
CleanupFail ==
    /\ wpc = "cleanup"
    /\ Fault("redis")
    /\ Goto("dying")
    /\ UNCHANGED <<programVars, threadVars, queue, taskVars, escaping, row, text,
                   published>>

Drained ==
    /\ wpc = "drain"
    /\ cpc \in Finished
    /\ Goto("remove")
    /\ UNCHANGED <<programVars, threadVars, queue, taskVars, escaping, row, text,
                   published>>

(* The task is waited for without a limit.                                 *)
Mut_DrainTimeout ==
    /\ wpc = "drain"
    /\ cpc \in Finished
    /\ Goto("remove")
    /\ UNCHANGED <<programVars, threadVars, queue, taskVars, escaping, row, text,
                   published>>

(* wait_for gives up after five seconds.                                   *)
DrainTimeout ==
    /\ wpc = "drain"
    /\ cpc \notin Finished
    /\ CancelTask
    /\ Goto("remove")
    /\ UNCHANGED <<programVars, threadVars, queue, escaping, row, text>>

Remove ==
    /\ wpc = "remove"
    /\ container' = "removed"
    /\ Goto(IF escaping THEN "dying" ELSE "done")
    /\ UNCHANGED <<written, threadVars, queue, taskVars, escaping, row, text, published>>

(* Docker refuses the removal, which is ignored as well: process ends with *)
(* the sandbox left in place.                                              *)
RemoveRefused ==
    /\ wpc = "remove"
    /\ Fault("docker")
    /\ Goto(IF escaping THEN "dying" ELSE "left")
    /\ UNCHANGED <<programVars, threadVars, queue, taskVars, escaping, row, text,
                   published>>

(* The exception has left run: asyncio.run cancels the tasks, among them   *)
(* the put that the thread is waiting for.                                 *)
Teardown ==
    /\ wpc = "dying"
    /\ CancelTask
    /\ ThreadGoto(CASE Full /\ ppc = "put" -> "last"
                    [] Full /\ ppc = "last" -> "done"
                    [] OTHER -> ppc)
    /\ Goto("torn")
    /\ UNCHANGED <<programVars, queue, escaping, row, text>>

(* The interpreter joins the thread before the process ends.               *)
WorkerExits ==
    /\ wpc = "torn"
    /\ ppc = "done"
    /\ Goto("down")
    /\ UNCHANGED <<programVars, threadVars, queue, taskVars, escaping, row, text,
                   published>>

-----------------------------------------------------------------------------
ThreadStep ==
    \/ Attach \/ (\E s \in Streams : Read(s)) \/ EndOfOutput \/ AttachTooLate
    \/ Put \/ PutEnd

TaskStep == Get \/ PublishOutput \/ PublishNotice \/ JoinThread

ProcessStep ==
    \/ Launch \/ AnnounceRun \/ SeeExit \/ Kill \/ JoinTask \/ Finish \/ Announce
    \/ Fail \/ Cleanup \/ Drained \/ DrainTimeout \/ Remove
    \/ Teardown \/ WorkerExits

FaultStep ==
    \/ ReadFail \/ PutRaises
    \/ PublishFail
    \/ LaunchFail \/ AnnounceRunRaises \/ BodyFail \/ AnnounceRaises \/ FailFail
    \/ CleanupFail \/ RemoveRefused

StreamNext ==
    \/ \E s \in Streams : ProgramWrites(s)
    \/ ProgramExits
    \/ Cancel
    \/ ThreadStep \/ TaskStep \/ ProcessStep \/ FaultStep

StreamSpec == StreamInit /\ [][StreamNext]_streamVars

(* The thread, the task and the process go on: the calls they make return  *)
(* or raise.  The deadline of _monitor and the five seconds of wait_for    *)
(* pass.  The program need not end or write, and nothing need fail.        *)
StreamFairness ==
    WF_streamVars(ThreadStep) /\ WF_streamVars(TaskStep) /\ WF_streamVars(ProcessStep)

StreamFairSpec == StreamSpec /\ StreamFairness

-----------------------------------------------------------------------------
(***************************************************************************)
(* Properties                                                              *)
(***************************************************************************)
Live == INSTANCE LiveOutput WITH open <- cpc \notin Finished

(* To those who see only the row and the channel the worker implements     *)
(* LiveOutput: output in order, without gaps, repetitions or excess, and   *)
(* none after a stored result, whatever raises and whenever the execution  *)
(* is cancelled (worker._stream_output, process, _transition, _finish).    *)
ImplementsLiveOutput == Live!LiveSpec

(* What is published of a stream is a prefix of what the program wrote, in *)
(* order, without gaps or repetitions, within the limit, whatever happens  *)
(* to the thread, the task or Redis (worker._stream_output).               *)
LiveIsPrefix ==
    \A j \in DOMAIN published : \A s \in Streams : OutputOf(s, published[j]) =>
        LET Earlier == {i \in 1 .. (j - 1) : OutputOf(s, published[i])} IN
        /\ published[j].from < published[j].to
        /\ published[j].to <= Limit /\ published[j].to <= written[s]
        /\ published[j].from = 0 \/ \E i \in Earlier : published[i].to = published[j].from
        /\ \A i \in Earlier : published[i].to <= published[j].from

(* Before the result is stored, every chunk that the thread read has been  *)
(* published as far as the limit allows, and the notice says so if there   *)
(* was more (worker.process awaits stream_task, which awaits the thread).  *)
LiveIsComplete ==
    wpc = "finish" =>
        /\ ppc = "done" /\ queue = <<>>
        /\ \A s \in Streams :
            /\ emitted[s] = IF taken[s] <= Limit THEN taken[s] ELSE Limit
            /\ s \in truncated <=> taken[s] > Limit

(* No output follows the result on the channel, so a client may take the   *)
(* result as final (worker.process; SessionPage.handleExecutionEvent).     *)
ResultIsLast ==
    \A i, j \in DOMAIN published :
        (i < j /\ published[i].kind = "status" /\ published[i].text = "logs") =>
            published[j].kind = "status"

(* The thread waits for a free slot that nobody will make.                 *)
Stranded ==
    ppc \in {"put", "last"} /\ Full /\ cpc \in {"failed", "cancelled"}

(* However the task ends, process returns or raises (the wait for          *)
(* stream_task, the kill and the five seconds of the finally clause).      *)
ProcessReturns == wpc = "launch" ~> wpc \in {"done", "left", "torn"}

(* The thread ends after process does, unless the task failed and left a   *)
(* full queue, or the sandbox of a program that goes on is still in place  *)
(* because Docker refused its removal or a failing Redis kept the finally  *)
(* clause from it (worker._stream_output, worker.process).                 *)
ThreadEnds ==
    wpc \in {"done", "left", "torn"} ~>
        \/ ppc = "done"
        \/ Stranded
        \/ wpc \in {"left", "torn"} /\ container \in {"created", "running"}
=============================================================================
