------------------------- MODULE OutputStreamProofs -------------------------
(***************************************************************************)
(* Theorems about OutputStream, for every number of streams, limit, queue  *)
(* size and output.                                                        *)
(*                                                                         *)
(* The argument follows a byte.  It is written, read, and from then on it  *)
(* is covered by a chunk that is still under way (the thread's, one in the *)
(* queue, or the task's) or it has been dealt with: published, or beyond   *)
(* the limit of a stream whose notice is published.  The chunks under way  *)
(* are ordered and disjoint and begin where the published part ends, so    *)
(* that each chunk the task takes continues its stream.                    *)
(***************************************************************************)
EXTENDS OutputStream, SequenceTheorems, TLAPS

-----------------------------------------------------------------------------
(* The task still consumes the queue, or has consumed all of it.           *)
Flowing == cpc \notin {"failed", "cancelled"}

InQueue(s, i) == queue[i] \in Chunk /\ queue[i].stream = s
Putting(s) == ppc = "put" /\ chunk.stream = s
Working(s) == cpc \in {"publish", "notice"} /\ item.stream = s
Holds(c, b) == c.from <= b /\ b < c.to

(* Byte b of stream s is in a chunk that is under way.                     *)
Covered(s, b) ==
    \/ \E i \in DOMAIN queue : InQueue(s, i) /\ Holds(queue[i], b)
    \/ Putting(s) /\ Holds(chunk, b)
    \/ Working(s) /\ Holds(item, b)

CountsSound ==
    \A s \in Streams :
        /\ taken[s] <= written[s] /\ written[s] <= MaxOutput[s]
        /\ emitted[s] <= Limit /\ emitted[s] <= taken[s]
        /\ s \in truncated => Limit < taken[s]

(* The chunk that the thread puts is the last of its stream.               *)
ThreadSound ==
    ppc = "put" =>
        /\ chunk \in Chunk
        /\ chunk.from < chunk.to /\ chunk.to <= taken[chunk.stream]
        /\ Flowing => emitted[chunk.stream] <= chunk.from

QueueSound ==
    /\ \A s \in Streams : \A i \in DOMAIN queue : InQueue(s, i) =>
        /\ queue[i].from < queue[i].to /\ queue[i].to <= taken[s]
        /\ Flowing => emitted[s] <= queue[i].from
        /\ Putting(s) => queue[i].to <= chunk.from
        /\ \A j \in DOMAIN queue : (i < j /\ InQueue(s, j)) => queue[i].to <= queue[j].from
    /\ \A i \in DOMAIN queue : queue[i] = End => i = Len(queue) /\ ppc = "done"

(* The task's chunk is the next of its stream.                             *)
TaskSound ==
    /\ cpc \in {"publish", "notice"} =>
        /\ item \in Chunk
        /\ item.from < item.to /\ item.to <= taken[item.stream]
        /\ Putting(item.stream) => item.to <= chunk.from
        /\ \A i \in DOMAIN queue : InQueue(item.stream, i) => item.to <= queue[i].from
    /\ cpc = "publish" => item.from = emitted[item.stream] /\ item.from < Limit
    /\ cpc = "notice" =>
        /\ emitted[item.stream] = Limit /\ Limit < item.to
        /\ item.stream \notin truncated
    /\ cpc \in {"join", "done"} => queue = <<>> /\ ppc = "done"

(* No byte gets lost before the task fails or is cancelled.                *)
NothingLost ==
    Flowing => \A s \in Streams : \A b \in Nat :
        (emitted[s] <= b /\ b < taken[s]) =>
            Covered(s, b) \/ (Limit <= b /\ s \in truncated)

PipeSound == CountsSound /\ ThreadSound /\ QueueSound /\ TaskSound /\ NothingLost

(* What has been published of the output.                                  *)
ChannelSound ==
    cpc \notin Finished => \A s \in Streams :
        /\ PublishedUpTo(published, s, emitted[s])
        /\ s \notin truncated => \A i \in DOMAIN published : published[i] # Notice(s)

Told(x) == \E i \in DOMAIN published : published[i].kind = "status" /\ published[i].text = x
ToldAny == \E i \in DOMAIN published : published[i].kind = "status"

(* Where process is tells what the row and the channel say.                *)
ProcessSound ==
    /\ text = "null" => ~Told("logs") /\ ~Told("error")
    /\ wpc = "launch" => row = "starting"
    /\ wpc \in {"launch", "announceRun"} => text = "null" /\ ~ToldAny
    /\ wpc \in {"announceRun", "monitor", "join", "finish"} =>
           row \in {"running", "cancelled"} /\ text = "null"
    /\ wpc \in {"finish", "announce"} => cpc = "done"
    /\ wpc = "announce" => text = "logs" /\ ~Told("logs") /\ ~Told("error")
    /\ wpc = "fail" => ~Told("error") /\ row # "failed"
    /\ wpc = "announceFail" => text = "error" /\ ~Told("error")
    /\ wpc = "announceFail" => row \in {"cancelled", "failed"}
    /\ wpc = "announce" => row \in {"cancelled", "ended"}
    /\ text = "logs" \/ Told("logs") => cpc \in Finished
    /\ wpc = "torn" => cpc \in Finished
    /\ row = "queued" => FALSE

(* The inductive invariant.                                                *)
IInv ==
    /\ StreamTypeOK
    /\ PipeSound
    /\ ChannelSound
    /\ ProcessSound
    /\ LiveIsPrefix
    /\ ResultIsLast

-----------------------------------------------------------------------------
(***************************************************************************)
(* Sequences and types                                                     *)
(***************************************************************************)

(* What Append does, in the terms of the properties.                       *)
LEMMA AppendFacts ==
    ASSUME NEW S, NEW q \in Seq(S), NEW e \in S
    PROVE  /\ Append(q, e) \in Seq(S)
           /\ DOMAIN q = 1 .. Len(q) /\ Len(q) \in Nat
           /\ Len(Append(q, e)) = Len(q) + 1
           /\ DOMAIN Append(q, e) = 1 .. (Len(q) + 1)
           /\ \A i \in DOMAIN q : Append(q, e)[i] = q[i]
           /\ Append(q, e)[Len(q) + 1] = e
<1>1. DOMAIN q = 1 .. Len(q) /\ Len(q) \in Nat
  BY LenProperties
<1>2. /\ Append(q, e) \in Seq(S) /\ Len(Append(q, e)) = Len(q) + 1
      /\ \A i \in 1 .. Len(q) : Append(q, e)[i] = q[i]
      /\ Append(q, e)[Len(q) + 1] = e
  BY AppendProperties
<1>3. DOMAIN Append(q, e) = 1 .. Len(Append(q, e))
  BY <1>2, LenProperties
<1> QED BY <1>1, <1>2, <1>3

(* What taking the head of a sequence does.                                *)
LEMMA TailFacts ==
    ASSUME NEW S, NEW q \in Seq(S), q # <<>>
    PROVE  /\ Len(q) \in Nat \ {0} /\ DOMAIN q = 1 .. Len(q)
           /\ q[1] = Head(q) /\ Head(q) \in S
           /\ Tail(q) \in Seq(S) /\ Len(Tail(q)) = Len(q) - 1
           /\ DOMAIN Tail(q) = 1 .. (Len(q) - 1)
           /\ \A i \in DOMAIN Tail(q) : Tail(q)[i] = q[i + 1]
<1>1. Len(q) \in Nat \ {0} /\ DOMAIN q = 1 .. Len(q)
  BY LenProperties, EmptySeq
<1>2. /\ Head(q) \in S /\ Tail(q) \in Seq(S) /\ Len(Tail(q)) = Len(q) - 1
      /\ \A i \in 1 .. Len(Tail(q)) : Tail(q)[i] = q[i + 1]
  BY HeadTailProperties
<1>3. DOMAIN Tail(q) = 1 .. Len(Tail(q))
  BY <1>2, LenProperties
<1>4. Head(q) = q[1]
  OBVIOUS
<1> QED BY <1>1, <1>2, <1>3, <1>4

(* A chunk the task works on, its accepted part and its events.            *)
LEMMA AcceptedFacts ==
    ASSUME IInv, NEW c \in Chunk
    PROVE  /\ c.stream \in Streams /\ c.from \in Nat /\ c.to \in Nat
           /\ Limit \in Nat /\ emitted[c.stream] \in Nat
           /\ c.from < c.to => Taken(c) \in Nat
           /\ c.from < c.to => Accepted(c) \in Event
           /\ Notice(c.stream) \in Event
<1>1. c.stream \in Streams /\ c.from \in Nat /\ c.to \in Nat
  BY DEF Chunk
<1>2. Limit \in Nat /\ emitted[c.stream] \in Nat
  BY <1>1, StreamAssumption DEF IInv, StreamTypeOK
<1>3. c.from < c.to => Taken(c) \in Nat
  BY <1>1, <1>2 DEF Taken, Exceeds, Remaining
<1>4. c.from < c.to => Accepted(c) \in Event
  BY <1>1, <1>3 DEF Accepted, Output, Event
<1>5. Notice(c.stream) \in Event
  BY <1>1 DEF Notice, Event
<1> QED BY <1>1, <1>2, <1>3, <1>4, <1>5

(* What is pending when the task is stopped is an event of a chunk.        *)
LEMMA PendingFacts ==
    ASSUME IInv, cpc \in {"publish", "notice"}
    PROVE  /\ item \in Chunk /\ item.from < item.to
           /\ Pending \in Event
<1>1. item \in Chunk /\ item.from < item.to
  BY DEF IInv, PipeSound, TaskSound
<1> QED BY <1>1, AcceptedFacts DEF Pending

(* Every status event is an event.                                         *)
LEMMA StatusFacts ==
    ASSUME NEW r \in Rows, NEW x \in Texts
    PROVE  Status(r, x) \in Event
BY DEF Status, Event

(* Publishing keeps the channel a sequence of events.                      *)
LEMMA PublishType ==
    ASSUME IInv, NEW e \in Event, Publish(e) \/ PublishRaised(e)
    PROVE  published' \in Seq(Event)
<1>1. published \in Seq(Event)
  BY DEF IInv, StreamTypeOK
<1> QED BY <1>1, AppendProperties DEF Publish, PublishRaised

(* Actions of the program and the thread.                                  *)
LEMMA ThreadType ==
    ASSUME IInv,
           \/ \E s \in Streams : ProgramWrites(s)
           \/ ProgramExits \/ ThreadStep \/ ReadFail \/ PutRaises
    PROVE  StreamTypeOK'
<1> USE StreamAssumption, QueueAssumption
           DEF IInv, StreamTypeOK, programVars, threadVars, taskVars, processVars, ThreadGoto
<1>1. CASE \E s \in Streams : ProgramWrites(s)
  <2> PICK s \in Streams : ProgramWrites(s)
    BY <1>1
  <2>1. written' \in [Streams -> Nat]
    BY DEF ProgramWrites
  <2> QED BY <2>1 DEF ProgramWrites
<1>2. CASE ProgramExits
  BY <1>2 DEF ProgramExits
<1>3. CASE Attach \/ EndOfOutput \/ AttachTooLate \/ ReadFail \/ PutRaises
  BY <1>3 DEF Attach, EndOfOutput, AttachTooLate, ReadFail, PutRaises
<1>4. CASE \E s \in Streams : Read(s)
  <2> PICK s \in Streams : Read(s)
    BY <1>4
  <2> PICK to \in (taken[s] + 1) .. written[s] :
          /\ chunk' = [stream |-> s, from |-> taken[s], to |-> to]
          /\ taken' = [taken EXCEPT ![s] = to]
    BY DEF Read
  <2>1. taken[s] \in Nat /\ to \in Nat
    OBVIOUS
  <2>2. chunk' \in Chunk /\ taken' \in [Streams -> Nat]
    BY <2>1 DEF Chunk
  <2> QED BY <2>2 DEF Read
<1>5. CASE Put \/ PutEnd
  <2>1. \A e \in Chunk \cup {End} : ~Full =>
            Append(queue, e) \in Seq(Chunk \cup {End}) /\ Len(Append(queue, e)) <= QueueSize
    <3> TAKE e \in Chunk \cup {End}
    <3>1. /\ Append(queue, e) \in Seq(Chunk \cup {End})
          /\ Len(Append(queue, e)) = Len(queue) + 1 /\ Len(queue) \in Nat
      BY AppendFacts
    <3> QED BY <3>1 DEF Full
  <2>2. queue' \in Seq(Chunk \cup {End}) /\ Len(queue') <= QueueSize
    BY <1>5, <2>1 DEF Put, PutEnd
  <2> QED BY <1>5, <2>2 DEF Put, PutEnd
<1> QED BY <1>1, <1>2, <1>3, <1>4, <1>5 DEF ThreadStep

(* Actions of the task.                                                    *)
LEMMA TaskType ==
    ASSUME IInv, TaskStep \/ PublishFail
    PROVE  StreamTypeOK'
<1> USE DEF programVars, threadVars, processVars, Finished
<1>1. CASE Get
  <2> USE DEF IInv, StreamTypeOK
  <2>1. /\ Head(queue) \in Chunk \cup {End}
        /\ Tail(queue) \in Seq(Chunk \cup {End}) /\ Len(Tail(queue)) = Len(queue) - 1
        /\ Len(queue) \in Nat
    BY <1>1, TailFacts DEF Get
  <2>2. queue' \in Seq(Chunk \cup {End}) /\ Len(queue') <= QueueSize
    BY <1>1, <2>1, QueueAssumption DEF Get
  <2>3. item' \in Chunk \cup {End} /\ cpc' \in {"get", "publish", "notice", "join"}
    BY <1>1, <2>1 DEF Get, AfterAccepted
  <2> QED BY <1>1, <2>2, <2>3 DEF Get
<1>2. CASE PublishOutput
  <2>1. /\ item \in Chunk /\ item.from < item.to
    BY <1>2 DEF IInv, PipeSound, TaskSound, PublishOutput
  <2>2. item.stream \in Streams /\ Taken(item) \in Nat /\ Accepted(item) \in Event
    BY <2>1, AcceptedFacts
  <2>3. published' \in Seq(Event)
    BY <1>2, <2>2, PublishType DEF PublishOutput
  <2>4. emitted' \in [Streams -> Nat]
    BY <1>2, <2>2 DEF PublishOutput, IInv, StreamTypeOK
  <2> QED BY <1>2, <2>3, <2>4 DEF PublishOutput, IInv, StreamTypeOK, AfterAccepted
<1>3. CASE PublishNotice
  <2>1. item \in Chunk /\ item.stream \in Streams /\ Notice(item.stream) \in Event
    BY <1>3, PendingFacts, AcceptedFacts DEF PublishNotice
  <2>2. published' \in Seq(Event)
    BY <1>3, <2>1, PublishType DEF PublishNotice
  <2> QED BY <1>3, <2>1, <2>2 DEF PublishNotice, IInv, StreamTypeOK
<1>4. CASE PublishFail
  <2>1. published' \in Seq(Event)
    BY <1>4, PendingFacts, PublishType DEF PublishFail
  <2> QED BY <1>4, <2>1 DEF PublishFail, IInv, StreamTypeOK
<1>5. CASE JoinThread
  BY <1>5 DEF JoinThread, IInv, StreamTypeOK
<1> QED BY <1>1, <1>2, <1>3, <1>4, <1>5 DEF TaskStep

(* Cancelling the task keeps its types.                                    *)
LEMMA CancelTaskType ==
    ASSUME IInv, CancelTask
    PROVE  /\ cpc' \in {"get", "publish", "notice", "join"} \cup Finished
           /\ published' \in Seq(Event)
           /\ UNCHANGED <<item, emitted, truncated>>
<1>1. published \in Seq(Event)
  BY DEF IInv, StreamTypeOK
<1>2. published' \in Seq(Event)
  BY <1>1, PendingFacts, PublishType DEF CancelTask
<1> QED BY <1>2 DEF CancelTask, IInv, StreamTypeOK, Finished

(* Actions of process.                                                     *)
LEMMA ProcessType ==
    ASSUME IInv,
           \/ ProcessStep \/ Cancel \/ LaunchFail \/ AnnounceRunRaises \/ BodyFail
           \/ AnnounceRaises \/ FailFail \/ CleanupFail \/ RemoveRefused
    PROVE  StreamTypeOK'
<1> USE DEF programVars, threadVars, taskVars, Goto
<1>1. CASE Launch \/ Cancel \/ LaunchFail \/ BodyFail \/ CleanupFail
  BY <1>1 DEF Launch, Cancel, LaunchFail, BodyFail, CleanupFail, IInv, StreamTypeOK,
              Rows, Active
<1>2. CASE SeeExit \/ Kill \/ JoinTask \/ Drained \/ Remove \/ RemoveRefused \/ WorkerExits
  BY <1>2 DEF SeeExit, Kill, JoinTask, Drained, Remove, RemoveRefused, WorkerExits, IInv,
              StreamTypeOK
<1>3. CASE Finish \/ Fail \/ FailFail
  BY <1>3 DEF Finish, Fail, FailFail, IInv, StreamTypeOK, Rows, Active, Texts
<1>4. CASE Cleanup
  BY <1>4 DEF Cleanup, IInv, StreamTypeOK
<1>5. CASE AnnounceRun \/ AnnounceRunRaises \/ Announce \/ AnnounceRaises
  <2>1. row \in Rows /\ "running" \in Rows /\ text \in Texts /\ "null" \in Texts
    BY DEF IInv, StreamTypeOK, Rows, Active, Texts
  <2>2. published' \in Seq(Event)
    BY <1>5, <2>1, StatusFacts, PublishType
       DEF AnnounceRun, AnnounceRunRaises, Announce, AnnounceRaises
  <2> QED BY <1>5, <2>2 DEF AnnounceRun, AnnounceRunRaises, Announce, AnnounceRaises,
                            IInv, StreamTypeOK
<1>6. CASE DrainTimeout
  BY <1>6, CancelTaskType DEF DrainTimeout, IInv, StreamTypeOK
<1>7. CASE Teardown
  <2>1. ppc' \in {"attach", "read", "put", "last", "done"} /\ UNCHANGED <<taken, chunk>>
    BY <1>7 DEF Teardown, ThreadGoto, IInv, StreamTypeOK
  <2> QED BY <1>7, <2>1, CancelTaskType DEF Teardown, IInv, StreamTypeOK
<1> QED BY <1>1, <1>2, <1>3, <1>4, <1>5, <1>6, <1>7 DEF ProcessStep

(* Every step keeps the types.                                             *)
LEMMA TypeStep ==
    ASSUME IInv, [StreamNext]_streamVars
    PROVE  StreamTypeOK'
<1>1. CASE UNCHANGED streamVars
  BY <1>1 DEF streamVars, programVars, threadVars, taskVars, processVars, IInv, StreamTypeOK
<1> QED
  BY <1>1, ThreadType, TaskType, ProcessType DEF StreamNext, FaultStep

-----------------------------------------------------------------------------
(***************************************************************************)
(* The bytes under way                                                     *)
(***************************************************************************)
pipeVars == <<written, threadVars, queue, taskVars>>

(* The ranges of what the pipe's formulas mention.                         *)
LEMMA PipeTypes ==
    ASSUME IInv
    PROVE  /\ Limit \in Nat /\ QueueSize \in Nat \ {0}
           /\ \A s \in Streams : emitted[s] \in Nat /\ taken[s] \in Nat
                                 /\ written[s] \in Nat /\ MaxOutput[s] \in Nat
           /\ DOMAIN queue = 1 .. Len(queue) /\ Len(queue) \in Nat
           /\ \A i \in DOMAIN queue : queue[i] \in Chunk \cup {End}
           /\ \A c \in Chunk : c.stream \in Streams /\ c.from \in Nat /\ c.to \in Nat
<1>1. DOMAIN queue = 1 .. Len(queue) /\ Len(queue) \in Nat
  BY LenProperties DEF IInv, StreamTypeOK
<1>2. \A i \in DOMAIN queue : queue[i] \in Chunk \cup {End}
  BY <1>1, ElementOfSeq DEF IInv, StreamTypeOK
<1>3. \A s \in Streams : emitted[s] \in Nat /\ taken[s] \in Nat
                         /\ written[s] \in Nat /\ MaxOutput[s] \in Nat
  BY StreamAssumption DEF IInv, StreamTypeOK
<1>4. \A c \in Chunk : c.stream \in Streams /\ c.from \in Nat /\ c.to \in Nat
  BY DEF Chunk
<1> QED BY <1>1, <1>2, <1>3, <1>4, StreamAssumption, QueueAssumption

(* A step that changes nothing of the pipe.                                *)
LEMMA PipeStutters ==
    ASSUME IInv, UNCHANGED pipeVars
    PROVE  PipeSound'
<1> USE DEF pipeVars, threadVars, taskVars
<1>1. CountsSound'
  BY DEF IInv, PipeSound, CountsSound
<1>2. ThreadSound'
  BY DEF IInv, PipeSound, ThreadSound, Flowing
<1>3. QueueSound'
  BY DEF IInv, PipeSound, QueueSound, Flowing, InQueue, Putting
<1>4. TaskSound'
  BY DEF IInv, PipeSound, TaskSound, InQueue, Putting
<1>5. NothingLost'
  BY DEF IInv, PipeSound, NothingLost, Flowing, Covered, InQueue, Putting, Working, Holds
<1> QED BY <1>1, <1>2, <1>3, <1>4, <1>5 DEF PipeSound

(* The program writes: nothing is read yet.                                *)
LEMMA WritePipe ==
    ASSUME IInv, NEW s \in Streams, ProgramWrites(s)
    PROVE  PipeSound'
<1> USE DEF ProgramWrites, threadVars, taskVars
<1>1. CountsSound'
  <2> SUFFICES ASSUME NEW r \in Streams
               PROVE  taken[r] <= written'[r] /\ written'[r] <= MaxOutput[r]
    BY DEF IInv, PipeSound, CountsSound
  <2>1. written'[r] = IF r = s THEN written[s] + 1 ELSE written[r]
    BY DEF IInv, StreamTypeOK
  <2> QED BY <2>1, PipeTypes DEF IInv, PipeSound, CountsSound
<1>2. ThreadSound'
  BY DEF IInv, PipeSound, ThreadSound, Flowing
<1>3. QueueSound'
  BY DEF IInv, PipeSound, QueueSound, Flowing, InQueue, Putting
<1>4. TaskSound'
  BY DEF IInv, PipeSound, TaskSound, InQueue, Putting
<1>5. NothingLost'
  BY DEF IInv, PipeSound, NothingLost, Flowing, Covered, InQueue, Putting, Working, Holds
<1> QED BY <1>1, <1>2, <1>3, <1>4, <1>5 DEF PipeSound

(* The thread moves on without a chunk.                                    *)
LEMMA MovePipe ==
    ASSUME IInv, ppc \in {"attach", "read"}, ppc' \in {"read", "last"},
           UNCHANGED <<written, taken, chunk, queue, taskVars>>
    PROVE  PipeSound'
<1> USE DEF taskVars
<1>1. CountsSound'
  BY DEF IInv, PipeSound, CountsSound
<1>2. ThreadSound'
  BY DEF ThreadSound
<1>3. QueueSound'
  BY DEF IInv, PipeSound, QueueSound, Flowing, InQueue, Putting
<1>4. TaskSound'
  BY DEF IInv, PipeSound, TaskSound, InQueue, Putting
<1>5. NothingLost'
  BY DEF IInv, PipeSound, NothingLost, Flowing, Covered, InQueue, Putting, Working, Holds
<1> QED BY <1>1, <1>2, <1>3, <1>4, <1>5 DEF PipeSound

(* The thread reads: what it has read before is under way before it.       *)
LEMMA ReadPipe ==
    ASSUME IInv, NEW s \in Streams, Read(s)
    PROVE  PipeSound'
<1> USE PipeTypes DEF taskVars, programVars
<1> PICK to \in (taken[s] + 1) .. written[s] :
        /\ chunk' = [stream |-> s, from |-> taken[s], to |-> to]
        /\ taken' = [taken EXCEPT ![s] = to]
  BY DEF Read
<1>1. /\ ppc = "read" /\ ppc' = "put"
      /\ UNCHANGED <<written, queue, cpc, item, emitted, truncated>>
  BY DEF Read
<1>2. /\ to \in Nat /\ taken[s] < to /\ to <= written[s]
      /\ chunk' \in Chunk /\ chunk'.stream = s /\ chunk'.from = taken[s] /\ chunk'.to = to
  BY DEF Chunk
<1>3. \A r \in Streams : taken'[r] = IF r = s THEN to ELSE taken[r]
  BY DEF IInv, StreamTypeOK
<1>4. CountsSound'
  BY <1>1, <1>2, <1>3 DEF IInv, PipeSound, CountsSound
<1>5. ThreadSound'
  BY <1>1, <1>2, <1>3 DEF IInv, PipeSound, CountsSound, ThreadSound, Flowing
<1>6. QueueSound'
  BY <1>1, <1>2, <1>3 DEF IInv, PipeSound, QueueSound, Flowing, InQueue, Putting
<1>7. TaskSound'
  <2>1. cpc \in {"publish", "notice"} => item.stream \in Streams
    BY DEF IInv, PipeSound, TaskSound
  <2> QED BY <1>1, <1>2, <1>3, <2>1 DEF IInv, PipeSound, TaskSound, InQueue, Putting
<1>8. NothingLost'
  <2> SUFFICES ASSUME Flowing, NEW r \in Streams, NEW b \in Nat,
                      emitted[r] <= b, b < taken'[r]
               PROVE  Covered(r, b)' \/ (Limit <= b /\ r \in truncated)
    BY <1>1 DEF NothingLost, Flowing
  <2>1. CASE b < taken[r]
    BY <1>1, <2>1 DEF IInv, PipeSound, NothingLost, Covered, InQueue, Putting, Working, Holds
  <2>2. CASE ~(b < taken[r])
    <3>1. r = s /\ taken[s] <= b
      BY <1>3, <2>2
    <3>2. Putting(s)' /\ Holds(chunk, b)'
      BY <1>1, <1>2, <1>3, <3>1 DEF Putting, Holds
    <3> QED BY <3>1, <3>2 DEF Covered
  <2> QED BY <2>1, <2>2
<1> QED BY <1>4, <1>5, <1>6, <1>7, <1>8 DEF PipeSound

(* The chunk of the thread becomes the last of the queue.                  *)
LEMMA PutPipe ==
    ASSUME IInv, Put
    PROVE  PipeSound'
<1> USE PipeTypes DEF taskVars, programVars, ThreadGoto
<1>1. /\ ppc = "put" /\ ppc' = "read" /\ queue' = Append(queue, chunk)
      /\ UNCHANGED <<written, taken, chunk, cpc, item, emitted, truncated>>
  BY DEF Put
<1>2. chunk \in Chunk /\ chunk # End
  BY <1>1, EndAssumption DEF IInv, PipeSound, ThreadSound
<1>3. /\ Len(queue') = Len(queue) + 1 /\ DOMAIN queue' = 1 .. (Len(queue) + 1)
      /\ \A i \in DOMAIN queue : queue'[i] = queue[i]
      /\ queue'[Len(queue) + 1] = chunk
  BY <1>1, <1>2, AppendFacts DEF IInv, StreamTypeOK
<1>4. \A i \in DOMAIN queue' : i \in DOMAIN queue \/ i = Len(queue) + 1
  BY <1>3
<1>5. CountsSound'
  BY <1>1 DEF IInv, PipeSound, CountsSound
<1>6. ThreadSound'
  BY <1>1 DEF ThreadSound
<1>7. QueueSound'
  <2>1. ASSUME NEW s \in Streams, NEW i \in DOMAIN queue', InQueue(s, i)'
        PROVE  /\ queue'[i].from < queue'[i].to /\ queue'[i].to <= taken[s]
               /\ Flowing => emitted[s] <= queue'[i].from
               /\ \A j \in DOMAIN queue' :
                      (i < j /\ InQueue(s, j)') => queue'[i].to <= queue'[j].from
    <3>1. CASE i \in DOMAIN queue
      <4>1. InQueue(s, i) /\ queue'[i] = queue[i]
        BY <1>3, <2>1, <3>1 DEF InQueue
      <4>2. \A j \in DOMAIN queue' : InQueue(s, j)' =>
                (j \in DOMAIN queue /\ InQueue(s, j) /\ queue'[j] = queue[j])
                \/ (queue'[j] = chunk /\ Putting(s))
        BY <1>1, <1>3, <1>4 DEF InQueue, Putting
      <4> QED BY <3>1, <4>1, <4>2 DEF IInv, PipeSound, QueueSound
    <3>2. CASE i = Len(queue) + 1
      <4>1. \A j \in DOMAIN queue' : ~(i < j)
        BY <1>3, <3>2
      <4> QED BY <1>1, <1>2, <1>3, <2>1, <3>2, <4>1 DEF InQueue, IInv, PipeSound, ThreadSound
    <3> QED BY <1>4, <3>1, <3>2
  <2>2. \A i \in DOMAIN queue' : queue'[i] # End
    BY <1>1, <1>2, <1>3, <1>4 DEF IInv, PipeSound, QueueSound
  <2> QED BY <1>1, <2>1, <2>2 DEF QueueSound, Putting, Flowing
<1>8. TaskSound'
  <2>1. ASSUME cpc \in {"publish", "notice"}, NEW i \in DOMAIN queue', InQueue(item.stream, i)'
        PROVE  item.to <= queue'[i].from
    <3>1. CASE i \in DOMAIN queue
      BY <1>1, <1>3, <2>1, <3>1 DEF InQueue, IInv, PipeSound, TaskSound
    <3>2. CASE i = Len(queue) + 1
      BY <1>1, <1>3, <2>1, <3>2 DEF InQueue, Putting, IInv, PipeSound, TaskSound
    <3> QED BY <1>4, <3>1, <3>2
  <2>2. cpc \notin {"join", "done"}
    BY <1>1 DEF IInv, PipeSound, TaskSound
  <2> QED BY <1>1, <2>1, <2>2 DEF IInv, PipeSound, TaskSound, Putting, InQueue
<1>9. NothingLost'
  <2>1. ASSUME NEW s \in Streams, NEW b \in Nat, Covered(s, b) PROVE Covered(s, b)'
    <3>1. CASE \E i \in DOMAIN queue : InQueue(s, i) /\ Holds(queue[i], b)
      BY <1>3, <3>1 DEF Covered, InQueue, Holds
    <3>2. CASE Putting(s) /\ Holds(chunk, b)
      <4>1. Len(queue) + 1 \in DOMAIN queue' /\ queue'[Len(queue) + 1] = chunk
        BY <1>3
      <4> QED BY <1>2, <3>2, <4>1 DEF Covered, InQueue, Holds, Putting
    <3>3. CASE Working(s) /\ Holds(item, b)
      BY <1>1, <3>3 DEF Covered, Working, Holds
    <3> QED BY <2>1, <3>1, <3>2, <3>3 DEF Covered
  <2> QED BY <1>1, <2>1 DEF IInv, PipeSound, NothingLost, Flowing
<1> QED BY <1>5, <1>6, <1>7, <1>8, <1>9 DEF PipeSound

(* The thread is over when its None is in the queue.                       *)
LEMMA PutEndPipe ==
    ASSUME IInv, PutEnd
    PROVE  PipeSound'
<1> USE PipeTypes DEF taskVars, programVars, ThreadGoto
<1>1. /\ ppc = "last" /\ ppc' = "done" /\ queue' = Append(queue, End)
      /\ UNCHANGED <<written, taken, chunk, cpc, item, emitted, truncated>>
  BY DEF PutEnd
<1>2. /\ Len(queue') = Len(queue) + 1 /\ DOMAIN queue' = 1 .. (Len(queue) + 1)
      /\ \A i \in DOMAIN queue : queue'[i] = queue[i]
      /\ queue'[Len(queue) + 1] = End
  BY <1>1, AppendFacts DEF IInv, StreamTypeOK
<1>3. \A s \in Streams : \A i \in DOMAIN queue' :
          InQueue(s, i)' => i \in DOMAIN queue /\ InQueue(s, i) /\ queue'[i] = queue[i]
  BY <1>2, EndAssumption DEF InQueue
<1>4. CountsSound'
  BY <1>1 DEF IInv, PipeSound, CountsSound
<1>5. ThreadSound'
  BY <1>1 DEF ThreadSound
<1>6. QueueSound'
  <2>1. \A i \in DOMAIN queue' : queue'[i] = End => i = Len(queue')
    <3> SUFFICES ASSUME NEW i \in DOMAIN queue, queue'[i] = End PROVE FALSE
      BY <1>2
    <3> QED BY <1>1, <1>2 DEF IInv, PipeSound, QueueSound
  <2> QED BY <1>1, <1>3, <2>1 DEF IInv, PipeSound, QueueSound, Putting, Flowing
<1>7. TaskSound'
  <2>1. cpc \notin {"join", "done"}
    BY <1>1 DEF IInv, PipeSound, TaskSound
  <2>2. cpc \in {"publish", "notice"} => item \in Chunk
    BY DEF IInv, PipeSound, TaskSound
  <2> QED BY <1>1, <1>3, <2>1, <2>2 DEF IInv, PipeSound, TaskSound, Putting
<1>8. NothingLost'
  <2>1. \A s \in Streams : \A b \in Nat : Covered(s, b) => Covered(s, b)'
    BY <1>1, <1>2 DEF Covered, InQueue, Putting, Working, Holds
  <2> QED BY <1>1, <2>1 DEF IInv, PipeSound, NothingLost, Flowing
<1> QED BY <1>4, <1>5, <1>6, <1>7, <1>8 DEF PipeSound

(* The task fails or is cancelled, or a dying worker's thread gives up:    *)
(* from then on nothing is promised of what is under way.                  *)
LEMMA StopPipe ==
    ASSUME IInv, ~Flowing', ppc' \in {ppc, "last", "done"}, ppc = "done" => ppc' = "done",
           UNCHANGED <<written, taken, chunk, queue, item, emitted, truncated>>
    PROVE  PipeSound'
<1>1. CountsSound'
  BY DEF IInv, PipeSound, CountsSound
<1>2. ThreadSound'
  BY DEF IInv, PipeSound, ThreadSound, Flowing
<1>3. QueueSound'
  BY DEF IInv, PipeSound, QueueSound, Flowing, InQueue, Putting
<1>4. TaskSound'
  BY DEF TaskSound, Flowing
<1>5. NothingLost'
  BY DEF NothingLost
<1> QED BY <1>1, <1>2, <1>3, <1>4, <1>5 DEF PipeSound

(* The thread is over and the queue empty: so is the task.                 *)
LEMMA JoinPipe ==
    ASSUME IInv, JoinThread
    PROVE  PipeSound'
<1> USE DEF JoinThread, programVars, threadVars
<1>1. CountsSound'
  BY DEF IInv, PipeSound, CountsSound
<1>2. ThreadSound'
  BY DEF ThreadSound
<1>3. QueueSound'
  BY DEF IInv, PipeSound, QueueSound, Flowing, InQueue, Putting
<1>4. TaskSound'
  BY DEF IInv, PipeSound, TaskSound
<1>5. NothingLost'
  BY DEF IInv, PipeSound, NothingLost, Flowing, Covered, InQueue, Putting, Working, Holds
<1> QED BY <1>1, <1>2, <1>3, <1>4, <1>5 DEF PipeSound

(* The next chunk of a stream that is below its limit begins where the     *)
(* published part ends: else the byte in between would be lost.            *)
LEMMA NextChunkFollows ==
    ASSUME IInv, cpc = "get", NEW s \in Streams, 1 \in DOMAIN queue, InQueue(s, 1)
    PROVE  /\ emitted[s] <= queue[1].from
           /\ emitted[s] < Limit => queue[1].from = emitted[s]
<1> USE PipeTypes
<1>1. Flowing
  BY DEF Flowing
<1>2. queue[1] \in Chunk /\ queue[1].from \in Nat /\ queue[1].to \in Nat
  BY DEF InQueue
<1>3. emitted[s] <= queue[1].from /\ queue[1].from < queue[1].to /\ queue[1].to <= taken[s]
  BY <1>1 DEF IInv, PipeSound, QueueSound
<1>4. ASSUME emitted[s] < Limit, emitted[s] < queue[1].from PROVE FALSE
  <2>1. Covered(s, emitted[s])
    BY <1>1, <1>2, <1>3, <1>4 DEF IInv, PipeSound, NothingLost
  <2>2. ASSUME NEW i \in DOMAIN queue, InQueue(s, i), Holds(queue[i], emitted[s]) PROVE FALSE
    <3>1. i # 1 => queue[1].to <= queue[i].from
      BY <2>2 DEF IInv, PipeSound, QueueSound
    <3> QED BY <1>2, <1>3, <1>4, <2>2, <3>1 DEF Holds, InQueue
  <2>3. ASSUME Putting(s), Holds(chunk, emitted[s]) PROVE FALSE
    <3>1. chunk \in Chunk /\ queue[1].to <= chunk.from
      BY <2>3 DEF IInv, PipeSound, QueueSound, ThreadSound, Putting
    <3> QED BY <1>2, <1>3, <1>4, <2>3, <3>1 DEF Holds
  <2>4. ~Working(s)
    BY DEF Working
  <2> QED BY <2>1, <2>2, <2>3, <2>4 DEF Covered
<1> QED BY <1>2, <1>3, <1>4

(* The task takes what is next.                                            *)
LEMMA GetPipe ==
    ASSUME IInv, Get
    PROVE  PipeSound'
<1> USE PipeTypes DEF programVars, threadVars
<1>1. /\ cpc = "get" /\ Flowing /\ Flowing'
      /\ cpc' \in {"join", "publish", "notice", "get"}
      /\ UNCHANGED <<written, ppc, taken, chunk, emitted, truncated>>
  BY DEF Get, AfterAccepted, Flowing
<1>2. /\ 1 \in DOMAIN queue /\ item' = queue[1]
      /\ DOMAIN queue' = 1 .. (Len(queue) - 1) /\ Len(queue') = Len(queue) - 1
      /\ \A i \in DOMAIN queue' : i + 1 \in DOMAIN queue /\ queue'[i] = queue[i + 1]
  BY TailFacts DEF Get, IInv, StreamTypeOK
<1>3. \A s \in Streams : \A i \in DOMAIN queue' : InQueue(s, i)' => InQueue(s, i + 1)
  BY <1>2 DEF InQueue
<1>4. CountsSound'
  BY <1>1 DEF IInv, PipeSound, CountsSound
<1>5. ThreadSound'
  BY <1>1 DEF IInv, PipeSound, ThreadSound
<1>6. QueueSound'
  <2>1. \A s \in Streams : \A i \in DOMAIN queue' : InQueue(s, i)' =>
            \A j \in DOMAIN queue' : (i < j /\ InQueue(s, j)') => queue'[i].to <= queue'[j].from
    BY <1>2, <1>3 DEF IInv, PipeSound, QueueSound
  <2>2. \A i \in DOMAIN queue' : queue'[i] = End => i = Len(queue') /\ ppc = "done"
    BY <1>2 DEF IInv, PipeSound, QueueSound
  <2> QED BY <1>1, <1>2, <1>3, <2>1, <2>2 DEF IInv, PipeSound, QueueSound, Putting
<1>7. CASE queue[1] = End
  <2>1. cpc' = "join" /\ Len(queue) = 1 /\ ppc = "done"
    BY <1>2, <1>7, TailFacts DEF Get, IInv, StreamTypeOK, PipeSound, QueueSound
  <2>2. queue' = <<>>
    BY <1>2, <2>1, EmptySeq, TailFacts DEF Get, IInv, StreamTypeOK
  <2>3. TaskSound'
    BY <1>1, <2>1, <2>2 DEF TaskSound
  <2>4. DOMAIN queue = {1}
    BY <2>1
  <2>5. NothingLost'
    BY <1>1, <1>7, <2>1, <2>4, EndAssumption
       DEF IInv, PipeSound, NothingLost, Covered, InQueue, Putting, Working
  <2> QED BY <1>4, <1>5, <1>6, <2>3, <2>5 DEF PipeSound
<1>8. CASE queue[1] # End
  <2> PICK c \in Chunk : c = queue[1]
    BY <1>2, <1>8
  <2> PICK s \in Streams : s = c.stream
    OBVIOUS
  <2>1. c \in Chunk /\ s \in Streams /\ c.from \in Nat /\ c.to \in Nat /\ InQueue(s, 1)
    BY <1>2, <1>8 DEF InQueue
  <2>2. /\ c.from < c.to /\ c.to <= taken[s]
        /\ Putting(s) => c.to <= chunk.from
        /\ \A j \in DOMAIN queue : (1 < j /\ InQueue(s, j)) => c.to <= queue[j].from
    BY <1>2, <2>1 DEF IInv, PipeSound, QueueSound
  <2>3. emitted[s] <= c.from /\ (emitted[s] < Limit => c.from = emitted[s])
    BY <1>1, <1>2, <2>1, NextChunkFollows
  <2>4. /\ emitted[s] \in Nat /\ emitted[s] <= Limit
        /\ Remaining(c) = Limit - emitted[s]
    BY <2>1 DEF Remaining, IInv, PipeSound, CountsSound
  <2>5. Head(queue) = c
    BY TailFacts DEF Get, IInv, StreamTypeOK
  <2>6. /\ cpc' = "publish" => emitted[s] < Limit
        /\ cpc' = "notice" => emitted[s] = Limit /\ Limit < c.to /\ s \notin truncated
        /\ cpc' = "get" => emitted[s] = Limit /\ s \in truncated
        /\ cpc' # "join"
    BY <1>8, <2>1, <2>2, <2>3, <2>4, <2>5 DEF Get, AfterAccepted, Exceeds
  <2>7. TaskSound'
    <3>1. item' = c /\ emitted' = emitted /\ truncated' = truncated /\ taken' = taken
      BY <1>1, <1>2
    <3>2. \A i \in DOMAIN queue' : InQueue(s, i)' => c.to <= queue'[i].from
      BY <1>2, <1>3, <2>1, <2>2
    <3>3. \A i \in DOMAIN queue' : InQueue(item.stream, i)' => c.to <= queue'[i].from
      BY <3>1, <3>2 DEF InQueue
    <3>4. cpc' \notin {"join", "done"}
      BY <1>1, <2>6
    <3> QED BY <1>1, <2>1, <2>2, <2>3, <2>6, <3>1, <3>3, <3>4 DEF TaskSound, Putting
  <2>8. NothingLost'
    <3> SUFFICES ASSUME NEW r \in Streams, NEW b \in Nat, emitted[r] <= b, b < taken[r]
                 PROVE  Covered(r, b)' \/ (Limit <= b /\ r \in truncated)
      BY <1>1 DEF NothingLost
    <3>1. Covered(r, b) \/ (Limit <= b /\ r \in truncated)
      BY <1>1 DEF IInv, PipeSound, NothingLost
    <3>2. ASSUME NEW i \in DOMAIN queue, i # 1, InQueue(r, i), Holds(queue[i], b)
          PROVE  Covered(r, b)'
      <4>1. i - 1 \in DOMAIN queue' /\ queue'[i - 1] = queue[i]
        BY <1>2, <3>2
      <4> QED BY <3>2, <4>1 DEF Covered, InQueue, Holds
    <3>3. ASSUME InQueue(r, 1), Holds(queue[1], b)
          PROVE  Covered(r, b)' \/ (Limit <= b /\ r \in truncated)
      <4>1. r = s
        BY <3>3 DEF InQueue
      <4>2. cpc' \in {"publish", "notice"} => Working(r)' /\ Holds(item, b)'
        BY <1>2, <3>3, <4>1 DEF Working, Holds
      <4>3. cpc' = "get" => Limit <= b /\ r \in truncated
        BY <2>1, <2>3, <2>6, <3>3, <4>1 DEF Holds
      <4> QED BY <1>1, <2>6, <4>2, <4>3 DEF Covered
    <3>4. ASSUME Putting(r), Holds(chunk, b) PROVE Covered(r, b)'
      BY <1>1, <3>4 DEF Covered, Putting, Holds
    <3>5. ~Working(r)
      BY <1>1 DEF Working
    <3> QED BY <3>1, <3>2, <3>3, <3>4, <3>5 DEF Covered
  <2> QED BY <1>4, <1>5, <1>6, <2>7, <2>8 DEF PipeSound
<1> QED BY <1>7, <1>8

(* What is accepted of the task's chunk is all of it, or all that the      *)
(* limit allows.                                                           *)
LEMMA AcceptedEnds ==
    ASSUME IInv, cpc = "publish"
    PROVE  LET s == item.stream
               n == emitted[s] + Taken(item) IN
           /\ item \in Chunk /\ s \in Streams /\ item.from = emitted[s]
           /\ Taken(item) \in Nat /\ emitted[s] \in Nat
           /\ emitted[s] < n /\ n <= Limit /\ n <= item.to
           /\ item.to <= taken[s] /\ taken[s] <= written[s] /\ written[s] <= MaxOutput[s]
           /\ Exceeds(item) => n = Limit /\ Limit < item.to
           /\ ~Exceeds(item) => n = item.to
<1> USE PipeTypes
<1>1. /\ item \in Chunk /\ item.from < item.to /\ item.to <= taken[item.stream]
      /\ item.from = emitted[item.stream] /\ item.from < Limit
  BY DEF IInv, PipeSound, TaskSound
<1>2. /\ item.stream \in Streams /\ item.from \in Nat /\ item.to \in Nat
      /\ Remaining(item) = Limit - item.from
  BY <1>1 DEF Remaining
<1>3. /\ taken[item.stream] <= written[item.stream]
      /\ written[item.stream] <= MaxOutput[item.stream]
  BY <1>2 DEF IInv, PipeSound, CountsSound
<1>4. /\ Taken(item) \in Nat /\ 0 < Taken(item)
      /\ Exceeds(item) => item.from + Taken(item) = Limit /\ Limit < item.to
      /\ ~Exceeds(item) => item.from + Taken(item) = item.to /\ item.to <= Limit
  BY <1>1, <1>2 DEF Taken, Exceeds
<1>5. emitted[item.stream] < emitted[item.stream] + Taken(item)
  BY <1>2, <1>4
<1>6. CASE Exceeds(item)
  BY <1>1, <1>2, <1>3, <1>4, <1>5, <1>6
<1>7. CASE ~Exceeds(item)
  BY <1>1, <1>2, <1>3, <1>4, <1>5, <1>7
<1> QED BY <1>6, <1>7

(* The accepted part is published.                                         *)
LEMMA PublishOutputPipe ==
    ASSUME IInv, PublishOutput
    PROVE  PipeSound'
<1> USE PipeTypes DEF programVars, threadVars
<1> DEFINE s == item.stream
           n == emitted[s] + Taken(item)
<1>1. /\ cpc = "publish" /\ cpc' \in {"notice", "get"} /\ Flowing /\ Flowing'
      /\ UNCHANGED <<written, ppc, taken, chunk, queue, item, truncated>>
  BY DEF PublishOutput, AfterAccepted, Flowing
<1>2. /\ item \in Chunk /\ s \in Streams /\ item.from = emitted[s]
      /\ n \in Nat /\ emitted[s] < n /\ n <= Limit /\ n <= item.to /\ item.to <= taken[s]
      /\ Exceeds(item) => n = Limit /\ Limit < item.to
      /\ ~Exceeds(item) => n = item.to
  BY <1>1, AcceptedEnds
<1>3. \A r \in Streams : emitted'[r] = IF r = s THEN n ELSE emitted[r]
  BY <1>2 DEF PublishOutput, IInv, StreamTypeOK
<1>4. /\ item.from < item.to
      /\ Putting(s) => item.to <= chunk.from
      /\ \A i \in DOMAIN queue : InQueue(s, i) => item.to <= queue[i].from
  BY <1>1 DEF IInv, PipeSound, TaskSound
<1>5. CountsSound'
  BY <1>1, <1>2, <1>3 DEF IInv, PipeSound, CountsSound
<1>6. ThreadSound'
  <2>1. ppc = "put" => chunk \in Chunk /\ chunk.stream \in Streams
    BY DEF IInv, PipeSound, ThreadSound
  <2> QED BY <1>1, <1>2, <1>3, <1>4, <2>1 DEF IInv, PipeSound, ThreadSound, Putting
<1>7. QueueSound'
  <2>1. \A r \in Streams : \A i \in DOMAIN queue : InQueue(r, i) => emitted'[r] <= queue[i].from
    <3> SUFFICES ASSUME NEW r \in Streams, NEW i \in DOMAIN queue, InQueue(r, i)
                 PROVE  emitted'[r] <= queue[i].from
      OBVIOUS
    <3>1. queue[i] \in Chunk /\ emitted[r] <= queue[i].from
      BY <1>1 DEF IInv, PipeSound, QueueSound, InQueue
    <3> QED BY <1>2, <1>3, <1>4, <3>1
  <2> QED BY <1>1, <2>1 DEF IInv, PipeSound, QueueSound, InQueue, Putting
<1>8. cpc' = IF Exceeds(item) /\ s \notin truncated THEN "notice" ELSE "get"
  BY DEF PublishOutput, AfterAccepted
<1>9. TaskSound'
  BY <1>1, <1>2, <1>3, <1>4, <1>8 DEF TaskSound, Putting, InQueue
<1>10. NothingLost'
  <2> SUFFICES ASSUME NEW r \in Streams, NEW b \in Nat, emitted'[r] <= b, b < taken[r]
               PROVE  Covered(r, b)' \/ (Limit <= b /\ r \in truncated)
    BY <1>1 DEF NothingLost
  <2>1. emitted[r] <= b
    BY <1>2, <1>3
  <2>2. Covered(r, b) \/ (Limit <= b /\ r \in truncated)
    BY <1>1, <2>1 DEF IInv, PipeSound, NothingLost
  <2>3. ASSUME Working(r), Holds(item, b)
        PROVE  Covered(r, b)' \/ (Limit <= b /\ r \in truncated)
    <3>1. r = s /\ n <= b /\ b < item.to
      BY <1>2, <1>3, <2>3 DEF Working, Holds
    <3>2. CASE cpc' = "notice"
      BY <1>1, <2>3, <3>2 DEF Covered, Working, Holds
    <3>3. CASE cpc' = "get"
      BY <1>2, <1>8, <3>1, <3>3
    <3> QED BY <1>1, <3>2, <3>3
  <2>4. (Covered(r, b) /\ ~(Working(r) /\ Holds(item, b))) => Covered(r, b)'
    BY <1>1 DEF Covered, InQueue, Putting, Holds
  <2> QED BY <2>2, <2>3, <2>4
<1> QED BY <1>5, <1>6, <1>7, <1>9, <1>10 DEF PipeSound

(* The notice deals with all that follows.                                 *)
LEMMA PublishNoticePipe ==
    ASSUME IInv, PublishNotice
    PROVE  PipeSound'
<1> USE PipeTypes DEF programVars, threadVars
<1> DEFINE s == item.stream
<1>1. /\ cpc = "notice" /\ cpc' = "get" /\ Flowing /\ Flowing'
      /\ truncated' = truncated \cup {s}
      /\ UNCHANGED <<written, ppc, taken, chunk, queue, item, emitted>>
  BY DEF PublishNotice, Flowing
<1>2. /\ item \in Chunk /\ item.to <= taken[s] /\ Limit < item.to /\ emitted[s] = Limit
  BY <1>1 DEF IInv, PipeSound, TaskSound
<1>3. CountsSound'
  BY <1>1, <1>2 DEF IInv, PipeSound, CountsSound
<1>4. ThreadSound'
  BY <1>1 DEF IInv, PipeSound, ThreadSound
<1>5. QueueSound'
  BY <1>1 DEF IInv, PipeSound, QueueSound, InQueue, Putting
<1>6. TaskSound'
  BY <1>1 DEF TaskSound
<1>7. NothingLost'
  <2> SUFFICES ASSUME NEW r \in Streams, NEW b \in Nat, emitted[r] <= b, b < taken[r]
               PROVE  Covered(r, b)' \/ (Limit <= b /\ r \in truncated')
    BY <1>1 DEF NothingLost
  <2>1. CASE r = s
    BY <1>1, <1>2, <2>1
  <2>2. CASE r # s
    BY <1>1, <2>2 DEF IInv, PipeSound, NothingLost, Covered, InQueue, Putting, Working, Holds
  <2> QED BY <2>1, <2>2
<1> QED BY <1>3, <1>4, <1>5, <1>6, <1>7 DEF PipeSound

(* Every step keeps the pipe sound.                                        *)
LEMMA PipeStep ==
    ASSUME IInv, [StreamNext]_streamVars
    PROVE  PipeSound'
<1> USE DEF pipeVars, threadVars, taskVars
<1>1. CASE UNCHANGED streamVars
  BY <1>1, PipeStutters DEF streamVars, programVars
<1>2. CASE \E s \in Streams : ProgramWrites(s)
  BY <1>2, WritePipe
<1>3. CASE ThreadStep \/ ReadFail
  <2>1. CASE Attach \/ EndOfOutput \/ AttachTooLate \/ ReadFail
    BY <2>1, MovePipe
       DEF Attach, EndOfOutput, AttachTooLate, ReadFail, ThreadGoto, programVars
  <2> QED BY <1>3, <2>1, ReadPipe, PutPipe, PutEndPipe DEF ThreadStep
<1>4. CASE PutRaises
  <2>1. ppc # "done" /\ wpc = "torn"
    BY <1>4 DEF PutRaises
  <2>2. cpc \in {"failed", "cancelled"}
    BY <2>1 DEF IInv, ProcessSound, Finished, PipeSound, TaskSound
  <2> QED BY <1>4, <2>2, StopPipe DEF PutRaises, ThreadGoto, Flowing, programVars
<1>5. CASE TaskStep
  BY <1>5, GetPipe, PublishOutputPipe, PublishNoticePipe, JoinPipe DEF TaskStep
<1>6. CASE PublishFail
  BY <1>6, StopPipe DEF PublishFail, Flowing, programVars
<1>7. CASE DrainTimeout
  <2>1. cpc' = "cancelled"
    BY <1>7 DEF DrainTimeout, CancelTask
  <2> QED BY <1>7, <2>1, StopPipe DEF DrainTimeout, CancelTask, Flowing, programVars
<1>8. CASE Teardown
  <2>1. /\ UNCHANGED <<written, taken, chunk, queue, item, emitted, truncated>>
        /\ ppc' \in {ppc, "last", "done"} /\ (ppc = "done" => ppc' = "done")
    BY <1>8 DEF Teardown, CancelTask, ThreadGoto, programVars
  <2>2. CASE Flowing'
    <3>1. cpc = "done" /\ cpc' = "done"
      BY <1>8, <2>2 DEF Teardown, CancelTask, Finished, Flowing
    <3>2. ppc = "done"
      BY <3>1 DEF IInv, PipeSound, TaskSound
    <3> QED BY <2>1, <3>1, <3>2, PipeStutters
  <2> QED BY <2>1, <2>2, StopPipe
<1>9. CASE \/ ProgramExits \/ Cancel \/ Launch \/ AnnounceRun \/ SeeExit \/ Kill \/ JoinTask
           \/ Finish \/ Announce \/ Fail \/ Cleanup \/ Drained \/ Remove \/ RemoveRefused
           \/ WorkerExits
           \/ LaunchFail \/ AnnounceRunRaises \/ BodyFail \/ AnnounceRaises \/ FailFail
           \/ CleanupFail
  <2>1. UNCHANGED pipeVars
    BY <1>9 DEF ProgramExits, Cancel, Launch, AnnounceRun, SeeExit, Kill, JoinTask, Finish,
                 Announce, Fail, Cleanup, Drained, Remove, RemoveRefused, WorkerExits, LaunchFail,
                 AnnounceRunRaises, BodyFail, AnnounceRaises, FailFail, CleanupFail,
                 programVars
  <2> QED BY <2>1, PipeStutters
<1> QED
  BY <1>1, <1>2, <1>3, <1>4, <1>5, <1>6, <1>7, <1>8, <1>9
     DEF StreamNext, ProcessStep, FaultStep

-----------------------------------------------------------------------------
(***************************************************************************)
(* The channel                                                             *)
(***************************************************************************)

(* An event more on the channel.                                           *)
LEMMA PublishedFacts ==
    ASSUME IInv, NEW e \in Event, published' = Append(published, e)
    PROVE  /\ DOMAIN published = 1 .. Len(published) /\ Len(published) \in Nat
           /\ DOMAIN published' = 1 .. (Len(published) + 1)
           /\ \A i \in DOMAIN published : published'[i] = published[i]
           /\ published'[Len(published) + 1] = e
           /\ \A i \in DOMAIN published' : i \in DOMAIN published \/ i = Len(published) + 1
<1>1. /\ DOMAIN published = 1 .. Len(published) /\ Len(published) \in Nat
      /\ DOMAIN published' = 1 .. (Len(published) + 1)
      /\ \A i \in DOMAIN published : published'[i] = published[i]
      /\ published'[Len(published) + 1] = e
  BY AppendFacts DEF IInv, StreamTypeOK
<1> QED BY <1>1

(* Each event of the output of a stream continues what was published of it *)
(* before.                                                                 *)
ContinuesAt(j, s) ==
    /\ published[j].from < published[j].to
    /\ published[j].to <= Limit /\ published[j].to <= written[s]
    /\ \/ published[j].from = 0
       \/ \E i \in 1 .. (j - 1) : OutputOf(s, published[i]) /\ published[i].to = published[j].from
    /\ \A i \in 1 .. (j - 1) :
           OutputOf(s, published[i]) => published[i].to <= published[j].from

(* LiveIsPrefix without its set of earlier events.                         *)
LEMMA PrefixIsContinuation ==
    LiveIsPrefix <=>
        \A j \in DOMAIN published : \A s \in Streams :
            OutputOf(s, published[j]) => ContinuesAt(j, s)
BY DEF LiveIsPrefix, ContinuesAt

(* The same of the next state.                                             *)
LEMMA PrefixIsContinuationNext ==
    LiveIsPrefix' <=>
        \A j \in (DOMAIN published)' : \A s \in Streams :
            OutputOf(s, published[j])' => ContinuesAt(j, s)'
BY DEF LiveIsPrefix, ContinuesAt

(* What was a continuation stays one when an event is added or the program *)
(* writes.                                                                 *)
LEMMA ContinuesStays ==
    ASSUME IInv, NEW j \in DOMAIN published, NEW s \in Streams, ContinuesAt(j, s),
           OutputOf(s, published[j]),
           \A i \in DOMAIN published : published'[i] = published[i],
           written[s] <= written'[s], written'[s] \in Nat
    PROVE  ContinuesAt(j, s)'
<1>1. DOMAIN published = 1 .. Len(published) /\ Len(published) \in Nat
  BY LenProperties DEF IInv, StreamTypeOK
<1>2. \A i \in 1 .. (j - 1) : i \in DOMAIN published
  BY <1>1
<1>3. published[j] \in Event
  BY <1>1, ElementOfSeq DEF IInv, StreamTypeOK
<1>4. published[j].to \in Nat /\ written[s] \in Nat
  BY <1>3 DEF OutputOf, Event, IInv, StreamTypeOK
<1> QED BY <1>2, <1>4 DEF ContinuesAt, OutputOf

(* Steps that publish no output.                                           *)
LEMMA NoOutputPrefix ==
    ASSUME IInv, \A s \in Streams : written[s] <= written'[s] /\ written'[s] \in Nat,
           \/ UNCHANGED published
           \/ \E e \in Event : e.kind # "output" /\ published' = Append(published, e)
    PROVE  LiveIsPrefix'
<1>1. CASE UNCHANGED published
  BY <1>1, PrefixIsContinuation, PrefixIsContinuationNext, ContinuesStays DEF IInv, OutputOf
<1>2. CASE \E e \in Event : e.kind # "output" /\ published' = Append(published, e)
  <2> PICK e \in Event : e.kind # "output" /\ published' = Append(published, e)
    BY <1>2
  <2>1. \A j \in (DOMAIN published)' : \A s \in Streams : OutputOf(s, published[j])' =>
            j \in DOMAIN published /\ OutputOf(s, published[j])
    BY PublishedFacts DEF OutputOf
  <2>2. \A i \in DOMAIN published : published'[i] = published[i]
    BY PublishedFacts
  <2> QED
    BY <2>1, <2>2, PrefixIsContinuation, PrefixIsContinuationNext, ContinuesStays DEF IInv
<1> QED BY <1>1, <1>2

(* The accepted part of the task's chunk continues its stream.             *)
LEMMA OutputPrefix ==
    ASSUME IInv, cpc = "publish", published' = Append(published, Accepted(item)),
           UNCHANGED written
    PROVE  LiveIsPrefix'
<1> DEFINE s == item.stream
           n == emitted[s] + Taken(item)
<1> PICK last \in Nat : last = Len(published) + 1
  BY LenProperties DEF IInv, StreamTypeOK
<1>1. /\ item \in Chunk /\ s \in Streams /\ item.from = emitted[s] /\ emitted[s] \in Nat
      /\ Taken(item) \in Nat /\ emitted[s] < n /\ n <= Limit /\ n <= item.to
      /\ item.to <= taken[s] /\ taken[s] <= written[s]
  BY AcceptedEnds
<1>2. Accepted(item) \in Event
  BY PendingFacts DEF Pending
<1>3. Accepted(item) = Output(s, emitted[s], n)
  BY <1>1 DEF Accepted
<1>4. PublishedUpTo(published, s, emitted[s])
  BY <1>1 DEF IInv, ChannelSound, Finished
<1>5. /\ Limit \in Nat /\ taken[s] \in Nat /\ written[s] \in Nat /\ item.to \in Nat
  BY <1>1, PipeTypes
<1>6. \A r \in Streams : written[r] <= written'[r] /\ written'[r] \in Nat
  BY PipeTypes
<1>7. /\ DOMAIN published = 1 .. Len(published) /\ Len(published) \in Nat
      /\ DOMAIN published' = 1 .. last
      /\ \A i \in DOMAIN published : published'[i] = published[i]
      /\ published'[last] = Accepted(item)
      /\ \A i \in DOMAIN published' : i \in DOMAIN published \/ i = last
  BY <1>2, PublishedFacts
<1>8. ASSUME NEW r \in Streams, OutputOf(r, published'[last])
      PROVE  ContinuesAt(last, r)'
  <2>1. r = s
    BY <1>3, <1>7, <1>8 DEF OutputOf, Output
  <2>2. published'[last].from = emitted[s] /\ published'[last].to = n
    BY <1>3, <1>7 DEF Output
  <2>3. \A i \in 1 .. (last - 1) : i \in DOMAIN published /\ published'[i] = published[i]
    BY <1>7
  <2>4. n <= written[s] /\ n \in Nat
    BY <1>1, <1>5
  <2>5. /\ \A i \in 1 .. (last - 1) : OutputOf(s, published'[i]) => published'[i].to <= emitted[s]
        /\ \/ emitted[s] = 0
           \/ \E i \in 1 .. (last - 1) :
                  OutputOf(s, published'[i]) /\ published'[i].to = emitted[s]
    BY <1>4, <1>7, <2>3 DEF PublishedUpTo
  <2> QED BY <1>1, <2>1, <2>2, <2>4, <2>5 DEF ContinuesAt
<1>9. ASSUME NEW j \in DOMAIN published, NEW r \in Streams, OutputOf(r, published'[j])
      PROVE  ContinuesAt(j, r)'
  BY <1>6, <1>7, <1>9, PrefixIsContinuation, ContinuesStays DEF IInv
<1> QED BY <1>7, <1>8, <1>9, PrefixIsContinuationNext

(* Where a stream's published part ends, when other events are added.      *)
LEMMA UpToStays ==
    ASSUME IInv, NEW s \in Streams, NEW n \in Nat, NEW e \in Event,
           published' = Append(published, e), ~OutputOf(s, e),
           PublishedUpTo(published, s, n)
    PROVE  PublishedUpTo(published', s, n)
<1>1. \A i \in DOMAIN published' : OutputOf(s, published'[i]) =>
          i \in DOMAIN published /\ published'[i] = published[i]
  BY PublishedFacts
<1>2. \A i \in DOMAIN published : i \in DOMAIN published' /\ published'[i] = published[i]
  BY PublishedFacts
<1> QED BY <1>1, <1>2 DEF PublishedUpTo

(* Steps of others, and steps that end the task, keep the channel sound.   *)
LEMMA OtherChannel ==
    ASSUME IInv,
           \/ cpc' \in Finished
           \/ cpc \notin Finished /\ UNCHANGED <<emitted, truncated>>,
           \/ cpc' \in Finished
           \/ UNCHANGED published
           \/ \E e \in Event : e.kind = "status" /\ published' = Append(published, e)
    PROVE  ChannelSound'
<1>1. CASE cpc' \in Finished
  BY <1>1 DEF ChannelSound, Finished
<1>2. CASE cpc \notin Finished /\ UNCHANGED <<emitted, truncated, published>>
  BY <1>2 DEF IInv, ChannelSound, PublishedUpTo, OutputOf, Finished
<1>3. ASSUME cpc \notin Finished, UNCHANGED <<emitted, truncated>>,
             NEW e \in Event, e.kind = "status", published' = Append(published, e)
      PROVE  ChannelSound'
  <2> SUFFICES ASSUME NEW s \in Streams
               PROVE  /\ PublishedUpTo(published', s, emitted[s])
                      /\ s \notin truncated =>
                             \A i \in DOMAIN published' : published'[i] # Notice(s)
    BY <1>3 DEF ChannelSound, PublishedUpTo, OutputOf, Notice, Finished
  <2>1. PublishedUpTo(published, s, emitted[s]) /\ emitted[s] \in Nat
    BY <1>3, PipeTypes DEF IInv, ChannelSound
  <2>2. ~OutputOf(s, e) /\ e # Notice(s)
    BY <1>3 DEF OutputOf, Notice
  <2>3. PublishedUpTo(published', s, emitted[s])
    BY <1>3, <2>1, <2>2, UpToStays
  <2>4. s \notin truncated => \A i \in DOMAIN published : published[i] # Notice(s)
    BY <1>3 DEF IInv, ChannelSound
  <2>5. /\ \A i \in DOMAIN published : published'[i] = published[i]
        /\ published'[Len(published) + 1] = e
        /\ \A i \in DOMAIN published' : i \in DOMAIN published \/ i = Len(published) + 1
    BY <1>3, PublishedFacts
  <2>6. s \notin truncated => \A i \in DOMAIN published' : published'[i] # Notice(s)
    BY <2>2, <2>4, <2>5
  <2> QED BY <2>3, <2>6
<1> QED BY <1>1, <1>2, <1>3

(* The published part of the stream grows by what is accepted.             *)
LEMMA PublishOutputChannel ==
    ASSUME IInv, PublishOutput
    PROVE  ChannelSound'
<1> DEFINE s == item.stream
           n == emitted[s] + Taken(item)
<1>1. /\ cpc = "publish" /\ UNCHANGED <<item, truncated>>
      /\ published' = Append(published, Accepted(item))
  BY DEF PublishOutput, Publish
<1>2. /\ item \in Chunk /\ s \in Streams /\ item.from = emitted[s] /\ emitted[s] \in Nat
      /\ n \in Nat /\ emitted[s] < n
  BY <1>1, AcceptedEnds
<1>3. Accepted(item) \in Event /\ Accepted(item) = Output(s, emitted[s], n)
  BY <1>1, <1>2, PendingFacts DEF Pending, Accepted
<1>4. \A r \in Streams : emitted'[r] = IF r = s THEN n ELSE emitted[r]
  BY <1>2 DEF PublishOutput, IInv, StreamTypeOK
<1>5. /\ DOMAIN published = 1 .. Len(published) /\ Len(published) \in Nat
      /\ DOMAIN published' = 1 .. (Len(published) + 1)
      /\ \A i \in DOMAIN published : published'[i] = published[i]
      /\ published'[Len(published) + 1] = Accepted(item)
      /\ \A i \in DOMAIN published' : i \in DOMAIN published \/ i = Len(published) + 1
  BY <1>1, <1>3, PublishedFacts
<1>6. ASSUME NEW r \in Streams
      PROVE  /\ PublishedUpTo(published', r, emitted'[r])
             /\ r \notin truncated =>
                    \A i \in DOMAIN published' : published'[i] # Notice(r)
  <2>1. PublishedUpTo(published, r, emitted[r]) /\ emitted[r] \in Nat
    BY <1>1, <1>6, PipeTypes DEF IInv, ChannelSound, Finished
  <2>2. CASE r = s
    <3>1. \A i \in DOMAIN published : OutputOf(s, published[i]) => published[i].to <= n
      <4> SUFFICES ASSUME NEW i \in DOMAIN published, OutputOf(s, published[i])
                   PROVE  published[i].to <= n
        OBVIOUS
      <4>1. published[i].to <= emitted[s]
        BY <2>1, <2>2 DEF PublishedUpTo
      <4>2. published[i] \in Event
        BY <1>5, ElementOfSeq DEF IInv, StreamTypeOK
      <4>3. published[i].to \in Nat
        BY <4>2 DEF OutputOf, Event
      <4> QED BY <1>2, <4>1, <4>3
    <3>2. OutputOf(s, Accepted(item)) /\ Accepted(item).to = n
      BY <1>3 DEF OutputOf, Output
    <3>3. Len(published) + 1 \in DOMAIN published'
      BY <1>5
    <3>4. PublishedUpTo(published', s, n)
      BY <1>2, <1>5, <3>1, <3>2, <3>3 DEF PublishedUpTo
    <3> QED BY <1>1, <1>3, <1>4, <1>5, <2>2, <3>4
        DEF IInv, ChannelSound, Finished, Notice, Output
  <2>3. CASE r # s
    <3>1. ~OutputOf(r, Accepted(item))
      BY <1>3, <2>3 DEF OutputOf, Output
    <3>2. PublishedUpTo(published', r, emitted'[r])
      BY <1>1, <1>3, <1>4, <1>6, <2>1, <2>3, <3>1, UpToStays
    <3> QED BY <1>1, <1>3, <1>5, <1>6, <3>2
        DEF IInv, ChannelSound, Finished, Notice, Output
  <2> QED BY <2>2, <2>3
<1> QED BY <1>1, <1>6 DEF ChannelSound, PublishedUpTo, OutputOf, Notice

(* The notice is about a stream that is then truncated.                    *)
LEMMA PublishNoticeChannel ==
    ASSUME IInv, PublishNotice
    PROVE  ChannelSound'
<1> DEFINE s == item.stream
<1>1. /\ cpc = "notice" /\ UNCHANGED <<item, emitted>>
      /\ truncated' = truncated \cup {s}
      /\ published' = Append(published, Notice(s))
  BY DEF PublishNotice, Publish
<1>2. Notice(s) \in Event
  BY <1>1, PendingFacts DEF Pending
<1>3. ASSUME NEW r \in Streams
      PROVE  /\ PublishedUpTo(published', r, emitted[r])
             /\ r \notin truncated' =>
                    \A i \in DOMAIN published' : published'[i] # Notice(r)
  <2>1. PublishedUpTo(published, r, emitted[r]) /\ emitted[r] \in Nat
    BY <1>1, <1>3, PipeTypes DEF IInv, ChannelSound, Finished
  <2>2. ~OutputOf(r, Notice(s))
    BY DEF OutputOf, Notice
  <2>3. PublishedUpTo(published', r, emitted[r])
    BY <1>1, <1>2, <1>3, <2>1, <2>2, UpToStays
  <2>4. r # s => Notice(r) # Notice(s)
    BY DEF Notice
  <2>5. r \notin truncated => \A i \in DOMAIN published : published[i] # Notice(r)
    BY <1>1, <1>3 DEF IInv, ChannelSound, Finished
  <2>6. /\ \A i \in DOMAIN published : published'[i] = published[i]
        /\ published'[Len(published) + 1] = Notice(s)
        /\ \A i \in DOMAIN published' : i \in DOMAIN published \/ i = Len(published) + 1
    BY <1>1, <1>2, PublishedFacts
  <2>7. r \notin truncated' => \A i \in DOMAIN published' : published'[i] # Notice(r)
    BY <1>1, <2>4, <2>5, <2>6
  <2> QED BY <2>3, <2>7
<1> QED BY <1>1, <1>3 DEF ChannelSound, PublishedUpTo, OutputOf, Notice

(* Steps that publish nothing and leave the counts.                        *)
QuietStep ==
    /\ UNCHANGED <<emitted, truncated, published>>
    /\ cpc \in Finished => cpc' \in Finished
    /\ \A s \in Streams : written[s] <= written'[s] /\ written'[s] \in Nat

(* Steps of process that publish a status event, perhaps.                  *)
TellingStep ==
    \/ AnnounceRun \/ AnnounceRunRaises \/ Announce \/ AnnounceRaises

(* Steps that stop the task in what it publishes.                          *)
StoppingStep ==
    /\ cpc' \in Finished
    /\ UNCHANGED written
    /\ \/ UNCHANGED published
       \/ cpc \in {"publish", "notice"} /\ published' = Append(published, Pending)

(* A status event tells of a row that process has seen.                    *)
LEMMA TellingFacts ==
    ASSUME IInv, TellingStep
    PROVE  /\ UNCHANGED <<written, cpc, emitted, truncated>>
           /\ \/ UNCHANGED published
              \/ \E e \in Event : e.kind = "status" /\ published' = Append(published, e)
<1>1. row \in Rows /\ "running" \in Rows /\ text \in Texts /\ "null" \in Texts
  BY DEF IInv, StreamTypeOK, Rows, Active, Texts
<1>2. \A r \in {"running", row}, x \in {"null", text} :
          Status(r, x) \in Event /\ Status(r, x).kind = "status"
  BY <1>1, StatusFacts DEF Status
<1>3. \E r \in {"running", row}, x \in {"null", text} :
          Publish(Status(r, x)) \/ PublishRaised(Status(r, x))
  BY DEF TellingStep, AnnounceRun, AnnounceRunRaises, Announce, AnnounceRaises
<1>4. \/ UNCHANGED published
      \/ \E e \in Event : e.kind = "status" /\ published' = Append(published, e)
  BY <1>2, <1>3 DEF Publish, PublishRaised
<1> QED
  BY <1>4 DEF TellingStep, AnnounceRun, AnnounceRunRaises, Announce, AnnounceRaises,
              programVars, taskVars

(* What the steps do to the channel.                                       *)
LEMMA StepKinds ==
    ASSUME IInv, [StreamNext]_streamVars
    PROVE  QuietStep \/ TellingStep \/ StoppingStep \/ PublishOutput \/ PublishNotice
<1> USE PipeTypes DEF programVars, threadVars, taskVars, processVars, ThreadGoto, Goto
<1>1. ASSUME NEW s \in Streams, ProgramWrites(s)
      PROVE  QuietStep
  <2>1. \A r \in Streams : written[r] <= written'[r] /\ written'[r] \in Nat
    BY <1>1 DEF ProgramWrites, IInv, StreamTypeOK
  <2> QED BY <1>1, <2>1 DEF ProgramWrites, QuietStep
<1>2. CASE \/ ProgramExits \/ ThreadStep \/ ReadFail \/ PutRaises
  BY <1>2 DEF ProgramExits, ThreadStep, ReadFail, PutRaises, Attach, Read, EndOfOutput,
              AttachTooLate, Put, PutEnd, QuietStep
<1>3. CASE Get \/ JoinThread
  BY <1>3 DEF Get, JoinThread, QuietStep, Finished
<1>4. CASE \/ Launch \/ Cancel \/ LaunchFail \/ SeeExit \/ Kill \/ JoinTask \/ Finish
           \/ BodyFail \/ Fail \/ FailFail \/ Cleanup \/ CleanupFail \/ Drained
           \/ Remove \/ RemoveRefused \/ WorkerExits
  BY <1>4 DEF Launch, Cancel, LaunchFail, SeeExit, Kill, JoinTask, Finish, BodyFail, Fail,
              FailFail, Cleanup, CleanupFail, Drained, Remove, RemoveRefused, WorkerExits, QuietStep
<1>5. CASE PublishFail
  BY <1>5 DEF PublishFail, PublishRaised, StoppingStep, Finished
<1>6. CASE DrainTimeout \/ Teardown
  BY <1>6 DEF DrainTimeout, Teardown, CancelTask, PublishRaised, StoppingStep, Finished
<1>7. CASE UNCHANGED streamVars
  BY <1>7 DEF streamVars, QuietStep
<1> QED
  BY <1>1, <1>2, <1>3, <1>4, <1>5, <1>6, <1>7
     DEF StreamNext, TaskStep, ProcessStep, FaultStep, TellingStep

(* Every step keeps the output on the channel and the counts together, and *)
(* the channel a prefix.                                                   *)
LEMMA ChannelStep ==
    ASSUME IInv, [StreamNext]_streamVars
    PROVE  ChannelSound' /\ LiveIsPrefix'
<1>1. CASE QuietStep
  <2>1. ChannelSound'
    BY <1>1, OtherChannel DEF QuietStep
  <2> QED BY <1>1, <2>1, NoOutputPrefix DEF QuietStep
<1>2. CASE TellingStep
  <2>1. UNCHANGED <<written, cpc, emitted, truncated>>
    BY <1>2, TellingFacts
  <2>2. \/ UNCHANGED published
        \/ \E e \in Event : e.kind = "status" /\ published' = Append(published, e)
    BY <1>2, TellingFacts
  <2>3. ChannelSound'
    BY <2>1, <2>2, OtherChannel
  <2>4. \A s \in Streams : written[s] <= written'[s] /\ written'[s] \in Nat
    BY <2>1, PipeTypes
  <2>5. LiveIsPrefix'
    BY <2>2, <2>4, NoOutputPrefix
  <2> QED BY <2>3, <2>5
<1>3. CASE StoppingStep
  <2>1. ChannelSound'
    BY <1>3, OtherChannel DEF StoppingStep
  <2>2. \A s \in Streams : written[s] <= written'[s] /\ written'[s] \in Nat
    BY <1>3, PipeTypes DEF StoppingStep
  <2>3. CASE UNCHANGED published
    BY <2>1, <2>2, <2>3, NoOutputPrefix
  <2>4. CASE cpc = "publish" /\ published' = Append(published, Accepted(item))
    BY <1>3, <2>1, <2>4, OutputPrefix DEF StoppingStep
  <2>5. CASE cpc = "notice" /\ published' = Append(published, Notice(item.stream))
    <3>1. Notice(item.stream) \in Event /\ Notice(item.stream).kind # "output"
      BY <2>5, PendingFacts DEF Pending, Notice
    <3> QED BY <2>1, <2>2, <2>5, <3>1, NoOutputPrefix
  <2> QED BY <1>3, <2>3, <2>4, <2>5 DEF StoppingStep, Pending
<1>4. CASE PublishOutput
  BY <1>4, PublishOutputChannel, OutputPrefix DEF PublishOutput, Publish, programVars
<1>5. CASE PublishNotice
  <2>1. Notice(item.stream) \in Event /\ Notice(item.stream).kind # "output"
    BY <1>5, PendingFacts DEF Pending, Notice, PublishNotice
  <2>2. \A s \in Streams : written[s] <= written'[s] /\ written'[s] \in Nat
    BY <1>5, PipeTypes DEF PublishNotice, programVars
  <2>3. published' = Append(published, Notice(item.stream))
    BY <1>5 DEF PublishNotice, Publish
  <2> QED BY <1>5, <2>1, <2>2, <2>3, PublishNoticeChannel, NoOutputPrefix
<1> QED BY <1>1, <1>2, <1>3, <1>4, <1>5, StepKinds

-----------------------------------------------------------------------------
(***************************************************************************)
(* The process                                                             *)
(***************************************************************************)

(* What the channel tells when nothing was published.                      *)
LEMMA ToldSame ==
    ASSUME UNCHANGED published
    PROVE  /\ \A x \in Texts : Told(x)' <=> Told(x)
           /\ ToldAny' <=> ToldAny
BY DEF Told, ToldAny

(* What it tells after one more event.                                     *)
LEMMA ToldMore ==
    ASSUME IInv, NEW e \in Event, published' = Append(published, e)
    PROVE  /\ \A x \in Texts : Told(x)' <=> Told(x) \/ (e.kind = "status" /\ e.text = x)
           /\ ToldAny' <=> ToldAny \/ e.kind = "status"
<1>1. /\ \A i \in DOMAIN published : i \in DOMAIN published' /\ published'[i] = published[i]
      /\ Len(published) + 1 \in DOMAIN published'
      /\ published'[Len(published) + 1] = e
      /\ \A i \in DOMAIN published' : i \in DOMAIN published \/ i = Len(published) + 1
  BY PublishedFacts
<1>2. \A x \in Texts : Told(x)' <=> Told(x) \/ (e.kind = "status" /\ e.text = x)
  BY <1>1 DEF Told
<1>3. ToldAny' <=> ToldAny \/ e.kind = "status"
  BY <1>1 DEF ToldAny
<1> QED BY <1>2, <1>3

(* An event that is not about the row changes nothing of that.             *)
LEMMA ToldOutput ==
    ASSUME IInv, NEW e \in Event, published' = Append(published, e), e.kind # "status"
    PROVE  /\ \A x \in Texts : Told(x)' <=> Told(x)
           /\ ToldAny' <=> ToldAny
BY ToldMore

(* The pending event is output or a notice.                                *)
LEMMA PendingKind ==
    ASSUME IInv, cpc \in {"publish", "notice"}
    PROVE  Pending \in Event /\ Pending.kind # "status"
BY PendingFacts DEF Pending, Accepted, Output, Notice

(* Once the result was told, nothing but status events is published.       *)
LEMMA ResultStays ==
    ASSUME IInv,
           \/ UNCHANGED published
           \/ \E e \in Event : /\ published' = Append(published, e)
                               /\ e.kind = "status" \/ ~Told("logs")
    PROVE  ResultIsLast'
<1>1. CASE UNCHANGED published
  BY <1>1 DEF IInv, ResultIsLast
<1>2. ASSUME NEW e \in Event, published' = Append(published, e),
             e.kind = "status" \/ ~Told("logs")
      PROVE  ResultIsLast'
  <2>1. /\ DOMAIN published = 1 .. Len(published) /\ Len(published) \in Nat
        /\ \A i \in DOMAIN published : published'[i] = published[i]
        /\ published'[Len(published) + 1] = e
        /\ DOMAIN published' = 1 .. (Len(published) + 1)
        /\ \A i \in DOMAIN published' : i \in DOMAIN published \/ i = Len(published) + 1
    BY <1>2, PublishedFacts
  <2>2. SUFFICES ASSUME NEW i \in DOMAIN published', NEW j \in DOMAIN published', i < j,
                        published'[i].kind = "status", published'[i].text = "logs"
                 PROVE  published'[j].kind = "status"
    BY DEF ResultIsLast
  <2>3. i \in DOMAIN published
    BY <2>1, <2>2
  <2>4. Told("logs")
    BY <2>1, <2>2, <2>3 DEF Told
  <2>5. CASE j \in DOMAIN published
    BY <2>1, <2>2, <2>3, <2>5 DEF IInv, ResultIsLast
  <2>6. CASE j = Len(published) + 1
    BY <1>2, <2>1, <2>4, <2>6
  <2> QED BY <2>1, <2>5, <2>6
<1> QED BY <1>1, <1>2

(* Steps that change neither the row nor what the channel tells of it.     *)
LEMMA SilentStep ==
    ASSUME IInv, UNCHANGED <<row, text>>,
           \A x \in Texts : Told(x)' <=> Told(x), ToldAny' <=> ToldAny,
           cpc \in Finished => cpc' \in Finished,
           cpc = "done" => cpc' = "done",
           \/ wpc' = wpc
           \/ wpc' \in {"drain", "cleanup", "dying", "remove", "done", "left", "down"}
           \/ wpc' = "torn" /\ cpc' \in Finished
           \/ wpc = "monitor" /\ wpc' \in {"join", "fail"}
           \/ wpc = "join" /\ wpc' = "fail"
           \/ wpc = "join" /\ wpc' = "finish" /\ cpc = "done"
           \/ wpc = "finish" /\ wpc' = "fail"
           \/ wpc = "launch" /\ wpc' = "fail"
    PROVE  ProcessSound'
<1>1. "logs" \in Texts /\ "error" \in Texts
  BY DEF Texts
<1> QED BY <1>1 DEF IInv, ProcessSound

(* The steps of the program, the thread and the task.                      *)
LEMMA OtherRow ==
    ASSUME IInv,
           \/ \E s \in Streams : ProgramWrites(s)
           \/ ProgramExits \/ ThreadStep \/ TaskStep \/ ReadFail \/ PutRaises \/ PublishFail
    PROVE  ProcessSound' /\ ResultIsLast'
<1> USE DEF programVars, threadVars, taskVars, processVars, ThreadGoto, Finished
<1>1. UNCHANGED <<wpc, row, text>>
  BY DEF ProgramWrites, ProgramExits, ThreadStep, Attach, Read, EndOfOutput, AttachTooLate,
         Put, PutEnd, TaskStep, Get, PublishOutput, PublishNotice, JoinThread, ReadFail,
         PutRaises, PublishFail
<1>2. CASE UNCHANGED published /\ (cpc' = cpc \/ cpc \notin Finished)
  <2>1. /\ \A x \in Texts : Told(x)' <=> Told(x)
        /\ ToldAny' <=> ToldAny
    BY <1>2, ToldSame
  <2>2. ProcessSound'
    BY <1>1, <1>2, <2>1, SilentStep
  <2> QED BY <1>2, <2>2, ResultStays
<1>3. CASE /\ cpc \in {"publish", "notice"}
           /\ published' = Append(published, Pending)
  <2>1. Pending \in Event /\ Pending.kind # "status"
    BY <1>3, PendingKind
  <2>2. /\ \A x \in Texts : Told(x)' <=> Told(x)
        /\ ToldAny' <=> ToldAny
    BY <1>3, <2>1, ToldOutput
  <2>3. ~Told("logs")
    BY <1>3 DEF IInv, ProcessSound
  <2>4. ProcessSound'
    BY <1>1, <1>3, <2>2, SilentStep
  <2> QED BY <1>3, <2>1, <2>3, <2>4, ResultStays
<1>4. \/ UNCHANGED published /\ (cpc' = cpc \/ cpc \notin Finished)
      \/ cpc \in {"publish", "notice"} /\ published' = Append(published, Pending)
  BY DEF ProgramWrites, ProgramExits, ThreadStep, Attach, Read, EndOfOutput, AttachTooLate,
         Put, PutEnd, TaskStep, Get, PublishOutput, PublishNotice, JoinThread, ReadFail,
         PutRaises, PublishFail, Publish, PublishRaised, Pending
<1> QED BY <1>2, <1>3, <1>4

(* The steps of process that publish nothing.                              *)
LEMMA SilentRow ==
    ASSUME IInv,
           \/ Launch \/ LaunchFail \/ Cancel \/ SeeExit \/ Kill \/ JoinTask \/ Finish
           \/ BodyFail \/ Fail \/ FailFail \/ Cleanup \/ CleanupFail \/ Drained \/ Remove
           \/ RemoveRefused \/ WorkerExits
    PROVE  ProcessSound' /\ ResultIsLast'
<1> USE DEF programVars, threadVars, taskVars, Goto
<1>1. UNCHANGED <<cpc, published>>
  BY DEF Launch, LaunchFail, Cancel, SeeExit, Kill, JoinTask, Finish, BodyFail, Fail,
         FailFail, Cleanup, CleanupFail, Drained, Remove, RemoveRefused, WorkerExits
<1>2. /\ \A x \in Texts : Told(x)' <=> Told(x)
      /\ ToldAny' <=> ToldAny
  BY <1>1, ToldSame
<1>3. "logs" \in Texts /\ "error" \in Texts
  BY DEF Texts
<1>4. ResultIsLast'
  BY <1>1, ResultStays
<1>5. CASE \/ LaunchFail \/ SeeExit \/ Kill \/ JoinTask \/ BodyFail \/ FailFail \/ Cleanup
           \/ CleanupFail \/ Drained \/ Remove \/ RemoveRefused \/ WorkerExits
  <2>1. UNCHANGED <<row, text>>
    BY <1>5 DEF LaunchFail, SeeExit, Kill, JoinTask, BodyFail, FailFail, Cleanup,
                CleanupFail, Drained, Remove, RemoveRefused, WorkerExits
  <2>2. \/ wpc' \in {"drain", "cleanup", "dying", "remove", "done", "left", "down"}
        \/ wpc = "monitor" /\ wpc' \in {"join", "fail"}
        \/ wpc = "join" /\ wpc' = "fail"
        \/ wpc = "join" /\ wpc' = "finish" /\ cpc = "done"
        \/ wpc = "finish" /\ wpc' = "fail"
        \/ wpc = "launch" /\ wpc' = "fail"
    BY <1>5 DEF LaunchFail, SeeExit, Kill, JoinTask, BodyFail, FailFail, Cleanup,
                CleanupFail, Drained, Remove, RemoveRefused, WorkerExits
  <2> QED BY <1>1, <1>2, <1>4, <2>1, <2>2, SilentStep
<1>6. CASE Launch
  BY <1>1, <1>2, <1>3, <1>4, <1>6 DEF Launch, IInv, ProcessSound
<1>7. CASE Cancel
  BY <1>1, <1>2, <1>3, <1>4, <1>7 DEF Cancel, IInv, ProcessSound
<1>8. CASE Finish
  BY <1>1, <1>2, <1>3, <1>4, <1>8 DEF Finish, IInv, ProcessSound, Finished
<1>9. CASE Fail
  BY <1>1, <1>2, <1>3, <1>4, <1>9 DEF Fail, IInv, ProcessSound
<1> QED BY <1>5, <1>6, <1>7, <1>8, <1>9

(* The steps of process that publish.                                      *)
LEMMA TellingRow ==
    ASSUME IInv, TellingStep
    PROVE  ProcessSound' /\ ResultIsLast'
<1> USE DEF programVars, threadVars, taskVars, Goto
<1>1. UNCHANGED <<cpc, row, text>>
  BY DEF TellingStep, AnnounceRun, AnnounceRunRaises, Announce, AnnounceRaises
<1>2. "logs" \in Texts /\ "error" \in Texts /\ "null" \in Texts /\ text \in Texts
      /\ row \in Rows /\ "running" \in Rows
  BY DEF Texts, Rows, Active, IInv, StreamTypeOK
<1>3. ResultIsLast'
  BY TellingFacts, ResultStays
<1>4. CASE UNCHANGED published
  <2>1. /\ \A x \in Texts : Told(x)' <=> Told(x)
        /\ ToldAny' <=> ToldAny
    BY <1>4, ToldSame
  <2> QED BY <1>1, <1>2, <1>3, <2>1
          DEF TellingStep, AnnounceRun, AnnounceRunRaises, Announce, AnnounceRaises,
              IInv, ProcessSound
<1>5. ASSUME NEW r \in {"running", row}, published' = Append(published, Status(r, "null")),
             AnnounceRun \/ AnnounceRunRaises
      PROVE  ProcessSound'
  <2>1. Status(r, "null") \in Event /\ Status(r, "null").text = "null"
    BY <1>2, <1>5, StatusFacts DEF Status
  <2>2. \A x \in Texts : Told(x)' <=> Told(x) \/ x = "null"
    BY <1>5, <2>1, ToldMore DEF Status
  <2>3. (Told("logs")' <=> Told("logs")) /\ (Told("error")' <=> Told("error"))
    BY <1>2, <2>2
  <2> QED BY <1>1, <1>5, <2>3 DEF AnnounceRun, AnnounceRunRaises, IInv, ProcessSound
<1>6. ASSUME published' = Append(published, Status(row, text)), Announce \/ AnnounceRaises
      PROVE  ProcessSound'
  <2>1. Status(row, text) \in Event /\ Status(row, text).text = text
    BY <1>2, StatusFacts DEF Status
  <2>2. \A x \in Texts : Told(x)' <=> Told(x) \/ x = text
    BY <1>6, <2>1, ToldMore DEF Status
  <2>3. /\ Told("logs")' <=> Told("logs") \/ text = "logs"
        /\ Told("error")' <=> Told("error") \/ text = "error"
    BY <1>2, <2>2
  <2>4. /\ wpc = "announce" => text = "logs" /\ ~Told("error") /\ wpc' \in {"cleanup", "fail"}
                               /\ row \in {"cancelled", "ended"}
        /\ wpc = "announceFail" => text = "error" /\ wpc' = "cleanup"
        /\ wpc \in {"announce", "announceFail"}
    BY <1>6 DEF Announce, AnnounceRaises, IInv, ProcessSound
  <2> QED BY <1>1, <2>3, <2>4 DEF IInv, ProcessSound
<1>7. \/ UNCHANGED published
      \/ /\ AnnounceRun \/ AnnounceRunRaises
         /\ \E r \in {"running", row} : published' = Append(published, Status(r, "null"))
      \/ /\ Announce \/ AnnounceRaises
         /\ published' = Append(published, Status(row, text))
  BY DEF TellingStep, AnnounceRun, AnnounceRunRaises, Announce, AnnounceRaises,
         Publish, PublishRaised
<1> QED BY <1>3, <1>4, <1>5, <1>6, <1>7

(* The steps of process that stop the task.                                *)
LEMMA StoppingRow ==
    ASSUME IInv, DrainTimeout \/ Teardown
    PROVE  ProcessSound' /\ ResultIsLast'
<1> USE DEF programVars, threadVars, Goto
<1>1. /\ UNCHANGED <<row, text>>
      /\ wpc' = "remove" \/ wpc' = "torn"
      /\ cpc' \in Finished
      /\ cpc \in Finished => cpc' = cpc
      /\ \/ UNCHANGED published
         \/ cpc \in {"publish", "notice"} /\ published' = Append(published, Pending)
  BY DEF DrainTimeout, Teardown, CancelTask, PublishRaised, Finished
<1>2. /\ \A x \in Texts : Told(x)' <=> Told(x)
      /\ ToldAny' <=> ToldAny
  BY <1>1, PendingKind, ToldSame, ToldOutput
<1>3. ProcessSound'
  BY <1>1, <1>2, SilentStep DEF Finished
<1>4. cpc \in {"publish", "notice"} => ~Told("logs")
  BY DEF IInv, ProcessSound, Finished
<1>5. ResultIsLast'
  BY <1>1, <1>4, PendingKind, ResultStays
<1> QED BY <1>3, <1>5

(* Every step keeps process, row and channel together.                     *)
LEMMA RowStep ==
    ASSUME IInv, [StreamNext]_streamVars
    PROVE  ProcessSound' /\ ResultIsLast'
<1>1. CASE UNCHANGED streamVars
  <2>1. UNCHANGED <<cpc, wpc, row, text, published>>
    BY <1>1 DEF streamVars, taskVars, processVars
  <2>2. /\ \A x \in Texts : Told(x)' <=> Told(x)
        /\ ToldAny' <=> ToldAny
    BY <2>1, ToldSame
  <2>3. ProcessSound'
    BY <2>1, <2>2, SilentStep
  <2> QED BY <2>1, <2>3, ResultStays
<1> QED
  BY <1>1, OtherRow, SilentRow, TellingRow, StoppingRow
     DEF StreamNext, ProcessStep, FaultStep, TellingStep

-----------------------------------------------------------------------------
(***************************************************************************)
(* The theorems                                                            *)
(***************************************************************************)

(* The worker starts with an empty queue and an empty channel.             *)
LEMMA InitIInv ==
    ASSUME StreamInit
    PROVE  IInv
<1> USE StreamAssumption, QueueAssumption, EmptySeq DEF StreamInit
<1>1. queue = <<>> /\ published = <<>> /\ DOMAIN queue = {} /\ DOMAIN published = {}
  BY EmptySeq
<1>2. StreamTypeOK
  <2>1. queue \in Seq(Chunk \cup {End}) /\ Len(queue) = 0 /\ published \in Seq(Event)
    BY <1>1, EmptySeq
  <2>2. written \in [Streams -> Nat] /\ taken \in [Streams -> Nat]
        /\ emitted \in [Streams -> Nat]
    OBVIOUS
  <2>3. row \in Rows /\ text \in Texts
    BY DEF Rows, Active, Texts
  <2>4. truncated \subseteq Streams /\ escaping \in BOOLEAN
    OBVIOUS
  <2>5. Len(queue) <= QueueSize
    BY <2>1
  <2> HIDE StreamAssumption, QueueAssumption
  <2> QED BY <2>1, <2>2, <2>3, <2>4, <2>5 DEF StreamTypeOK
<1>3. CountsSound /\ ThreadSound /\ QueueSound /\ TaskSound
  BY <1>1 DEF CountsSound, ThreadSound, QueueSound, TaskSound, Flowing
<1>4. NothingLost
  BY DEF NothingLost
<1>5. ChannelSound
  BY <1>1 DEF ChannelSound, PublishedUpTo
<1>6. ProcessSound
  BY <1>1 DEF ProcessSound, Told, ToldAny, Finished
<1>7. LiveIsPrefix /\ ResultIsLast
  BY <1>1 DEF LiveIsPrefix, ResultIsLast
<1> QED BY <1>2, <1>3, <1>4, <1>5, <1>6, <1>7 DEF IInv, PipeSound

(* The invariant holds.                                                    *)
LEMMA Invariance == StreamSpec => []IInv
<1>1. IInv /\ [StreamNext]_streamVars => IInv'
  BY TypeStep, PipeStep, ChannelStep, RowStep DEF IInv
<1> QED BY InitIInv, <1>1, PTL DEF StreamSpec

(* The type invariant of the worker's output.                              *)
THEOREM StreamTypeCorrect == StreamSpec => []StreamTypeOK
<1>1. IInv => StreamTypeOK
  BY DEF IInv
<1> QED BY <1>1, Invariance, PTL

(* What is published of a stream is a prefix of what the program wrote, in *)
(* order, without gaps or repetitions, within the limit                    *)
(* (worker._stream_output).                                                *)
THEOREM OutputIsPrefix == StreamSpec => []LiveIsPrefix
<1>1. IInv => LiveIsPrefix
  BY DEF IInv
<1> QED BY <1>1, Invariance, PTL

(* No output follows the result on the channel (worker.process).           *)
THEOREM NothingFollowsResult == StreamSpec => []ResultIsLast
<1>1. IInv => ResultIsLast
  BY DEF IInv
<1> QED BY <1>1, Invariance, PTL

(* Before the result is stored, the output has been published as far as    *)
(* the limit allows, and a notice says if there was more (worker.process   *)
(* awaits stream_task, which awaits the thread).                           *)
THEOREM OutputIsComplete == StreamSpec => []LiveIsComplete
<1>1. ASSUME IInv
      PROVE  LiveIsComplete
  <2> SUFFICES ASSUME wpc = "finish"
               PROVE  /\ ppc = "done" /\ queue = <<>>
                      /\ \A s \in Streams :
                            /\ emitted[s] = IF taken[s] <= Limit THEN taken[s] ELSE Limit
                            /\ s \in truncated <=> taken[s] > Limit
    BY DEF LiveIsComplete
  <2>1. cpc = "done"
    BY <1>1 DEF IInv, ProcessSound
  <2>2. ppc = "done" /\ queue = <<>> /\ DOMAIN queue = {}
    BY <1>1, <2>1, EmptySeq DEF IInv, PipeSound, TaskSound
  <2>3. ASSUME NEW s \in Streams
        PROVE  /\ emitted[s] = IF taken[s] <= Limit THEN taken[s] ELSE Limit
               /\ s \in truncated <=> taken[s] > Limit
    <3>1. /\ emitted[s] \in Nat /\ taken[s] \in Nat /\ Limit \in Nat
          /\ emitted[s] <= Limit /\ emitted[s] <= taken[s]
          /\ s \in truncated => Limit < taken[s]
      BY <1>1, PipeTypes DEF IInv, PipeSound, CountsSound
    <3>2. \A b \in Nat : (emitted[s] <= b /\ b < taken[s]) => Limit <= b /\ s \in truncated
      BY <1>1, <2>1, <2>2
         DEF IInv, PipeSound, NothingLost, Flowing, Covered, Putting, Working
    <3>3. emitted[s] < taken[s] => Limit <= emitted[s] /\ s \in truncated
      BY <3>1, <3>2
    <3> QED BY <3>1, <3>3
  <2> QED BY <2>2, <2>3
<1> QED BY <1>1, Invariance, PTL

-----------------------------------------------------------------------------
(***************************************************************************)
(* The refinement                                                          *)
(***************************************************************************)

(* The events of both levels are the same.                                 *)
LEMMA SameEvents ==
    /\ \A s, a, b : Live!Output(s, a, b) = Output(s, a, b)
    /\ \A s : Live!Notice(s) = Notice(s)
    /\ \A r, x : Live!Status(r, x) = Status(r, x)
    /\ \A s \in Streams, n \in Nat :
           Live!PublishedUpTo(published, s, n) <=> PublishedUpTo(published, s, n)
BY DEF Live!Output, Output, Live!Notice, Notice, Live!Status, Status,
       Live!PublishedUpTo, PublishedUpTo, Live!OutputOf, OutputOf

(* What the task publishes is live output.                                 *)
LEMMA PendingEmits ==
    ASSUME IInv, cpc \in {"publish", "notice"}, UNCHANGED <<row, text>>,
           published' = Append(published, Pending)
    PROVE  \E s \in Streams : Live!Emit(s)
<1> DEFINE s == item.stream
<1>1. CASE cpc = "publish"
  <2> DEFINE n == emitted[s] + Taken(item)
  <2>1. /\ item \in Chunk /\ s \in Streams /\ item.from = emitted[s]
        /\ emitted[s] \in Nat /\ Taken(item) \in Nat
        /\ emitted[s] < n /\ n <= Limit
        /\ item.to <= taken[s] /\ taken[s] <= written[s] /\ written[s] <= MaxOutput[s]
        /\ n <= item.to
    BY <1>1, AcceptedEnds
  <2>2. /\ item.to \in Nat /\ taken[s] \in Nat /\ written[s] \in Nat
        /\ MaxOutput[s] \in Nat /\ Limit \in Nat
    BY <2>1, PipeTypes
  <2>3. n <= MaxOutput[s] /\ n \in Nat
    BY <2>1, <2>2
  <2>4. Pending = Output(s, emitted[s], n)
    BY <1>1, <2>1 DEF Pending, Accepted
  <2>5. PublishedUpTo(published, s, emitted[s])
    BY <1>1, <2>1 DEF IInv, ChannelSound, Finished
  <2>6. Live!Continues(s, Output(s, emitted[s], n))
    BY <2>1, <2>3, <2>5, SameEvents DEF Live!Continues, Output
  <2>7. Output(s, emitted[s], n) \in
            {Live!Output(s, from, to) : from, to \in 0 .. Limit} \cup {Live!Notice(s)}
    BY <2>1, <2>2, <2>3, SameEvents
  <2>8. Live!Emit(s)
    BY <1>1, <2>4, <2>6, <2>7 DEF Live!Emit, Live!Publish, Finished
  <2> QED BY <2>1, <2>8
<1>2. CASE cpc = "notice"
  <2>1. /\ item \in Chunk /\ s \in Streams /\ item.to <= taken[s]
        /\ emitted[s] = Limit /\ Limit < item.to /\ s \notin truncated
    BY <1>2, PipeTypes DEF IInv, PipeSound, TaskSound
  <2>2. /\ item.to \in Nat /\ taken[s] \in Nat /\ written[s] \in Nat
        /\ MaxOutput[s] \in Nat /\ Limit \in Nat
        /\ taken[s] <= written[s] /\ written[s] <= MaxOutput[s]
    BY <2>1, PipeTypes DEF IInv, PipeSound, CountsSound
  <2>3. Limit < MaxOutput[s]
    BY <2>1, <2>2
  <2>4. /\ PublishedUpTo(published, s, Limit)
        /\ \A i \in DOMAIN published : published[i] # Notice(s)
    BY <1>2, <2>1 DEF IInv, ChannelSound, Finished
  <2>5. Pending = Notice(s) /\ Notice(s).kind # "output"
    BY <1>2 DEF Pending, Notice
  <2>6. Live!Continues(s, Notice(s))
    BY <2>1, <2>2, <2>3, <2>4, <2>5, SameEvents DEF Live!Continues, Live!New
  <2>7. Live!Emit(s)
    BY <1>2, <2>5, <2>6, SameEvents DEF Live!Emit, Live!Publish, Finished
  <2> QED BY <2>1, <2>7
<1> QED BY <1>1, <1>2

(* What process tells of the row is a report.                              *)
LEMMA TellingReports ==
    ASSUME IInv, TellingStep
    PROVE  Live!Report \/ UNCHANGED Live!liveVars
<1> USE DEF programVars, threadVars, taskVars
<1>1. UNCHANGED <<cpc, row, text>>
  BY DEF TellingStep, AnnounceRun, AnnounceRunRaises, Announce, AnnounceRaises
<1>2. CASE UNCHANGED published
  BY <1>1, <1>2 DEF Live!liveVars
<1>3. ASSUME NEW r \in {"running", row}, published' = Append(published, Status(r, "null")),
             wpc = "announceRun"
      PROVE  Live!Report
  <2>1. row \in {"running", "cancelled"} /\ text = "null" /\ ~ToldAny
    BY <1>3 DEF IInv, ProcessSound
  <2>2. \A i \in DOMAIN published : published[i] # Status(r, "null")
    BY <2>1 DEF ToldAny, Status
  <2>3. Live!New(Live!Status(r, "null")) /\ Live!Publish(Live!Status(r, "null"))
    BY <1>3, <2>2, SameEvents DEF Live!New, Live!Publish
  <2> QED BY <1>1, <1>3, <2>1, <2>3 DEF Live!Report
<1>4. ASSUME published' = Append(published, Status(row, text)),
             wpc \in {"announce", "announceFail"}
      PROVE  Live!Report
  <2>1. row \in {"cancelled", "ended", "failed"} /\ ~Told(text)
    BY <1>4 DEF IInv, ProcessSound
  <2>2. \A i \in DOMAIN published : published[i] # Status(row, text)
    BY <2>1 DEF Told, Status
  <2>3. Live!New(Live!Status(row, text)) /\ Live!Publish(Live!Status(row, text))
    BY <1>4, <2>2, SameEvents DEF Live!New, Live!Publish
  <2> QED BY <1>1, <2>1, <2>3 DEF Live!Report
<1>5. \/ UNCHANGED published
      \/ /\ wpc = "announceRun"
         /\ \E r \in {"running", row} : published' = Append(published, Status(r, "null"))
      \/ /\ wpc \in {"announce", "announceFail"}
         /\ published' = Append(published, Status(row, text))
  BY DEF TellingStep, AnnounceRun, AnnounceRunRaises, Announce, AnnounceRaises,
         Publish, PublishRaised
<1> QED BY <1>2, <1>3, <1>4, <1>5

(* The end of the task closes the output, perhaps with a last event.       *)
LEMMA StoppingCloses ==
    ASSUME IInv, PublishFail \/ DrainTimeout \/ Teardown
    PROVE  \/ \E s \in Streams : Live!Emit(s)
           \/ Live!Close \/ UNCHANGED Live!liveVars
<1>1. /\ UNCHANGED <<row, text>>
      /\ cpc' \in Finished
      /\ \/ cpc \in Finished /\ UNCHANGED published
         \/ cpc \notin Finished /\ UNCHANGED published
         \/ cpc \in {"publish", "notice"} /\ published' = Append(published, Pending)
  BY DEF PublishFail, DrainTimeout, Teardown, CancelTask, PublishRaised, Finished,
         processVars, Goto
<1>2. CASE cpc \in Finished /\ UNCHANGED published
  BY <1>1, <1>2 DEF Live!liveVars
<1>3. CASE cpc \notin Finished /\ UNCHANGED published
  BY <1>1, <1>3 DEF Live!Close
<1>4. CASE cpc \in {"publish", "notice"} /\ published' = Append(published, Pending)
  BY <1>1, <1>4, PendingEmits
<1> QED BY <1>1, <1>2, <1>3, <1>4

(* The steps of process that change the row.                               *)
LEMMA RowRefines ==
    ASSUME IInv, Launch \/ Cancel \/ Finish \/ Fail
    PROVE  \/ Live!Start \/ Live!CancelRow \/ Live!StoreResult \/ Live!StoreError
           \/ UNCHANGED Live!liveVars
<1> USE DEF programVars, threadVars, taskVars, Goto
<1>1. UNCHANGED <<cpc, published>>
  BY DEF Launch, Cancel, Finish, Fail
<1>2. CASE Launch
  <2>1. Live!Start
    BY <1>1, <1>2 DEF Launch, IInv, ProcessSound, Live!Start
  <2> QED BY <2>1
<1>3. CASE Cancel
  <2>1. Live!CancelRow
    BY <1>1, <1>3 DEF Cancel, Live!CancelRow
  <2> QED BY <2>1
<1>4. CASE Finish
  <2>1. cpc = "done" /\ row \in {"running", "cancelled"} /\ text = "null"
    BY <1>4 DEF Finish, IInv, ProcessSound
  <2>2. Live!StoreResult
    BY <1>1, <1>4, <2>1 DEF Finish, Live!StoreResult, Finished
  <2> QED BY <2>2
<1>5. CASE Fail
  <2>1. CASE row = "ended"
    BY <1>1, <1>5, <2>1 DEF Fail, Live!liveVars
  <2>2. CASE row # "ended"
    <3>1. row \in {"starting", "running", "cancelled"}
      BY <1>5, <2>2 DEF Fail, IInv, ProcessSound, StreamTypeOK, Rows, Active
    <3>2. Live!StoreError
      BY <1>1, <1>5, <2>2, <3>1 DEF Fail, Live!StoreError
    <3> QED BY <3>2
  <2> QED BY <2>1, <2>2
<1> QED BY <1>2, <1>3, <1>4, <1>5

(* Every step of the worker is one of the abstract output or a stutter.    *)
LEMMA StepRefines ==
    ASSUME IInv, [StreamNext]_streamVars
    PROVE  [Live!LiveNext]_(Live!liveVars)
<1> USE DEF programVars, threadVars, taskVars, processVars, ThreadGoto, Goto
<1>1. ASSUME UNCHANGED <<row, text, published>>,
             cpc' = cpc \/ (cpc \notin Finished /\ cpc' \notin Finished)
      PROVE  UNCHANGED Live!liveVars
  BY <1>1 DEF Live!liveVars
<1>2. CASE \/ \E s \in Streams : ProgramWrites(s)
           \/ ProgramExits \/ ThreadStep \/ ReadFail \/ PutRaises
  <2>1. UNCHANGED <<cpc, row, text, published>>
    BY <1>2 DEF ProgramWrites, ProgramExits, ThreadStep, ReadFail, PutRaises, Attach, Read,
                EndOfOutput, AttachTooLate, Put, PutEnd
  <2> QED BY <1>1, <2>1
<1>3. CASE Get
  <2>1. UNCHANGED <<row, text, published>> /\ cpc \notin Finished /\ cpc' \notin Finished
    BY <1>3 DEF Get, AfterAccepted, Finished
  <2> QED BY <1>1, <2>1
<1>4. CASE JoinThread
  <2>1. Live!Close
    BY <1>4 DEF JoinThread, Live!Close, Finished
  <2> QED BY <2>1 DEF Live!LiveNext
<1>5. CASE PublishOutput \/ PublishNotice
  <2>1. /\ cpc \in {"publish", "notice"} /\ UNCHANGED <<row, text>>
        /\ published' = Append(published, Pending)
    BY <1>5 DEF PublishOutput, PublishNotice, Pending, Publish
  <2> QED BY <2>1, PendingEmits DEF Live!LiveNext
<1>6. CASE PublishFail \/ DrainTimeout \/ Teardown
  BY <1>6, StoppingCloses DEF Live!LiveNext
<1>7. CASE Launch \/ Cancel \/ Finish \/ Fail
  BY <1>7, RowRefines DEF Live!LiveNext
<1>8. CASE TellingStep
  BY <1>8, TellingReports DEF Live!LiveNext
<1>9. CASE \/ LaunchFail \/ SeeExit \/ Kill \/ JoinTask \/ BodyFail \/ FailFail \/ Cleanup
           \/ CleanupFail \/ Drained \/ Remove \/ RemoveRefused \/ WorkerExits
  <2>1. UNCHANGED <<cpc, row, text, published>>
    BY <1>9 DEF LaunchFail, SeeExit, Kill, JoinTask, BodyFail, FailFail, Cleanup,
                CleanupFail, Drained, Remove, RemoveRefused, WorkerExits
  <2> QED BY <1>1, <2>1
<1>10. CASE UNCHANGED streamVars
  <2>1. UNCHANGED <<cpc, row, text, published>>
    BY <1>10 DEF streamVars
  <2> QED BY <1>1, <2>1
<1> QED
  BY <1>2, <1>3, <1>4, <1>5, <1>6, <1>7, <1>8, <1>9, <1>10
     DEF StreamNext, TaskStep, ProcessStep, FaultStep, TellingStep

(* To those who see only the row and the channel the worker implements     *)
(* LiveOutput, whatever raises and whenever the execution is cancelled     *)
(* (worker._stream_output, process, _transition, _finish).                 *)
THEOREM WorkerImplementsLiveOutput == StreamSpec => ImplementsLiveOutput
<1>1. StreamInit => Live!LiveInit
  BY DEF StreamInit, Live!LiveInit, Finished
<1>2. IInv /\ [StreamNext]_streamVars => [Live!LiveNext]_(Live!liveVars)
  BY StepRefines
<1> QED BY <1>1, <1>2, Invariance, PTL DEF StreamSpec, ImplementsLiveOutput, Live!LiveSpec
=============================================================================
