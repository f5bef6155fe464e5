# Concord: a TLA+ model of the collaboration server

Concord (`src/`) is a collaborative code editor. One API process keeps the live
Yjs document of every open session, Redis keeps recovery checkpoints and a job
queue, PostgreSQL keeps explicit saves, membership and executions, and a
separate worker process runs code in containers. This directory holds TLA+
modules for the parts where the order of steps matters, TLC configurations that
check them on small instances, and proofs that TLAPS checks for instances of any
size.

## The system and its hazards

| Component | State | Operations | What is hard |
|---|---|---|---|
| Document manager (`collaboration/document.py`) | `_docs`, `_metadata` (generation, checkpointed generation, saved digest), one guard per session | load, checkpoint, checkpoint-and-remove, persist, apply, restore | edits arrive between an I/O call and its return; two stores that fail separately; lost replies; crashes |
| WebSocket room (`collaboration/websocket.py`, `main.py`) | `_rooms`, `_room_locks` | join, handshake, update, broadcast, leave, periodic maintenance, shutdown | a last leave races a join; broadcasts await; a document nobody is connected to; the last write before the process ends |
| Document endpoints (`sessions`, `snapshots`, `execution` routers) | none of their own | save, snapshot, restore, run | each uses the live document under the room lock, and may fail half-way |
| Live authorization (`websocket.py`, `sessions/`, `auth/`) | membership rows, `_member_invalidations`, `_session_invalidations`, `_connection_stamps`, `_revoked_connections` | authenticate, join, frame; add, change, remove, close; HTTP mutation | roles are cached by connections and by SQLAlchemy's identity map while others change them |
| Execution (`execution/`) | execution rows, queue, processing list, cancellation keys | create, cancel, claim, run, finish, recover | two processes, three stores, crashes between any two of them |
| Output and events (`worker.py`, `events.py`) | bounded queue, output limit, Pub/Sub | read, queue, publish, truncate, join, drain, relay | a thread and an event loop that wait for each other; failures of one with the other still running; fire-and-forget delivery |
| Frame codec (`protocol.py`) | none | encode, parse | widths of numbers; lengths that cut the frame; a server that re-encodes what it relays |
| Awareness (`presence.py`) | entries with clocks and owners | update, remove owner, expire | reconnects with the same client identifier |
| Frontend (`SessionPage.tsx`, `CollaborativeEditor.tsx`) | save status, execution view, local Y.Doc | callbacks, polling | asynchronous digests and late answers |

`PROJECT.json` lists every component with its status, and the hazards with the
line where each bites and the properties that would notice it.

The components interact as follows. A connection and every document endpoint
take the session's **room lock** (`document_room_lifecycle`, `_join_room`,
`_leave_room`, `_handle_binary_message`) and, inside it, the document manager's
**guard** (`_serialized`). The periodic task takes the room lock only to look at
the room and, for an active one, checkpoints with the guard alone. Membership
changes take the room lock for commit and fence, so the lock also orders them
with updates. The worker shares nothing with the API but the two stores: the
execution's row, the queue and its processing list, the cancellation key, and the
session's Pub/Sub channel, which the API's relay forwards to the room's
connections.

## Modules

| Module | Models |
|---|---|
| `DocumentStore` | class `DocumentManager`: memory, guard, Redis checkpoint, database row; actions parameterised by the calling task |
| `CollabRoom` | clients, the room and its lock, the four document endpoints and the periodic task, composed with `DocumentStore` |
| `DurableDocument` | abstract: what a session's document promises |
| `RoomDurability` | the refinement mapping from `CollabRoom` to `DurableDocument` |
| `Authorization` | membership, cached roles, the fence, HTTP mutations |
| `ExecutionLifecycle` | execution rows, queue and processing list, the API's creation and cancellation, the worker and its sandboxes |
| `Awareness` | the server's `AwarenessStore`, the room handlers that use it, and browsers that reconnect |
| `OutputEvents` | the events of one execution on the channel |
| `LiveOutput` | abstract: what the worker promises to those who see only the row and the channel |
| `OutputStream` | the worker's thread, queue, publishing task and `process`; implements `LiveOutput` |
| `ExecutionView` | relay and page of one execution, composed with `LiveOutput` in place of the worker |
| `FrameCodec` | the binary frames: encoders, parser, and a receiver that is sent damaged frames |
| `SaveStatus` | the save indicator: the page's HTTP save and the editor's comparisons of digests |
| `MCRoomDurability`, `MCAuthorization`, `MCAwareness`, `MCOutputStream`, `MCExecutionView`, `MCFrameCodec`, `MCSaveStatus` | instances for TLC: bounds and symmetry sets |
| `CollabRoomProofs`, `AuthorizationProofs`, `ExecutionLifecycleProofs`, `AwarenessProofs`, `OutputStreamProofs`, `ExecutionViewProofs`, `FrameCodecProofs`, `SaveStatusProofs` | the proofs |

An action runs from one suspension point of a coroutine to the next; `pc[t]`
says where task `t` is suspended. `PROJECT.json` maps every definition to the
lines it stands for. Definitions named `Mut_...` are wrong variants of the
definition that follows them; substituting one makes TLC report the property it
is listed with.

### DocumentStore and CollabRoom

A Yjs state is the set of updates that it holds: updates are idempotent and
commutative, so applying is union, and the SHA-256 digest is represented by the
set itself. Every I/O call is two steps (the server performs it; the coroutine
resumes), so that edits, failures and crashes fall before, between and after.
`Faults` selects what may fail: reads of Redis, writes of Redis (also with the
reply lost), the database, the process.

Abstractions. Every client may edit (roles are the subject of `Authorization`).
A client has one WebSocket at a time. A client's updates are delivered singly
and in any order, which includes the order of the wire. A broadcast to a socket
that has left is dropped with its target: the send would raise and be skipped.
`remove_doc` has no caller. The load inside `persist_to_db` never happens,
because the only caller has loaded the document under the room lock (proved, as
part of the inductive invariant).

Shutdown is the end of `main.lifespan`. The server (uvicorn, outside the
repository) runs it when every connection and request is over and accepts no
more; the periodic task has been cancelled and awaited, so the flusher's task
goes on as the shutdown: it takes the guard and checkpoints what is loaded, and
then the process ends. It is started again after a crash (`Reboot`, the restart
policy of `docker-compose.yml`). Two things are excluded: expiry of the
checkpoint (it would make durability a matter of wall clock), and a Redis write
that is executed after its client gave up and another one was sent.

`DurableDocument` has three sets of updates, what users see (`live`), the explicit
save and the recovery backup, and how the server process has ended, if it has.
While the process runs, `live` only grows, so an eviction that drops an edit is no
step of it. `live` falls back to what the other two hold at a crash, or when
a process starts after a stop whose last backup failed; after a stop with its last
backup nothing changes. In `RoomDurability` the live document is the loaded one, or
what the next load would build, and `Process` reads the end of the process off the
flusher's program counter.

### Authorization

`role` and `active` are the database. A connection stamps itself with the
current versions *before* it reads the database, caches the role, looks at the
fence before and after joining, at every frame, and again under the room lock
before an update is applied. An owner's request loads owner, sessions and
members into its identity map when it starts (`lazy="selectin"`); `act[a].saw`
is the role it will compare with later. `HttpRequest` and
`RequireCurrentEditor` are the two checks of an HTTP mutation, before and under
the lock. The owner's own connections are not in the model: their role never
changes.

### ExecutionLifecycle

`row` is the execution's status in PostgreSQL ("gone" after the API has undone a
creation), `queue` and `processing` are the two Redis lists, `cancelKey` the
cancellation keys. `create[j]` and `cancel[j]` say where the API's requests are,
`wpc` where the single worker is, `container` what Docker has. Recovery at
startup (`RecoverQueued`, `RecoverStarted`, `RecoverSettled`, after the orphans
are removed) and the body of `process` are one action per awaited effect.

Abstractions. A database or Docker call that raises had no effect; a Redis
command that raises may have been executed, and both cases are steps. Where the
worker removes a sandbox, at the end of `process` (`CleanupRefused`) and at its
start (`Start`), the code suppresses what Docker raises and goes on, and so does the
model; `refused` remembers whose sandbox was left. Keys do not expire. The
processing list is the number of entries per execution, so recovery visits
it in any order. A worker that raises does not end at once: while it is `exiting`
its interpreter waits for the thread that reads the sandbox (`WorkerExits`). The
output itself is the subject of the next three modules.

### OutputStream and LiveOutput

One execution from the creation of `stream_task` on. The bytes of a stream are
numbered and a chunk is an interval of them, so that order, gaps and repetitions
are visible and the text is not. `ppc` is the thread (`produce`), `cpc` the task
(`_stream_output`), `wpc` the worker's `process`. The thread reads any part of
what the program has written, puts it into a queue of `QueueSize`, and at last
puts `End`, whatever happened to it. The task takes a chunk, publishes what the
limit allows and, once per stream, the notice that there was more. A publish that
raises or is cancelled may have been executed. `process` waits for the task,
stores the result and announces it; its except clause stores an error; its
finally clause kills, waits five seconds, cancels the task and removes the
sandbox, or goes on without (`RemoveRefused`). A worker whose `process` raises is torn down: the tasks are cancelled,
among them the put the thread waits for, and the interpreter joins the thread.

Abstractions. Decoding with replacement characters and the limit of the stored
text (`_bounded`) are left out: the stored text is "logs" or "error".

`LiveOutput` has neither thread nor queue nor exceptions: only the row, its text,
the channel, and whether output may still come. Live output of a stream
continues where it ended, within the limit; a notice needs the limit to be
reached and more to exist; a status event tells what the row holds (or that it
was running before it was cancelled) and is sent once; the result can be stored
only when output is over, and a cancellation stands.

### ExecutionView

The page of one execution against any worker that keeps the promise of
`LiveOutput`. `delivered` counts the events that are past; an event may be
skipped (relay reconnecting, page offline, a send that fails). `request` are the
requests under way, each answered with the row as the server read it, whenever it
likes or never. `view` is the page's record: `Applied` is the handler of events,
`Upserted` that of an answer, `Listed` the replacement by a list.

### FrameCodec

A frame is a sequence of bytes. A byte has `2 * Half` values, of which `Half` is
the flag that another digit follows; the code has `Half = 128`. The encoders and
`parse_message` are translated function by function; a `ProtocolError` is an
offset of -1 that ends the parse. Which payloads are UTF-8 or JSON is a constant.
`Message` is what the encoders may be given (numbers in range, known subtypes),
and a message is `WellFormed` if its frame is not too large.
The receiver is sent encoded messages, these with one byte changed or cut short,
and every short sequence of bytes.

### Awareness

`store` holds the clock, activity and owner of every client identifier; `up` and
`wire` are the two directions of each connection. Removed states keep their
clock, and the store is discarded with the last connection, as in the code. The
browsers are the environment, modelled as y-websocket and y-protocols behave:
they keep identifier and clock over a reconnect, announce themselves at once,
send back what they learn of others, re-announce themselves with a newer clock
when told they are gone, and hide peers that are silent for too long. Each frame
carries one entry. `wire` is a set because broadcasts are loops of awaited sends
and overtake each other. Pruning may remove any set of active states, since a
heartbeat may be late at any time; the handling of a frame is a step of its own
because the report of a pruning is awaited.

### SaveStatus

One page with its editor. `doc` is the editor's Y.Doc, `server` and `saved` the
server's live and explicitly saved documents. `digests` are the SHA-256
computations under way: an edit, a new status frame, the first synchronisation
and an unmount all increment `comparison`, and a result counts only if it still
carries the present number. A computation may also fail (`CompareFails`), which
changes nothing on the page; `undecided` remembers that the last one did. `calls` are HTTP saves; `request`, `version` and
`inFlight` are the page's refs. An authorization change resets the refs at once
while the old editor lives on until the page is rendered (`leaving`). A status
frame may be late or lost, so `ReceiveStatus` allows any frame about a state
that is part of the last save; every real frame is one of these.

## Runs

All numbers are distinct states.

| Run | Instance | Shows |
|---|---|---|
| `Room_safety` | 2 clients, 1 request, 1 update, failing writes, crashes, shutdown; 1.1M | `RoomHasDocument`, `NoStrandedEdit`, `NoMissedUpdate`, `ShutdownLosesNothing`, `ImplementsDurableDocument` |
| `Room_liveness` | 1 client, 1 request, 1 update, failing reads, writes and database, fair; 103k | `CleanMeansSaved`, `CheckpointedMeansRecoverable`, `CaptureSeesSave`, `EveryRequestReturns`, `OrphanEvicted`, `EditIsCheckpointed` |
| `Auth_fence` | 1 member, 2 connections, 1 owner request, 1 HTTP mutation, failing commits; 4.4M | `OnlyEditorsWrite`, `OnlyMembersRead`, `CachedRoleIsCurrent` |
| `Auth_revoked_leave` | 1 connection, fair, failing commits and refreshes; 32k | `RevokedLeave` |
| `Auth_stale_role` | 2 owner requests | violates `AcknowledgedRoleHolds`: of two concurrent changes the second answers and changes nothing |
| `Exec_lifecycle` | 2 executions, up to 3 failures of any kind, fair; 490k | `RunsAtMostOnce`, `SandboxOfJob`, `OnlyErrorsAbandon`, `TerminalIsFinal`, `FinishedNeverStarts`, `FinishedStops`, `EveryJobEnds` |
| `Exec_abandoned` | 1 execution | violates `ClaimIsHeld`: a publish that fails after the first transition acknowledges a job whose row stays STARTING |
| `Output_stream` | 1 stream of 3 bytes, limit 2, a queue of 1, all faults, fair; 231k | `LiveIsPrefix`, `LiveIsComplete`, `ResultIsLast`, `ImplementsLiveOutput`, `ProcessReturns`, `ThreadEnds` |
| `Output_view` | 1 stream, 1 request besides the first, fair; 302k | `ViewTypeOK`, `ShowsResult`, `ViewSettles` |
| `Presence` | 2 clients, 3 connections, one clock that advances; 1.8M | `TypeOK`, `PresenceIsOwned`, `RemovalReaches`, `ClockIsKnown` |
| `Save_status` | 2 updates, 1 reported change, 3 saves or authorization changes; 5.2M | `SavedIsSaved`, `SavingIsReal` |
| `Frame_codec` | bytes of two bits, numbers up to 22, frames up to 21 bytes, all sequences up to 7; 23k | `RoundTrip`, `RelayKeepsMeaning`, `PrefixFree` |

The type invariants of `CollabRoom`, `Authorization`, `ExecutionLifecycle`,
`OutputStream` and `SaveStatus` are proved and not checked again by a run;
`SaveNeverLoses` and `CheckpointNeverLoses` follow from the refinement that
`Room_safety` checks and are proved too.

The violated properties state what a comment or a document of the repository
says; `findings` in `PROJECT.json` quotes the line.

**Bounds.** `MaxGeneration` stops new saves (an edit is bounded by the set of
updates), `MaxVersion` new membership requests and `MaxEdits` new frames; none
of them ends a step that has begun. `MaxFaults` bounds the failures of an
execution run: three suffice for a crash during the recovery from a crash after
a lost reply. `MaxClock` bounds each client's clock and `MaxFrames` the frames
that a browser has in flight. Three connections are needed for a browser with an
old and a new one and a peer that watches; that both clocks advance was checked
with one frame in flight (2.7M states) and takes longer than a run should.
One stream suffices for `OutputStream`, because the streams share the queue and
the task but no count; the inductive invariant was also checked with two (1.7M
states), and the proofs hold for any number. Three bytes with a limit of two give
a chunk below, at and across the limit, and one behind it; a queue of one is full
whenever it is not empty. In `ExecutionView` a second request is enough for two
answers to overtake each other and the events, and one chunk of output for late
output to follow a result; its inductive invariant was also checked with two
bytes of output (1.1M states). The codec's numbers have up to
five digits (`MaxVarBytes`), of which the greatest are out of range (`MaxSafe`);
`MaxTyped` bounds the exhaustive part at the length of an awareness frame with
an entry.
`MaxVersion`, `MaxRequest` and `MaxComparison` bound the counters of `SaveStatus`:
three requests are a save, the authorization change that supersedes it and a save
in the new editor. An edit can arrive while the empty state is being written, so
one update suffices for the stores (the refinement was also checked with two
updates and one client, and is proved for any number); two clients are needed
for a join to race a leave, two connections for one to be joining while another
is fenced. One request slot is reused without limit; two would multiply the states without a new conflict,
since requests hold the room lock for all their steps but the final broadcast.
The proofs have no bounds: they hold for any number of each.

**Fairness.** The event loop resumes every ready coroutine: weak fairness of
steps that wait for nothing. `asyncio.Lock` is FIFO, so a waiter is not overtaken
for ever: strong fairness of the steps with which a request or the periodic task
waits for the room lock or the guard (the properties do not need it of
connections). In `ExecutionLifecycle` the API's begun requests and the worker's
recovery and processing go on (weak fairness); a worker that is down restarts,
as its container's restart policy says, and `MaxFaults` means that failures end.
Programs need not exit: the worker's timeout ends them. That run does not check
deadlock: its executions are finitely many, and a worker without work waits in
BLMOVE. In `OutputStream` thread, task and `process` go on (weak fairness); the
deadline and the five seconds pass; the program need neither write nor end. In
`ExecutionView` the interval fires (weak), and of many requests some is served and
some answer arrives (strong, since each may be lost). Both end when the one
execution they model has ended, so these runs do not check deadlock either.
Nothing obliges clients, requests, crashes or failures to happen. For
`OrphanEvicted` and `EditIsCheckpointed` a Redis outage is assumed to end: of
the periodic task's writes some succeed.

## Proofs

`CollabRoomProofs` proves, for any sets of clients, requests and updates and any
faults, type correctness, `RoomHasDocument`, `CleanMeansSaved`,
`CheckpointedMeansRecoverable`, `CaptureSeesSave`, `SaveNeverLoses` and
`ShutdownLosesNothing`. None is inductive by itself. The invariant `IInv` adds who holds which lock in which
state, that the guard's holder is in a storage call of the kind its `pc` allows,
that a task between its load and its release finds the document there
(`DocumentThere`), and that what a call in flight has read or is about to write
lies between the stores and the live document.

Its second part goes on from that invariant to what the clients hold. For any
faults, `NoStrandedEdit`; with a PostgreSQL that works (`"database" \notin Faults`),
`NoMissedUpdate`. Broadcasts reach for members of the room only, and what a task
has still to send is in the document already; a client begins to listen with all
that the document holds, and what is added later is sent to all who listen.

Its third part proves that the room implements `DurableDocument`, and
hence that checkpoints only grow, under `RedisReadable` (no failing read). Every
step but a crash and the start of a new process leaves all of the document where it
was: an eviction forgets it only at the generation it has written, and a load
rebuilds it from both stores. The end of a process uses `ShutdownLosesNothing` for
a shutdown that wrote, and for the others that a next load finds the two stores. The
extra invariant is that the live document contains the checkpoint; that is what
a load without Redis breaks (see the limits below).

`AuthorizationProofs` proves type correctness, and under `RefreshReliable` (no
failure between a commit and its fence) `OnlyEditorsWrite`, `OnlyMembersRead`
and `CachedRoleIsCurrent`. The invariant says: the lock is held exactly by the
requests between their acquisition and release; stamps are never ahead of the
versions; a joined connection that is not revoked is not stale; and what a
handler with a current stamp has read is still true *or* the request that
changed it is between its commit and its fence. An update is applied only while
the lock is free, and then no request is there; hence the role is current.

`ExecutionLifecycleProofs` proves, for any number of executions and failures,
type correctness, `RunsAtMostOnce`, `SandboxOfJob`, `TerminalIsFinal`,
`FinishedNeverStarts` and `OnlyErrorsAbandon`. The invariant says: what recovery works on is on the
processing list; a cancellation under way has seen a row that it holds locked; a
row that is not begun has not run, and a worker that has begun one but not
started its program finds the row STARTING or undone; and sandboxes exist only
from their creation to the cleanup of the same execution, or while the worker is
down, or after Docker refused their removal. `OnlyErrorsAbandon` needs a second one (`KeptInv`): what the worker works on
is on the processing list; a queued row is on one of the lists or being added; and
a begun one is on the processing list and pursued (by a worker that is down and
will recover it, by a recovery that has yet to come to it, or by its run) unless
an error was raised in its handling or the API died before it queued it.

`AwarenessProofs` proves type correctness, `PresenceIsOwned`, `RemovalReaches` and
`ClockIsKnown`, for any number of clients and connections, any clocks and any order
of delivery. While somebody is in the room the store's clocks only grow, and every
entry on its way to a browser, and every echo of another client's state on its way
back, has at most the store's clock: so an echo never wins, and active states come
from their own connections only. `RemovalComes` strengthens `RemovalReaches`
to entries that have not arrived: each active entry that could still be shown of a
removed client has a removal of at least its clock on the same connection, whichever
comes first. `ClockComes` says that a browser's present clock is in the store or
among its own frames.

`OutputStreamProofs` proves type correctness, `LiveIsPrefix`, `LiveIsComplete`,
`ResultIsLast` and the refinement `ImplementsLiveOutput`, for any number of
streams, any output, limit, queue size and faults. The invariant follows a byte:
what was read is covered by a chunk still under way (the thread's, one in the
queue, the task's) or dealt with (published, or beyond the limit of a stream whose
notice is out) as long as the task lives; the chunks under way are ordered and
disjoint and begin where the published part ends. `ChannelSound` ties the counts
to the channel, `ProcessSound` the place of `process` to the row and to what was
told of it: in particular nothing is stored before the task is over.

`SaveStatusProofs` proves type correctness, `SavedIsSaved` and `SavingIsReal`. The
invariant adds that the save is part of the live document and every frame told of
part of the save; that a digest with the present number is one of the present
document; and that a call with the present request number belongs to the present
editor and, at an equal version, has uploaded all of the present document. Every
change of the document is followed by a new comparison or by a report that ends
"Saved", except before the first synchronisation; the theorem, like the property,
excepts that and a comparison that failed.

`ExecutionViewProofs` proves, for any number of requests and any output, type
correctness and `ShowsResult`. The latter is not inductive by itself. `ViewIInv` adds that no text anywhere is newer than the stored one (of an
event, `LiveSound`; of an answer under way, `RequestsSound`; of the page,
`PageSound`), so that while the row has its logs nobody carries an error that
could replace them; that output is over when the logs are stored, and only status
events follow the one with the result, so that what is delivered after it adds no
text; and that a page that has had the result was delivered it.

`FrameCodecProofs` proves `RoundTrip`, `RelayKeepsMeaning` and `PrefixFree` for any
width of a byte, any limits, and any set of messages and frames. The receiver's
state matters little: the theorems say of **every** message that it is read back
(`MessageBack`) and of **every** sequence of bytes that if it is accepted it is a
message that can be encoded in as many bytes or fewer (`MessageForth`) and has no
accepted beginning (`AcceptedPrefix`). Each follows layer by layer (numbers,
payloads, texts, entries, lists of entries, messages) from three facts about a
reader at an offset: it reads back what the encoder put there, whatever stands
before and behind; it reads only what has an encoding no longer than what it read;
and it does not look behind the offset it returns. The recursions (the digits of a
number, the two loops over entries) are handled without an induction scheme over
operators: `RecursiveFunction` constructs a solution of the recursive equation from
its finite beginnings, and `Induction` is that a set of naturals which lacks one
lacks a least one (`WFMin`, `NatLessThanWellFounded`). The assumptions are that
the types of messages and the limits on sizes and entries are numbers in range,
and that the greatest number fits into the digits a number may have;
`SafeIntegersFit` proves the last for the code's constants (2^53 - 1 in eight
bytes of seven bits).

Only model-checked: the liveness properties (fairness and `ENABLED` are beyond
the prover). Every invariant and every action property of the runs is stated by a
theorem. The violations are TLC's.

## Known limits of the code that the assumptions name

- `NoMissedUpdate` needs a PostgreSQL that works: a save whose commit fails has
  merged the upload into the live document and never broadcasts it
  (`sessions/router.py:196`, `:212`). `Room_safety` therefore has no `database`
  fault, and the theorem assumes none; the later periodic checkpoint still stores
  the merged edit.
- `CheckpointNeverLoses` and the refinement need reads of Redis that work: a
  document opened without its checkpoint later overwrites it (`document.py:226`;
  `docs/horizontal-scaling.md:11` says that a reconnect merges the newest one). The
  theorems say so (`RedisReadable`), and with `"redis_read"` in `Faults` TLC
  finds the loss.
- `ThreadEnds` names its exceptions: a full queue whose task has failed, and a
  sandbox left running, by a failing finally clause (`worker.py:347`) or because
  Docker refused to kill and to remove it (`worker.py:350`, `:355`).
- `SandboxOfJob` and `FinishedStops` except executions whose sandbox Docker refused
  to remove (`worker.py:354`, `:368`): both removals are suppressed, the worker
  goes on to the next job, and only its next start tries again.
- `OnlyErrorsAbandon` excepts an API that dies between the commit of a QUEUED row and
  its RPUSH (`execution/service.py:49`, `:53`), beside errors of Redis and the
  database: no worker ever sees that execution.
- `SavedIsSaved` excepts an editor before its first synchronisation
  (`CollaborativeEditor.tsx:196`, `SessionPage.tsx:405`): a status frame that matches
  the empty document shows "Saved", the edits typed then are not reported, and
  "Saved" stands for them until the connection is synchronised. It also excepts a
  digest that cannot be computed (`CollaborativeEditor.tsx:153`). TLC finds
  counterexamples when either exception is dropped.
- `OnlyEditorsWrite` needs a refresh after the commit that does not fail
  (`sessions/service.py:163`; the proofs' `RefreshReliable`): otherwise a demotion
  is committed and never fenced. A close that never returns is not modelled.
- `ShowsResult` starts from the event with the result: a list that was read
  before the result may replace what the page shows, and then polling ends it
  (`ViewSettles`).

## Not modelled, and the plan

1. The retirement of guards and of weakly referenced room locks as a module of
   their own.
2. The relay's and the room's back-pressure: a connection that does not read.
3. A proof that the worker of `OutputStream` and the page of `ExecutionView` compose:
   both are stated against `LiveOutput`, which is the argument, but no module
   instantiates the two together.

Left out for good: account registration and tokens (library calls), the Monaco
binding (text geometry), styling, deployment and benchmarks.
