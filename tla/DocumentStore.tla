---------------------------- MODULE DocumentStore ----------------------------
(***************************************************************************)
(* The in-memory Yjs document of ONE session (collaboration/document.py,   *)
(* class DocumentManager) together with its two stores: the Redis recovery *)
(* checkpoint and the row of table "sessions" in PostgreSQL.               *)
(*                                                                         *)
(* A Yjs state is the set of updates it holds: updates are idempotent and  *)
(* commutative, so applying one is set union, and the SHA-256 digest of    *)
(* the canonical encoding is injective on such sets (the saved digest is   *)
(* represented by the saved set itself).                                   *)
(*                                                                         *)
(* Storage calls are serialised by the session guard.  Each `await` inside *)
(* a call is a boundary between two actions, and an I/O call is two steps: *)
(* the server performs it, then the coroutine resumes.  The guard's holder *)
(* is the only coroutine inside a storage call, so one record `io` holds   *)
(* the local variables of that call.                                       *)
(*                                                                         *)
(* The actions are parameterised by the calling task t; CollabRoom says    *)
(* which task calls which operation, and what it does with the result.     *)
(***************************************************************************)
EXTENDS Integers

CONSTANTS
    Updates,    \* identities of Yjs updates
    Nobody,     \* the holder of a free lock
    Faults      \* the failures the environment may inject (FaultKinds)

FaultKinds == {"redis_read", "redis_write", "database", "crash"}

ASSUME FaultsAssumption == Faults \subseteq FaultKinds

VARIABLES
    loaded,         \* the session has an entry in _docs and _metadata
    doc,            \* the updates of that Doc
    generation,     \* _DocumentMetadata.generation
    checkpointed,   \* _DocumentMetadata.checkpointed_generation
    saved,          \* what saved_state_hash is the digest of
    guard,          \* the task inside _serialized, or Nobody
    io,             \* local variables of the storage call in progress
    checkpoint,     \* updates in the Redis checkpoint
    hasCheckpoint,  \* the Redis key exists
    dbState         \* Session.yjs_state

memVars  == <<loaded, doc, generation, checkpointed, saved>>
callVars == <<guard, io>>
diskVars == <<checkpoint, hasCheckpoint, dbState>>
storeVars == <<memVars, callVars, diskVars>>

NoGeneration == -1      \* Python's None

NoCall == [step |-> "none", state |-> {}, gen |-> 0]

(***************************************************************************)
(* The steps of a storage call.  "db_read" and "redis_read" belong to      *)
(* load_from_storage (the DB is being read, then Redis), "redis_set" and   *)
(* "redis_ack" to a checkpoint (SET not executed yet, then executed but    *)
(* not returned), "commit" and "commit_ack" to persist_to_db.              *)
(***************************************************************************)
IoSteps == {"none", "db_read", "redis_read", "redis_set", "redis_ack",
            "commit", "commit_ack"}

(* A load is in flight: the session is in _loading_sessions.               *)
Loading == io.step \in {"db_read", "redis_read"}

StoreTypeOK ==
    /\ loaded \in BOOLEAN
    /\ doc \in SUBSET Updates
    /\ generation \in Nat
    /\ checkpointed \in Nat \cup {NoGeneration}
    /\ saved \in SUBSET Updates
    /\ io \in [step : IoSteps, state : SUBSET Updates, gen : Nat]
    /\ checkpoint \in SUBSET Updates
    /\ hasCheckpoint \in BOOLEAN
    /\ dbState \in SUBSET Updates

StoreInit ==
    /\ loaded = FALSE
    /\ doc = {}
    /\ generation = 0
    /\ checkpointed = NoGeneration
    /\ saved = {}
    /\ guard = Nobody
    /\ io = NoCall
    /\ checkpoint = {}
    /\ hasCheckpoint = FALSE
    /\ dbState = {}

-----------------------------------------------------------------------------
(***************************************************************************)
(* Synchronous operations.  They do not take the guard.                    *)
(***************************************************************************)

(* A Doc and its metadata enter _docs.                                     *)
Publish(state, savedState, ckptGen, gen) ==
    /\ loaded' = TRUE
    /\ doc' = state
    /\ saved' = savedState
    /\ checkpointed' = ckptGen
    /\ generation' = gen

(* The entry leaves _docs and _metadata.                                   *)
Unload ==
    /\ loaded' = FALSE
    /\ doc' = {}
    /\ saved' = {}
    /\ checkpointed' = NoGeneration
    /\ generation' = 0

(* get_or_create: the live Doc, or a new EMPTY one; refused while a load   *)
(* is in flight (the RuntimeError is swallowed by the frame handler).      *)
GetOrCreate ==
    IF loaded \/ Loading THEN UNCHANGED memVars
                         ELSE Publish({}, {}, NoGeneration, 0)

(* apply_update: the update merges into get_or_create's Doc, and the       *)
(* generation advances even when the update was already there.             *)
ApplyUpdate(us) ==
    IF loaded THEN Publish(doc \cup us, saved, checkpointed, generation + 1)
    ELSE IF Loading THEN UNCHANGED memVars
    ELSE Publish(us, {}, NoGeneration, 1)

(* get_document_status: the "unsaved changes" flag clients display.        *)
Dirty == doc # saved

-----------------------------------------------------------------------------
(***************************************************************************)
(* Entering and leaving a storage call.                                    *)
(***************************************************************************)
Enter(t, step, state, gen) ==
    /\ guard = Nobody
    /\ guard' = t
    /\ io' = [step |-> step, state |-> state, gen |-> gen]

Inside(t, step) == guard = t /\ io.step = step

Exit == guard' = Nobody /\ io' = NoCall

-----------------------------------------------------------------------------
(***************************************************************************)
(* load_from_storage                                                       *)
(***************************************************************************)

(* The Doc is there already: the guard is taken and released at once.      *)
LoadHit(t) ==
    /\ guard = Nobody
    /\ loaded
    /\ UNCHANGED storeVars

LoadStart(t) ==
    /\ ~loaded
    /\ Enter(t, "db_read", {}, 0)
    /\ UNCHANGED <<memVars, diskVars>>

LoadReadDb(t) ==
    /\ Inside(t, "db_read")
    /\ io' = [io EXCEPT !.step = "redis_read", !.state = dbState]
    /\ UNCHANGED <<guard, memVars, diskVars>>

(* A database error leaves the call with nothing published.                *)
LoadFail(t) ==
    /\ "database" \in Faults
    /\ Inside(t, "db_read")
    /\ Exit
    /\ UNCHANGED <<memVars, diskVars>>

(* The saved digest is taken before the checkpoint is merged.              *)
Mut_SavedDigestAfterMerge(t) ==
    /\ Inside(t, "redis_read")
    /\ Publish(io.state \cup checkpoint, io.state \cup checkpoint,
               IF hasCheckpoint THEN 0 ELSE NoGeneration, 0)
    /\ Exit
    /\ UNCHANGED diskVars

LoadPublish(t) ==
    /\ Inside(t, "redis_read")
    /\ Publish(io.state \cup checkpoint, io.state,
               IF hasCheckpoint THEN 0 ELSE NoGeneration, 0)
    /\ Exit
    /\ UNCHANGED diskVars

(* A failed redis.get discards the database version, too.                  *)
Mut_LoadWithoutRedis(t) ==
    /\ "redis_read" \in Faults
    /\ Inside(t, "redis_read")
    /\ Publish({}, {}, NoGeneration, 0)
    /\ Exit
    /\ UNCHANGED diskVars

(* redis.get raised: recovery is best-effort, the database version opens.  *)
LoadWithoutRedis(t) ==
    /\ "redis_read" \in Faults
    /\ Inside(t, "redis_read")
    /\ Publish(io.state, io.state, NoGeneration, 0)
    /\ Exit
    /\ UNCHANGED diskVars

-----------------------------------------------------------------------------
(***************************************************************************)
(* checkpoint_to_redis and checkpoint_and_remove                           *)
(***************************************************************************)

(* No Doc: both return at once.                                            *)
CheckpointNothing(t) ==
    /\ guard = Nobody
    /\ ~loaded
    /\ UNCHANGED storeVars

CheckpointStart(t) ==
    /\ loaded
    /\ Enter(t, "redis_set", doc, generation)
    /\ UNCHANGED <<memVars, diskVars>>

RedisSet(t) ==
    /\ Inside(t, "redis_set")
    /\ checkpoint' = io.state
    /\ hasCheckpoint' = TRUE
    /\ io' = [io EXCEPT !.step = "redis_ack"]
    /\ UNCHANGED <<guard, dbState, memVars>>

(* The SET raised: before the server executed it, or after (a lost reply). *)
RedisSetFail(t) ==
    /\ "redis_write" \in Faults
    /\ Inside(t, "redis_set") \/ Inside(t, "redis_ack")
    /\ Exit
    /\ UNCHANGED <<memVars, diskVars>>

(* The generation recorded is the current one.                             *)
Mut_CheckpointReturn(t) ==
    /\ Inside(t, "redis_ack")
    /\ checkpointed' = generation
    /\ Exit
    /\ UNCHANGED <<loaded, doc, generation, saved, diskVars>>

(* The generation recorded is the one that was written.                    *)
CheckpointReturn(t) ==
    /\ Inside(t, "redis_ack")
    /\ checkpointed' = io.gen
    /\ Exit
    /\ UNCHANGED <<loaded, doc, generation, saved, diskVars>>

(* checkpoint_and_remove after the write: the Doc goes unless an edit      *)
(* arrived during the I/O.                                                 *)
EvictReturn(t) ==
    /\ Inside(t, "redis_ack")
    /\ IF generation = io.gen
          THEN Unload
          ELSE /\ checkpointed' = io.gen
               /\ UNCHANGED <<loaded, doc, generation, saved>>
    /\ Exit
    /\ UNCHANGED diskVars

-----------------------------------------------------------------------------
(***************************************************************************)
(* persist_to_db                                                           *)
(***************************************************************************)
(* Its own load, of a document that is not there, never happens: the only  *)
(* caller loads it first, under the room lock (proved as DocumentThere).   *)
PersistStart(t) ==
    /\ loaded
    /\ Enter(t, "commit", doc, generation)
    /\ UNCHANGED <<memVars, diskVars>>

DbCommit(t) ==
    /\ Inside(t, "commit")
    /\ dbState' = io.state
    /\ io' = [io EXCEPT !.step = "commit_ack"]
    /\ UNCHANGED <<guard, checkpoint, hasCheckpoint, memVars>>

(* The commit raised: not executed, or executed with the reply lost.       *)
PersistFail(t) ==
    /\ "database" \in Faults
    /\ Inside(t, "commit") \/ Inside(t, "commit_ack")
    /\ Exit
    /\ UNCHANGED <<memVars, diskVars>>

(* The saved digest is that of the state that was written, not of the Doc  *)
(* as it is when the commit returns.                                       *)
PersistReturn(t) ==
    /\ Inside(t, "commit_ack")
    /\ saved' = io.state
    /\ Exit
    /\ UNCHANGED <<loaded, doc, generation, checkpointed, diskVars>>

-----------------------------------------------------------------------------
(* The API process ends: memory and locks are gone, the stores stay.       *)
StoreCrash ==
    /\ Unload
    /\ Exit
    /\ UNCHANGED diskVars

=============================================================================
