---------------------------- MODULE RoomDurability ----------------------------
(***************************************************************************)
(* A session's room implements DurableDocument while Redis answers reads:  *)
(* the document a user sees is the loaded one, or else the one the next    *)
(* load will build, and the flusher's program counter says how the process *)
(* has ended.                                                              *)
(***************************************************************************)
EXTENDS CollabRoom

Process ==
    IF pc[Flusher] \in {"stopped", "unsaved", "crashed"} THEN pc[Flusher] ELSE "running"

LiveDocument == IF loaded THEN doc ELSE dbState \cup checkpoint

Durable == INSTANCE DurableDocument WITH
               live <- LiveDocument,
               explicit <- dbState,
               recovery <- checkpoint,
               process <- Process

(* Loading merges both stores and eviction writes before it forgets: while *)
(* Redis can be read, no sequence of joins, leaves, saves, restores and    *)
(* failed writes loses an edit as long as the process lives.  A crash, or  *)
(* a shutdown whose final checkpoint failed, loses only edits that neither *)
(* store holds, and any other shutdown loses none                          *)
(* (document._load_from_storage_locked, checkpoint_and_remove,             *)
(* main.lifespan).                                                         *)
ImplementsDurableDocument == Durable!Spec

(* The recovery checkpoint is never replaced by one that lacks some of its *)
(* edits (docs/horizontal-scaling.md: a crash can lose edits made since    *)
(* the last checkpoint, hence no earlier ones).                            *)
CheckpointNeverLoses == [][checkpoint \subseteq checkpoint']_vars

=============================================================================
