--------------------------- MODULE OffsetTracker ---------------------------
(***************************************************************************)
(* The arithmetic of class OffsetTracker (src/utils/kafkaConsumer.py) for  *)
(* one partition.  The tracker keeps two sets of message offsets per       *)
(* partition, `_dispatched` and `_completed`; every method runs under one  *)
(* lock, so each is a single operator here.                                *)
(***************************************************************************)
EXTENDS Integers

(* Offsets handed to a worker (or to the poll thread) and not finished.    *)
StillRunning(dispatched, completed) == dispatched \ completed

(* Mutated form: a completed offset is committable whatever still runs.    *)
CommittableIgnoringFloor(dispatched, completed) == completed

(* The completed offsets strictly below the lowest offset still running;   *)
(* all of them when nothing runs.                                          *)
Committable(dispatched, completed) ==
    {o \in completed : \A r \in StillRunning(dispatched, completed) : o < r}

(* The highest offsets of a set: a singleton, or empty for the empty set.  *)
Highest(offsets) == {o \in offsets : \A p \in offsets : p <= o}
=============================================================================
