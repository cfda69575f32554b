--------------------------- MODULE LineSelection ---------------------------
(***************************************************************************)
(* Which lines of a pod's log are kept (ContextWindowSelector of           *)
(* src/log_pipeline/sources/k8s/filtering.py): those that mention the      *)
(* packet, with some context before and after each.  The selector reads a  *)
(* stream once, line by line, and holds back no more than Before lines.    *)
(* A log may be read in several instances, and context does not cross      *)
(* from one to the next.                                                   *)
(***************************************************************************)
EXTENDS Integers, Sequences, Functions

CONSTANTS
    Lines,     \* lines a log may have
    Mentioned, \* those with one of the values searched for: all, when none is
    Before,    \* K8S_CONTEXT_LINES_BEFORE
    After      \* K8S_CONTEXT_LINES_AFTER

ASSUME SelectionAssumption == Mentioned \subseteq Lines /\ Before \in Nat /\ After \in Nat

VARIABLES
    stream,   \* the lines read, each with the instance it is from
    instance, \* the instance that is read
    held,     \* deque: positions that are context if a match comes
    trailing, \* lines still to keep after the last match
    kept      \* positions emitted, in the order of emission

selectorVars == <<stream, instance, held, trailing, kept>>

Fresh ==
    /\ stream = <<>> /\ instance = 1
    /\ held = <<>> /\ trailing = 0 /\ kept = <<>>

(* Another log is read, with a selector of its own.                        *)
Restart ==
    /\ stream' = <<>> /\ instance' = 1
    /\ held' = <<>> /\ trailing' = 0 /\ kept' = <<>>

(* The deque has room for Before lines.                                    *)
Newest(positions) ==
    IF Len(positions) > Before THEN Tail(positions) ELSE positions

Position == Len(stream) + 1

(* Mutated form: a match does not empty the deque.                         *)
MatchHolds(line) ==
    /\ line \in Mentioned
    /\ kept' = kept \o Append(held, Position)
    /\ held' = held
    /\ trailing' = After

Match(line) ==
    /\ line \in Mentioned
    /\ kept' = kept \o Append(held, Position)
    /\ held' = <<>>
    /\ trailing' = After

(* Mutated form: the lines after a match are counted down for ever.        *)
KeepTrailingAlways(line) ==
    /\ line \notin Mentioned
    /\ kept' = Append(kept, Position)
    /\ trailing' = trailing - 1
    /\ held' = held

KeepTrailing(line) ==
    /\ line \notin Mentioned /\ trailing > 0
    /\ kept' = Append(kept, Position)
    /\ trailing' = trailing - 1
    /\ held' = held

Hold(line) ==
    /\ line \notin Mentioned /\ trailing = 0
    /\ held' = Newest(Append(held, Position))
    /\ UNCHANGED <<kept, trailing>>

Feed(line) ==
    /\ stream' = Append(stream, [line |-> line, from |-> instance])
    /\ Match(line) \/ KeepTrailing(line) \/ Hold(line)
    /\ UNCHANGED instance

(* _read_instance resets the selector.                                     *)
OpenInstance ==
    /\ instance' = instance + 1
    /\ held' = <<>> /\ trailing' = 0
    /\ UNCHANGED <<stream, kept>>

-----------------------------------------------------------------------------
(* The reference: a line is kept iff a match of its instance is near.      *)
Near(i, j) ==
    /\ stream[j].line \in Mentioned
    /\ stream[i].from = stream[j].from
    /\ j - Before <= i /\ i <= j + After
Windows == {i \in DOMAIN stream : \E j \in DOMAIN stream : Near(i, j)}

(* The selector, in one pass, keeps the windows around the matches and     *)
(* nothing else: overlapping windows emit no line twice, lines come in     *)
(* order, and an instance lends no context to the next.                    *)
ExactlyTheWindows ==
    /\ \A a, b \in DOMAIN kept : a < b => kept[a] < kept[b]
    /\ Range(kept) = Windows
=============================================================================
