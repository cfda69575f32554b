---------------------------- MODULE AtLeastOnce ----------------------------
(***************************************************************************)
(* What the consumer promises its topic: the committed position of a       *)
(* partition only moves forward, and only past messages that are accounted *)
(* for, so that a restart from the committed position loses nothing.  The  *)
(* promise for a partition may be voided once, for good, by a rebalance.   *)
(***************************************************************************)
EXTENDS Integers

CONSTANTS Partitions, LogEnd

VARIABLES
    accounted,   \* messages taken charge of
    committed,   \* committed position of each partition
    void         \* partitions of which nothing is promised any more

Messages == Partitions \X (0 .. LogEnd - 1)

Init == /\ accounted \subseteq Messages
        /\ committed = [tp \in Partitions |-> 0]
        /\ void = {}

(* A message, once accounted for, stays so.                                *)
Account == /\ accounted' \subseteq Messages
           /\ accounted \subseteq accounted'

Void == /\ void' \subseteq Partitions
        /\ void \subseteq void'

(* Each partition's position stays, or advances over accounted messages.   *)
Advance ==
    /\ committed' \in [Partitions -> 0 .. LogEnd]
    /\ \A tp \in Partitions \ void :
          \/ committed'[tp] = committed[tp]
          \/ /\ committed'[tp] > committed[tp]
             /\ \A o \in 0 .. committed'[tp] - 1 : <<tp, o>> \in accounted

Next == Account /\ Void /\ Advance

Spec == Init /\ [][Next]_<<accounted, committed, void>>
=============================================================================
