------------------------ MODULE KafkaConsumerProofs ------------------------
(***************************************************************************)
(* Theorems about KafkaConsumer, for every group, log, pool and bound.     *)
(***************************************************************************)
EXTENDS KafkaConsumer, TLAPS

(* What every step assumes of the constants.                               *)
LEMMA ConstantsTyped ==
    /\ LogEnd \in Nat /\ MaxStops \in Nat /\ MaxRebalances \in Nat
    /\ Poison \subseteq Messages /\ NotRejected \subseteq Messages
    /\ NoMember \notin Members
    /\ NoJob \notin Jobs
BY LogEndAssumption, BoundsAssumption, MessagesAssumption, NullsAssumption
DEF Jobs

(* A free thread exists whenever a permit does.                            *)
LEMMA IdleSlotIdle ==
    ASSUME NEW m \in Members, IdleSlots(m) # {}
    PROVE  IdleSlot(m) \in Slots /\ job[m][IdleSlot(m)] = NoJob
<1>1. IdleSlot(m) \in IdleSlots(m)
  BY Zenon DEF IdleSlot
<1>2. QED
  BY <1>1 DEF IdleSlots

(* Committing keeps the positions inside the log.                          *)
LEMMA CommitTyped ==
    ASSUME TypeOK, NEW m \in Members, NEW S, Commit(m, S)
    PROVE  committed' \in [Partitions -> 0 .. LogEnd]
BY DEF Commit, FloorsOf, TypeOK

(* Retiring or forgetting offsets keeps the tracker's shape.               *)
LEMMA TrackerTyped ==
    ASSUME TypeOK, NEW m \in Members, NEW S, Retire(m, S) \/ Forget(m, S)
    PROVE  /\ dispatched' \in [Members -> [Partitions -> SUBSET (0 .. LogEnd - 1)]]
           /\ completed' \in [Members -> [Partitions -> SUBSET (0 .. LogEnd - 1)]]
<1> DEFINE T == [Partitions -> SUBSET (0 .. LogEnd - 1)]
<1>1. dispatched[m] \in T /\ completed[m] \in T
  BY DEF TypeOK
<1>2. CASE Retire(m, S)
  <2> DEFINE left(f) == [tp \in Partitions |-> IF tp \in S THEN f[tp] \ Ready(m, tp) ELSE f[tp]]
  <2>1. left(dispatched[m]) \in T /\ left(completed[m]) \in T
    BY <1>1
  <2>2. /\ dispatched' = [dispatched EXCEPT ![m] = left(dispatched[m])]
        /\ completed' = [completed EXCEPT ![m] = left(completed[m])]
    BY <1>2 DEF Retire
  <2> HIDE DEF left
  <2>3. QED
    BY <2>1, <2>2 DEF TypeOK
<1>3. CASE Forget(m, S)
  <2> DEFINE left(f) == [tp \in Partitions |-> IF tp \in S THEN {} ELSE f[tp]]
  <2>1. left(dispatched[m]) \in T /\ left(completed[m]) \in T
    BY <1>1
  <2>2. /\ dispatched' = [dispatched EXCEPT ![m] = left(dispatched[m])]
        /\ completed' = [completed EXCEPT ![m] = left(completed[m])]
    BY <1>3 DEF Forget
  <2> HIDE DEF left
  <2>3. QED
    BY <2>1, <2>2 DEF TypeOK
<1>4. QED
  BY <1>2, <1>3

(* Updating a member's entry for one partition touches nothing else.       *)
LEMMA EntryUpdated ==
    ASSUME NEW f, NEW g, NEW T, f \in [Members -> [Partitions -> T]],
           NEW m \in Members, NEW tp \in Partitions, NEW v, g = [f EXCEPT ![m][tp] = v]
    PROVE  /\ g[m][tp] = v
           /\ \A q \in Partitions \ {tp} : g[m][q] = f[m][q]
           /\ \A n \in Members \ {m} : g[n] = f[n]
OBVIOUS

(* The tracker's shape alone, out of all the types.                        *)
LEMMA TrackerShape ==
    ASSUME TypeOK
    PROVE  /\ dispatched \in [Members -> [Partitions -> SUBSET (0 .. LogEnd - 1)]]
           /\ completed \in [Members -> [Partitions -> SUBSET (0 .. LogEnd - 1)]]
BY DEF TypeOK

(* Dropping one offset from the tracker keeps its shape.                   *)
LEMMA AbandonTyped ==
    ASSUME TypeOK, NEW m \in Members, NEW msg \in Messages, Abandon(m, msg)
    PROVE  /\ dispatched' \in [Members -> [Partitions -> SUBSET (0 .. LogEnd - 1)]]
           /\ completed' \in [Members -> [Partitions -> SUBSET (0 .. LogEnd - 1)]]
<1>1. msg[1] \in Partitions
  BY DEF Messages
<1>2. dispatched' \in [Members -> [Partitions -> SUBSET (0 .. LogEnd - 1)]]
  BY <1>1, TrackerShape DEF Abandon
<1>3. completed' \in [Members -> [Partitions -> SUBSET (0 .. LogEnd - 1)]]
  BY <1>1, TrackerShape DEF Abandon
<1>4. QED
  BY <1>2, <1>3

(* Registering one offset as dispatched and completed keeps the shape.     *)
LEMMA DispatchTyped ==
    ASSUME TypeOK, NEW m \in Members, NEW tp \in Partitions, NEW o \in 0 .. LogEnd - 1,
           DispatchComplete(m, tp, o)
    PROVE  /\ dispatched' \in [Members -> [Partitions -> SUBSET (0 .. LogEnd - 1)]]
           /\ completed' \in [Members -> [Partitions -> SUBSET (0 .. LogEnd - 1)]]
BY DEF DispatchComplete, TypeOK

(* Releasing a member's partitions keeps owners well typed.                *)
LEMMA ReleaseTyped ==
    ASSUME TypeOK, NEW m \in Members, Release(m)
    PROVE  owner' \in [Partitions -> Members \cup {NoMember}]
BY DEF Release, TypeOK

(* Every step keeps every variable in its range.                           *)
LEMMA NextTyped == ASSUME TypeOK, [Next]_vars PROVE TypeOK'
<1> USE ConstantsTyped DEF brokerVars, dlqVars, storageVars, mainVars, trackerVars, historyVars, MainStates
<1>1. ASSUME NEW m \in Members, CommitReady(m) PROVE TypeOK'
  BY <1>1, CommitTyped, TrackerTyped DEF CommitReady, TypeOK
<1>2. ASSUME NEW m \in Members, LoopEnds(m) PROVE TypeOK'
  BY <1>2 DEF LoopEnds, TypeOK
<1>3. ASSUME NEW m \in Members, Poll(m) PROVE TypeOK'
  BY <1>3 DEF Poll, TypeOK
<1>4. ASSUME NEW m \in Members, NextMessage(m) PROVE TypeOK'
  BY <1>4 DEF NextMessage, TypeOK
<1>5. ASSUME NEW m \in Members, Handle(m) PROVE TypeOK'
  <2> PICK tp \in Partitions : \/ HandlePoison(m, tp) \/ HandleSkip(m, tp)
                               \/ HandleSubmit(m, tp) \/ HandleFault(m, tp)
    BY <1>5 DEF Handle
  <2> DEFINE o == next[m][tp]
  <2>1. TakeMessage(m, tp)
    BY DEF HandlePoison, HandleSkip, HandleSubmit, HandleFault
  <2>2. o \in 0 .. LogEnd - 1 /\ <<tp, o>> \in Messages
    BY <2>1 DEF TakeMessage, BatchLeft, TypeOK, Messages
  <2>3. next' \in [Members -> [Partitions -> 0 .. LogEnd]]
    BY <2>1, <2>2 DEF TakeMessage, TypeOK
  <2>4. CASE HandlePoison(m, tp)
    <3>1. DispatchComplete(m, tp, o) /\ PublishToDlq(<<tp, o>>)
      BY <2>4 DEF HandlePoison
    <3>2. dlq' \subseteq Messages /\ dropped' \subseteq Messages /\ silent' \subseteq Messages
      BY <2>2, <3>1 DEF PublishToDlq, TypeOK
    <3>3. QED
      BY <2>1, <2>2, <2>3, <2>4, <3>1, <3>2, DispatchTyped
      DEF HandlePoison, TakeMessage, TypeOK
  <2>5. CASE HandleSkip(m, tp)
    <3>1. DispatchComplete(m, tp, o)
      BY <2>5 DEF HandleSkip
    <3>2. QED
      BY <2>1, <2>2, <2>3, <2>5, <3>1, DispatchTyped DEF HandleSkip, TakeMessage, TypeOK
  <2>6. CASE HandleSubmit(m, tp)
    <3>1. job' \in [Members -> [Slots -> Jobs \cup {NoJob}]]
      <4>1. [msg |-> <<tp, o>>, at |-> "forwarding"] \in Jobs
        BY <2>2 DEF Jobs
      <4>2. IdleSlot(m) \in Slots
        BY <2>1, IdleSlotIdle DEF TakeMessage
      <4>3. job' = [job EXCEPT ![m][IdleSlot(m)] = [msg |-> <<tp, o>>, at |-> "forwarding"]]
        BY <2>6 DEF HandleSubmit
      <4>4. QED
        BY <4>1, <4>2, <4>3 DEF TypeOK
    <3>2. dispatched' \in [Members -> [Partitions -> SUBSET (0 .. LogEnd - 1)]]
      <4>1. dispatched' = [dispatched EXCEPT ![m][tp] = @ \cup {o}]
        BY <2>6 DEF HandleSubmit
      <4>2. QED
        BY <4>1, <2>2 DEF TypeOK
    <3>3. forwarded' \subseteq Messages
      BY <2>2, <2>6 DEF HandleSubmit, TypeOK
    <3>4. QED
      BY <2>1, <2>3, <2>6, <3>1, <3>2, <3>3 DEF HandleSubmit, TakeMessage, TypeOK
  <2>7. CASE HandleFault(m, tp)
    <3>1. PublishToDlq(<<tp, o>>) /\ Abandon(m, <<tp, o>>)
      BY <2>7 DEF HandleFault
    <3>2. dlq' \subseteq Messages /\ dropped' \subseteq Messages /\ silent' \subseteq Messages
      BY <2>2, <3>1 DEF PublishToDlq, TypeOK
    <3>3. /\ dispatched' = [dispatched EXCEPT ![m][tp] = @ \ {o}]
          /\ completed' = [completed EXCEPT ![m][tp] = @ \ {o}]
      BY <3>1 DEF Abandon
    <3>4. /\ dispatched' \in [Members -> [Partitions -> SUBSET (0 .. LogEnd - 1)]]
          /\ completed' \in [Members -> [Partitions -> SUBSET (0 .. LogEnd - 1)]]
      BY <3>3 DEF TypeOK
    <3>5. UNCHANGED <<forwarded, job>>
      BY <2>7 DEF HandleFault
    <3>6. QED
      BY <2>1, <2>3, <3>2, <3>4, <3>5 DEF TakeMessage, TypeOK
  <2>8. QED
    BY <2>4, <2>5, <2>6, <2>7
<1>6. ASSUME NEW m \in Members, NEW s \in Slots, Work(m, s) PROVE TypeOK'
  <2>1. job[m][s] # NoJob /\ job[m][s] \in Jobs /\ job[m][s].msg \in Messages
    BY <1>6 DEF Work, ForwardAnswered, ForwardTimeout, TimeoutToDlq, ForwardError, TypeOK, Jobs
  <2>2. job[m][s].msg[1] \in Partitions /\ job[m][s].msg[2] \in 0 .. LogEnd - 1
    BY <2>1 DEF Messages
  <2>3. CASE ForwardAnswered(m, s)
    BY <2>1, <2>2, <2>3 DEF ForwardAnswered, Complete, FreeSlot, TypeOK
  <2>4. CASE ForwardTimeout(m, s)
    <3>1. [msg |-> job[m][s].msg, at |-> "timed_out"] \in Jobs
      BY <2>1 DEF Jobs
    <3>2. QED
      BY <2>1, <2>4, <3>1 DEF ForwardTimeout, TypeOK
  <2>5. CASE TimeoutToDlq(m, s)
    BY <2>1, <2>2, <2>5 DEF TimeoutToDlq, PublishToDlq, Complete, FreeSlot, TypeOK
  <2>6. CASE ForwardError(m, s)
    <3>1. /\ dispatched' \in [Members -> [Partitions -> SUBSET (0 .. LogEnd - 1)]]
          /\ completed' \in [Members -> [Partitions -> SUBSET (0 .. LogEnd - 1)]]
      BY <2>1, <2>6, AbandonTyped DEF ForwardError
    <3>2. job' \in [Members -> [Slots -> Jobs \cup {NoJob}]]
      BY <2>6 DEF ForwardError, FreeSlot, TypeOK
    <3>3. dlq' \subseteq Messages /\ dropped' \subseteq Messages /\ silent' \subseteq Messages
      BY <2>1, <2>6 DEF ForwardError, PublishToDlq, TypeOK
    <3>4. QED
      BY <2>6, <3>1, <3>2, <3>3 DEF ForwardError, TypeOK
  <2>7. QED
    BY <1>6, <2>3, <2>4, <2>5, <2>6 DEF Work
<1>7. ASSUME NEW m \in Members, Evict(m) PROVE TypeOK'
  BY <1>7, ReleaseTyped DEF Evict, TypeOK
<1>8. ASSUME NEW m \in Members, VoluntaryRevoke(m) PROVE TypeOK'
  BY <1>8, CommitTyped, TrackerTyped, ReleaseTyped
  DEF VoluntaryRevoke, Revoke, DropPositions, TypeOK
<1>9. ASSUME NEW m \in Members, LateRevoke(m) PROVE TypeOK'
  BY <1>9, CommitTyped, TrackerTyped, ReleaseTyped
  DEF LateRevoke, Revoke, DropPositions, TypeOK
<1>10. ASSUME NEW m \in Members, Assign(m) PROVE TypeOK'
  BY <1>10, TrackerTyped DEF Assign, TypeOK
<1>11. ASSUME NEW m \in Members, RequestShutdown(m) PROVE TypeOK'
  BY <1>11 DEF RequestShutdown, TypeOK
<1>12. ASSUME NEW m \in Members, Drain(m) PROVE TypeOK'
  BY <1>12, CommitTyped, TrackerTyped, ReleaseTyped DEF Drain, DropPositions, TypeOK
<1>13. ASSUME NEW m \in Members, Crash(m) PROVE TypeOK'
  BY <1>13, TrackerTyped, ReleaseTyped DEF Crash, DropPositions, TypeOK
<1>14. ASSUME NEW m \in Members, Restart(m) PROVE TypeOK'
  BY <1>14, TrackerTyped DEF Restart, DropPositions, TypeOK
<1>15. ASSUME NEW msg \in Messages, RecordVerdict(msg) PROVE TypeOK'
  BY <1>15 DEF RecordVerdict, TypeOK
<1>16. CASE UNCHANGED vars
  BY <1>16 DEF vars, TypeOK
<1>17. QED
  BY <1>1, <1>2, <1>3, <1>4, <1>5, <1>6, <1>7, <1>8, <1>9, <1>10, <1>11, <1>12,
     <1>13, <1>14, <1>15, <1>16 DEF Next, PollLoop

(* Type correctness: the variables of the model stay in their ranges.      *)
THEOREM TypeCorrect == Spec => []TypeOK
<1>1. Init => TypeOK
  BY ConstantsTyped DEF Init, TypeOK, MainStates, Messages
<1>2. TypeOK /\ [Next]_vars => TypeOK'
  BY NextTyped
<1>3. QED
  BY <1>1, <1>2, PTL DEF Spec

----------------------------------------------------------------------------
(* What is covered stays covered, and an interruption is not undone.       *)
LEMMA CoveredGrows ==
    ASSUME TypeOK, [Next]_vars
    PROVE  /\ Covered \subseteq Covered' /\ Covered' \subseteq Messages
           /\ interrupted \subseteq interrupted'
<1> USE DEF brokerVars, dlqVars, storageVars, mainVars, trackerVars, historyVars
<1> DEFINE RecordsGrow == /\ dlq \subseteq dlq' /\ dropped \subseteq dropped'
                          /\ silent \subseteq silent'
                          /\ answered \subseteq answered'
                          /\ interrupted \subseteq interrupted'
           VerdictsStay == \A msg \in Messages : casebook[msg] # "none" => casebook'[msg] # "none"
<1>1. RecordsGrow /\ VerdictsStay
  <2>1. UNCHANGED vars => RecordsGrow /\ VerdictsStay
    BY DEF vars
  <2>2. ASSUME NEW m \in Members, PollLoop(m) PROVE RecordsGrow /\ VerdictsStay
    BY <2>2 DEF PollLoop, CommitReady, LoopEnds, Poll, NextMessage, Handle, HandlePoison,
       HandleSkip, HandleSubmit, HandleFault, TakeMessage, PublishToDlq, LateRevoke, Revoke, Drain
  <2>3. \A m \in Members, s \in Slots : Work(m, s) => RecordsGrow /\ VerdictsStay
    BY DEF Work, ForwardAnswered, ForwardTimeout, TimeoutToDlq, ForwardError,
       PublishToDlq, TypeOK
  <2>4. \A msg \in Messages : RecordVerdict(msg) => RecordsGrow /\ VerdictsStay
    BY DEF RecordVerdict, TypeOK
  <2>5. \A m \in Members :
             \/ Evict(m) \/ VoluntaryRevoke(m) \/ Assign(m)
             \/ RequestShutdown(m) \/ Crash(m) \/ Restart(m)
           => RecordsGrow /\ VerdictsStay
    BY DEF Evict, VoluntaryRevoke, Revoke, Assign, RequestShutdown, Crash, Restart
  <2> HIDE DEF RecordsGrow, VerdictsStay
  <2>6. QED
    BY <2>1, <2>2, <2>3, <2>4, <2>5 DEF Next
<1>2. dropped' \subseteq Messages /\ silent' \subseteq Messages
  <2>1. TypeOK'
    BY NextTyped
  <2>2. QED
    BY <2>1 DEF TypeOK
<1>3. QED
  BY <1>1, <1>2 DEF Covered, Accounted

(* A commit by a live member moves only positions it owns, forward, up to  *)
(* its handed-out messages, over covered messages, and not past what it    *)
(* still tracks once the floor is retired.                                 *)
LEMMA CommitSafe ==
    ASSUME IInv, NEW m \in Members, Live(m), NEW S \in SUBSET Partitions, Commit(m, S),
           NEW tp \in Undisturbed, committed'[tp] # committed[tp]
    PROVE  /\ m \in inGroup /\ tp \in S /\ tp \in assigned[m] /\ owner[tp] = m
           /\ committed'[tp] \in 0 .. LogEnd
           /\ committed'[tp] > committed[tp] /\ committed'[tp] <= next[m][tp]
           /\ \A o \in 0 .. committed'[tp] - 1 : <<tp, o>> \in Covered
           /\ \A o \in (dispatched[m][tp] \cup completed[m][tp]) \ Ready(m, tp) :
                 committed'[tp] <= o
<1>0. tp \in Partitions
  BY DEF Undisturbed
<1>1. m \in inGroup /\ tp \in S /\ committed'[tp] \in 0 .. LogEnd
      /\ committed'[tp] - 1 \in Highest(Ready(m, tp))
  BY <1>0 DEF Commit, FloorsOf, IInv, TypeOK
<1> DEFINE c == committed'[tp] - 1
<1>2. /\ c \in completed[m][tp]
      /\ \A r \in dispatched[m][tp] \ completed[m][tp] : c < r
      /\ \A p \in Ready(m, tp) : p <= c
  BY <1>1 DEF Highest, Ready, Committable, StillRunning
<1>3. /\ dispatched[m][tp] \subseteq 0 .. LogEnd - 1 /\ completed[m][tp] \subseteq 0 .. LogEnd - 1
      /\ next[m][tp] \in 0 .. LogEnd /\ committed[tp] \in 0 .. LogEnd
  BY <1>0 DEF IInv, TypeOK
<1>4. tp \in assigned[m] /\ c < next[m][tp] /\ committed[tp] <= c
  BY <1>1, <1>2 DEF IInv, MemberOK, TrackerInRange
<1>5. owner[tp] = m
  BY <1>1, <1>4 DEF IInv, MemberOK, OwnershipAgrees
<1>6. \A o \in 0 .. committed'[tp] - 1 : <<tp, o>> \in Covered
  BY <1>1, <1>2, <1>3, <1>4, ConstantsTyped
  DEF IInv, MemberOK, HandedOutCovered, StillRunning
<1>7. ASSUME NEW o \in (dispatched[m][tp] \cup completed[m][tp]) \ Ready(m, tp)
      PROVE  c < o
  BY <1>2, <1>3, <1>7, ConstantsTyped DEF Ready, Committable, StillRunning
<1>8. QED
  BY <1>1, <1>3, <1>4, <1>5, <1>6, <1>7, ConstantsTyped

(* A member whose own state a step leaves alone, but for the records a     *)
(* poll adds, stays as it should be.                                       *)
Untouched(n) ==
    /\ Live(n)' = Live(n) /\ assigned'[n] = assigned[n]
    /\ next'[n] = next[n] /\ dispatched'[n] = dispatched[n] /\ completed'[n] = completed[n]
    /\ job'[n] = job[n]
    /\ \A tp \in Partitions :
          \/ position'[n][tp] = position[n][tp]
          \/ tp \in assigned[n] /\ position'[n][tp] >= position[n][tp]

LEMMA OthersKept ==
    ASSUME IInv, NEW n \in Members, Untouched(n), Covered \subseteq Covered',
           interrupted \subseteq interrupted',
           position' \in [Members -> [Partitions -> 0 .. LogEnd]],
           n \in inGroup' <=> n \in inGroup,
           \A tp \in Partitions : owner[tp] = n => owner'[tp] = n,
           \A tp \in Undisturbed : owner[tp] = n => committed'[tp] = committed[tp]
    PROVE  MemberOK(n)'
<1>1. MemberOK(n) /\ assigned[n] \subseteq Partitions
      /\ Undisturbed' \subseteq Undisturbed /\ Undisturbed \subseteq Partitions
  BY DEF IInv, TypeOK, Undisturbed
<1>2. OwnershipAgrees(n)'
  BY <1>1 DEF MemberOK, OwnershipAgrees, Untouched
<1>3. TrackerInRange(n)'
  <2> SUFFICES ASSUME Live(n), NEW tp \in Undisturbed'
               PROVE  /\ next[n][tp] <= position'[n][tp]
                      /\ next[n][tp] # position'[n][tp] => tp \in assigned[n]
                      /\ n \in inGroup /\ tp \in assigned[n] => committed'[tp] <= next[n][tp]
                      /\ \A o \in dispatched[n][tp] \cup completed[n][tp] :
                            /\ tp \in assigned[n] /\ o < next[n][tp]
                            /\ n \in inGroup => committed'[tp] <= o
    BY DEF TrackerInRange, Untouched
  <2>0. tp \in Undisturbed /\ tp \in Partitions
    BY <1>1
  <2>1. next[n][tp] \in Nat /\ position[n][tp] \in Nat /\ position'[n][tp] \in Nat
    BY <2>0, ConstantsTyped DEF IInv, TypeOK
  <2>2. /\ next[n][tp] <= position'[n][tp]
        /\ next[n][tp] # position'[n][tp] => tp \in assigned[n]
    BY <1>1, <2>0, <2>1 DEF MemberOK, TrackerInRange, Untouched
  <2>3. n \in inGroup /\ tp \in assigned[n] => committed'[tp] = committed[tp]
    BY <1>1, <2>0 DEF MemberOK, OwnershipAgrees
  <2>4. QED
    BY <1>1, <2>0, <2>2, <2>3 DEF MemberOK, TrackerInRange
<1>4. JobsHoldTheFloor(n)'
  <2>1. \A tp : Busy(n, tp)' = Busy(n, tp)
    BY DEF Busy, Untouched
  <2>2. QED
    BY <1>1, <2>1 DEF MemberOK, JobsHoldTheFloor, Untouched
<1>5. HandedOutCovered(n)'
  BY <1>1 DEF MemberOK, HandedOutCovered, Untouched
<1>6. QED
  BY <1>2, <1>3, <1>4, <1>5 DEF MemberOK

(* LossExplained survives a step that moves positions over covered         *)
(* messages only.                                                          *)
LEMMA LossExplainedKept ==
    ASSUME LossExplained, Covered \subseteq Covered', interrupted \subseteq interrupted',
           \A tp \in Undisturbed :
               \/ committed'[tp] = committed[tp]
               \/ \A o \in 0 .. committed'[tp] - 1 : <<tp, o>> \in Covered
    PROVE  LossExplained'
<1>1. Undisturbed' \subseteq Undisturbed
  BY DEF Undisturbed
<1>2. QED
  BY <1>1 DEF LossExplained

(* A member with nothing tracked, no busy worker and no partition is fine, *)
(* where it was not interrupted.                                           *)
LEMMA BlankMember ==
    ASSUME NEW m \in Members, assigned'[m] = {}, Live(m)',
           \A tp \in Undisturbed' : /\ dispatched'[m][tp] = {} /\ completed'[m][tp] = {}
                                    /\ Busy(m, tp)' = {},
           position'[m] = [tp \in Partitions |-> 0], next'[m] = [tp \in Partitions |-> 0]
    PROVE  MemberOK(m)'
<1>1. Undisturbed' \subseteq Partitions
  BY DEF Undisturbed
<1>2. QED
  BY <1>1 DEF MemberOK, OwnershipAgrees, TrackerInRange, JobsHoldTheFloor, HandedOutCovered

(* A process that is gone has nothing to answer for.                       *)
LEMMA GoneMember ==
    ASSUME NEW m \in Members, ~Live(m)', m \notin inGroup', assigned'[m] = {}
    PROVE  MemberOK(m)'
BY DEF MemberOK, OwnershipAgrees, TrackerInRange, JobsHoldTheFloor, HandedOutCovered

(* CommitReady: the floor is committed, or not, and retired.               *)
LEMMA CommitReadyKeeps ==
    ASSUME IInv, NEW m \in Members, CommitReady(m), Covered \subseteq Covered'
    PROVE  LossExplained' /\ \A n \in Members : MemberOK(n)'
<1> USE DEF brokerVars, dlqVars, storageVars, mainVars, trackerVars, historyVars
<1>1. /\ Live(m) /\ Live(m)' /\ TypeOK /\ MemberOK(m) /\ Commit(m, Partitions)
      /\ UNCHANGED <<owner, inGroup, assigned, position, next, job, interrupted>>
      /\ \A n \in Members : n # m => main'[n] = main[n]
  BY DEF CommitReady, Live, IInv, TypeOK
<1>2. /\ dispatched' = [dispatched EXCEPT ![m] = [tp \in Partitions |-> @[tp] \ Ready(m, tp)]]
      /\ completed' = [completed EXCEPT ![m] = [tp \in Partitions |-> @[tp] \ Ready(m, tp)]]
  BY DEF CommitReady, Retire
<1>3. \A tp \in Partitions : /\ dispatched'[m][tp] = dispatched[m][tp] \ Ready(m, tp)
                             /\ completed'[m][tp] = completed[m][tp] \ Ready(m, tp)
  BY <1>1, <1>2 DEF TypeOK
<1>4. \A tp \in Partitions :
         StillRunning(dispatched'[m][tp], completed'[m][tp])
             = StillRunning(dispatched[m][tp], completed[m][tp])
  BY <1>3 DEF StillRunning, Ready, Committable
<1>5. ASSUME NEW tp \in Undisturbed, committed'[tp] # committed[tp]
      PROVE  /\ owner[tp] = m /\ committed'[tp] <= next[m][tp]
             /\ \A o \in 0 .. committed'[tp] - 1 : <<tp, o>> \in Covered
             /\ \A o \in (dispatched[m][tp] \cup completed[m][tp]) \ Ready(m, tp) :
                   committed'[tp] <= o
  BY <1>1, <1>5, CommitSafe
<1>6. LossExplained'
  BY <1>1, <1>5, LossExplainedKept DEF IInv
<1>7. MemberOK(m)'
  <2>0. Undisturbed' = Undisturbed /\ Undisturbed \subseteq Partitions
    BY <1>1 DEF Undisturbed
  <2>1. OwnershipAgrees(m)'
    BY <1>1 DEF MemberOK, OwnershipAgrees
  <2>2. TrackerInRange(m)'
    BY <1>1, <1>3, <1>5, <2>0 DEF MemberOK, TrackerInRange
  <2>3. JobsHoldTheFloor(m)'
    <3>1. \A tp : Busy(m, tp)' = Busy(m, tp)
      BY <1>1 DEF Busy
    <3>2. QED
      BY <1>1, <1>4, <2>0, <3>1 DEF MemberOK, JobsHoldTheFloor
  <2>4. HandedOutCovered(m)'
    BY <1>1, <1>4, <2>0 DEF MemberOK, HandedOutCovered
  <2>5. QED
    BY <2>1, <2>2, <2>3, <2>4 DEF MemberOK
<1>8. ASSUME NEW n \in Members, n # m PROVE MemberOK(n)'
  <2>1. Untouched(n)
    BY <1>1, <1>2, <1>8 DEF Untouched, Live, TypeOK
  <2>2. position' \in [Members -> [Partitions -> 0 .. LogEnd]]
    BY <1>1 DEF TypeOK
  <2>3. QED
    BY <1>1, <1>5, <1>8, <2>1, <2>2, OthersKept
<1>9. QED
  BY <1>6, <1>7, <1>8

(* Steps that move no offset: the loop's control, a poll, a signal, a      *)
(* verdict recorded by the endpoint.                                       *)
LEMMA ControlKeeps ==
    ASSUME IInv, TypeOK', Covered \subseteq Covered',
           \/ \E m \in Members : \/ LoopEnds(m) \/ Poll(m) \/ NextMessage(m) \/ RequestShutdown(m)
           \/ \E msg \in Messages : RecordVerdict(msg)
           \/ UNCHANGED vars
    PROVE  LossExplained' /\ \A n \in Members : MemberOK(n)'
<1> USE DEF brokerVars, dlqVars, storageVars, mainVars, trackerVars, historyVars
<1>1. UNCHANGED <<owner, inGroup, committed, assigned, next, dispatched, completed, job,
                  interrupted>>
  BY DEF LoopEnds, Poll, NextMessage, RequestShutdown, RecordVerdict, vars
<1>2. \A n \in Members : Live(n)' = Live(n)
  <2>1. ASSUME NEW m \in Members, LoopEnds(m) \/ Poll(m) \/ NextMessage(m)
        PROVE  \A n \in Members : Live(n)' = Live(n)
    BY <2>1 DEF LoopEnds, Poll, NextMessage, Live, IInv, TypeOK
  <2>2. CASE UNCHANGED main
    BY <2>2 DEF Live
  <2>3. QED
    BY <2>1, <2>2 DEF RequestShutdown, RecordVerdict, vars
<1>3. \A n \in Members, tp \in Partitions :
         \/ position'[n][tp] = position[n][tp]
         \/ tp \in assigned[n] /\ position'[n][tp] >= position[n][tp]
  <2>1. CASE \E m \in Members : Poll(m)
    <3>1. PICK m \in Members : Poll(m)
      BY <2>1
    <3>2. PICK p \in [Partitions -> 0 .. LogEnd] :
             /\ \A tp \in Partitions : /\ p[tp] >= position[m][tp]
                                       /\ tp \notin assigned[m] => p[tp] = position[m][tp]
             /\ position' = [position EXCEPT ![m] = p]
      BY <3>1 DEF Poll
    <3>3. QED
      BY <3>2 DEF IInv, TypeOK
  <2>2. CASE UNCHANGED position
    BY <2>2
  <2>3. QED
    BY <2>1, <2>2 DEF LoopEnds, NextMessage, RequestShutdown, RecordVerdict, vars
<1>4. ASSUME NEW n \in Members PROVE Untouched(n)
  BY <1>1, <1>2, <1>3 DEF Untouched
<1>5. position' \in [Members -> [Partitions -> 0 .. LogEnd]]
  BY DEF TypeOK
<1>6. LossExplained'
  BY <1>1, LossExplainedKept DEF IInv
<1>7. ASSUME NEW n \in Members PROVE MemberOK(n)'
  BY <1>1, <1>4, <1>5, OthersKept
<1>8. QED
  BY <1>6, <1>7

(* What a step does with a partition that was interrupted is not the       *)
(* concern of the invariant: only tp's entries and threads change.         *)
LEMMA DisturbedKeeps ==
    ASSUME IInv, TypeOK', Covered \subseteq Covered',
           NEW m \in Members, NEW tp \in interrupted,
           UNCHANGED <<owner, inGroup, committed, assigned, position, interrupted>>,
           \A n \in Members : Live(n)' = Live(n),
           \A q \in Partitions \ {tp} : /\ next'[m][q] = next[m][q]
                                        /\ dispatched'[m][q] = dispatched[m][q]
                                        /\ completed'[m][q] = completed[m][q],
           \A n \in Members \ {m} : /\ next'[n] = next[n] /\ dispatched'[n] = dispatched[n]
                                    /\ completed'[n] = completed[n] /\ job'[n] = job[n],
           \A s \in Slots :
              \/ job'[m][s] = job[m][s]
              \/ /\ job[m][s] # NoJob => job[m][s].msg[1] = tp
                 /\ job'[m][s] # NoJob => job'[m][s].msg[1] = tp
    PROVE  LossExplained' /\ \A n \in Members : MemberOK(n)'
<1>1. /\ MemberOK(m) /\ Undisturbed' = Undisturbed
      /\ Undisturbed \subseteq Partitions \ {tp}
  BY DEF IInv, Undisturbed
<1>2. LossExplained'
  BY LossExplainedKept DEF IInv
<1>3. \A q \in Undisturbed : /\ Busy(m, q)' = Busy(m, q)
                             /\ \A s \in Busy(m, q) : job'[m][s] = job[m][s]
  BY <1>1 DEF Busy
<1>4. OwnershipAgrees(m)'
  BY <1>1 DEF MemberOK, OwnershipAgrees
<1>5. TrackerInRange(m)'
  BY <1>1 DEF MemberOK, TrackerInRange
<1>6. JobsHoldTheFloor(m)'
  BY <1>1, <1>3 DEF MemberOK, JobsHoldTheFloor
<1>7. HandedOutCovered(m)'
  BY <1>1 DEF MemberOK, HandedOutCovered
<1>8. ASSUME NEW n \in Members, n # m PROVE MemberOK(n)'
  <2>1. Untouched(n)
    BY <1>8 DEF Untouched
  <2>2. position' \in [Members -> [Partitions -> 0 .. LogEnd]]
    BY DEF TypeOK
  <2>3. QED
    BY <1>8, <2>1, <2>2, OthersKept
<1>9. QED
  BY <1>2, <1>4, <1>5, <1>6, <1>7, <1>8 DEF MemberOK

(* What the poll thread does with the next message of tp: the offset o     *)
(* leaves the batch, and is covered or still running.                      *)
LEMMA HandOutKeeps ==
    ASSUME IInv, TypeOK', NEW m \in Members, NEW tp \in Undisturbed, TakeMessage(m, tp),
           Covered \subseteq Covered', NEW o, o = next[m][tp],
           \A q \in Partitions \ {tp} : /\ dispatched'[m][q] = dispatched[m][q]
                                        /\ completed'[m][q] = completed[m][q],
           \A n \in Members \ {m} : /\ dispatched'[n] = dispatched[n]
                                    /\ completed'[n] = completed[n]
                                    /\ job'[n] = job[n],
           dispatched'[m][tp] \cup completed'[m][tp]
               \subseteq dispatched[m][tp] \cup completed[m][tp] \cup {o},
           StillRunning(dispatched[m][tp], completed[m][tp])
               \subseteq StillRunning(dispatched'[m][tp], completed'[m][tp]),
           \/ <<tp, o>> \in Covered' /\ job'[m] = job[m]
           \/ /\ o \in StillRunning(dispatched'[m][tp], completed'[m][tp])
              /\ \E s \in Slots : /\ job'[m][s].msg = <<tp, o>>
                                  /\ \A t \in Slots \ {s} : job'[m][t] = job[m][t]
    PROVE  LossExplained' /\ \A n \in Members : MemberOK(n)'
<1>1. /\ UNCHANGED <<owner, inGroup, committed, assigned, position, interrupted>>
      /\ TypeOK /\ MemberOK(m) /\ Live(m) /\ Live(m)'
      /\ \A n \in Members \ {m} : main'[n] = main[n] /\ next'[n] = next[n]
      /\ next'[m] = [next[m] EXCEPT ![tp] = o + 1]
      /\ o < position[m][tp]
  BY DEF TakeMessage, BatchLeft, Live, IInv, TypeOK, historyVars
<1>2. /\ tp \in Partitions /\ o \in 0 .. LogEnd - 1 /\ o \in Nat /\ next'[m][tp] = o + 1
      /\ \A q \in Partitions \ {tp} : next'[m][q] = next[m][q]
      /\ position[m][tp] \in Nat
      /\ Undisturbed' = Undisturbed /\ Undisturbed \subseteq Partitions
  BY <1>1, ConstantsTyped DEF TypeOK, Undisturbed
<1>3. tp \in assigned[m]
  BY <1>1, <1>2 DEF MemberOK, TrackerInRange
<1>4. LossExplained'
  BY <1>1, LossExplainedKept DEF IInv
<1>5. MemberOK(m)'
  <2>1. OwnershipAgrees(m)'
    BY <1>1 DEF MemberOK, OwnershipAgrees
  <2>2. TrackerInRange(m)'
    <3> SUFFICES ASSUME NEW q \in Undisturbed
                 PROVE  /\ next'[m][q] <= position[m][q]
                        /\ next'[m][q] # position[m][q] => q \in assigned[m]
                        /\ m \in inGroup /\ q \in assigned[m] => committed[q] <= next'[m][q]
                        /\ \A r \in dispatched'[m][q] \cup completed'[m][q] :
                              /\ q \in assigned[m] /\ r < next'[m][q]
                              /\ m \in inGroup => committed[q] <= r
      BY <1>1, <1>2 DEF TrackerInRange
    <3>1. CASE q # tp
      BY <1>1, <1>2, <3>1 DEF MemberOK, TrackerInRange
    <3>2. CASE q = tp
      <4>1. committed[tp] \in Nat /\ (m \in inGroup => committed[tp] <= o)
        BY <1>1, <1>2, <1>3, ConstantsTyped DEF MemberOK, TrackerInRange, TypeOK
      <4>2. ASSUME NEW r \in dispatched'[m][tp] \cup completed'[m][tp]
            PROVE  r < o + 1 /\ (m \in inGroup => committed[tp] <= r)
        <5>1. CASE r = o
          BY <4>1, <5>1, <1>2
        <5>2. CASE r \in dispatched[m][tp] \cup completed[m][tp]
          <6>1. r < o /\ (m \in inGroup => committed[tp] <= r)
            BY <1>1, <5>2 DEF MemberOK, TrackerInRange
          <6>2. r \in Int
            BY <1>1, <1>2, <5>2, ConstantsTyped DEF TypeOK
          <6>3. QED
            BY <6>1, <6>2, <1>2
        <5>3. QED
          BY <5>1, <5>2
      <4>3. QED
        BY <1>1, <1>2, <1>3, <3>2, <4>1, <4>2
    <3>3. QED
      BY <3>1, <3>2
  <2>3. \A q \in Partitions :
           StillRunning(dispatched[m][q], completed[m][q])
               \subseteq StillRunning(dispatched'[m][q], completed'[m][q])
    BY DEF StillRunning
  <2>4. JobsHoldTheFloor(m)'
    <3>1. ASSUME NEW q \in Undisturbed, NEW s \in Busy(m, q)
          PROVE  /\ job[m][s].msg[2] \in StillRunning(dispatched'[m][q], completed'[m][q])
                 /\ \A t \in Busy(m, q) \ {s} : job[m][t].msg # job[m][s].msg
                 /\ job[m][s].msg # <<tp, o>>
      <4>1. job[m][s].msg[2] \in StillRunning(dispatched[m][q], completed[m][q])
            /\ \A t \in Busy(m, q) \ {s} : job[m][t].msg # job[m][s].msg
        BY <1>1 DEF MemberOK, JobsHoldTheFloor
      <4>2. job[m][s].msg[2] < next[m][q] /\ job[m][s].msg[1] = q
        BY <1>1, <4>1 DEF MemberOK, TrackerInRange, StillRunning, Busy
      <4>3. job[m][s].msg # <<tp, o>>
        BY <4>2, <1>2
      <4>4. QED
        BY <1>2, <2>3, <4>1, <4>3
    <3>2. CASE job'[m] = job[m]
      <4>1. \A q : Busy(m, q)' = Busy(m, q)
        BY <3>2 DEF Busy
      <4>2. QED
        BY <1>2, <3>1, <3>2, <4>1 DEF JobsHoldTheFloor
    <3>3. ASSUME o \in StillRunning(dispatched'[m][tp], completed'[m][tp]),
                 NEW s \in Slots, job'[m][s].msg = <<tp, o>>,
                 \A t \in Slots \ {s} : job'[m][t] = job[m][t]
          PROVE  JobsHoldTheFloor(m)'
      <4>1. \A q : \A t \in Busy(m, q)' \ {s} : t \in Busy(m, q) /\ job'[m][t] = job[m][t]
        BY <3>3 DEF Busy
      <4>2. \A q : s \in Busy(m, q)' => q = tp
        BY <3>3 DEF Busy
      <4>3. ASSUME NEW q \in Undisturbed, NEW t \in Busy(m, q)'
            PROVE  /\ job'[m][t].msg[2] \in StillRunning(dispatched'[m][q], completed'[m][q])
                   /\ \A u \in Busy(m, q)' \ {t} : job'[m][u].msg # job'[m][t].msg
        <5>1. CASE t = s
          BY <3>1, <3>3, <4>1, <4>2, <5>1
        <5>2. CASE t # s
          <6>1. t \in Busy(m, q) /\ job'[m][t] = job[m][t]
            BY <4>1, <5>2
          <6>2. ASSUME NEW u \in Busy(m, q)' \ {t} PROVE job'[m][u].msg # job'[m][t].msg
            BY <3>1, <3>3, <4>1, <6>1
          <6>3. QED
            BY <3>1, <6>1, <6>2
        <5>3. QED
          BY <5>1, <5>2
      <4>4. QED
        BY <1>2, <4>3 DEF JobsHoldTheFloor
    <3>4. QED
      BY <3>2, <3>3
  <2>5. HandedOutCovered(m)'
    <3> SUFFICES ASSUME NEW q \in assigned[m] \cap Undisturbed, NEW r \in 0 .. next'[m][q] - 1
                 PROVE  \/ <<q, r>> \in Covered'
                        \/ r \in StillRunning(dispatched'[m][q], completed'[m][q])
      BY <1>1, <1>2 DEF HandedOutCovered
    <3>1. q \in Partitions
      BY <1>2
    <3>2. CASE r \in 0 .. next[m][q] - 1
      BY <1>1, <2>3, <3>1, <3>2 DEF MemberOK, HandedOutCovered
    <3>3. CASE r \notin 0 .. next[m][q] - 1
      <4>1. q = tp
        BY <1>2, <3>1, <3>3
      <4>2. r = o
        BY <1>2, <3>3, <4>1
      <4>3. QED
        BY <4>1, <4>2
    <3>4. QED
      BY <3>2, <3>3
  <2>6. QED
    BY <2>1, <2>2, <2>4, <2>5 DEF MemberOK
<1>6. ASSUME NEW n \in Members, n # m PROVE MemberOK(n)'
  <2>1. Untouched(n)
    BY <1>1, <1>6 DEF Untouched, Live
  <2>2. position' \in [Members -> [Partitions -> 0 .. LogEnd]]
    BY DEF TypeOK
  <2>3. QED
    BY <1>1, <1>6, <2>1, <2>2, OthersKept
<1>7. QED
  BY <1>4, <1>5, <1>6

(* What is given to the DLQ is there, or the log says that it is not.      *)
LEMMA DlqCovers ==
    ASSUME NEW msg \in Messages, PublishToDlq(msg)
    PROVE  msg \in Covered'
BY DEF PublishToDlq, Covered, Accounted

(* The four outcomes of _handle_one_message, on a partition undisturbed.   *)
HandleOne(m, tp) == \/ HandlePoison(m, tp) \/ HandleSkip(m, tp)
                    \/ HandleSubmit(m, tp) \/ HandleFault(m, tp)

LEMMA HandleSoundKeeps ==
    ASSUME IInv, TypeOK', NEW m \in Members, NEW tp \in Undisturbed, HandleOne(m, tp),
           Covered \subseteq Covered'
    PROVE  LossExplained' /\ \A n \in Members : MemberOK(n)'
<1> USE DEF HandleOne
<1>0. tp \in Partitions
  BY DEF Undisturbed
<1> DEFINE o == next[m][tp]
           msg == <<tp, o>>
<1>1. TakeMessage(m, tp) /\ TypeOK
  BY DEF HandlePoison, HandleSkip, HandleSubmit, HandleFault, IInv
<1>2. o \in 0 .. LogEnd - 1 /\ msg \in Messages
  BY <1>0, <1>1, ConstantsTyped DEF TakeMessage, BatchLeft, TypeOK, Messages
<1>3. o \notin dispatched[m][tp] \cup completed[m][tp]
  <2>1. Live(m) /\ MemberOK(m)
    BY <1>1 DEF TakeMessage, Live, IInv
  <2>2. QED
    BY <1>2, <2>1 DEF MemberOK, TrackerInRange
<1>4. ASSUME DispatchComplete(m, tp, o), msg \in Covered', job' = job
      PROVE  LossExplained' /\ \A n \in Members : MemberOK(n)'
  <2>1. /\ dispatched' = [dispatched EXCEPT ![m][tp] = dispatched[m][tp] \cup {o}]
        /\ completed' = [completed EXCEPT ![m][tp] = completed[m][tp] \cup {o}]
    BY <1>4 DEF DispatchComplete
  <2>2. /\ dispatched'[m][tp] = dispatched[m][tp] \cup {o}
        /\ completed'[m][tp] = completed[m][tp] \cup {o}
        /\ \A q \in Partitions \ {tp} : /\ dispatched'[m][q] = dispatched[m][q]
                                        /\ completed'[m][q] = completed[m][q]
        /\ \A n \in Members \ {m} : /\ dispatched'[n] = dispatched[n]
                                    /\ completed'[n] = completed[n]
    <3>1. /\ dispatched'[m][tp] = dispatched[m][tp] \cup {o}
          /\ \A q \in Partitions \ {tp} : dispatched'[m][q] = dispatched[m][q]
          /\ \A n \in Members \ {m} : dispatched'[n] = dispatched[n]
      BY <1>0, <1>1, <2>1, TrackerShape, EntryUpdated
    <3>2. /\ completed'[m][tp] = completed[m][tp] \cup {o}
          /\ \A q \in Partitions \ {tp} : completed'[m][q] = completed[m][q]
          /\ \A n \in Members \ {m} : completed'[n] = completed[n]
      BY <1>0, <1>1, <2>1, TrackerShape, EntryUpdated
    <3>3. QED
      BY <3>1, <3>2
  <2>3. StillRunning(dispatched[m][tp], completed[m][tp])
            \subseteq StillRunning(dispatched'[m][tp], completed'[m][tp])
    BY <2>2, <1>3 DEF StillRunning
  <2> HIDE DEF o
  <2>4. o = next[m][tp]
    BY DEF o
  <2>5. QED
    <3>1. /\ \A q \in Partitions \ {tp} : /\ dispatched'[m][q] = dispatched[m][q]
                                          /\ completed'[m][q] = completed[m][q]
          /\ \A n \in Members \ {m} : /\ dispatched'[n] = dispatched[n]
                                      /\ completed'[n] = completed[n]
                                      /\ job'[n] = job[n]
      BY <1>4, <2>2
    <3>2. dispatched'[m][tp] \cup completed'[m][tp]
              \subseteq dispatched[m][tp] \cup completed[m][tp] \cup {o}
      BY <2>2
    <3>3. <<tp, o>> \in Covered' /\ job'[m] = job[m]
      BY <1>4
    <3> HIDE DEF msg
    <3>4. QED
      BY <1>1, <2>3, <2>4, <3>1, <3>2, <3>3, HandOutKeeps, SMTT(60)
<1>5. CASE HandlePoison(m, tp)
  BY <1>2, <1>4, <1>5, DlqCovers DEF HandlePoison
<1>6. CASE HandleSkip(m, tp)
  <2>1. msg \in Covered
    BY <1>2, <1>6 DEF HandleSkip, Covered, Accounted
  <2>2. QED
    BY <1>4, <1>6, <2>1 DEF HandleSkip
<1>7. CASE HandleSubmit(m, tp)
  <2>1. /\ dispatched' = [dispatched EXCEPT ![m][tp] = dispatched[m][tp] \cup {o}]
        /\ completed' = completed
        /\ job' = [job EXCEPT ![m][IdleSlot(m)] = [msg |-> msg, at |-> "forwarding"]]
    BY <1>7 DEF HandleSubmit
  <2>2. /\ dispatched'[m][tp] = dispatched[m][tp] \cup {o}
        /\ \A q \in Partitions \ {tp} : dispatched'[m][q] = dispatched[m][q]
        /\ \A n \in Members \ {m} : dispatched'[n] = dispatched[n]
    BY <1>0, <1>1, <2>1 DEF TypeOK
  <2>3. StillRunning(dispatched[m][tp], completed[m][tp])
            \subseteq StillRunning(dispatched'[m][tp], completed'[m][tp])
    BY <2>1, <2>2 DEF StillRunning
  <2>4. o \in StillRunning(dispatched'[m][tp], completed'[m][tp])
    BY <2>1, <2>2, <1>3 DEF StillRunning
  <2>5. IdleSlot(m) \in Slots
    BY <1>1, IdleSlotIdle DEF TakeMessage
  <2>6. /\ job'[m][IdleSlot(m)].msg = msg
        /\ \A t \in Slots \ {IdleSlot(m)} : job'[m][t] = job[m][t]
        /\ \A n \in Members \ {m} : job'[n] = job[n]
    BY <1>0, <1>1, <2>1, <2>5 DEF TypeOK
  <2>7. \E s \in Slots : /\ job'[m][s].msg = msg
                         /\ \A t \in Slots \ {s} : job'[m][t] = job[m][t]
    BY <2>5, <2>6
  <2>8. /\ dispatched'[m][tp] \cup completed'[m][tp]
               \subseteq dispatched[m][tp] \cup completed[m][tp] \cup {o}
        /\ \A q \in Partitions \ {tp} : /\ dispatched'[m][q] = dispatched[m][q]
                                        /\ completed'[m][q] = completed[m][q]
        /\ \A n \in Members \ {m} : /\ dispatched'[n] = dispatched[n]
                                    /\ completed'[n] = completed[n]
                                    /\ job'[n] = job[n]
    BY <2>1, <2>2, <2>6
  <2> HIDE DEF o
  <2>9. o = next[m][tp]
    BY DEF o
  <2>10. /\ \A q \in Partitions \ {tp} : /\ dispatched'[m][q] = dispatched[m][q]
                                         /\ completed'[m][q] = completed[m][q]
         /\ \A n \in Members \ {m} : /\ dispatched'[n] = dispatched[n]
                                     /\ completed'[n] = completed[n]
                                     /\ job'[n] = job[n]
    BY <2>8
  <2>11. dispatched'[m][tp] \cup completed'[m][tp]
             \subseteq dispatched[m][tp] \cup completed[m][tp] \cup {o}
    BY <2>8
  <2>12. \/ <<tp, o>> \in Covered' /\ job'[m] = job[m]
         \/ /\ o \in StillRunning(dispatched'[m][tp], completed'[m][tp])
            /\ \E s \in Slots : /\ job'[m][s].msg = <<tp, o>>
                                /\ \A t \in Slots \ {s} : job'[m][t] = job[m][t]
    BY <2>4, <2>7
  <2> HIDE DEF msg
  <2>13. QED
    BY <1>1, <2>3, <2>9, <2>10, <2>11, <2>12, HandOutKeeps, SMTT(60)
<1>8. CASE HandleFault(m, tp)
  <2>1. /\ dispatched' = [dispatched EXCEPT ![m][tp] = dispatched[m][tp] \ {o}]
        /\ completed' = [completed EXCEPT ![m][tp] = completed[m][tp] \ {o}]
        /\ job' = job /\ PublishToDlq(msg)
    BY <1>8 DEF HandleFault, Abandon
  <2>2. /\ dispatched'[m][tp] = dispatched[m][tp] /\ completed'[m][tp] = completed[m][tp]
        /\ \A q \in Partitions \ {tp} : /\ dispatched'[m][q] = dispatched[m][q]
                                        /\ completed'[m][q] = completed[m][q]
        /\ \A n \in Members \ {m} : /\ dispatched'[n] = dispatched[n]
                                    /\ completed'[n] = completed[n]
    BY <1>0, <1>1, <1>3, <2>1 DEF TypeOK
  <2>3. msg \in Covered'
    BY <1>2, <2>1, DlqCovers
  <2>4. StillRunning(dispatched[m][tp], completed[m][tp])
            \subseteq StillRunning(dispatched'[m][tp], completed'[m][tp])
    BY <2>2
  <2> HIDE DEF o
  <2>5. o = next[m][tp]
    BY DEF o
  <2>6. QED
    BY <1>1, <2>1, <2>2, <2>3, <2>4, <2>5, HandOutKeeps
<1>9. QED
  BY <1>5, <1>6, <1>7, <1>8

(* On a partition interrupted, they concern nothing else.                  *)
LEMMA HandleDisturbedKeeps ==
    ASSUME IInv, TypeOK', NEW m \in Members, NEW tp \in Partitions, tp \in interrupted,
           HandleOne(m, tp), Covered \subseteq Covered'
    PROVE  LossExplained' /\ \A n \in Members : MemberOK(n)'
<1> DEFINE o == next[m][tp]
<1>1. TakeMessage(m, tp) /\ TypeOK
  BY DEF HandleOne, HandlePoison, HandleSkip, HandleSubmit, HandleFault, IInv
<1>2. /\ UNCHANGED <<owner, inGroup, committed, assigned, position, interrupted>>
      /\ \A n \in Members : Live(n)' = Live(n)
      /\ \A q \in Partitions \ {tp} : next'[m][q] = next[m][q]
      /\ \A n \in Members \ {m} : next'[n] = next[n]
  BY <1>1 DEF TakeMessage, historyVars, Live, TypeOK
<1>3. /\ \A q \in Partitions \ {tp} : dispatched'[m][q] = dispatched[m][q]
      /\ \A n \in Members \ {m} : dispatched'[n] = dispatched[n]
  <2>1. \E v : dispatched' = [dispatched EXCEPT ![m][tp] = v]
    <3>1. CASE HandlePoison(m, tp) \/ HandleSkip(m, tp)
      <4>1. dispatched' = [dispatched EXCEPT ![m][tp] = dispatched[m][tp] \cup {o}]
        BY <3>1 DEF HandlePoison, HandleSkip, DispatchComplete
      <4>2. QED
        BY <4>1
    <3>2. CASE HandleSubmit(m, tp)
      <4>1. dispatched' = [dispatched EXCEPT ![m][tp] = dispatched[m][tp] \cup {o}]
        BY <3>2 DEF HandleSubmit
      <4>2. QED
        BY <4>1
    <3>3. CASE HandleFault(m, tp)
      <4>1. dispatched' = [dispatched EXCEPT ![m][tp] = dispatched[m][tp] \ {o}]
        BY <3>3 DEF HandleFault, Abandon
      <4>2. QED
        BY <4>1
    <3>4. QED
      BY <3>1, <3>2, <3>3 DEF HandleOne
  <2>2. QED
    BY <1>1, <2>1, TrackerShape, EntryUpdated
<1>4. /\ \A q \in Partitions \ {tp} : completed'[m][q] = completed[m][q]
      /\ \A n \in Members \ {m} : completed'[n] = completed[n]
  <2>1. \/ completed' = completed
        \/ \E v : completed' = [completed EXCEPT ![m][tp] = v]
    <3>1. CASE HandlePoison(m, tp) \/ HandleSkip(m, tp)
      <4>1. completed' = [completed EXCEPT ![m][tp] = completed[m][tp] \cup {o}]
        BY <3>1 DEF HandlePoison, HandleSkip, DispatchComplete
      <4>2. QED
        BY <4>1
    <3>2. CASE HandleSubmit(m, tp)
      BY <3>2 DEF HandleSubmit
    <3>3. CASE HandleFault(m, tp)
      <4>1. completed' = [completed EXCEPT ![m][tp] = completed[m][tp] \ {o}]
        BY <3>3 DEF HandleFault, Abandon
      <4>2. QED
        BY <4>1
    <3>4. QED
      BY <3>1, <3>2, <3>3 DEF HandleOne
  <2>2. QED
    BY <1>1, <2>1, TrackerShape, EntryUpdated
<1>5. /\ \A n \in Members \ {m} : job'[n] = job[n]
      /\ \A s \in Slots :
            \/ job'[m][s] = job[m][s]
            \/ /\ job[m][s] # NoJob => job[m][s].msg[1] = tp
               /\ job'[m][s] # NoJob => job'[m][s].msg[1] = tp
  <2>1. CASE HandleSubmit(m, tp)
    <3>1. IdleSlot(m) \in Slots /\ job[m][IdleSlot(m)] = NoJob
      BY <1>1, IdleSlotIdle DEF TakeMessage
    <3>2. job' = [job EXCEPT ![m][IdleSlot(m)] = [msg |-> <<tp, o>>, at |-> "forwarding"]]
      BY <2>1 DEF HandleSubmit
    <3>3. /\ job'[m][IdleSlot(m)] = [msg |-> <<tp, o>>, at |-> "forwarding"]
          /\ \A s \in Slots \ {IdleSlot(m)} : job'[m][s] = job[m][s]
          /\ \A n \in Members \ {m} : job'[n] = job[n]
      BY <1>1, <3>1, <3>2 DEF TypeOK
    <3>4. job'[m][IdleSlot(m)].msg[1] = tp
      BY <3>3
    <3>5. QED
      BY <3>1, <3>3, <3>4
  <2>2. CASE job' = job
    BY <2>2
  <2>3. QED
    BY <2>1, <2>2 DEF HandleOne, HandlePoison, HandleSkip, HandleFault
<1>6. QED
  BY <1>2, <1>3, <1>4, <1>5, DisturbedKeeps

LEMMA HandleKeeps ==
    ASSUME IInv, TypeOK', NEW m \in Members, Handle(m), Covered \subseteq Covered'
    PROVE  LossExplained' /\ \A n \in Members : MemberOK(n)'
<1>1. PICK tp \in Partitions : HandleOne(m, tp)
  BY DEF Handle, HandleOne
<1>2. QED
  BY <1>1, HandleSoundKeeps, HandleDisturbedKeeps DEF Undisturbed

(* A worker that finishes: its offset is completed or abandoned, and its   *)
(* message is covered.  The member may have stopped meanwhile.             *)
LEMMA FinishKeeps ==
    ASSUME IInv, TypeOK', NEW m \in Members, NEW s \in Slots, job[m][s] # NoJob,
           FreeSlot(m, s), Complete(m, job[m][s].msg) \/ Abandon(m, job[m][s].msg),
           UNCHANGED <<owner, inGroup, committed, mainVars, interrupted>>,
           job[m][s].msg \in Covered', Covered \subseteq Covered'
    PROVE  LossExplained' /\ \A n \in Members : MemberOK(n)'
<1> DEFINE tp == job[m][s].msg[1]
           o == job[m][s].msg[2]
<1>1. /\ TypeOK /\ MemberOK(m) /\ \A n \in Members : Live(n)' = Live(n)
      /\ UNCHANGED <<main, assigned, position, next>>
  BY DEF IInv, mainVars, Live
<1>2. /\ tp \in Partitions /\ o \in 0 .. LogEnd - 1 /\ job[m][s].msg = <<tp, o>>
      /\ Undisturbed' = Undisturbed /\ Undisturbed \subseteq Partitions
  BY <1>1 DEF TypeOK, Jobs, Messages, Undisturbed
<1>3. /\ job'[m][s] = NoJob /\ \A t \in Slots \ {s} : job'[m][t] = job[m][t]
      /\ \A n \in Members \ {m} : job'[n] = job[n]
  BY <1>1 DEF FreeSlot, TypeOK
<1>4. /\ \A q \in Partitions \ {tp} : /\ dispatched'[m][q] = dispatched[m][q]
                                      /\ completed'[m][q] = completed[m][q]
      /\ \A n \in Members \ {m} : /\ dispatched'[n] = dispatched[n]
                                  /\ completed'[n] = completed[n]
      /\ \/ /\ dispatched'[m][tp] = dispatched[m][tp]
            /\ completed'[m][tp] = completed[m][tp] \cup {o}
         \/ /\ dispatched'[m][tp] = dispatched[m][tp] \ {o}
            /\ completed'[m][tp] = completed[m][tp] \ {o}
  <2>1. CASE Complete(m, job[m][s].msg)
    <3>1. completed' = [completed EXCEPT ![m][tp] = completed[m][tp] \cup {o}]
          /\ dispatched' = dispatched
      BY <2>1 DEF Complete
    <3> HIDE DEF tp, o
    <3>2. QED
      BY <1>1, <1>2, <3>1, TrackerShape, EntryUpdated
  <2>2. CASE Abandon(m, job[m][s].msg)
    <3>1. dispatched' = [dispatched EXCEPT ![m][tp] = dispatched[m][tp] \ {o}]
      BY <2>2 DEF Abandon
    <3>2. completed' = [completed EXCEPT ![m][tp] = completed[m][tp] \ {o}]
      BY <2>2 DEF Abandon
    <3> HIDE DEF tp, o
    <3>3. /\ dispatched'[m][tp] = dispatched[m][tp] \ {o}
          /\ \A q \in Partitions \ {tp} : dispatched'[m][q] = dispatched[m][q]
          /\ \A n \in Members \ {m} : dispatched'[n] = dispatched[n]
      BY <1>1, <1>2, <3>1, TrackerShape, EntryUpdated
    <3>4. /\ completed'[m][tp] = completed[m][tp] \ {o}
          /\ \A q \in Partitions \ {tp} : completed'[m][q] = completed[m][q]
          /\ \A n \in Members \ {m} : completed'[n] = completed[n]
      BY <1>1, <1>2, <3>2, TrackerShape, EntryUpdated
    <3>5. QED
      BY <3>3, <3>4
  <2>3. QED
    BY <2>1, <2>2
<1> HIDE DEF tp, o
<1>5. LossExplained'
  BY LossExplainedKept DEF IInv
<1>6. ASSUME ~Live(m) PROVE MemberOK(m)'
  BY <1>1, <1>6, GoneMember DEF MemberOK, OwnershipAgrees
<1>7. ASSUME Live(m), tp \in Undisturbed PROVE MemberOK(m)'
  <2>0. /\ s \in Busy(m, tp)
        /\ \A q : Busy(m, q)' = Busy(m, q) \ {s}
        /\ \A t \in Slots \ {s} : job'[m][t] = job[m][t]
    BY <1>3 DEF Busy, tp
  <2>1. /\ o \in dispatched[m][tp]
        /\ \A q \in Partitions :
              /\ dispatched'[m][q] \cup completed'[m][q]
                     \subseteq dispatched[m][q] \cup completed[m][q]
              /\ StillRunning(dispatched'[m][q], completed'[m][q])
                     = IF q = tp THEN StillRunning(dispatched[m][q], completed[m][q]) \ {o}
                                 ELSE StillRunning(dispatched[m][q], completed[m][q])
    <3>1. o \in dispatched[m][tp]
      BY <1>1, <1>2, <1>7, <2>0 DEF MemberOK, JobsHoldTheFloor, StillRunning
    <3>2. QED
      BY <1>4, <3>1 DEF StillRunning
  <2>2. OwnershipAgrees(m)'
    BY <1>1 DEF MemberOK, OwnershipAgrees
  <2>3. TrackerInRange(m)'
    BY <1>1, <1>2, <1>7, <2>1 DEF MemberOK, TrackerInRange
  <2>4. JobsHoldTheFloor(m)'
    <3>1. ASSUME NEW q \in Undisturbed, NEW t \in Busy(m, q) \ {s}
          PROVE  /\ job[m][t].msg[2] \in StillRunning(dispatched'[m][q], completed'[m][q])
                 /\ \A u \in Busy(m, q) \ {t} : job[m][u].msg # job[m][t].msg
      <4>1. /\ job[m][t].msg[2] \in StillRunning(dispatched[m][q], completed[m][q])
            /\ \A u \in Busy(m, q) \ {t} : job[m][u].msg # job[m][t].msg
        BY <1>1, <1>7 DEF MemberOK, JobsHoldTheFloor
      <4>2. job[m][t].msg = <<q, job[m][t].msg[2]>>
        BY <1>1 DEF Busy, TypeOK, Jobs, Messages
      <4>3. q = tp => job[m][t].msg[2] # o
        BY <1>2, <2>0, <4>1, <4>2
      <4>4. QED
        BY <1>2, <2>1, <4>1, <4>3
    <3>2. QED
      BY <1>2, <2>0, <3>1 DEF JobsHoldTheFloor, Busy
  <2>5. HandedOutCovered(m)'
    <3> SUFFICES ASSUME NEW q \in assigned[m] \cap Undisturbed, NEW r \in 0 .. next[m][q] - 1
                 PROVE  \/ <<q, r>> \in Covered'
                        \/ r \in StillRunning(dispatched'[m][q], completed'[m][q])
      BY <1>1, <1>2 DEF HandedOutCovered
    <3>1. <<q, r>> \in Covered \/ r \in StillRunning(dispatched[m][q], completed[m][q])
      BY <1>1, <1>7 DEF MemberOK, HandedOutCovered
    <3>2. CASE q = tp /\ r = o
      BY <1>2, <3>2
    <3>3. CASE ~(q = tp /\ r = o)
      BY <1>2, <2>1, <3>1, <3>3
    <3>4. QED
      BY <3>2, <3>3
  <2>6. QED
    BY <2>2, <2>3, <2>4, <2>5 DEF MemberOK
<1>8. ASSUME NEW n \in Members, n # m PROVE MemberOK(n)'
  <2>1. Untouched(n)
    BY <1>1, <1>3, <1>4, <1>8 DEF Untouched
  <2>2. position' \in [Members -> [Partitions -> 0 .. LogEnd]]
    BY DEF TypeOK
  <2>3. QED
    BY <1>1, <1>8, <2>1, <2>2, OthersKept
<1>9. CASE tp \in Undisturbed
  BY <1>5, <1>6, <1>7, <1>8, <1>9
<1>10. CASE tp \notin Undisturbed
  <2>1. tp \in interrupted
    BY <1>2, <1>10 DEF Undisturbed
  <2>2. \A t \in Slots :
           \/ job'[m][t] = job[m][t]
           \/ /\ job[m][t] # NoJob => job[m][t].msg[1] = tp
              /\ job'[m][t] # NoJob => job'[m][t].msg[1] = tp
    BY <1>3 DEF tp
  <2>3. QED
    BY <1>1, <1>3, <1>4, <2>1, <2>2, DisturbedKeeps
<1>11. QED
  BY <1>9, <1>10

(* The four ways on of a worker thread.                                    *)
LEMMA WorkKeeps ==
    ASSUME IInv, TypeOK', NEW m \in Members, NEW s \in Slots, Work(m, s),
           Covered \subseteq Covered'
    PROVE  LossExplained' /\ \A n \in Members : MemberOK(n)'
<1> USE DEF brokerVars, dlqVars, storageVars, trackerVars, historyVars
<1>1. /\ TypeOK /\ job[m][s] # NoJob /\ job[m][s].msg \in Messages
      /\ UNCHANGED <<owner, inGroup, committed, mainVars, interrupted>>
  BY DEF Work, ForwardAnswered, ForwardTimeout, TimeoutToDlq, ForwardError, IInv, TypeOK, Jobs
<1>2. CASE ForwardAnswered(m, s)
  <2>1. job[m][s].msg \in Covered'
    BY <1>1, <1>2 DEF ForwardAnswered, Covered, Accounted
  <2>2. QED
    BY <1>1, <1>2, <2>1, FinishKeeps DEF ForwardAnswered
<1>3. CASE ForwardTimeout(m, s)
  <2>1. /\ job' = [job EXCEPT ![m][s] = [msg |-> job[m][s].msg, at |-> "timed_out"]]
        /\ UNCHANGED <<dispatched, completed, main, assigned, position, next>>
    BY <1>3 DEF ForwardTimeout, mainVars
  <2>2. /\ job'[m][s] # NoJob /\ job'[m][s].msg = job[m][s].msg
        /\ \A t \in Slots \ {s} : job'[m][t] = job[m][t]
        /\ \A n \in Members \ {m} : job'[n] = job[n]
    <3>1. [msg |-> job[m][s].msg, at |-> "timed_out"] \in Jobs
      BY <1>1 DEF Jobs, TypeOK
    <3>2. [msg |-> job[m][s].msg, at |-> "timed_out"] # NoJob
      BY <3>1, ConstantsTyped
    <3>3. [msg |-> job[m][s].msg, at |-> "timed_out"].msg = job[m][s].msg
      BY <1>1 DEF Jobs, TypeOK
    <3>4. job'[m][s] = [msg |-> job[m][s].msg, at |-> "timed_out"]
      BY <1>1, <2>1 DEF TypeOK
    <3>5. \A t \in Slots \ {s} : job'[m][t] = job[m][t]
      BY <1>1, <2>1 DEF TypeOK
    <3>6. \A n \in Members \ {m} : job'[n] = job[n]
      BY <1>1, <2>1 DEF TypeOK
    <3>7. QED
      BY <3>2, <3>3, <3>4, <3>5, <3>6
  <2>3. \A n \in Members : Live(n)' = Live(n)
    BY <2>1 DEF Live
  <2>4. \A t \in Slots : /\ job'[m][t] # NoJob => job[m][t] # NoJob
                         /\ job'[m][t] # NoJob => job'[m][t].msg = job[m][t].msg
    BY <1>1, <2>2
  <2>5. LossExplained'
    BY <1>1, LossExplainedKept DEF IInv
  <2>6. MemberOK(m)'
    <3>1. /\ MemberOK(m) /\ assigned[m] \subseteq Partitions
          /\ Undisturbed' = Undisturbed
      BY <1>1 DEF IInv, TypeOK, Undisturbed
    <3>2. OwnershipAgrees(m)' /\ TrackerInRange(m)' /\ HandedOutCovered(m)'
      BY <1>1, <2>1, <2>3, <3>1
      DEF MemberOK, OwnershipAgrees, TrackerInRange, HandedOutCovered
    <3>3. \A q : Busy(m, q)' \subseteq Busy(m, q)
      BY <2>4 DEF Busy
    <3>4. JobsHoldTheFloor(m)'
      BY <2>1, <2>3, <2>4, <3>1, <3>3 DEF MemberOK, JobsHoldTheFloor, Busy
    <3>5. QED
      BY <3>2, <3>4 DEF MemberOK
  <2>7. ASSUME NEW n \in Members, n # m PROVE MemberOK(n)'
    <3>1. Untouched(n)
      BY <2>1, <2>2, <2>3, <2>7 DEF Untouched
    <3>2. position' \in [Members -> [Partitions -> 0 .. LogEnd]]
      BY DEF TypeOK
    <3>3. QED
      BY <1>1, <2>7, <3>1, <3>2, OthersKept
  <2>8. QED
    BY <2>5, <2>6, <2>7
<1>4. CASE TimeoutToDlq(m, s)
  <2>1. job[m][s].msg \in Covered'
    BY <1>1, <1>4, DlqCovers DEF TimeoutToDlq
  <2>2. QED
    BY <1>1, <1>4, <2>1, FinishKeeps DEF TimeoutToDlq
<1>5. CASE ForwardError(m, s)
  <2>1. job[m][s].msg \in Covered'
    BY <1>1, <1>5, DlqCovers DEF ForwardError
  <2>2. QED
    BY <1>1, <1>5, <2>1, FinishKeeps DEF ForwardError
<1>6. QED
  BY <1>2, <1>3, <1>4, <1>5 DEF Work

(* A step of m that leaves the other members' own state alone keeps them.  *)
LEMMA LeaveKeepsOthers ==
    ASSUME IInv, TypeOK', NEW m \in Members, NEW n \in Members, n # m,
           Covered \subseteq Covered', interrupted \subseteq interrupted',
           UNCHANGED <<main[n], assigned[n], position[n], next[n], dispatched[n],
                       completed[n], job[n]>>,
           n \in inGroup' <=> n \in inGroup,
           \A tp \in Partitions : owner[tp] = n => owner'[tp] = n,
           \A tp \in Undisturbed : committed'[tp] = committed[tp] \/ owner[tp] = m
    PROVE  MemberOK(n)'
<1>1. Untouched(n)
  BY DEF Untouched, Live
<1>2. position' \in [Members -> [Partitions -> 0 .. LogEnd]]
  BY DEF TypeOK
<1>3. \A tp \in Undisturbed : owner[tp] = n => committed'[tp] = committed[tp]
  OBVIOUS
<1>4. QED
  BY <1>1, <1>2, <1>3, OthersKept

(* The member that is dropped keeps its state, and may no longer commit.   *)
LEMMA EvictKeeps ==
    ASSUME IInv, TypeOK', NEW m \in Members, Evict(m), Covered \subseteq Covered'
    PROVE  LossExplained' /\ \A n \in Members : MemberOK(n)'
<1> USE DEF brokerVars, dlqVars, storageVars, mainVars, trackerVars, historyVars
<1>1. /\ TypeOK /\ UNCHANGED <<committed, main, assigned, position, next, dispatched,
                               completed, job>>
      /\ inGroup' = inGroup \ {m} /\ Release(m) /\ Live(m)
      /\ interrupted' = interrupted /\ Undisturbed' = Undisturbed
      /\ \A n \in Members : Live(n)' = Live(n)
  BY DEF Evict, Live, IInv, Undisturbed
<1>2. LossExplained'
  BY <1>1, LossExplainedKept DEF IInv
<1>3. MemberOK(m)'
  <2>1. MemberOK(m) /\ assigned[m] \subseteq Partitions /\ m \notin inGroup'
    BY <1>1 DEF IInv, TypeOK
  <2>2. OwnershipAgrees(m)' /\ TrackerInRange(m)'
    BY <1>1, <2>1 DEF MemberOK, OwnershipAgrees, TrackerInRange
  <2>3. JobsHoldTheFloor(m)' /\ HandedOutCovered(m)'
    BY <1>1, <2>1 DEF MemberOK, JobsHoldTheFloor, HandedOutCovered, Busy
  <2>4. QED
    BY <2>2, <2>3 DEF MemberOK
<1>4. ASSUME NEW n \in Members, n # m PROVE MemberOK(n)'
  <2>1. \A tp \in Partitions : owner[tp] = n => owner'[tp] = n
    BY <1>1, <1>4 DEF Release
  <2>2. QED
    BY <1>1, <1>4, <2>1, LeaveKeepsOthers
<1>5. QED
  BY <1>2, <1>3, <1>4

(* A commit moves positions of the committing member only, safely.         *)
LEMMA CommitKeeps ==
    ASSUME IInv, NEW m \in Members, Live(m), NEW S \in SUBSET Partitions, Commit(m, S),
           Covered \subseteq Covered', interrupted \subseteq interrupted'
    PROVE  /\ LossExplained'
           /\ \A tp \in Undisturbed : committed'[tp] = committed[tp] \/ owner[tp] = m
<1>1. ASSUME NEW tp \in Undisturbed, committed'[tp] # committed[tp]
      PROVE  owner[tp] = m /\ \A o \in 0 .. committed'[tp] - 1 : <<tp, o>> \in Covered
  BY <1>1, CommitSafe
<1>2. QED
  BY <1>1, LossExplainedKept DEF IInv

(* Where a member is undisturbed, its threads run messages of partitions   *)
(* it has.                                                                 *)
LEMMA BusyWhereAssigned ==
    ASSUME IInv, NEW m \in Members, Live(m), NEW tp \in Undisturbed, tp \notin assigned[m]
    PROVE  /\ dispatched[m][tp] = {} /\ completed[m][tp] = {} /\ Busy(m, tp) = {}
           /\ next[m][tp] = position[m][tp]
<1>1. /\ dispatched[m][tp] = {} /\ completed[m][tp] = {}
      /\ next[m][tp] = position[m][tp]
  BY DEF IInv, MemberOK, TrackerInRange
<1>2. QED
  BY <1>1 DEF IInv, MemberOK, JobsHoldTheFloor, StillRunning

(* Rebalanced, a member starts from nothing, but for the threads that are  *)
(* still running: their partitions are interrupted.                        *)
LEMMA RevokeKeeps ==
    ASSUME IInv, TypeOK', NEW m \in Members,
           VoluntaryRevoke(m) \/ LateRevoke(m), Covered \subseteq Covered'
    PROVE  LossExplained' /\ \A n \in Members : MemberOK(n)'
<1> USE DEF brokerVars, dlqVars, storageVars, mainVars, trackerVars, historyVars
<1>1. /\ TypeOK /\ Live(m) /\ Commit(m, assigned[m]) /\ Forget(m, assigned[m])
      /\ assigned[m] \in SUBSET Partitions /\ MemberOK(m)
      /\ assigned' = [assigned EXCEPT ![m] = {}] /\ inGroup' = inGroup \cup {m}
      /\ interrupted' = interrupted \cup {tp \in assigned[m] : Busy(m, tp) # {}}
      /\ Release(m) /\ DropPositions(m) /\ UNCHANGED <<main, job>>
  BY DEF VoluntaryRevoke, LateRevoke, Revoke, Live, IInv, TypeOK
<1>2. /\ LossExplained'
      /\ \A tp \in Undisturbed : committed'[tp] = committed[tp] \/ owner[tp] = m
  BY <1>1, CommitKeeps
<1>3. Undisturbed' \subseteq Undisturbed /\ Undisturbed \subseteq Partitions
  BY <1>1 DEF Undisturbed
<1>4. ASSUME NEW tp \in Undisturbed'
      PROVE  dispatched'[m][tp] = {} /\ completed'[m][tp] = {} /\ Busy(m, tp)' = {}
  <2>1. Busy(m, tp)' = Busy(m, tp) /\ tp \in Partitions
    BY <1>1, <1>3 DEF Busy
  <2>2. CASE tp \in assigned[m]
    <3>1. Busy(m, tp) = {}
      BY <1>1, <2>2 DEF Undisturbed
    <3>2. QED
      BY <1>1, <2>1, <2>2, <3>1 DEF Forget, TypeOK
  <2>3. CASE tp \notin assigned[m]
    <3>1. dispatched[m][tp] = {} /\ completed[m][tp] = {} /\ Busy(m, tp) = {}
      BY <1>1, <1>3, <2>3, BusyWhereAssigned
    <3>2. QED
      BY <1>1, <2>1, <2>3, <3>1 DEF Forget, TypeOK
  <2>4. QED
    BY <2>2, <2>3
<1>5. MemberOK(m)'
  <2>1. assigned'[m] = {} /\ Live(m)'
    BY <1>1 DEF Live, TypeOK
  <2>2. position'[m] = [tp \in Partitions |-> 0] /\ next'[m] = [tp \in Partitions |-> 0]
    BY <1>1 DEF DropPositions, TypeOK
  <2>3. QED
    BY <1>4, <2>1, <2>2, BlankMember
<1>6. ASSUME NEW n \in Members, n # m PROVE MemberOK(n)'
  <2>1. UNCHANGED <<main[n], assigned[n], position[n], next[n], job[n]>>
    BY <1>1, <1>6 DEF DropPositions, TypeOK
  <2>2. UNCHANGED <<dispatched[n], completed[n]>>
    BY <1>1, <1>6 DEF Forget, TypeOK
  <2>3. /\ n \in inGroup' <=> n \in inGroup
        /\ \A tp \in Partitions : owner[tp] = n => owner'[tp] = n
    BY <1>1, <1>6 DEF Release
  <2>4. QED
    BY <1>1, <1>2, <1>6, <2>1, <2>2, <2>3, LeaveKeepsOthers
<1>7. QED
  BY <1>2, <1>5, <1>6

(* A new assignment starts at positions below which nothing is lost.       *)
LEMMA AssignKeeps ==
    ASSUME IInv, TypeOK', NEW m \in Members, Assign(m), Covered \subseteq Covered'
    PROVE  LossExplained' /\ \A n \in Members : MemberOK(n)'
<1> USE DEF brokerVars, dlqVars, storageVars, mainVars, trackerVars, historyVars
<1>1. PICK S \in SUBSET {tp \in Partitions : owner[tp] = NoMember} :
          /\ owner' = [tp \in Partitions |-> IF tp \in S THEN m ELSE owner[tp]]
          /\ assigned' = [assigned EXCEPT ![m] = S]
          /\ Forget(m, S)
          /\ position' = [position EXCEPT ![m] =
                 [tp \in Partitions |-> IF tp \in S THEN committed[tp] ELSE position[m][tp]]]
          /\ next' = [next EXCEPT ![m] =
                 [tp \in Partitions |-> IF tp \in S THEN committed[tp] ELSE next[m][tp]]]
  BY DEF Assign
<1>2. /\ TypeOK /\ MemberOK(m) /\ Live(m) /\ assigned[m] = {} /\ m \in inGroup
      /\ UNCHANGED <<inGroup, committed, main, job, interrupted>> /\ LossExplained
      /\ Undisturbed' = Undisturbed /\ Undisturbed \subseteq Partitions
  BY DEF Assign, Live, IInv, Undisturbed
<1>3. \A tp \in Undisturbed :
         /\ dispatched[m][tp] = {} /\ completed[m][tp] = {} /\ Busy(m, tp) = {}
         /\ next[m][tp] = position[m][tp]
  BY <1>2, BusyWhereAssigned
<1>4. \A tp : Busy(m, tp)' = Busy(m, tp)
  BY <1>2 DEF Busy
<1>5. \A tp \in Undisturbed : dispatched'[m][tp] = {} /\ completed'[m][tp] = {}
  BY <1>1, <1>2, <1>3 DEF Forget, TypeOK
<1>6. /\ assigned'[m] = S /\ S \subseteq Partitions
      /\ \A tp \in Undisturbed :
            /\ tp \in S => position'[m][tp] = committed[tp] /\ next'[m][tp] = committed[tp]
            /\ next'[m][tp] = position'[m][tp]
            /\ committed[tp] \in 0 .. LogEnd
  BY <1>1, <1>2, <1>3 DEF TypeOK
<1>7. LossExplained'
  BY <1>2, LossExplainedKept
<1>8. MemberOK(m)'
  <2>1. OwnershipAgrees(m)'
    BY <1>1, <1>2, <1>6 DEF OwnershipAgrees, Live
  <2>2. TrackerInRange(m)'
    <3>1. \A tp \in Undisturbed : position'[m][tp] \in Nat
      BY <1>2, ConstantsTyped DEF TypeOK
    <3>2. QED
      BY <1>2, <1>5, <1>6, <3>1, ConstantsTyped DEF TrackerInRange
  <2>3. JobsHoldTheFloor(m)'
    BY <1>2, <1>3, <1>4 DEF JobsHoldTheFloor
  <2>4. HandedOutCovered(m)'
    BY <1>2, <1>6 DEF HandedOutCovered, LossExplained
  <2>5. QED
    BY <2>1, <2>2, <2>3, <2>4 DEF MemberOK
<1>9. ASSUME NEW n \in Members, n # m PROVE MemberOK(n)'
  <2>1. UNCHANGED <<main[n], assigned[n], position[n], next[n], job[n]>>
    BY <1>1, <1>2, <1>9 DEF TypeOK
  <2>2. UNCHANGED <<dispatched[n], completed[n]>>
    BY <1>1, <1>2, <1>9 DEF Forget, TypeOK
  <2>3. \A tp \in Partitions : owner[tp] = n => owner'[tp] = n
    BY <1>1, <1>9, ConstantsTyped
  <2>4. QED
    BY <1>2, <1>9, <2>1, <2>2, <2>3, LeaveKeepsOthers
<1>10. QED
  BY <1>7, <1>8, <1>9

(* Stopping, dying and starting again.                                     *)
LEMMA LifeKeeps ==
    ASSUME IInv, TypeOK', NEW m \in Members, Drain(m) \/ Crash(m) \/ Restart(m),
           Covered \subseteq Covered'
    PROVE  LossExplained' /\ \A n \in Members : MemberOK(n)'
<1> USE DEF brokerVars, dlqVars, storageVars, mainVars, trackerVars, historyVars
<1>1. TypeOK /\ MemberOK(m) /\ LossExplained /\ interrupted' = interrupted
  BY DEF IInv, Drain, Crash, Restart
<1>2. /\ LossExplained'
      /\ \A tp \in Undisturbed : committed'[tp] = committed[tp] \/ owner[tp] = m
  <2>1. CASE Drain(m)
    BY <1>1, <2>1, CommitKeeps DEF Drain, Live
  <2>2. CASE UNCHANGED committed
    BY <1>1, <2>2, LossExplainedKept
  <2>3. QED
    BY <2>1, <2>2 DEF Crash, Restart
<1>3. MemberOK(m)'
  <2>1. CASE Drain(m) \/ Crash(m)
    <3>1. ~Live(m)' /\ m \notin inGroup' /\ assigned'[m] = {}
      BY <1>1, <2>1 DEF Drain, Crash, Live, TypeOK
    <3>2. QED
      BY <3>1, GoneMember
  <2>2. CASE Restart(m)
    <3>1. assigned'[m] = {} /\ Live(m)'
      BY <1>1, <2>2 DEF Restart, Live, MemberOK, OwnershipAgrees, TypeOK
    <3>2. \A tp \in Partitions : dispatched'[m][tp] = {} /\ completed'[m][tp] = {}
      BY <1>1, <2>2 DEF Restart, Forget, TypeOK
    <3>3. position'[m] = [tp \in Partitions |-> 0] /\ next'[m] = [tp \in Partitions |-> 0]
      BY <1>1, <2>2 DEF Restart, DropPositions, TypeOK
    <3>4. \A tp \in Undisturbed' : tp \in Partitions /\ Busy(m, tp)' = {}
      BY <1>1, <2>2 DEF Restart, TypeOK, Busy, Undisturbed
    <3>5. QED
      BY <3>1, <3>2, <3>3, <3>4, BlankMember
  <2>3. QED
    BY <2>1, <2>2
<1>4. ASSUME NEW n \in Members, n # m PROVE MemberOK(n)'
  <2>1. UNCHANGED <<main[n], assigned[n], position[n], next[n], job[n]>>
    BY <1>1, <1>4 DEF Drain, Crash, Restart, DropPositions, TypeOK
  <2>2. UNCHANGED <<dispatched[n], completed[n]>>
    BY <1>1, <1>4 DEF Drain, Crash, Restart, Retire, Forget, TypeOK
  <2>3. /\ n \in inGroup' <=> n \in inGroup
        /\ \A tp \in Partitions : owner[tp] = n => owner'[tp] = n
    BY <1>4 DEF Drain, Crash, Restart, Release
  <2>4. QED
    BY <1>1, <1>2, <1>4, <2>1, <2>2, <2>3, LeaveKeepsOthers
<1>5. QED
  BY <1>2, <1>3, <1>4

----------------------------------------------------------------------------
(* Every step keeps the inductive invariant.                               *)
LEMMA StepKeeps ==
    ASSUME IInv, TypeOK', [Next]_vars
    PROVE  IInv'
<1>1. Covered \subseteq Covered'
  BY CoveredGrows DEF IInv
<1>2. LossExplained' /\ \A n \in Members : MemberOK(n)'
  <2>1. ASSUME NEW m \in Members, CommitReady(m) PROVE <1>2
    BY <1>1, <2>1, CommitReadyKeeps
  <2>2. ASSUME NEW m \in Members, LoopEnds(m) \/ Poll(m) \/ NextMessage(m) \/ RequestShutdown(m)
        PROVE <1>2
    BY <1>1, <2>2, ControlKeeps
  <2>3. ASSUME NEW m \in Members, Handle(m) PROVE <1>2
    BY <1>1, <2>3, HandleKeeps
  <2>4. ASSUME NEW m \in Members, NEW s \in Slots, Work(m, s) PROVE <1>2
    BY <1>1, <2>4, WorkKeeps
  <2>5. ASSUME NEW m \in Members, Evict(m) PROVE <1>2
    BY <1>1, <2>5, EvictKeeps
  <2>6. ASSUME NEW m \in Members, VoluntaryRevoke(m) \/ LateRevoke(m) PROVE <1>2
    BY <1>1, <2>6, RevokeKeeps
  <2>7. ASSUME NEW m \in Members, Assign(m) PROVE <1>2
    BY <1>1, <2>7, AssignKeeps
  <2>8. ASSUME NEW m \in Members, Drain(m) \/ Crash(m) \/ Restart(m) PROVE <1>2
    BY <1>1, <2>8, LifeKeeps
  <2>9. ASSUME NEW msg \in Messages, RecordVerdict(msg) PROVE <1>2
    BY <1>1, <2>9, ControlKeeps
  <2>10. CASE UNCHANGED vars
    BY <1>1, <2>10, ControlKeeps
  <2>11. QED
    BY <2>1, <2>2, <2>3, <2>4, <2>5, <2>6, <2>7, <2>8, <2>9, <2>10 DEF Next, PollLoop
<1>3. QED
  BY <1>2 DEF IInv

(* Nothing is handed out or committed at first.                            *)
LEMMA InitKeeps == ASSUME Init, TypeOK PROVE IInv
<1>1. LossExplained
  BY DEF Init, LossExplained, Undisturbed
<1>2. ASSUME NEW m \in Members PROVE MemberOK(m)
  <2>1. /\ Live(m) /\ m \in inGroup /\ assigned[m] = {}
        /\ \A tp \in Partitions : dispatched[m][tp] = {} /\ completed[m][tp] = {}
        /\ \A tp \in Partitions : position[m][tp] = 0 /\ next[m][tp] = 0
        /\ \A tp : Busy(m, tp) = {}
        /\ Undisturbed \subseteq Partitions
    BY DEF Init, Live, Busy, Undisturbed
  <2>2. QED
    BY <2>1 DEF MemberOK, OwnershipAgrees, TrackerInRange, JobsHoldTheFloor, HandedOutCovered
<1>3. QED
  BY <1>1, <1>2 DEF IInv

(* The invariant behind the theorems below.                                *)
LEMMA Inductive == Spec => []IInv
<1>1. TypeOK /\ Init => IInv
  BY InitKeeps
<1>2. TypeOK /\ TypeOK' /\ IInv /\ [Next]_vars => IInv'
  BY StepKeeps
<1>3. QED
  BY <1>1, <1>2, TypeCorrect, PTL DEF Spec

(* Whatever crashes, is evicted, rebalanced or redelivered, and whatever   *)
(* the broker does with a commit or a DLQ publish: a message below a       *)
(* committed position was answered, has a terminal casebook, is in the DLQ *)
(* or needed no work -- or its DLQ publish failed with an error logged, or *)
(* was logged as done and never reached the topic, or its partition was    *)
(* revoked under a running worker.                                         *)
THEOREM LossIsExplained == Spec => []LossExplained
<1>1. IInv => LossExplained
  BY DEF IInv
<1>2. QED
  BY <1>1, Inductive, PTL

(* In a kind environment none ever happens.                                *)
LEMMA KindIsKind ==
    ASSUME KindEnvironment
    PROVE  Spec => [](dropped = {} /\ silent = {} /\ interrupted = {})
<1> DEFINE Kind == dropped = {} /\ silent = {} /\ interrupted = {}
<1>1. Init => Kind
  BY DEF Init
<1>2. Kind /\ [Next]_vars => Kind'
  <2> SUFFICES ASSUME Kind, [Next]_vars PROVE Kind'
    OBVIOUS
  <2> USE DEF brokerVars, dlqVars, storageVars, mainVars, trackerVars, historyVars
  <2>1. \A msg : PublishToDlq(msg) => UNCHANGED <<dropped, silent>>
    BY DEF PublishToDlq, KindEnvironment
  <2>2. ASSUME NEW m \in Members, Revoke(m) PROVE interrupted' = {}
    BY <2>2 DEF Revoke, KindEnvironment, IdleSlots, Busy
  <2>3. ASSUME NEW m \in Members,
               \/ CommitReady(m) \/ LoopEnds(m) \/ Poll(m) \/ NextMessage(m) \/ Drain(m)
               \/ Evict(m) \/ Assign(m) \/ RequestShutdown(m) \/ Crash(m) \/ Restart(m)
        PROVE  Kind'
    BY <2>3 DEF CommitReady, LoopEnds, Poll, NextMessage, Drain, Evict, Assign,
       RequestShutdown, Crash, Restart
  <2>4. ASSUME NEW m \in Members, Handle(m) PROVE Kind'
    BY <2>1, <2>4
    DEF Handle, HandlePoison, HandleSkip, HandleSubmit, HandleFault, TakeMessage
  <2>5. ASSUME NEW m \in Members, VoluntaryRevoke(m) \/ LateRevoke(m) PROVE Kind'
    BY <2>2, <2>5 DEF VoluntaryRevoke, LateRevoke, Revoke
  <2>6. ASSUME NEW m \in Members, NEW s \in Slots, Work(m, s) PROVE Kind'
    BY <2>1, <2>6 DEF Work, ForwardAnswered, ForwardTimeout, TimeoutToDlq, ForwardError
  <2>7. ASSUME NEW msg \in Messages, RecordVerdict(msg) PROVE Kind'
    BY <2>7 DEF RecordVerdict
  <2>8. CASE UNCHANGED vars
    BY <2>8 DEF vars
  <2>9. QED
    BY <2>3, <2>4, <2>5, <2>6, <2>7, <2>8 DEF Next, PollLoop
<1>3. QED
  BY <1>1, <1>2, PTL DEF Spec

(* No loss: every message below a committed position was answered, has a   *)
(* terminal casebook, is in the DLQ or needed no work -- given a DLQ that  *)
(* takes what it is given and partitions revoked while workers are idle.   *)
THEOREM NothingLost == ASSUME KindEnvironment PROVE Spec => []NoLoss
<1>1. LossExplained /\ dropped = {} /\ silent = {} /\ interrupted = {} => NoLoss
  BY DEF LossExplained, NoLoss, Undisturbed, Covered
<1>2. QED
  BY <1>1, LossIsExplained, KindIsKind, PTL

(* Who moved a position: the member that owned the partition.              *)
LEMMA CommitsAreSafe ==
    ASSUME IInv, [Next]_vars, NEW tp \in Undisturbed,
           committed'[tp] # committed[tp]
    PROVE  /\ \E m \in Members :
                 /\ owner[tp] = m
                 /\ <<main'[m], assigned'[m]>> # <<main[m], assigned[m]>>
           /\ committed'[tp] > committed[tp]
           /\ \A o \in 0 .. committed'[tp] - 1 : <<tp, o>> \in Covered
<1>1. \E m \in Members : \E S \in SUBSET Partitions :
         /\ Live(m) /\ Commit(m, S)
         /\ <<main'[m], assigned'[m]>> # <<main[m], assigned[m]>>
  <2> USE DEF brokerVars, dlqVars, storageVars, mainVars, trackerVars, historyVars
  <2>1. ASSUME NEW m \in Members, CommitReady(m) \/ Drain(m) PROVE <1>1
    <3>1. Live(m) /\ Commit(m, Partitions) /\ main'[m] # main[m]
      BY <2>1 DEF CommitReady, Drain, Live, IInv, TypeOK
    <3>2. QED
      BY <3>1
  <2>2. ASSUME NEW m \in Members, VoluntaryRevoke(m) \/ LateRevoke(m) PROVE <1>1
    <3>1. /\ Live(m) /\ Commit(m, assigned[m]) /\ assigned[m] \in SUBSET Partitions
          /\ assigned'[m] # assigned[m]
      BY <2>2 DEF VoluntaryRevoke, LateRevoke, Revoke, Live, IInv, TypeOK
    <3>2. QED
      BY <3>1
  <2>3. ASSUME NEW m \in Members,
               \/ LoopEnds(m) \/ Poll(m) \/ NextMessage(m) \/ Handle(m)
               \/ Evict(m) \/ Assign(m) \/ RequestShutdown(m) \/ Crash(m) \/ Restart(m)
        PROVE  UNCHANGED committed
    BY <2>3 DEF LoopEnds, Poll, NextMessage, Handle, HandlePoison, HandleSkip, HandleSubmit,
       HandleFault, TakeMessage, Evict, Assign, RequestShutdown, Crash, Restart
  <2>4. ASSUME NEW m \in Members, NEW s \in Slots, Work(m, s) PROVE UNCHANGED committed
    BY <2>4 DEF Work, ForwardAnswered, ForwardTimeout, TimeoutToDlq, ForwardError
  <2>5. ASSUME NEW msg \in Messages, RecordVerdict(msg) PROVE UNCHANGED committed
    BY <2>5 DEF RecordVerdict
  <2>6. CASE UNCHANGED vars
    BY <2>6 DEF vars
  <2>7. QED
    BY <2>1, <2>2, <2>3, <2>4, <2>5, <2>6 DEF Next, PollLoop
<1>2. QED
  BY <1>1, CommitSafe

(* Only the partition's owner, by a step of its poll loop, moves its       *)
(* committed position: no worker thread, no evicted or stopped member.     *)
THEOREM OwnersCommit == Spec => OnlyOwnerCommits
<1>1. IInv /\ [Next]_vars =>
         [\A tp \in Undisturbed : committed'[tp] # committed[tp] =>
             \E m \in Members :
                 /\ owner[tp] = m
                 /\ <<main'[m], assigned'[m]>> # <<main[m], assigned[m]>>]_vars
  BY CommitsAreSafe
<1>2. QED
  BY <1>1, Inductive, PTL DEF Spec, OnlyOwnerCommits

(* The consumer group implements the promise of AtLeastOnce: positions     *)
(* move forward only, over messages already covered.                       *)
THEOREM PromiseKept == Spec => KeepsPromise
<1>1. Init /\ TypeOK => Promise!Init
  BY DEF Init, TypeOK, Promise!Init, Covered, Accounted, Promise!Messages, Messages
<1>2. IInv /\ TypeOK' /\ [Next]_vars => [Promise!Next]_<<Covered, committed, interrupted>>
  <2> SUFFICES ASSUME IInv, TypeOK', [Next]_vars PROVE Promise!Next
    OBVIOUS
  <2>1. Promise!Account
    BY CoveredGrows DEF Promise!Account, Promise!Messages, Messages, IInv
  <2>2. Promise!Void
    <3>1. interrupted' \subseteq Partitions
      BY DEF TypeOK
    <3>2. QED
      BY <3>1, CoveredGrows DEF Promise!Void, IInv
  <2>3. Promise!Advance
    <3>1. committed' \in [Partitions -> 0 .. LogEnd]
      BY DEF TypeOK
    <3>2. QED
      BY <3>1, CommitsAreSafe DEF Promise!Advance, Undisturbed
  <2>4. QED
    BY <2>1, <2>2, <2>3 DEF Promise!Next
<1>3. QED
  BY <1>1, <1>2, TypeCorrect, Inductive, PTL DEF Spec, KeepsPromise, Promise!Spec

----------------------------------------------------------------------------
(* Retiring or forgetting leaves no offset running that was not.           *)
LEMMA RunningShrinks ==
    ASSUME TypeOK, NEW m \in Members, NEW S, Retire(m, S) \/ Forget(m, S),
           NEW n \in Members, NEW tp \in Partitions
    PROVE  StillRunning(dispatched'[n][tp], completed'[n][tp])
               \subseteq StillRunning(dispatched[n][tp], completed[n][tp])
<1>1. CASE n # m
  BY <1>1 DEF Retire, Forget, TypeOK
<1>2. CASE n = m /\ Retire(m, S)
  <2>1. /\ dispatched'[m][tp] = IF tp \in S THEN dispatched[m][tp] \ Ready(m, tp) ELSE dispatched[m][tp]
        /\ completed'[m][tp] = IF tp \in S THEN completed[m][tp] \ Ready(m, tp) ELSE completed[m][tp]
    BY <1>2 DEF Retire, TypeOK
  <2>2. QED
    BY <1>2, <2>1 DEF StillRunning, Ready, Committable
<1>3. CASE n = m /\ Forget(m, S)
  <2>1. /\ dispatched'[m][tp] = IF tp \in S THEN {} ELSE dispatched[m][tp]
        /\ completed'[m][tp] = IF tp \in S THEN {} ELSE completed[m][tp]
    BY <1>3 DEF Forget, TypeOK
  <2>2. QED
    BY <1>3, <2>1 DEF StillRunning
<1>4. QED
  BY <1>1, <1>2, <1>3

(* What the poll thread hands out runs in the thread it gives it to, or is *)
(* finished at once.                                                       *)
LEMMA HandOutHolds ==
    ASSUME TypeOK, FloorHeld, NEW m \in Members, NEW tp \in Partitions, HandleOne(m, tp)
    PROVE  FloorHeld'
<1> DEFINE o == next[m][tp]
<1>1. IdleSlots(m) # {}
  BY DEF HandleOne, HandlePoison, HandleSkip, HandleSubmit, HandleFault, TakeMessage
<1>2. CASE HandlePoison(m, tp) \/ HandleSkip(m, tp)
  <2>1. dispatched' = [dispatched EXCEPT ![m][tp] = dispatched[m][tp] \cup {o}]
    BY <1>2 DEF HandlePoison, HandleSkip, DispatchComplete
  <2>2. completed' = [completed EXCEPT ![m][tp] = completed[m][tp] \cup {o}]
    BY <1>2 DEF HandlePoison, HandleSkip, DispatchComplete
  <2> HIDE DEF o
  <2>3. /\ dispatched'[m][tp] = dispatched[m][tp] \cup {o}
        /\ \A q \in Partitions \ {tp} : dispatched'[m][q] = dispatched[m][q]
        /\ \A n \in Members \ {m} : dispatched'[n] = dispatched[n]
    BY <2>1, TrackerShape, EntryUpdated
  <2>4. /\ completed'[m][tp] = completed[m][tp] \cup {o}
        /\ \A q \in Partitions \ {tp} : completed'[m][q] = completed[m][q]
        /\ \A n \in Members \ {m} : completed'[n] = completed[n]
    BY <2>2, TrackerShape, EntryUpdated
  <2>5. job' = job
    BY <1>2 DEF HandlePoison, HandleSkip
  <2>6. \A n \in Members, q \in Partitions :
           StillRunning(dispatched'[n][q], completed'[n][q])
               \subseteq StillRunning(dispatched[n][q], completed[n][q])
    BY <2>3, <2>4 DEF StillRunning
  <2>7. QED
    BY <2>5, <2>6 DEF FloorHeld, Busy
<1>3. CASE HandleSubmit(m, tp)
  <2> DEFINE w == IdleSlot(m)
             entry == [msg |-> <<tp, o>>, at |-> "forwarding"]
  <2>1. dispatched' = [dispatched EXCEPT ![m][tp] = dispatched[m][tp] \cup {o}]
        /\ completed' = completed /\ job' = [job EXCEPT ![m][w] = entry]
    BY <1>3 DEF HandleSubmit
  <2>2. w \in Slots /\ job[m][w] = NoJob
    BY <1>1, IdleSlotIdle
  <2>3. entry \in Jobs /\ entry # NoJob /\ entry.msg[1] = tp /\ entry.msg[2] = o
    <3>1. <<tp, o>> \in Messages
      BY <1>3, ConstantsTyped
      DEF HandleSubmit, TakeMessage, BatchLeft, TypeOK, Messages
    <3>2. QED
      BY <3>1, ConstantsTyped DEF Jobs
  <2> HIDE DEF o, w, entry
  <2>4. /\ dispatched'[m][tp] = dispatched[m][tp] \cup {o}
        /\ \A q \in Partitions \ {tp} : dispatched'[m][q] = dispatched[m][q]
        /\ \A n \in Members \ {m} : dispatched'[n] = dispatched[n]
    BY <2>1, TrackerShape, EntryUpdated
  <2>5. /\ job'[m][w] = entry /\ \A s \in Slots \ {w} : job'[m][s] = job[m][s]
        /\ \A n \in Members \ {m} : job'[n] = job[n]
    BY <2>1, <2>2 DEF TypeOK
  <2>6. ASSUME NEW n \in Members, NEW q \in Partitions, NEW s \in Busy(n, q)
        PROVE  s \in Busy(n, q)' /\ job'[n][s] = job[n][s]
    BY <2>2, <2>5 DEF Busy
  <2>7. w \in Busy(m, tp)' /\ job'[m][w].msg[2] = o
    BY <2>2, <2>3, <2>5 DEF Busy
  <2>8. ASSUME NEW n \in Members, NEW q \in Partitions,
               NEW x \in StillRunning(dispatched'[n][q], completed'[n][q])
        PROVE  \E s \in Busy(n, q)' : job'[n][s].msg[2] = x
    <3>1. CASE x \in StillRunning(dispatched[n][q], completed[n][q])
      <4>1. PICK s \in Busy(n, q) : job[n][s].msg[2] = x
        BY <3>1 DEF FloorHeld
      <4>2. QED
        BY <2>6, <4>1
    <3>2. CASE x \notin StillRunning(dispatched[n][q], completed[n][q])
      <4>1. n = m /\ q = tp /\ x = o
        BY <2>1, <2>4, <3>2 DEF StillRunning
      <4>2. QED
        BY <2>7, <4>1
    <3>3. QED
      BY <3>1, <3>2
  <2>9. QED
    BY <2>8 DEF FloorHeld
<1>4. CASE HandleFault(m, tp)
  <2>1. dispatched' = [dispatched EXCEPT ![m][tp] = dispatched[m][tp] \ {o}]
    BY <1>4 DEF HandleFault, Abandon
  <2>2. completed' = [completed EXCEPT ![m][tp] = completed[m][tp] \ {o}]
    BY <1>4 DEF HandleFault, Abandon
  <2> HIDE DEF o
  <2>3. /\ dispatched'[m][tp] = dispatched[m][tp] \ {o}
        /\ \A q \in Partitions \ {tp} : dispatched'[m][q] = dispatched[m][q]
        /\ \A n \in Members \ {m} : dispatched'[n] = dispatched[n]
    BY <2>1, TrackerShape, EntryUpdated
  <2>4. /\ completed'[m][tp] = completed[m][tp] \ {o}
        /\ \A q \in Partitions \ {tp} : completed'[m][q] = completed[m][q]
        /\ \A n \in Members \ {m} : completed'[n] = completed[n]
    BY <2>2, TrackerShape, EntryUpdated
  <2>5. job' = job
    BY <1>4 DEF HandleFault
  <2>6. \A n \in Members, q \in Partitions :
           StillRunning(dispatched'[n][q], completed'[n][q])
               \subseteq StillRunning(dispatched[n][q], completed[n][q])
    BY <2>3, <2>4 DEF StillRunning
  <2>7. QED
    BY <2>5, <2>6 DEF FloorHeld, Busy
<1>5. QED
  BY <1>2, <1>3, <1>4 DEF HandleOne

(* A thread that finishes takes its offset out of the running ones.        *)
LEMMA FinishHolds ==
    ASSUME TypeOK, FloorHeld, NEW m \in Members, NEW s \in Slots, job[m][s] # NoJob,
           FreeSlot(m, s), Complete(m, job[m][s].msg) \/ Abandon(m, job[m][s].msg)
    PROVE  FloorHeld'
<1> DEFINE tp == job[m][s].msg[1]
           o == job[m][s].msg[2]
<1>1. tp \in Partitions
  BY DEF TypeOK, Jobs, Messages
<1>2. /\ job'[m][s] = NoJob /\ \A t \in Slots \ {s} : job'[m][t] = job[m][t]
      /\ \A n \in Members \ {m} : job'[n] = job[n]
  BY DEF FreeSlot, TypeOK
<1>3. /\ \A n \in Members, q \in Partitions :
            StillRunning(dispatched'[n][q], completed'[n][q])
                \subseteq StillRunning(dispatched[n][q], completed[n][q])
      /\ o \notin StillRunning(dispatched'[m][tp], completed'[m][tp])
  <2>1. CASE Complete(m, job[m][s].msg)
    <3>1. completed' = [completed EXCEPT ![m][tp] = completed[m][tp] \cup {o}]
          /\ dispatched' = dispatched
      BY <2>1 DEF Complete
    <3> HIDE DEF tp, o
    <3>2. /\ completed'[m][tp] = completed[m][tp] \cup {o}
          /\ \A q \in Partitions \ {tp} : completed'[m][q] = completed[m][q]
          /\ \A n \in Members \ {m} : completed'[n] = completed[n]
      BY <1>1, <3>1, TrackerShape, EntryUpdated
    <3>3. QED
      BY <3>1, <3>2 DEF StillRunning
  <2>2. CASE Abandon(m, job[m][s].msg)
    <3>1. dispatched' = [dispatched EXCEPT ![m][tp] = dispatched[m][tp] \ {o}]
      BY <2>2 DEF Abandon
    <3>2. completed' = [completed EXCEPT ![m][tp] = completed[m][tp] \ {o}]
      BY <2>2 DEF Abandon
    <3> HIDE DEF tp, o
    <3>3. /\ dispatched'[m][tp] = dispatched[m][tp] \ {o}
          /\ \A q \in Partitions \ {tp} : dispatched'[m][q] = dispatched[m][q]
          /\ \A n \in Members \ {m} : dispatched'[n] = dispatched[n]
      BY <1>1, <3>1, TrackerShape, EntryUpdated
    <3>4. /\ completed'[m][tp] = completed[m][tp] \ {o}
          /\ \A q \in Partitions \ {tp} : completed'[m][q] = completed[m][q]
          /\ \A n \in Members \ {m} : completed'[n] = completed[n]
      BY <1>1, <3>2, TrackerShape, EntryUpdated
    <3>5. QED
      BY <3>3, <3>4 DEF StillRunning
  <2>3. QED
    BY <2>1, <2>2
<1>4. ASSUME NEW n \in Members, NEW q \in Partitions,
             NEW x \in StillRunning(dispatched'[n][q], completed'[n][q])
      PROVE  \E t \in Busy(n, q)' : job'[n][t].msg[2] = x
  <2>1. PICK t \in Busy(n, q) : job[n][t].msg[2] = x
    BY <1>3 DEF FloorHeld
  <2>2. ~(n = m /\ t = s)
    BY <1>3, <2>1 DEF Busy
  <2>3. job'[n][t] = job[n][t] /\ t \in Slots
    BY <1>2, <2>1, <2>2 DEF Busy
  <2>4. QED
    BY <2>1, <2>3 DEF Busy
<1>5. QED
  BY <1>4 DEF FloorHeld

(* One step keeps every running offset under a thread that runs it.        *)
LEMMA FloorStep ==
    ASSUME TypeOK, FloorHeld, [Next]_vars
    PROVE  FloorHeld'
<1> USE DEF brokerVars, dlqVars, storageVars, mainVars, trackerVars, historyVars
<1>1. ASSUME UNCHANGED <<dispatched, completed, job>> PROVE FloorHeld'
  BY <1>1 DEF FloorHeld, Busy
<1>2. ASSUME NEW m \in Members, NEW S, Retire(m, S) \/ Forget(m, S), UNCHANGED job
      PROVE  FloorHeld'
  <2>1. \A n \in Members, tp \in Partitions :
           StillRunning(dispatched'[n][tp], completed'[n][tp])
               \subseteq StillRunning(dispatched[n][tp], completed[n][tp])
    BY <1>2, RunningShrinks
  <2>2. QED
    BY <1>2, <2>1 DEF FloorHeld, Busy
<1>3. ASSUME NEW m \in Members, CommitReady(m) \/ Drain(m) PROVE FloorHeld'
  BY <1>2, <1>3 DEF CommitReady, Drain
<1>4. ASSUME NEW m \in Members, VoluntaryRevoke(m) \/ LateRevoke(m) PROVE FloorHeld'
  BY <1>2, <1>4 DEF VoluntaryRevoke, LateRevoke, Revoke
<1>5. ASSUME NEW m \in Members, Assign(m) PROVE FloorHeld'
  BY <1>2, <1>5 DEF Assign
<1>6. ASSUME NEW m \in Members, Crash(m) \/ Restart(m) PROVE FloorHeld'
  <2>1. Forget(m, Partitions) /\ job' = [job EXCEPT ![m] = [s \in Slots |-> NoJob]]
    BY <1>6 DEF Crash, Restart
  <2>2. /\ \A tp \in Partitions : StillRunning(dispatched'[m][tp], completed'[m][tp]) = {}
        /\ \A n \in Members \ {m} : /\ dispatched'[n] = dispatched[n]
                                    /\ completed'[n] = completed[n] /\ job'[n] = job[n]
    BY <2>1 DEF Forget, TypeOK, StillRunning
  <2>3. QED
    BY <2>2 DEF FloorHeld, Busy
<1>7. ASSUME NEW m \in Members, Handle(m) PROVE FloorHeld'
  BY <1>7, HandOutHolds DEF Handle, HandleOne
<1>8. ASSUME NEW m \in Members, NEW s \in Slots, Work(m, s) PROVE FloorHeld'
  <2>1. CASE ForwardAnswered(m, s)
    BY <2>1, FinishHolds DEF ForwardAnswered
  <2>2. CASE ForwardTimeout(m, s)
    <3>1. /\ job' = [job EXCEPT ![m][s] = [msg |-> job[m][s].msg, at |-> "timed_out"]]
          /\ UNCHANGED trackerVars /\ job[m][s] \in Jobs
      BY <2>2 DEF ForwardTimeout, TypeOK
    <3>2. [msg |-> job[m][s].msg, at |-> "timed_out"] # NoJob
      BY <3>1, ConstantsTyped DEF Jobs
    <3>3. /\ job'[m][s] = [msg |-> job[m][s].msg, at |-> "timed_out"]
          /\ \A t \in Slots \ {s} : job'[m][t] = job[m][t]
          /\ \A n \in Members \ {m} : job'[n] = job[n]
      BY <3>1 DEF TypeOK
    <3>4. ASSUME NEW n \in Members, NEW q \in Partitions, NEW t \in Busy(n, q)
          PROVE  t \in Busy(n, q)' /\ job'[n][t].msg = job[n][t].msg
      BY <3>2, <3>3 DEF Busy
    <3>5. dispatched' = dispatched /\ completed' = completed
      BY <3>1
    <3>6. ASSUME NEW n \in Members, NEW q \in Partitions,
                 NEW x \in StillRunning(dispatched[n][q], completed[n][q])
          PROVE  \E t \in Busy(n, q)' : job'[n][t].msg[2] = x
      <4>1. PICK t \in Busy(n, q) : job[n][t].msg[2] = x
        BY <3>6 DEF FloorHeld
      <4>2. QED
        BY <3>4, <4>1
    <3>7. QED
      BY <3>5, <3>6 DEF FloorHeld
  <2>3. CASE TimeoutToDlq(m, s)
    BY <2>3, FinishHolds DEF TimeoutToDlq
  <2>4. CASE ForwardError(m, s)
    BY <2>4, FinishHolds DEF ForwardError
  <2>5. QED
    BY <1>8, <2>1, <2>2, <2>3, <2>4 DEF Work
<1>9. ASSUME NEW m \in Members,
             LoopEnds(m) \/ Poll(m) \/ NextMessage(m) \/ Evict(m) \/ RequestShutdown(m)
      PROVE FloorHeld'
  BY <1>1, <1>9 DEF LoopEnds, Poll, NextMessage, Evict, RequestShutdown
<1>10. ASSUME NEW msg \in Messages, RecordVerdict(msg) PROVE FloorHeld'
  BY <1>1, <1>10 DEF RecordVerdict
<1>11. CASE UNCHANGED vars
  BY <1>1, <1>11 DEF vars
<1>12. QED
  BY <1>3, <1>4, <1>5, <1>6, <1>7, <1>8, <1>9, <1>10, <1>11 DEF Next, PollLoop

(* The floor of a tracker never waits for an offset that no thread of the  *)
(* member is running, whatever is revoked, dropped or abandoned.           *)
THEOREM FloorIsHeld == Spec => []FloorHeld
<1>1. Init => FloorHeld
  BY DEF Init, FloorHeld, StillRunning
<1>2. TypeOK /\ FloorHeld /\ [Next]_vars => FloorHeld'
  BY FloorStep
<1>3. QED
  BY <1>1, <1>2, TypeCorrect, PTL DEF Spec

(* So a completed offset left behind by a commit has a thread to wait for: *)
(* one that is running an earlier message of the same partition.           *)
THEOREM CommitsWaitForWorkOnly == Spec => WaitsForWorkOnly
<1>1. TypeOK /\ FloorHeld /\ [Next]_vars =>
         [\A m \in Members, tp \in Partitions : CommitReady(m) =>
             \A o \in completed'[m][tp] : \E s \in Busy(m, tp) : job[m][s].msg[2] < o]_vars
  <2> SUFFICES ASSUME TypeOK, FloorHeld, NEW m \in Members, NEW tp \in Partitions,
                      CommitReady(m), NEW o \in completed'[m][tp]
               PROVE  \E s \in Busy(m, tp) : job[m][s].msg[2] < o
    OBVIOUS
  <2>1. completed'[m][tp] = completed[m][tp] \ Ready(m, tp)
    BY DEF CommitReady, Retire, TypeOK
  <2>2. PICK r \in StillRunning(dispatched[m][tp], completed[m][tp]) : ~(o < r)
    BY <2>1 DEF Ready, Committable
  <2>3. /\ o \in completed[m][tp] /\ r \in dispatched[m][tp] /\ r \notin completed[m][tp]
        /\ completed[m][tp] \subseteq 0 .. LogEnd - 1 /\ dispatched[m][tp] \subseteq 0 .. LogEnd - 1
    BY <2>1, <2>2 DEF StillRunning, TypeOK
  <2>4. r < o
    BY <2>2, <2>3, ConstantsTyped
  <2>5. PICK s \in Busy(m, tp) : job[m][s].msg[2] = r
    BY <2>2 DEF FloorHeld
  <2>6. QED
    BY <2>4, <2>5
<1>2. QED
  BY <1>1, FloorIsHeld, TypeCorrect, PTL DEF Spec, WaitsForWorkOnly
=============================================================================
