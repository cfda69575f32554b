------------------------- MODULE ReviewQueuesProofs -------------------------
(***************************************************************************)
(* Theorems about ReviewQueues, for any requests, operators and bounds.    *)
(***************************************************************************)
EXTENDS ReviewQueues, TLAPS

(* The inductive invariant.  What a tool holds is of the queue it reviews, *)
(* and it holds nothing before it has read the file, nor lines to write    *)
(* before it has truncated it.                                             *)
Kind(queue) == IF queue = "replays" THEN Replays ELSE Rules \cup Legacy
Sorted   == \A o \in Operators :
                /\ left[o] \subseteq Kind(tool[o]) /\ done[o] \subseteq Kind(tool[o])
                /\ remaining[o] \subseteq Kind(tool[o])
Unopened == \A o \in Operators :
                pc[o] \in {"idle", "checked"} => left[o] = {} /\ done[o] = {}
Quiet    == \A o \in Operators : pc[o] # "writing" => remaining[o] = {}
Shape    == TypeOK /\ Sorted /\ Unopened /\ Quiet

(* The tool that writes holds the lock of the file, which is empty, and    *)
(* will not write what it has dealt with.  One tool promotes.              *)
Locked == \A o \in Operators : pc[o] = "writing" =>
              fileLock[tool[o]] = o /\ file[tool[o]] = {} /\ remaining[o] \cap done[o] = {}
Alone  == \A o \in Operators :
              /\ pc[o] = "checked" => promotionLock = o
              /\ pc[o] # "idle" /\ tool[o] = "rules" => promotionLock = o

(* What a tool has dealt with is closed, and no longer to be shown.        *)
Dealt  == \A o \in Operators : done[o] \subseteq closed /\ left[o] \cap done[o] = {}

(* Only what agents were told is queued is in a file or before a tool.     *)
Held   == Waiting \cup UNION {left[o] \cup done[o] : o \in Operators}
Queued == \A e \in Entries : e \in Held => told[e] = "queued"

(* A line that is not excused is before one tool; and once it was acted on *)
(* it is before none, and in a file only as long as a tool has it in done. *)
Acted(e)  == IF e \in Replays THEN posts[e] ELSE prompt[e]
Unasked   == \A e \in Entries : told[e] = "nothing" => Acted(e) = 0
OneReader == \A e \in Entries \ excused : \A o, p \in Operators :
                 o # p /\ e \in left[o] => e \notin left[p] \cup done[p]
Once      == \A e \in Entries \ excused :
                 /\ Acted(e) \in {0, 1}
                 /\ Acted(e) = 1 /\ e \in Waiting => \E o \in Operators : e \in done[o]
                 /\ Acted(e) = 1 => \A o \in Operators : e \notin left[o]
IInv == /\ Shape /\ Locked /\ Alone /\ Dealt
        /\ Queued /\ Unasked /\ OneReader /\ Once /\ NothingLost

-----------------------------------------------------------------------------
(* A queue has one kind of lines.                                          *)
LEMMA Kinds ==
    /\ Kind("replays") = Replays /\ Kind("rules") = Rules \cup Legacy
    /\ \A q \in Queues : Kind(q) \subseteq Entries
    /\ \A q \in Queues : q = "replays" \/ q = "rules"
BY DEF Kind, Queues, Entries

(* The shape of the files and of the tools is kept by every step.          *)
LEMMA ShapeKept == ASSUME Shape, [Next]_vars PROVE TypeOK'
<1> USE QueueAssumption
    DEF TypeOK, Entries, damage, toolVars, lockVars, worldVars, pastVars, boundVars,
        StartRun, Become, Fault, Shows, Consumes, Reviewing, Shape
<1>1. ASSUME NEW r \in Replays, QueueReplay(r) PROVE TypeOK'
  BY <1>1 DEF QueueReplay, Append, Queues
<1>2. ASSUME NEW r \in Replays, PostAtOnce(r) PROVE TypeOK'
  BY <1>2 DEF PostAtOnce, Queues
<1>3. ASSUME NEW e \in Replays \cup Rules, QueueFails(e) PROVE TypeOK'
  <2>1. clean' \in BOOLEAN
    <3> HIDE DEF TypeOK
    <3>1. clean \in BOOLEAN
      BY DEF TypeOK
    <3>2. QED
      BY <3>1, <1>3, Zenon DEF QueueFails
  <2>2. QueueOf(e) \in Queues
    BY DEF QueueOf, Queues
  <2>3. cutOff' \subseteq Queues
    BY <2>2, <1>3 DEF QueueFails
  <2>4. QED
    BY <2>1, <2>3, <1>3 DEF QueueFails, Queues
<1>4. ASSUME NEW r \in Rules, ProposeRule(r) PROVE TypeOK'
  <2>1. r \in Entries /\ "rules" \in Queues
    BY DEF Queues
  <2>2. file' \in [Queues -> SUBSET Entries]
    BY <2>1, <1>4 DEF ProposeRule, Append
  <2>3. file'["rules"] = file["rules"] \cup {r} /\ file'["replays"] = file["replays"]
    BY <2>1, <1>4 DEF ProposeRule, Append, Queues
  <2>4. QED
    BY <2>1, <2>2, <2>3, <1>4 DEF ProposeRule, Append
<1>5. ASSUME NEW r \in Rules, RejectRule(r) PROVE TypeOK'
  BY <1>5 DEF RejectRule, Queues
<1>6. ASSUME NEW o \in Operators, OpenReplays(o) PROVE TypeOK'
  BY <1>6 DEF OpenReplays, Load, Shared, Queues
<1>7. ASSUME NEW o \in Operators, CheckPromotion(o) PROVE TypeOK'
  BY <1>7 DEF CheckPromotion, GitFindsNothing, Queues
<1>8. ASSUME NEW o \in Operators, OpenRules(o) PROVE TypeOK'
  BY <1>8 DEF OpenRules, Load, Shared, Queues
<1>9. ASSUME NEW o \in Operators, NEW r \in Replays, ApproveReplay(o, r) PROVE TypeOK'
  BY <1>9 DEF ApproveReplay, Queues
<1>10. ASSUME NEW o \in Operators, NEW r \in Replays, PostFails(o, r) PROVE TypeOK'
  BY <1>10 DEF PostFails, Queues
<1>11. ASSUME NEW o \in Operators, NEW r \in Replays, DiscardReplay(o, r) PROVE TypeOK'
  BY <1>11 DEF DiscardReplay, Queues
<1>12. ASSUME NEW o \in Operators, NEW e \in Entries, Skip(o, e) PROVE TypeOK'
  BY <1>12 DEF Skip, Queues
<1>13. ASSUME NEW o \in Operators, NEW r \in Rules \cup Legacy, PromoteRule(o, r) PROVE TypeOK'
  <2>1. r \in Entries
    OBVIOUS
  <2>2. prompt' \in [Rules \cup Legacy -> Nat]
    BY <1>13 DEF PromoteRule
  <2>3. clean' \in BOOLEAN
    BY <1>13 DEF PromoteRule
  <2>4. QED
    BY <2>1, <2>2, <2>3, <1>13 DEF PromoteRule
<1>14. ASSUME NEW o \in Operators, Truncate(o) PROVE TypeOK'
  BY <1>14 DEF Truncate, Queues
<1>15. ASSUME NEW o \in Operators, Write(o) PROVE TypeOK'
  <2>1. clean' \in BOOLEAN
    BY <1>15, Zenon DEF Write
  <2>2. tool[o] \in Queues /\ remaining[o] \subseteq Kind(tool[o]) /\ remaining[o] \subseteq Entries
    BY DEF Sorted
  <2>3. file' \in [Queues -> SUBSET Entries]
    BY <2>2, <1>15 DEF Write
  <2>4. file'["replays"] \subseteq Replays /\ file'["rules"] \subseteq Rules \cup Legacy
    BY <2>2, Kinds, <1>15 DEF Write, Queues
  <2>5. QED
    BY <2>1, <2>3, <2>4, <1>15 DEF Write, Released
<1>16. ASSUME NEW o \in Operators, Dies(o) PROVE TypeOK'
  <2>1. clean' \in BOOLEAN
    BY <1>16, Zenon DEF Dies
  <2>2. QED
    BY <2>1, <1>16 DEF Dies, Released
<1>17. CASE Commit
  BY <1>17 DEF Commit, Queues
<1>18. CASE UNCHANGED vars
  BY <1>18 DEF vars
<1>19. QED
  BY <1>1, <1>2, <1>3, <1>4, <1>5, <1>6, <1>7, <1>8, <1>9, <1>10, <1>11, <1>12, <1>13, <1>14,
     <1>15, <1>16, <1>17, <1>18 DEF Next

LEMMA ToolsKept == ASSUME Shape, [Next]_vars PROVE Sorted' /\ Unopened' /\ Quiet'
<1> USE DEF Shape, TypeOK, Sorted, Unopened, Quiet, damage, toolVars,
        StartRun, Become, Shows, Consumes, Reviewing
<1>1. ASSUME NEW r \in Replays, QueueReplay(r) PROVE Sorted' /\ Unopened' /\ Quiet'
  BY <1>1 DEF QueueReplay, Append
<1>2. ASSUME NEW r \in Replays, PostAtOnce(r) PROVE Sorted' /\ Unopened' /\ Quiet'
  BY <1>2 DEF PostAtOnce
<1>3. ASSUME NEW e \in Replays \cup Rules, QueueFails(e) PROVE Sorted' /\ Unopened' /\ Quiet'
  BY <1>3 DEF QueueFails, QueueOf
<1>4. ASSUME NEW r \in Rules, ProposeRule(r) PROVE Sorted' /\ Unopened' /\ Quiet'
  BY <1>4 DEF ProposeRule, Append
<1>5. ASSUME NEW r \in Rules, RejectRule(r) PROVE Sorted' /\ Unopened' /\ Quiet'
  BY <1>5 DEF RejectRule
<1>6. ASSUME NEW o \in Operators, OpenReplays(o) PROVE Sorted' /\ Unopened' /\ Quiet'
  <2>1. file["replays"] \subseteq Kind("replays")
    BY Kinds
  <2>2. QED
    BY <2>1, <1>6 DEF OpenReplays, Load
<1>7. ASSUME NEW o \in Operators, CheckPromotion(o) PROVE Sorted' /\ Unopened' /\ Quiet'
  BY <1>7 DEF CheckPromotion, GitFindsNothing
<1>8. ASSUME NEW o \in Operators, OpenRules(o) PROVE Sorted' /\ Unopened' /\ Quiet'
  <2>1. file["rules"] \subseteq Kind("rules")
    BY Kinds
  <2>2. QED
    BY <2>1, <1>8 DEF OpenRules, Load
<1>9. ASSUME NEW o \in Operators, NEW r \in Replays, ApproveReplay(o, r)
      PROVE  Sorted' /\ Unopened' /\ Quiet'
  BY <1>9 DEF ApproveReplay
<1>10. ASSUME NEW o \in Operators, NEW r \in Replays, PostFails(o, r)
       PROVE  Sorted' /\ Unopened' /\ Quiet'
  BY <1>10 DEF PostFails
<1>11. ASSUME NEW o \in Operators, NEW r \in Replays, DiscardReplay(o, r)
       PROVE  Sorted' /\ Unopened' /\ Quiet'
  BY <1>11 DEF DiscardReplay
<1>12. ASSUME NEW o \in Operators, NEW e \in Entries, Skip(o, e)
       PROVE  Sorted' /\ Unopened' /\ Quiet'
  BY <1>12 DEF Skip
<1>13. ASSUME NEW o \in Operators, NEW r \in Rules \cup Legacy, PromoteRule(o, r)
       PROVE  Sorted' /\ Unopened' /\ Quiet'
  BY <1>13 DEF PromoteRule
<1>14. ASSUME NEW o \in Operators, Truncate(o) PROVE Sorted' /\ Unopened' /\ Quiet'
  <2>1. file[tool[o]] \subseteq Kind(tool[o])
    BY Kinds
  <2>2. QED
    BY <2>1, <1>14 DEF Truncate
<1>15. ASSUME NEW o \in Operators, Write(o) PROVE Sorted' /\ Unopened' /\ Quiet'
  BY <1>15 DEF Write, Released
<1>16. ASSUME NEW o \in Operators, Dies(o) PROVE Sorted' /\ Unopened' /\ Quiet'
  BY <1>16 DEF Dies, Released
<1>17. CASE Commit
  BY <1>17 DEF Commit
<1>18. CASE UNCHANGED vars
  BY <1>18 DEF vars
<1>19. QED
  BY <1>1, <1>2, <1>3, <1>4, <1>5, <1>6, <1>7, <1>8, <1>9, <1>10, <1>11, <1>12, <1>13, <1>14,
     <1>15, <1>16, <1>17, <1>18 DEF Next

(* Locks keep the tools apart, and what a tool has dealt with is closed.   *)
LEMMA ControlKept ==
    ASSUME Shape, Locked, Alone, Dealt, [Next]_vars
    PROVE  Locked' /\ Alone' /\ Dealt'
<1> USE QueueAssumption
    DEF Shape, TypeOK, Unopened, Quiet, Locked, Alone, Dealt, Queues, damage, toolVars, lockVars, pastVars,
        StartRun, Become, Shows, Consumes, Reviewing
<1>1. ASSUME NEW r \in Replays, QueueReplay(r) PROVE Locked' /\ Alone' /\ Dealt'
  BY <1>1 DEF QueueReplay, Append
<1>2. ASSUME NEW r \in Replays, PostAtOnce(r) PROVE Locked' /\ Alone' /\ Dealt'
  BY <1>2 DEF PostAtOnce
<1>3. ASSUME NEW e \in Replays \cup Rules, QueueFails(e) PROVE Locked' /\ Alone' /\ Dealt'
  BY <1>3 DEF QueueFails, QueueOf
<1>4. ASSUME NEW r \in Rules, ProposeRule(r) PROVE Locked' /\ Alone' /\ Dealt'
  BY <1>4 DEF ProposeRule, Append
<1>5. ASSUME NEW r \in Rules, RejectRule(r) PROVE Locked' /\ Alone' /\ Dealt'
  BY <1>5 DEF RejectRule
<1>6. ASSUME NEW o \in Operators, OpenReplays(o) PROVE Locked' /\ Alone' /\ Dealt'
  BY <1>6 DEF OpenReplays, Load
<1>7. ASSUME NEW o \in Operators, CheckPromotion(o) PROVE Locked' /\ Alone' /\ Dealt'
  BY <1>7 DEF CheckPromotion, GitFindsNothing
<1>8. ASSUME NEW o \in Operators, OpenRules(o) PROVE Locked' /\ Alone' /\ Dealt'
  BY <1>8 DEF OpenRules, Load
<1>9. ASSUME NEW o \in Operators, NEW r \in Replays, ApproveReplay(o, r)
      PROVE  Locked' /\ Alone' /\ Dealt'
  BY <1>9 DEF ApproveReplay
<1>10. ASSUME NEW o \in Operators, NEW r \in Replays, PostFails(o, r)
       PROVE  Locked' /\ Alone' /\ Dealt'
  BY <1>10 DEF PostFails
<1>11. ASSUME NEW o \in Operators, NEW r \in Replays, DiscardReplay(o, r)
       PROVE  Locked' /\ Alone' /\ Dealt'
  BY <1>11 DEF DiscardReplay
<1>12. ASSUME NEW o \in Operators, NEW e \in Entries, Skip(o, e) PROVE Locked' /\ Alone' /\ Dealt'
  BY <1>12 DEF Skip
<1>13. ASSUME NEW o \in Operators, NEW r \in Rules \cup Legacy, PromoteRule(o, r)
       PROVE  Locked' /\ Alone' /\ Dealt'
  BY <1>13 DEF PromoteRule
<1>14. ASSUME NEW o \in Operators, Truncate(o) PROVE Locked' /\ Alone' /\ Dealt'
  BY <1>14 DEF Truncate
<1>15. ASSUME NEW o \in Operators, Write(o) PROVE Locked' /\ Alone' /\ Dealt'
  <2>1. Locked'
    <3> SUFFICES ASSUME NEW p \in Operators, pc'[p] = "writing"
                 PROVE  fileLock'[tool'[p]] = p /\ file'[tool'[p]] = {} /\ remaining'[p] \cap done'[p] = {}
      BY DEF Locked
    <3>1. p # o /\ pc[p] = "writing" /\ tool[p] # tool[o]
      BY <1>15 DEF Write, Released
    <3>2. QED
      BY <3>1, <1>15 DEF Write, Released
  <2>2. Alone' /\ Dealt'
    BY <1>15 DEF Write, Released
  <2>3. QED
    BY <2>1, <2>2
<1>16. ASSUME NEW o \in Operators, Dies(o) PROVE Locked' /\ Alone' /\ Dealt'
  BY <1>16 DEF Dies, Released
<1>17. CASE Commit
  BY <1>17 DEF Commit
<1>18. CASE UNCHANGED vars
  BY <1>18 DEF vars
<1>19. QED
  BY <1>1, <1>2, <1>3, <1>4, <1>5, <1>6, <1>7, <1>8, <1>9, <1>10, <1>11, <1>12, <1>13, <1>14,
     <1>15, <1>16, <1>17, <1>18 DEF Next

(* What agents were told is queued.                                        *)
LEMMA QueuedKept ==
    ASSUME Shape, Locked, Dealt, Queued, Unasked, [Next]_vars
    PROVE  Queued' /\ Unasked'
<1> USE QueueAssumption
    DEF Shape, TypeOK, Entries, Queues, Queued, Held, Waiting, Unasked, Acted, damage, toolVars, worldVars,
        StartRun, Become, Shows, Consumes, Reviewing
<1>1. ASSUME NEW r \in Replays, QueueReplay(r) PROVE Queued' /\ Unasked'
  BY <1>1 DEF QueueReplay, Append
<1>2. ASSUME NEW r \in Replays, PostAtOnce(r) PROVE Queued' /\ Unasked'
  BY <1>2 DEF PostAtOnce
<1>3. ASSUME NEW e \in Replays \cup Rules, QueueFails(e) PROVE Queued' /\ Unasked'
  BY <1>3 DEF QueueFails, QueueOf
<1>4. ASSUME NEW r \in Rules, ProposeRule(r) PROVE Queued' /\ Unasked'
  BY <1>4 DEF ProposeRule, Append
<1>5. ASSUME NEW r \in Rules, RejectRule(r) PROVE Queued' /\ Unasked'
  BY <1>5 DEF RejectRule
<1>6. ASSUME NEW o \in Operators, OpenReplays(o) PROVE Queued' /\ Unasked'
  BY <1>6 DEF OpenReplays, Load
<1>7. ASSUME NEW o \in Operators, CheckPromotion(o) PROVE Queued' /\ Unasked'
  BY <1>7 DEF CheckPromotion, GitFindsNothing
<1>8. ASSUME NEW o \in Operators, OpenRules(o) PROVE Queued' /\ Unasked'
  BY <1>8 DEF OpenRules, Load
<1>9. ASSUME NEW o \in Operators, NEW r \in Replays, ApproveReplay(o, r) PROVE Queued' /\ Unasked'
  BY <1>9 DEF ApproveReplay
<1>10. ASSUME NEW o \in Operators, NEW r \in Replays, PostFails(o, r) PROVE Queued' /\ Unasked'
  BY <1>10 DEF PostFails
<1>11. ASSUME NEW o \in Operators, NEW r \in Replays, DiscardReplay(o, r) PROVE Queued' /\ Unasked'
  BY <1>11 DEF DiscardReplay
<1>12. ASSUME NEW o \in Operators, NEW e \in Entries, Skip(o, e) PROVE Queued' /\ Unasked'
  BY <1>12 DEF Skip
<1>13. ASSUME NEW o \in Operators, NEW r \in Rules \cup Legacy, PromoteRule(o, r)
       PROVE  Queued' /\ Unasked'
  BY <1>13 DEF PromoteRule
<1>14. ASSUME NEW o \in Operators, Truncate(o) PROVE Queued' /\ Unasked'
  BY <1>14 DEF Truncate
<1>15. ASSUME NEW o \in Operators, Write(o) PROVE Queued' /\ Unasked'
  BY <1>15 DEF Write, Released
<1>16. ASSUME NEW o \in Operators, Dies(o) PROVE Queued' /\ Unasked'
  BY <1>16 DEF Dies, Released
<1>17. CASE Commit
  BY <1>17 DEF Commit
<1>18. CASE UNCHANGED vars
  BY <1>18 DEF vars
<1>19. QED
  BY <1>1, <1>2, <1>3, <1>4, <1>5, <1>6, <1>7, <1>8, <1>9, <1>10, <1>11, <1>12, <1>13, <1>14,
     <1>15, <1>16, <1>17, <1>18 DEF Next

(* A request that is queued is not lost between the reads and the rewrites.*)
LEMMA NothingLostKept ==
    ASSUME Shape, Locked, Dealt, NothingLost, [Next]_vars
    PROVE  NothingLost'
<1> USE QueueAssumption
    DEF Shape, TypeOK, Quiet, Locked, Dealt, Entries, Queues, NothingLost, Waiting, damage, toolVars,
        worldVars, pastVars, StartRun, Become, Shows, Consumes, Reviewing
<1>1. ASSUME NEW r \in Replays, QueueReplay(r) PROVE NothingLost'
  BY <1>1 DEF QueueReplay, Append
<1>2. ASSUME NEW r \in Replays, PostAtOnce(r) PROVE NothingLost'
  BY <1>2 DEF PostAtOnce
<1>3. ASSUME NEW e \in Replays \cup Rules, QueueFails(e) PROVE NothingLost'
  BY <1>3 DEF QueueFails, QueueOf
<1>4. ASSUME NEW r \in Rules, ProposeRule(r) PROVE NothingLost'
  BY <1>4 DEF ProposeRule, Append
<1>5. ASSUME NEW r \in Rules, RejectRule(r) PROVE NothingLost'
  BY <1>5 DEF RejectRule
<1>6. ASSUME NEW o \in Operators, OpenReplays(o) PROVE NothingLost'
  BY <1>6 DEF OpenReplays, Load
<1>7. ASSUME NEW o \in Operators, CheckPromotion(o) PROVE NothingLost'
  BY <1>7 DEF CheckPromotion, GitFindsNothing
<1>8. ASSUME NEW o \in Operators, OpenRules(o) PROVE NothingLost'
  BY <1>8 DEF OpenRules, Load
<1>9. ASSUME NEW o \in Operators, NEW r \in Replays, ApproveReplay(o, r) PROVE NothingLost'
  BY <1>9 DEF ApproveReplay
<1>10. ASSUME NEW o \in Operators, NEW r \in Replays, PostFails(o, r) PROVE NothingLost'
  BY <1>10 DEF PostFails
<1>11. ASSUME NEW o \in Operators, NEW r \in Replays, DiscardReplay(o, r) PROVE NothingLost'
  BY <1>11 DEF DiscardReplay
<1>12. ASSUME NEW o \in Operators, NEW e \in Entries, Skip(o, e) PROVE NothingLost'
  BY <1>12 DEF Skip
<1>13. ASSUME NEW o \in Operators, NEW r \in Rules \cup Legacy, PromoteRule(o, r)
       PROVE  NothingLost'
  BY <1>13 DEF PromoteRule
<1>14. ASSUME NEW o \in Operators, Truncate(o) PROVE NothingLost'
  BY <1>14 DEF Truncate
<1>15. ASSUME NEW o \in Operators, Write(o) PROVE NothingLost'
  BY <1>15 DEF Write, Released
<1>16. ASSUME NEW o \in Operators, Dies(o) PROVE NothingLost'
  BY <1>16 DEF Dies, Released
<1>17. CASE Commit
  BY <1>17 DEF Commit
<1>18. CASE UNCHANGED vars
  BY <1>18 DEF vars
<1>19. QED
  BY <1>1, <1>2, <1>3, <1>4, <1>5, <1>6, <1>7, <1>8, <1>9, <1>10, <1>11, <1>12, <1>13, <1>14,
     <1>15, <1>16, <1>17, <1>18 DEF Next

(* What promote_rules reads is before no other tool.                       *)
LEMMA RulesAlone ==
    ASSUME Shape, Alone, NEW o \in Operators, OpenRules(o)
    PROVE  \A e \in Entries : \A p \in Operators \ {o} :
               e \in file["rules"] => e \notin left[p] \cup done[p]
<1> USE QueueAssumption DEF Shape, TypeOK, Sorted, Unopened, Alone, Entries, Queues
<1>1. promotionLock = o
  BY DEF OpenRules
<1>2. \A p \in Operators \ {o} : tool[p] = "rules" => left[p] = {} /\ done[p] = {}
  BY <1>1
<1>3. \A p \in Operators : tool[p] # "rules" => left[p] \cup done[p] \subseteq Replays
  BY Kinds
<1>4. file["rules"] \cap Replays = {}
  OBVIOUS
<1>5. QED
  BY <1>2, <1>3, <1>4

(* A line that is not excused is before one tool.                          *)
LEMMA OneReaderKept ==
    ASSUME Shape, Alone, Dealt, Queued, OneReader, [Next]_vars
    PROVE  OneReader'
<1> USE QueueAssumption
    DEF Shape, TypeOK, Sorted, Unopened, Alone, Dealt, Entries, Queues, OneReader, damage, toolVars,
        lockVars, worldVars, pastVars, StartRun, Become, Shows, Consumes, Reviewing
<1>1. ASSUME NEW r \in Replays, QueueReplay(r) PROVE OneReader'
  BY <1>1 DEF QueueReplay, Append
<1>2. ASSUME NEW r \in Replays, PostAtOnce(r) PROVE OneReader'
  BY <1>2 DEF PostAtOnce
<1>3. ASSUME NEW e \in Replays \cup Rules, QueueFails(e) PROVE OneReader'
  BY <1>3 DEF QueueFails, QueueOf
<1>4. ASSUME NEW r \in Rules, ProposeRule(r) PROVE OneReader'
  BY <1>4 DEF ProposeRule, Append
<1>5. ASSUME NEW r \in Rules, RejectRule(r) PROVE OneReader'
  BY <1>5 DEF RejectRule
<1>6. ASSUME NEW o \in Operators, OpenReplays(o) PROVE OneReader'
  <2>1. /\ left' = [left EXCEPT ![o] = file["replays"]] /\ done' = [done EXCEPT ![o] = {}]
        /\ excused' = excused \cup Shared(o, file["replays"])
    BY <1>6 DEF OpenReplays, Load
  <2>2. \A e \in Entries \ excused' : \A p \in Operators \ {o} :
            e \in file["replays"] => e \notin left[p] \cup done[p]
    BY <2>1 DEF Shared
  <2>3. QED
    BY <2>1, <2>2
<1>7. ASSUME NEW o \in Operators, CheckPromotion(o) PROVE OneReader'
  BY <1>7 DEF CheckPromotion, GitFindsNothing
<1>8. ASSUME NEW o \in Operators, OpenRules(o) PROVE OneReader'
  <2>1. /\ left' = [left EXCEPT ![o] = file["rules"]] /\ done' = [done EXCEPT ![o] = {}]
        /\ excused \subseteq excused'
    BY <1>8 DEF OpenRules, Load
  <2>2. QED
    BY <2>1, RulesAlone, <1>8
<1>9. ASSUME NEW o \in Operators, NEW r \in Replays, ApproveReplay(o, r) PROVE OneReader'
  BY <1>9 DEF ApproveReplay
<1>10. ASSUME NEW o \in Operators, NEW r \in Replays, PostFails(o, r) PROVE OneReader'
  BY <1>10 DEF PostFails
<1>11. ASSUME NEW o \in Operators, NEW r \in Replays, DiscardReplay(o, r) PROVE OneReader'
  BY <1>11 DEF DiscardReplay
<1>12. ASSUME NEW o \in Operators, NEW e \in Entries, Skip(o, e) PROVE OneReader'
  BY <1>12 DEF Skip
<1>13. ASSUME NEW o \in Operators, NEW r \in Rules \cup Legacy, PromoteRule(o, r) PROVE OneReader'
  BY <1>13 DEF PromoteRule
<1>14. ASSUME NEW o \in Operators, Truncate(o) PROVE OneReader'
  BY <1>14 DEF Truncate
<1>15. ASSUME NEW o \in Operators, Write(o) PROVE OneReader'
  BY <1>15 DEF Write, Released
<1>16. ASSUME NEW o \in Operators, Dies(o) PROVE OneReader'
  BY <1>16 DEF Dies, Released
<1>17. CASE Commit
  BY <1>17 DEF Commit
<1>18. CASE UNCHANGED vars
  BY <1>18 DEF vars
<1>19. QED
  BY <1>1, <1>2, <1>3, <1>4, <1>5, <1>6, <1>7, <1>8, <1>9, <1>10, <1>11, <1>12, <1>13, <1>14,
     <1>15, <1>16, <1>17, <1>18 DEF Next

(* A line that is not excused is acted on once, and then shown to nobody.  *)
LEMMA OnceKept ==
    ASSUME IInv, [Next]_vars
    PROVE  Once'
<1>0. Shape /\ Locked /\ Alone /\ Dealt /\ Queued /\ Unasked /\ OneReader /\ Once
  BY DEF IInv
<1> USE <1>0, QueueAssumption
    DEF Shape, TypeOK, Unopened, Entries, Queues, Once, damage, toolVars,
        lockVars, worldVars, pastVars, StartRun, Become, Shows, Consumes, Reviewing
<1>1. ASSUME NEW r \in Replays, QueueReplay(r) PROVE Once'
  BY <1>1 DEF QueueReplay, Append, Dealt, Queued, Held, Unasked, Acted, Waiting
<1>2. ASSUME NEW r \in Replays, PostAtOnce(r) PROVE Once'
  BY <1>2 DEF PostAtOnce, Dealt, Queued, Held, Unasked, Acted, Waiting
<1>3. ASSUME NEW e \in Replays \cup Rules, QueueFails(e) PROVE Once'
  BY <1>3 DEF QueueFails, QueueOf, Dealt, Queued, Held, Unasked, Acted, Waiting
<1>4. ASSUME NEW r \in Rules, ProposeRule(r) PROVE Once'
  BY <1>4 DEF ProposeRule, Append, Dealt, Queued, Held, Unasked, Acted, Waiting
<1>5. ASSUME NEW r \in Rules, RejectRule(r) PROVE Once'
  BY <1>5 DEF RejectRule, Dealt, Queued, Held, Unasked, Acted, Waiting
<1>6. ASSUME NEW o \in Operators, OpenReplays(o) PROVE Once'
  <2>1. /\ left' = [left EXCEPT ![o] = file["replays"]] /\ done' = done
        /\ excused' = excused \cup Shared(o, file["replays"])
    BY <1>6 DEF OpenReplays, Load
  <2>2. Waiting' = Waiting /\ \A e \in Entries : Acted(e)' = Acted(e)
    BY <1>6 DEF OpenReplays, Load, Waiting, Acted
  <2>3. \A e \in Entries \ excused' : Acted(e) = 1 => e \notin file["replays"]
    BY <2>1, <1>6 DEF Waiting, Shared, OpenReplays
  <2>4. QED
    BY <2>1, <2>2, <2>3
<1>7. ASSUME NEW o \in Operators, CheckPromotion(o) PROVE Once'
  BY <1>7 DEF CheckPromotion, GitFindsNothing, Dealt, Queued, Held, Unasked, Acted, Waiting
<1>8. ASSUME NEW o \in Operators, OpenRules(o) PROVE Once'
  <2>1. /\ left' = [left EXCEPT ![o] = file["rules"]] /\ done' = done
        /\ excused' = excused \cup Shared(o, file["rules"])
    BY <1>8 DEF OpenRules, Load
  <2>2. Waiting' = Waiting /\ \A e \in Entries : Acted(e)' = Acted(e)
    BY <1>8 DEF OpenRules, Load, Waiting, Acted
  <2>3. \A e \in Entries \ excused' : Acted(e) = 1 => e \notin file["rules"]
    <3>1. \A e \in Entries : e \in file["rules"] => \A p \in Operators : e \notin done[p]
      <4>1. pc[o] = "checked" /\ done[o] = {}
        BY <1>8 DEF OpenRules
      <4>2. QED
        BY <4>1, <1>8, RulesAlone
    <3>2. \A e \in file["rules"] : e \in Waiting
      BY DEF Waiting
    <3>3. QED
      BY <2>1, <3>1, <3>2
  <2>4. QED
    BY <2>1, <2>2, <2>3
<1>9. ASSUME NEW o \in Operators, NEW r \in Replays, ApproveReplay(o, r) PROVE Once'
  <2>1. /\ left' = [left EXCEPT ![o] = @ \ {r}] /\ done' = [done EXCEPT ![o] = @ \cup {r}]
        /\ excused' = excused /\ Waiting' = Waiting /\ r \in left[o] /\ r \in Entries
    BY <1>9 DEF ApproveReplay, Waiting
  <2>2. Acted(r)' = Acted(r) + 1 /\ \A e \in Entries \ {r} : Acted(e)' = Acted(e)
    BY <1>9 DEF ApproveReplay, Acted
  <2>3. r \notin excused => Acted(r) = 0 /\ \A p \in Operators \ {o} : r \notin left[p]
    BY <2>1 DEF OneReader
  <2>4. QED
    BY <2>1, <2>2, <2>3
<1>10. ASSUME NEW o \in Operators, NEW r \in Replays, PostFails(o, r) PROVE Once'
  BY <1>10 DEF PostFails, Dealt, Queued, Held, Unasked, Acted, Waiting
<1>11. ASSUME NEW o \in Operators, NEW r \in Replays, DiscardReplay(o, r) PROVE Once'
  BY <1>11 DEF DiscardReplay, Dealt, Queued, Held, Unasked, Acted, Waiting
<1>12. ASSUME NEW o \in Operators, NEW e \in Entries, Skip(o, e) PROVE Once'
  BY <1>12 DEF Skip, Dealt, Queued, Held, Unasked, Acted, Waiting
<1>13. ASSUME NEW o \in Operators, NEW r \in Rules \cup Legacy, PromoteRule(o, r) PROVE Once'
  <2>1. /\ left' = [left EXCEPT ![o] = @ \ {r}] /\ done' = [done EXCEPT ![o] = @ \cup {r}]
        /\ excused' = excused /\ Waiting' = Waiting /\ r \in left[o] /\ r \in Entries
    BY <1>13 DEF PromoteRule, Waiting
  <2>2. Acted(r)' = Acted(r) + 1 /\ \A e \in Entries \ {r} : Acted(e)' = Acted(e)
    BY <1>13 DEF PromoteRule, Acted
  <2>3. r \notin excused => Acted(r) = 0 /\ \A p \in Operators \ {o} : r \notin left[p]
    BY <2>1 DEF OneReader
  <2>4. QED
    BY <2>1, <2>2, <2>3
<1>14. ASSUME NEW o \in Operators, Truncate(o) PROVE Once'
  BY <1>14 DEF Truncate, Dealt, Queued, Held, Unasked, Acted, Waiting
<1>15. ASSUME NEW o \in Operators, Write(o) PROVE Once'
  <2>1. /\ left' = [left EXCEPT ![o] = {}] /\ done' = [done EXCEPT ![o] = {}]
        /\ excused' = excused /\ \A e \in Entries : Acted(e)' = Acted(e)
    BY <1>15 DEF Write, Released, Acted
  <2>2. Waiting' \subseteq Waiting
    BY <1>15 DEF Write, Released, Waiting
  <2>3. Waiting' \cap done[o] = {}
    <3>1. file'[tool[o]] \cap done[o] = {} /\ remaining'[o] = {}
      BY <1>15 DEF Write, Released, Locked
    <3>2. \A q \in Queues \ {tool[o]} : file'[q] \cap done[o] = {}
      BY <1>15, Kinds DEF Write, Sorted
    <3>3. \A p \in Operators \ {o} : remaining'[p] \cap done[o] = {}
      <4> SUFFICES ASSUME NEW p \in Operators \ {o}, remaining[p] # {}, tool[p] = tool[o]
                   PROVE  FALSE
        BY <1>15, Kinds DEF Write, Released, Sorted
      <4>1. pc[p] = "writing" /\ pc[o] = "writing"
        BY <1>15 DEF Write, Quiet
      <4>2. QED
        BY <4>1 DEF Locked
    <3>4. QED
      BY <3>1, <3>2, <3>3 DEF Waiting
  <2>4. QED
    BY <2>1, <2>2, <2>3
<1>16. ASSUME NEW o \in Operators, Dies(o) PROVE Once'
  BY <1>16 DEF Dies, Released, Dealt, Queued, Held, Unasked, Acted, Waiting
<1>17. CASE Commit
  BY <1>17 DEF Commit, Dealt, Queued, Held, Unasked, Acted, Waiting
<1>18. CASE UNCHANGED vars
  BY <1>18 DEF vars, Acted, Waiting
<1>19. QED
  BY <1>1, <1>2, <1>3, <1>4, <1>5, <1>6, <1>7, <1>8, <1>9, <1>10, <1>11, <1>12, <1>13, <1>14,
     <1>15, <1>16, <1>17, <1>18 DEF Next

-----------------------------------------------------------------------------
(* The queues and the tools keep IInv, whatever they do.                   *)
THEOREM Invariant == Spec => []IInv
<1>1. Init => IInv
  <2> SUFFICES ASSUME Init PROVE IInv
    OBVIOUS
  <2> USE QueueAssumption DEF Init, Queues, Entries
  <2>1. TypeOK
    BY DEF TypeOK
  <2>2. Sorted /\ Unopened /\ Quiet /\ Locked /\ Alone /\ Dealt /\ OneReader
    BY DEF Sorted, Unopened, Quiet, Locked, Alone, Dealt, OneReader, Kind
  <2>3. Queued /\ NothingLost
    BY DEF Queued, Held, Waiting, NothingLost
  <2>4. Unasked /\ Once
    BY DEF Unasked, Once, Acted
  <2>5. QED
    BY <2>1, <2>2, <2>3, <2>4 DEF IInv, Shape
<1>2. IInv /\ [Next]_vars => IInv'
  BY ShapeKept, ToolsKept, ControlKept, QueuedKept, NothingLostKept, OneReaderKept, OnceKept
  DEF IInv, Shape
<1>3. QED
  BY <1>1, <1>2, PTL DEF Spec

(* Type correctness: the variables of the model stay in their ranges.      *)
THEOREM TypeCorrect == Spec => []TypeOK
<1>1. IInv => TypeOK
  BY DEF IInv, Shape
<1>2. QED
  BY <1>1, Invariant, PTL

(* Whatever agents append while operators review, a request that its agent *)
(* was told is queued stays in its file until it is dealt with, or is lost *)
(* with a tool that dies while it writes the file (approve_replays.main,   *)
(* promote_rules).                                                         *)
THEOREM RequestsKept == Spec => []NothingLost
<1>1. IInv => NothingLost
  BY DEF IInv
<1>2. QED
  BY <1>1, Invariant, PTL

(* For any number of operators and runs, a rule enters the prompt once and *)
(* a queued replay is posted once, unless it is excused: two operators had *)
(* the replay before them, a tool died, or an answer of OIS was lost.      *)
THEOREM RequestsActedOnOnce == Spec => []ActedOnOnce
<1>1. IInv => ActedOnOnce
  <2> SUFFICES ASSUME IInv PROVE ActedOnOnce
    OBVIOUS
  <2>1. \A e \in Entries \ excused : Acted(e) <= 1
    BY DEF IInv, Once
  <2>2. TypeOK
    BY DEF IInv, Shape
  <2>3. QED
    BY <2>1, <2>2, QueueAssumption DEF ActedOnOnce, Acted, Entries, TypeOK
<1>2. QED
  BY <1>1, Invariant, PTL
=============================================================================
