---------------------------- MODULE ReviewQueues ----------------------------
(***************************************************************************)
(* The two files through which agents ask an operator for something that   *)
(* they may not do: pending_replays.jsonl (queue_for_replay, reviewed with *)
(* approve_replays) and pending_rules.jsonl (add_learning_rule, reviewed   *)
(* with promote_rules).  A tool reads its file under a lock, asks the      *)
(* operator without it, and finally reads the file again, under the lock,  *)
(* to write back what it did not deal with.                                *)
(*                                                                         *)
(* Lines are unique (they have a timestamp), so a file is a set of them.   *)
(***************************************************************************)
EXTENDS Naturals, FiniteSets

CONSTANTS
    Replays,      \* replays agents ask for
    Rules,        \* learning rules the Reviewer proposes
    Legacy,       \* rules that were queued before proposals were validated
    Acceptable,   \* rules that pass validate_learning_rule
    Operators,    \* operators, each with one tool at a time
    Nobody,
    AutoReplayed, \* those asked for in a process with ENABLE_AUTO_REPLAY
    MaxRuns,      \* bound: runs of the tools
    MaxFaults,    \* bound: tools that die, locks not had in time, posts that fail
    MaxCommits    \* bound: commits of the prompts directory

Queues  == {"replays", "rules"}
Entries == Replays \cup Rules \cup Legacy

ASSUME QueueAssumption ==
    /\ Replays \cap Rules = {} /\ Replays \cap Legacy = {} /\ Rules \cap Legacy = {}
    /\ Acceptable \subseteq Rules \cup Legacy
    /\ Nobody \notin Operators
    /\ AutoReplayed \subseteq Replays
    /\ MaxRuns \in Nat /\ MaxFaults \in Nat /\ MaxCommits \in Nat

VARIABLES
    \* on file
    file,      \* the lines of each queue
    prompt,    \* how often a rule stands in InvestigatorAgent.md
    clean,     \* git finds src/prompts as it was committed
    cutOff,    \* files that end in a part of a line
    glued,     \* lines that were appended to such a part
    fileLock,  \* who holds the lock of each queue across steps
    promotionLock,
    \* of each operator's tool
    tool,      \* the queue it reviews
    pc,
    left,      \* lines it has not shown yet
    done,      \* consumed_raw_lines, promoted_raw_lines
    remaining, \* remaining_lines, between truncation and write
    \* the world
    told,      \* what the agent was told of its request
    posts,     \* replays OIS has received
    \* history and bounds
    closed,    \* lines an operator has discarded, posted or promoted
    torn,      \* lines lost with a tool that died while it wrote
    excused,   \* lines that may be acted on again
    runs, faults, commits

damage    == <<cutOff, glued>>
toolVars  == <<tool, pc, left, done, remaining>>
lockVars  == <<fileLock, promotionLock>>
worldVars == <<told, posts>>
pastVars  == <<closed, torn, excused>>
boundVars == <<runs, faults, commits>>
vars == <<file, prompt, clean, damage, lockVars, toolVars, worldVars, pastVars, boundVars>>

Init ==
    /\ file = [q \in Queues |-> IF q = "rules" THEN Legacy ELSE {}]
    /\ prompt = [r \in Rules \cup Legacy |-> 0] /\ clean = TRUE
    /\ cutOff = {} /\ glued = {}
    /\ fileLock = [q \in Queues |-> Nobody] /\ promotionLock = Nobody
    /\ tool = [o \in Operators |-> "replays"] /\ pc = [o \in Operators |-> "idle"]
    /\ left = [o \in Operators |-> {}] /\ done = [o \in Operators |-> {}]
    /\ remaining = [o \in Operators |-> {}]
    /\ told = [e \in Entries |-> IF e \in Legacy THEN "queued" ELSE "nothing"]
    /\ posts = [r \in Replays |-> 0]
    /\ closed = {} /\ torn = {} /\ excused = {}
    /\ runs = 0 /\ faults = 0 /\ commits = 0

Fault == faults < MaxFaults /\ faults' = faults + 1 /\ UNCHANGED <<runs, commits>>

-----------------------------------------------------------------------------
(* The agents' side.                                                       *)
(* Mutated form: everything goes to the file of the replays.               *)
AppendReplays(queue, entry) ==
    /\ fileLock[queue] = Nobody
    /\ file' = [file EXCEPT !["replays"] = @ \cup {entry}]
    /\ glued' = IF queue \in cutOff THEN glued \cup {entry} ELSE glued
    /\ cutOff' = cutOff \ {queue}
    /\ told' = [told EXCEPT ![entry] = "queued"]

(* After a part of a line, the new line is no line of its own.             *)
Append(queue, entry) ==
    /\ fileLock[queue] = Nobody
    /\ file' = [file EXCEPT ![queue] = @ \cup {entry}]
    /\ glued' = IF queue \in cutOff THEN glued \cup {entry} ELSE glued
    /\ cutOff' = cutOff \ {queue}
    /\ told' = [told EXCEPT ![entry] = "queued"]

(* queue_for_replay never raises: the agent is told.                       *)
QueueReplay(r) ==
    /\ r \notin AutoReplayed /\ told[r] = "nothing"
    /\ Append("replays", r)
    /\ UNCHANGED <<prompt, clean, lockVars, toolVars, posts, pastVars, boundVars>>

QueueOf(e) == IF e \in Replays THEN "replays" ELSE "rules"

(* The lock is not had in time, or the write fails, on its way perhaps.    *)
QueueFails(e) ==
    /\ e \notin AutoReplayed
    /\ told[e] = "nothing"
    /\ e \in Rules => e \in Acceptable
    /\ told' = [told EXCEPT ![e] = "failed"]
    /\ \/ UNCHANGED <<cutOff, clean>>
       \/ /\ fileLock[QueueOf(e)] = Nobody
          /\ cutOff' = cutOff \cup {QueueOf(e)}
          /\ clean' = (clean /\ e \in Replays)
    /\ Fault
    /\ UNCHANGED <<file, prompt, glued, lockVars, toolVars, posts, pastVars>>

(* With ENABLE_AUTO_REPLAY it posts, once, and asks no operator.           *)
PostAtOnce(r) ==
    /\ r \in AutoReplayed /\ told[r] = "nothing"
    /\ \/ /\ told' = [told EXCEPT ![r] = "posted"]
          /\ posts' = [posts EXCEPT ![r] = @ + 1]
          /\ UNCHANGED boundVars
       \/ /\ told' = [told EXCEPT ![r] = "failed"]
          /\ posts' = posts \/ posts' = [posts EXCEPT ![r] = @ + 1]
          /\ Fault
    /\ UNCHANGED <<file, prompt, damage, clean, lockVars, toolVars, pastVars>>

(* add_learning_rule.                                                      *)
ProposeRule(r) ==
    /\ told[r] = "nothing" /\ r \in Acceptable
    /\ Append("rules", r)
    /\ clean' = FALSE
    /\ UNCHANGED <<prompt, lockVars, toolVars, posts, pastVars, boundVars>>

RejectRule(r) ==
    /\ told[r] = "nothing" /\ r \notin Acceptable
    /\ told' = [told EXCEPT ![r] = "rejected"]
    /\ UNCHANGED <<file, prompt, damage, clean, lockVars, toolVars, posts, pastVars, boundVars>>

-----------------------------------------------------------------------------
(* The operators' side.                                                    *)
Become(o, where) == pc' = [pc EXCEPT ![o] = where]

StartRun(o) ==
    /\ pc[o] = "idle" /\ runs < MaxRuns
    /\ runs' = runs + 1 /\ UNCHANGED commits

(* The replays a tool shows that another run has before it, or has posted. *)
Shared(o, lines) ==
    Replays \cap lines \cap UNION {left[p] \cup done[p] : p \in Operators \ {o}}

Load(o, queue) ==
    /\ fileLock[queue] = Nobody
    /\ file[queue] # {}
    /\ left' = [left EXCEPT ![o] = file[queue]]
    /\ done' = [done EXCEPT ![o] = {}]
    /\ tool' = [tool EXCEPT ![o] = queue]
    /\ Become(o, "reviewing")
    /\ excused' = excused \cup Shared(o, file[queue])
    /\ UNCHANGED <<file, remaining, closed, torn>>

(* A line that is none stops approve_replays, on every run.                *)
OpenReplays(o) ==
    /\ StartRun(o) /\ UNCHANGED faults
    /\ "replays" \notin cutOff /\ file["replays"] \cap glued = {}
    /\ Load(o, "replays")
    /\ UNCHANGED <<prompt, damage, clean, lockVars, worldVars>>

(* git prints no change: there is none, or it fails.                       *)
GitFindsNothing ==
    \/ clean /\ UNCHANGED faults
    \/ ~clean /\ faults < MaxFaults /\ faults' = faults + 1

(* Mutated form: nothing keeps two runs of promote_rules apart.            *)
CheckPromotionUnlocked(o) ==
    /\ StartRun(o)
    /\ GitFindsNothing
    /\ promotionLock' = o
    /\ tool' = [tool EXCEPT ![o] = "rules"] /\ Become(o, "checked")
    /\ UNCHANGED <<file, prompt, damage, clean, fileLock, left, done, remaining, worldVars, pastVars>>

(* promote_rules refuses to run beside another, or on uncommitted changes. *)
CheckPromotion(o) ==
    /\ StartRun(o)
    /\ promotionLock = Nobody /\ GitFindsNothing
    /\ promotionLock' = o
    /\ tool' = [tool EXCEPT ![o] = "rules"] /\ Become(o, "checked")
    /\ UNCHANGED <<file, prompt, damage, clean, fileLock, left, done, remaining, worldVars, pastVars>>

OpenRules(o) ==
    /\ pc[o] = "checked"
    /\ Load(o, "rules")
    /\ UNCHANGED <<prompt, damage, clean, lockVars, worldVars, boundVars>>

Reviewing(o, queue, e) == pc[o] = "reviewing" /\ tool[o] = queue /\ e \in left[o]

Shows(o, e) == left' = [left EXCEPT ![o] = @ \ {e}]
Consumes(o, e) ==
    /\ Shows(o, e)
    /\ done' = [done EXCEPT ![o] = @ \cup {e}]
    /\ closed' = closed \cup {e}

ApproveReplay(o, r) ==
    /\ Reviewing(o, "replays", r)
    /\ Consumes(o, r)
    /\ posts' = [posts EXCEPT ![r] = @ + 1]
    /\ UNCHANGED <<file, prompt, damage, clean, lockVars, tool, pc, remaining, told, torn, excused, boundVars>>

(* The post fails, or OIS has it and its answer does not come in 10 s: the *)
(* line stays for another run.                                             *)
PostFails(o, r) ==
    /\ Reviewing(o, "replays", r)
    /\ Shows(o, r)
    /\ \/ UNCHANGED <<posts, excused>>
       \/ posts' = [posts EXCEPT ![r] = @ + 1] /\ excused' = excused \cup {r}
    /\ Fault
    /\ UNCHANGED <<file, prompt, damage, clean, lockVars, tool, pc, done, remaining, told, closed, torn>>

DiscardReplay(o, r) ==
    /\ Reviewing(o, "replays", r)
    /\ Consumes(o, r)
    /\ UNCHANGED <<file, prompt, damage, clean, lockVars, tool, pc, remaining, worldVars, torn, excused,
                   boundVars>>

(* Skipped, not of the category asked for, or a rule that fails validation *)
(* or is no line of its own.                                               *)
Skip(o, e) ==
    /\ pc[o] = "reviewing" /\ e \in left[o]
    /\ Shows(o, e)
    /\ UNCHANGED <<file, prompt, damage, clean, lockVars, tool, pc, done, remaining, worldVars, pastVars,
                   boundVars>>

(* Its commit, asked for with --commit, leaves the queue file uncommitted. *)
PromoteRule(o, r) ==
    /\ Reviewing(o, "rules", r) /\ r \in Acceptable \ glued
    /\ Consumes(o, r)
    /\ prompt' = [prompt EXCEPT ![r] = @ + 1]
    /\ clean' \in {FALSE, clean}
    /\ UNCHANGED <<file, damage, lockVars, tool, pc, remaining, worldVars, torn, excused, boundVars>>

(* Mutated form: the rewrite does not keep the lock of the file.           *)
TruncateUnlocked(o) ==
    LET queue == tool[o] IN
    /\ pc[o] = "reviewing" /\ left[o] = {}
    /\ fileLock[queue] = Nobody
    /\ remaining' = [remaining EXCEPT ![o] = file[queue] \ done[o]]
    /\ file' = [file EXCEPT ![queue] = {}]
    /\ Become(o, "writing")
    /\ UNCHANGED <<prompt, damage, clean, lockVars, tool, left, done, worldVars, pastVars, boundVars>>

(* The rewrite: read again, truncate, write.                               *)
Truncate(o) ==
    LET queue == tool[o] IN
    /\ pc[o] = "reviewing" /\ left[o] = {}
    /\ fileLock[queue] = Nobody
    /\ fileLock' = [fileLock EXCEPT ![queue] = o]
    /\ remaining' = [remaining EXCEPT ![o] = file[queue] \ done[o]]
    /\ file' = [file EXCEPT ![queue] = {}]
    /\ Become(o, "writing")
    /\ UNCHANGED <<prompt, damage, clean, promotionLock, tool, left, done, worldVars, pastVars, boundVars>>

Released(o) ==
    /\ promotionLock' = IF promotionLock = o THEN Nobody ELSE promotionLock
    /\ fileLock' = [q \in Queues |-> IF fileLock[q] = o THEN Nobody ELSE fileLock[q]]
    /\ pc' = [pc EXCEPT ![o] = "idle"]
    /\ left' = [left EXCEPT ![o] = {}] /\ done' = [done EXCEPT ![o] = {}]
    /\ remaining' = [remaining EXCEPT ![o] = {}]
    /\ UNCHANGED tool

Write(o) ==
    /\ pc[o] = "writing"
    /\ file' = [file EXCEPT ![tool[o]] = remaining[o]]
    /\ clean' = (clean /\ (tool[o] = "rules" => done[o] = {}))
    /\ Released(o)
    /\ UNCHANGED <<prompt, damage, worldVars, pastVars, boundVars>>

(* Requests in a file, or in a tool that writes it again.                  *)
Waiting == file["replays"] \cup file["rules"] \cup UNION {remaining[o] : o \in Operators}

(* The tool dies, is interrupted, or cannot have the file lock in 10 s.    *)
(* What it dealt with stays in the file, or what it was writing is lost.   *)
Dies(o) ==
    /\ pc[o] # "idle"
    /\ Fault
    /\ torn' = torn \cup remaining[o]
    /\ excused' = excused \cup (done[o] \cap Waiting)
    /\ clean' = (clean /\ (pc[o] = "writing" => tool[o] # "rules"))
    /\ cutOff' = IF pc[o] = "writing" THEN cutOff \ {tool[o]} ELSE cutOff
    /\ Released(o)
    /\ UNCHANGED <<file, prompt, glued, worldVars, closed>>

(* Somebody commits src/prompts.                                           *)
Commit ==
    /\ ~clean /\ commits < MaxCommits
    /\ clean' = TRUE /\ commits' = commits + 1
    /\ UNCHANGED <<file, prompt, damage, lockVars, toolVars, worldVars, pastVars, runs, faults>>

Next ==
    \/ \E r \in Replays : QueueReplay(r) \/ PostAtOnce(r)
    \/ \E e \in Replays \cup Rules : QueueFails(e)
    \/ \E r \in Rules : ProposeRule(r) \/ RejectRule(r)
    \/ \E o \in Operators :
        \/ OpenReplays(o) \/ CheckPromotion(o) \/ OpenRules(o)
        \/ \E r \in Replays : ApproveReplay(o, r) \/ PostFails(o, r) \/ DiscardReplay(o, r)
        \/ \E e \in Entries : Skip(o, e)
        \/ \E r \in Rules \cup Legacy : PromoteRule(o, r)
        \/ Truncate(o) \/ Write(o) \/ Dies(o)
    \/ Commit

Spec == Init /\ [][Next]_vars

-----------------------------------------------------------------------------
TypeOK ==
    /\ file \in [Queues -> SUBSET Entries]
    /\ file["replays"] \subseteq Replays /\ file["rules"] \subseteq Rules \cup Legacy
    /\ prompt \in [Rules \cup Legacy -> Nat] /\ clean \in BOOLEAN
    /\ cutOff \subseteq Queues /\ glued \subseteq Replays \cup Rules
    /\ fileLock \in [Queues -> Operators \cup {Nobody}]
    /\ promotionLock \in Operators \cup {Nobody}
    /\ tool \in [Operators -> Queues]
    /\ pc \in [Operators -> {"idle", "checked", "reviewing", "writing"}]
    /\ left \in [Operators -> SUBSET Entries] /\ done \in [Operators -> SUBSET Entries]
    /\ remaining \in [Operators -> SUBSET Entries]
    /\ told \in [Entries -> {"nothing", "queued", "posted", "failed", "rejected"}]
    /\ posts \in [Replays -> Nat]
    /\ closed \subseteq Entries /\ torn \subseteq Entries /\ excused \subseteq Entries
    /\ runs \in 0..MaxRuns /\ faults \in 0..MaxFaults /\ commits \in 0..MaxCommits

(* A request that its agent was told is queued stays in its file until an  *)
(* operator has dealt with it, although agents append while operators      *)
(* review; only a tool that dies while it rewrites the file loses some.    *)
(* (Whether an operator gets to see it is another matter: see glued.)      *)
NothingLost == \A e \in Entries : told[e] = "queued" => e \in Waiting \cup closed \cup torn

(* A rule enters the prompt once and a queued replay is posted once,       *)
(* unless the tool died before it rewrote the file, an answer of OIS was   *)
(* lost, or two operators had the replay before them at once.              *)
ActedOnOnce ==
    /\ \A r \in Rules \cup Legacy : prompt[r] > 1 => r \in excused
    /\ \A r \in Replays : posts[r] > 1 => r \in excused
=============================================================================
