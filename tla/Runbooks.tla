------------------------------ MODULE Runbooks ------------------------------
(***************************************************************************)
(* How a runbook comes to stand in for the agents, for one reason code.    *)
(* build_runbooks drafts it from casebooks, an operator promotes it, and a *)
(* server uses it while the rule in the database has the fingerprint the   *)
(* runbook was given.  Servers cache runbooks and rules for TTL ticks and  *)
(* no one tells them of a promotion or of a changed rule.  What a server   *)
(* reads it caches in a step of its own, when it may have been replaced;   *)
(* but a lookup takes less than a tick.                                    *)
(***************************************************************************)
EXTENDS Naturals

CONSTANTS
    Servers,
    Types,         \* enrolment types of packets
    AnyType,       \* "ANY": the type of a runbook for all of them
    Rows,          \* rows the rule of the reason code may have
    AppliesTo,     \* types a row applies to, packets have them or not; none is all
    Rules,         \* states of the rule
    TTL,           \* RULE_CACHE_TTL_SECONDS and RUNBOOK_CACHE_TTL_SECONDS
    MaxDrafts, MaxEdits, MaxRuns, MaxFaults, MaxCommits  \* bounds

BookTypes == Types \cup {AnyType}

ASSUME RunbookAssumption ==
    /\ AnyType \notin Types
    /\ AppliesTo = [r \in Rows |-> AppliesTo[r]] /\ Rules \subseteq SUBSET Rows
    /\ TTL \in Nat \ {0}
    /\ MaxDrafts \in Nat /\ MaxEdits \in Nat /\ MaxRuns \in Nat
    /\ MaxFaults \in Nat /\ MaxCommits \in Nat

VARIABLES
    \* the database
    rule,      \* the rows of the reason code
    reachable, \* it answers
    \* of the servers
    ruleCache, bookCache,
    looking,   \* how far the lookup of a packet is
    ruleReads, \* rules that were read and are not in the cache yet
    \* on file
    draft, final,
    clean,     \* git finds src/runbooks as it was committed
    \* of promote_runbooks
    promoting, \* where its run is
    offered,   \* types of drafts it has not shown yet
    shown,     \* the draft before the operator
    version,   \* the version it will have
    \* history and bounds
    approved,  \* drafts an operator has approved
    pastRules, pastBooks, \* what was replaced less than TTL ago
    drafts, edits, runs, faults, commits

worldVars  == <<rule, reachable>>
serverVars == <<ruleCache, bookCache, looking, ruleReads>>
fileVars   == <<draft, final, clean>>
toolVars   == <<promoting, offered, shown, version>>
pastVars   == <<approved, pastRules, pastBooks>>
boundVars  == <<drafts, edits, runs, faults, commits>>
vars == <<worldVars, serverVars, fileVars, toolVars, pastVars, boundVars>>

NoBook  == [id |-> 0, type |-> AnyType, fingerprint |-> {}, version |-> 0]
Books   == [id : 0..MaxDrafts, type : BookTypes, fingerprint : SUBSET Rows, version : Nat]
Uncached == [held |-> FALSE, rows |-> {}, age |-> 0]
NoCopy   == [held |-> FALSE, book |-> NoBook, age |-> 0]
Idle     == [at |-> "idle", book |-> NoBook, type |-> AnyType, rows |-> {}]

(* _parse_and_filter_rules: the rows of a type, but rather all than none.  *)
(* A runbook for any type has all.                                         *)
Filter(rows, type) ==
    LET own == {r \in rows : AppliesTo[r] = {} \/ type \in AppliesTo[r]}
    IN  IF type = AnyType \/ own = {} THEN rows ELSE own

Init ==
    /\ rule \in Rules /\ reachable = TRUE
    /\ ruleCache = [s \in Servers |-> Uncached]
    /\ bookCache = [s \in Servers |-> [t \in BookTypes |-> NoCopy]]
    /\ looking = [s \in Servers |-> Idle] /\ ruleReads = [s \in Servers |-> {}]
    /\ draft = [t \in BookTypes |-> NoBook] /\ final = [t \in BookTypes |-> NoBook]
    /\ clean = TRUE
    /\ promoting = "idle" /\ offered = {} /\ shown = NoBook /\ version = 0
    /\ approved = {} /\ pastRules = {} /\ pastBooks = {}
    /\ drafts = 0 /\ edits = 0 /\ runs = 0 /\ faults = 0 /\ commits = 0

Fault == faults < MaxFaults /\ faults' = faults + 1 /\ UNCHANGED <<drafts, edits, runs, commits>>

-----------------------------------------------------------------------------
(* The world: an operator edits the rule, the database goes and comes.     *)
EditRule(rows) ==
    /\ edits < MaxEdits /\ rows # rule
    /\ rule' = rows /\ edits' = edits + 1
    /\ pastRules' = pastRules \cup {[rows |-> rule, age |-> 0]}
    /\ UNCHANGED <<reachable, serverVars, fileVars, toolVars, approved, pastBooks,
                   drafts, runs, faults, commits>>

Outage ==
    /\ reachable /\ Fault
    /\ reachable' = FALSE
    /\ UNCHANGED <<rule, serverVars, fileVars, toolVars, pastVars>>

Recover ==
    /\ ~reachable /\ reachable' = TRUE
    /\ UNCHANGED <<rule, serverVars, fileVars, toolVars, pastVars, boundVars>>

(* A TTLCache drops what it has held for TTL.                              *)
(* Mutated form: it drops it a tick late.                                  *)
AgedLate(entry, none) ==
    IF entry.held /\ entry.age < TTL THEN [entry EXCEPT !.age = @ + 1] ELSE none
Aged(entry, none) ==
    IF entry.held /\ entry.age + 1 < TTL THEN [entry EXCEPT !.age = @ + 1] ELSE none
Recent(past) == {[p EXCEPT !.age = @ + 1] : p \in {q \in past : q.age + 1 < TTL}}

Tick ==
    /\ \A s \in Servers : looking[s] = Idle /\ ruleReads[s] = {}
    /\ ruleCache' = [s \in Servers |-> Aged(ruleCache[s], Uncached)]
    /\ bookCache' = [s \in Servers |-> [t \in BookTypes |-> Aged(bookCache[s][t], NoCopy)]]
    /\ pastRules' = Recent(pastRules) /\ pastBooks' = Recent(pastBooks)
    /\ UNCHANGED <<worldVars, looking, ruleReads, fileVars, toolVars, approved, boundVars>>

-----------------------------------------------------------------------------
(* The servers.                                                            *)

(* _lookup_rule_json: the cache, or the database; a failed query is        *)
(* answered with a text, which is not cached and parses to no rows.        *)
Rule(s) ==
    IF ruleCache[s].held THEN ruleCache[s].rows
    ELSE IF reachable THEN rule ELSE {}
ReadRule(s) ==
    ruleReads' = IF ruleCache[s].held \/ ~reachable THEN ruleReads
                 ELSE [ruleReads EXCEPT ![s] = @ \cup {rule}]
CacheRule(s) ==
    \E rows \in ruleReads[s] :
        /\ ruleCache' = [ruleCache EXCEPT ![s] = [held |-> TRUE, rows |-> rows, age |-> 0]]
        /\ ruleReads' = [ruleReads EXCEPT ![s] = @ \ {rows}]
        /\ UNCHANGED <<worldVars, bookCache, looking, fileVars, toolVars, pastVars, boundVars>>

(* get_runbook: the exact type before ANY, each from the cache before the  *)
(* file; what is not found is not cached.                                  *)
Copy(s, type) == IF bookCache[s][type].held THEN bookCache[s][type].book ELSE final[type]
GetRunbook(s, type) ==
    LET found == IF Copy(s, type) # NoBook THEN type ELSE AnyType
        book  == Copy(s, found)
    IN  /\ looking[s].at = "idle" /\ book # NoBook
        /\ looking' = [looking EXCEPT ![s] =
               [at |-> IF bookCache[s][found].held THEN "found" ELSE "read",
                book |-> book, type |-> type, rows |-> {}]]
        /\ UNCHANGED <<worldVars, ruleCache, bookCache, ruleReads, fileVars, toolVars, pastVars,
                       boundVars>>
CacheBook(s) ==
    LET book == looking[s].book
    IN  /\ looking[s].at = "read"
        /\ looking' = [looking EXCEPT ![s].at = "found"]
        /\ bookCache' = [bookCache EXCEPT ![s][book.type] =
                            [held |-> TRUE, book |-> book, age |-> 0]]
        /\ UNCHANGED <<worldVars, ruleCache, ruleReads, fileVars, toolVars, pastVars, boundVars>>

(* runbook_lookup_node: another fingerprint sends the packet to the        *)
(* agents; no rows to compare with do not.                                 *)
Contradicts(rows, book) == rows # {} /\ rows # book.fingerprint
CheckRule(s) ==
    LET rows == Filter(Rule(s), looking[s].type)
    IN  /\ looking[s].at = "found"
        /\ looking' = [looking EXCEPT ![s] = IF Contradicts(rows, @.book) THEN Idle
                                             ELSE [@ EXCEPT !.at = "hit", !.rows = rows]]
        /\ ReadRule(s)
        /\ UNCHANGED <<worldVars, ruleCache, bookCache, fileVars, toolVars, pastVars, boundVars>>

(* The packet is answered with the runbook.                                *)
Serve(s) ==
    /\ looking[s].at = "hit"
    /\ looking' = [looking EXCEPT ![s] = Idle]
    /\ UNCHANGED <<worldVars, ruleCache, bookCache, ruleReads, fileVars, toolVars, pastVars,
                   boundVars>>

(* Agents read the rule of a packet, through the same cache.               *)
Investigate(s) ==
    /\ looking[s].at = "idle" /\ ~ruleCache[s].held
    /\ ReadRule(s)
    /\ UNCHANGED <<worldVars, ruleCache, bookCache, looking, fileVars, toolVars, pastVars,
                   boundVars>>

(* A server restarts without its caches.                                   *)
Restart(s) ==
    /\ Fault
    /\ ruleCache' = [ruleCache EXCEPT ![s] = Uncached]
    /\ bookCache' = [bookCache EXCEPT ![s] = [t \in BookTypes |-> NoCopy]]
    /\ looking' = [looking EXCEPT ![s] = Idle] /\ ruleReads' = [ruleReads EXCEPT ![s] = {}]
    /\ UNCHANGED <<worldVars, fileVars, toolVars, pastVars>>

-----------------------------------------------------------------------------
(* build_runbooks, a process of its own, finds casebooks enough and a rule *)
(* and writes over a draft of the type, whoever is looking at it.          *)
BuildDraft(type) ==
    /\ drafts < MaxDrafts /\ drafts' = drafts + 1
    /\ reachable /\ rule # {}
    /\ draft' = [draft EXCEPT ![type] = [id |-> drafts + 1, type |-> type, version |-> 1,
                                        fingerprint |-> Filter(rule, type)]]
    /\ clean' = FALSE
    /\ UNCHANGED <<worldVars, serverVars, final, toolVars, pastVars, edits, runs, faults, commits>>

-----------------------------------------------------------------------------
(* promote_runbooks: one at a time, on a clean directory.                  *)
StartPromotion ==
    /\ promoting = "idle" /\ runs < MaxRuns /\ clean
    /\ runs' = runs + 1
    /\ promoting' = "choosing"
    /\ offered' = {t \in BookTypes : draft[t] # NoBook}
    /\ UNCHANGED <<worldVars, serverVars, fileVars, shown, version, pastVars,
                   drafts, edits, faults, commits>>

Existing(type) == IF final[type] # NoBook THEN final[type] ELSE final[AnyType]

ShowDraft(type) ==
    /\ promoting = "choosing" /\ type \in offered
    /\ promoting' = "asking"
    /\ offered' = offered \ {type}
    /\ shown' = draft[type]
    /\ version' = Existing(type).version + 1
    /\ UNCHANGED <<worldVars, serverVars, fileVars, pastVars, boundVars>>

(* N, edit, or its text fails validation.                                  *)
Decline ==
    /\ promoting = "asking" /\ promoting' = "choosing"
    /\ shown' = NoBook /\ version' = 0
    /\ UNCHANGED <<worldVars, serverVars, fileVars, offered, pastVars, boundVars>>

(* promote_draft_to_final: what was loaded becomes the final runbook, then *)
(* the draft file goes, whatever is in it by now.                          *)
(* Mutated forms: it is the draft file that becomes the final runbook; an  *)
(* existing version is kept.                                               *)
PromotedFile == [draft[shown.type] EXCEPT !.version = version]
PromotedOver == [shown EXCEPT !.version = version - 1]
Promoted == [shown EXCEPT !.version = version]

Approve ==
    /\ promoting = "asking" /\ promoting' = "written"
    /\ approved' = approved \cup {shown.id}
    /\ final' = [final EXCEPT ![shown.type] = Promoted]
    /\ pastBooks' = pastBooks \cup {[book |-> final[shown.type], age |-> 0]}
    /\ clean' = FALSE
    /\ UNCHANGED <<worldVars, serverVars, draft, offered, shown, version, pastRules, boundVars>>

RemoveDraft ==
    /\ promoting = "written" /\ promoting' = "removed"
    /\ draft' = [draft EXCEPT ![shown.type] = NoBook]
    /\ clean' = FALSE
    /\ UNCHANGED <<worldVars, serverVars, final, offered, shown, version, pastVars, boundVars>>

CommitPromotion ==
    /\ promoting = "removed" /\ promoting' = "choosing"
    /\ clean' = TRUE /\ shown' = NoBook /\ version' = 0
    /\ UNCHANGED <<worldVars, serverVars, draft, final, offered, pastVars, boundVars>>

EndPromotion ==
    /\ promoting = "choosing" /\ offered = {} /\ promoting' = "idle"
    /\ UNCHANGED <<worldVars, serverVars, fileVars, offered, shown, version, pastVars, boundVars>>

(* The tool is interrupted, or its commit fails.                           *)
PromotionDies ==
    /\ promoting # "idle" /\ Fault
    /\ promoting' = "idle" /\ offered' = {} /\ shown' = NoBook /\ version' = 0
    /\ UNCHANGED <<worldVars, serverVars, fileVars, pastVars>>

(* Somebody commits src/runbooks.                                          *)
Commit ==
    /\ ~clean /\ promoting = "idle" /\ commits < MaxCommits
    /\ clean' = TRUE /\ commits' = commits + 1
    /\ UNCHANGED <<worldVars, serverVars, draft, final, toolVars, pastVars,
                   drafts, edits, runs, faults>>

Next ==
    \/ \E rows \in Rules : EditRule(rows)
    \/ Outage \/ Recover \/ Tick
    \/ \E s \in Servers :
        \/ \E t \in Types : GetRunbook(s, t)
        \/ CacheBook(s) \/ CheckRule(s) \/ CacheRule(s) \/ Serve(s)
        \/ Investigate(s) \/ Restart(s)
    \/ \E t \in BookTypes : BuildDraft(t) \/ ShowDraft(t)
    \/ StartPromotion \/ Decline \/ Approve \/ RemoveDraft \/ CommitPromotion
    \/ EndPromotion \/ PromotionDies \/ Commit

Spec == Init /\ [][Next]_vars

-----------------------------------------------------------------------------
Ages       == 0..(TTL - 1)
RuleCopies == [held : BOOLEAN, rows : Rules \cup {{}}, age : Ages]
BookCopies == [held : BOOLEAN, book : Books, age : Ages]
Lookups    == [at : {"idle", "read", "found", "hit"}, book : Books, type : BookTypes,
               rows : SUBSET Rows]

(* A runbook file holds a promoted runbook of its own type, which          *)
(* get_runbook and the fingerprint of the rule rely on.                    *)
TypeOK ==
    /\ rule \in Rules /\ reachable \in BOOLEAN
    /\ ruleCache \in [Servers -> RuleCopies]
    /\ bookCache \in [Servers -> [BookTypes -> BookCopies]]
    /\ looking \in [Servers -> Lookups] /\ ruleReads \in [Servers -> SUBSET Rules]
    /\ draft \in [BookTypes -> Books] /\ final \in [BookTypes -> Books]
    /\ \A t \in BookTypes :
        /\ draft[t] # NoBook => draft[t].id > 0 /\ draft[t].type = t
        /\ final[t] # NoBook => final[t].type = t /\ final[t].version > 0
    /\ clean \in BOOLEAN
    /\ promoting \in {"idle", "choosing", "asking", "written", "removed"}
    /\ offered \subseteq BookTypes /\ shown \in Books /\ version \in Nat
    /\ approved \subseteq 1..MaxDrafts
    /\ pastRules \subseteq [rows : Rules, age : Ages]
    /\ pastBooks \subseteq [book : Books, age : Ages]
    /\ drafts \in 0..MaxDrafts /\ edits \in 0..MaxEdits /\ runs \in 0..MaxRuns
    /\ faults \in 0..MaxFaults /\ commits \in 0..MaxCommits

(* What a server answers with has been before an operator who approved it, *)
(* even if the draft was built anew while the operator looked at it, and   *)
(* if the promotion died half-way.                                         *)
OnlyReviewedServed ==
    \A s \in Servers : looking[s].at = "hit" => looking[s].book.id \in approved

(* A runbook that was promoted over, or whose rule was changed, is used    *)
(* for less than TTL after that, through both caches; but when the rule is *)
(* gone or the database does not answer, nothing is compared.              *)
StaleForLessThanTTL ==
    \A s \in Servers : looking[s].at = "hit" =>
        LET book == looking[s].book
        IN  /\ book = final[book.type] \/ \E p \in pastBooks : p.book = book
            /\ \/ looking[s].rows = {}
               \/ book.fingerprint = Filter(rule, looking[s].type)
               \/ \E p \in pastRules : book.fingerprint = Filter(p.rows, looking[s].type)
=============================================================================
