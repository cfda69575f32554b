--------------------------- MODULE RunbooksProofs ---------------------------
(***************************************************************************)
(* Theorems about Runbooks, for any servers, types, rules, TTL and bounds. *)
(***************************************************************************)
EXTENDS Runbooks, TLAPS

(* The inductive invariant.  The drafts a promotion still has to show are  *)
(* there, and the one before the operator is no longer among them.         *)
Offers ==
    /\ \A t \in offered : draft[t] # NoBook
    /\ promoting \in {"asking", "written", "removed"} =>
          shown.id > 0 /\ shown.type \notin offered /\ version > 0

(* Whatever may come to be served was approved.                            *)
Reviewed ==
    /\ \A t \in BookTypes : final[t] # NoBook => final[t].id \in approved
    /\ \A s \in Servers : \A t \in BookTypes :
          bookCache[s][t].held => bookCache[s][t].book.id \in approved
    /\ \A s \in Servers : looking[s].at # "idle" => looking[s].book.id \in approved

(* What is cached is current, or was replaced after it was cached.         *)
BookKnown(book, age) ==
    book = final[book.type] \/ \E p \in pastBooks : p.book = book /\ p.age <= age
RuleKnown(rows, age) ==
    rows = rule \/ \E p \in pastRules : p.rows = rows /\ p.age <= age
CachesKnown ==
    /\ \A s \in Servers : ruleCache[s].held => RuleKnown(ruleCache[s].rows, ruleCache[s].age)
    /\ \A s \in Servers : \A t \in BookTypes :
          LET copy == bookCache[s][t]
          IN  copy.held =>
                 copy.book # NoBook /\ copy.book.type = t /\ BookKnown(copy.book, copy.age)

(* So is what a server has read and not cached yet; what replaced it did   *)
(* so in this tick.                                                        *)
ReadsKnown == \A s \in Servers : \A rows \in ruleReads[s] : RuleKnown(rows, 0)

(* So is what a lookup has found, and the rows it has compared.            *)
LookupsKnown ==
    \A s \in Servers :
        LET look == looking[s]
        IN  /\ look.at # "idle" => BookKnown(look.book, TTL)
            /\ look.at = "read" => look.book # NoBook /\ BookKnown(look.book, 0)
            /\ look.at = "hit" =>
                  \/ look.rows = {}
                  \/ /\ look.rows = look.book.fingerprint
                     /\ \/ look.rows = Filter(rule, look.type)
                        \/ \E p \in pastRules : look.rows = Filter(p.rows, look.type)
IInv == TypeOK /\ Offers /\ Reviewed /\ CachesKnown /\ ReadsKnown /\ LookupsKnown
-----------------------------------------------------------------------------
(* Types.                                                                  *)
LEMMA AgesTyped == 0 \in Ages /\ \A a \in Ages : a \in Nat /\ (a + 1 < TTL => a + 1 \in Ages)
BY RunbookAssumption DEF Ages

LEMMA NullsTyped ==
    /\ NoBook \in Books /\ NoBook.id = 0 /\ \A b \in Books : b.id > 0 => b # NoBook
    /\ Uncached \in RuleCopies /\ NoCopy \in BookCopies /\ Idle \in Lookups
    /\ ~Uncached.held /\ ~NoCopy.held /\ Idle.at = "idle"
BY AgesTyped, RunbookAssumption
DEF NoBook, Books, Uncached, RuleCopies, NoCopy, BookCopies, Idle, Lookups, BookTypes

LEMMA FilterTyped ==
    ASSUME NEW rows \in SUBSET Rows, NEW type
    PROVE  Filter(rows, type) \in SUBSET Rows
BY DEF Filter

LEMMA RuleTyped ==
    ASSUME TypeOK, NEW s \in Servers
    PROVE  Rule(s) \in Rules \cup {{}} /\ Rule(s) \in SUBSET Rows
BY RunbookAssumption DEF TypeOK, Rule, RuleCopies

LEMMA CopyTyped ==
    ASSUME TypeOK, NEW s \in Servers, NEW t \in BookTypes
    PROVE  Copy(s, t) \in Books
BY DEF TypeOK, Copy, BookCopies

LEMMA ReadTyped ==
    ASSUME TypeOK, NEW s \in Servers, ReadRule(s)
    PROVE  ruleReads' \in [Servers -> SUBSET Rules]
BY DEF TypeOK, ReadRule

(* An entry that is kept is not older than its cache allows.               *)
LEMMA AgedTyped ==
    /\ \A entry \in RuleCopies : Aged(entry, Uncached) \in RuleCopies
    /\ \A entry \in BookCopies : Aged(entry, NoCopy) \in BookCopies
<1>1. ASSUME NEW entry \in RuleCopies PROVE Aged(entry, Uncached) \in RuleCopies
  <2>1. entry.age \in Ages
    BY DEF RuleCopies
  <2>2. entry.age + 1 < TTL => [entry EXCEPT !.age = entry.age + 1] \in RuleCopies
    BY <2>1, AgesTyped DEF RuleCopies
  <2>3. QED
    BY <2>2, NullsTyped DEF Aged
<1>2. ASSUME NEW entry \in BookCopies PROVE Aged(entry, NoCopy) \in BookCopies
  <2>1. entry.age \in Ages
    BY DEF BookCopies
  <2>2. entry.age + 1 < TTL => [entry EXCEPT !.age = entry.age + 1] \in BookCopies
    BY <2>1, AgesTyped DEF BookCopies
  <2>3. QED
    BY <2>2, NullsTyped DEF Aged
<1>3. QED
  BY <1>1, <1>2

LEMMA TypesKept == ASSUME TypeOK, Offers, [Next]_vars PROVE TypeOK'
<1> USE RunbookAssumption, NullsTyped, AgesTyped
    DEF TypeOK, worldVars, serverVars, fileVars, toolVars, pastVars, boundVars, Fault
<1>1. ASSUME NEW rows \in Rules, EditRule(rows) PROVE TypeOK'
  BY <1>1 DEF EditRule
<1>2. CASE Outage
  <2>1. reachable' \in BOOLEAN /\ Fault
        /\ UNCHANGED <<rule, serverVars, fileVars, toolVars, pastVars>>
    BY <1>2 DEF Outage
  <2>2. QED
    BY <2>1
<1>3. CASE Recover
  BY <1>3 DEF Recover
<1>4. CASE Tick
  <2>1. ruleCache' \in [Servers -> RuleCopies]
        /\ bookCache' \in [Servers -> [BookTypes -> BookCopies]]
    BY <1>4, AgedTyped DEF Tick
  <2>2. ASSUME NEW q \in pastRules, q.age + 1 < TTL
        PROVE  [q EXCEPT !.age = q.age + 1] \in [rows : Rules, age : Ages]
    <3>1. q \in [rows : Rules, age : Ages] /\ q.age + 1 \in Ages
      BY <2>2
    <3>2. QED
      BY <3>1
  <2>3. ASSUME NEW q \in pastBooks, q.age + 1 < TTL
        PROVE  [q EXCEPT !.age = q.age + 1] \in [book : Books, age : Ages]
    <3>1. q \in [book : Books, age : Ages] /\ q.age + 1 \in Ages
      BY <2>3
    <3>2. QED
      BY <3>1
  <2>4. pastRules' \subseteq [rows : Rules, age : Ages]
        /\ pastBooks' \subseteq [book : Books, age : Ages]
    BY <2>2, <2>3, <1>4 DEF Tick, Recent
  <2>5. UNCHANGED <<worldVars, looking, ruleReads, fileVars, toolVars, approved, boundVars>>
    BY <1>4 DEF Tick
  <2>6. QED
    BY <2>1, <2>4, <2>5
<1>5. ASSUME NEW s \in Servers, NEW t \in Types, GetRunbook(s, t) PROVE TypeOK'
  <2> DEFINE found == IF Copy(s, t) # NoBook THEN t ELSE AnyType
             book  == Copy(s, found)
  <2>1. t \in BookTypes /\ found \in BookTypes
    BY DEF BookTypes
  <2>2. book \in Books
    BY <2>1, CopyTyped
  <2> HIDE DEF found, book
  <2>3. \A at \in {"read", "found"} :
           [at |-> at, book |-> book, type |-> t, rows |-> {}] \in Lookups
    BY <2>1, <2>2 DEF Lookups
  <2>4. looking' \in [Servers -> Lookups]
    BY <2>3, <1>5 DEF GetRunbook, found, book
  <2>5. UNCHANGED <<worldVars, ruleCache, bookCache, ruleReads, fileVars, toolVars, pastVars,
                    boundVars>>
    BY <1>5 DEF GetRunbook
  <2>6. QED
    BY <2>4, <2>5
<1>6. ASSUME NEW s \in Servers, CheckRule(s) PROVE TypeOK'
  <2> DEFINE rows == Filter(Rule(s), looking[s].type)
  <2>1. rows \in SUBSET Rows
    BY RuleTyped, FilterTyped
  <2> HIDE DEF rows
  <2>2. [looking[s] EXCEPT !.at = "hit", !.rows = rows] \in Lookups
    <3>1. looking[s] \in Lookups
      OBVIOUS
    <3>2. QED
      BY <2>1, <3>1 DEF Lookups
  <2>3. looking' \in [Servers -> Lookups]
    BY <2>2, <1>6 DEF CheckRule, rows
  <2>4. ruleReads' \in [Servers -> SUBSET Rules]
    BY <1>6, ReadTyped DEF CheckRule
  <2>5. UNCHANGED <<worldVars, ruleCache, bookCache, fileVars, toolVars, pastVars, boundVars>>
    BY <1>6 DEF CheckRule
  <2>6. QED
    BY <2>3, <2>4, <2>5
<1>7. ASSUME NEW s \in Servers, Serve(s) PROVE TypeOK'
  BY <1>7 DEF Serve
<1>8. ASSUME NEW s \in Servers, Investigate(s) PROVE TypeOK'
  <2>1. ruleReads' \in [Servers -> SUBSET Rules]
    BY <1>8, ReadTyped DEF Investigate
  <2>2. UNCHANGED <<worldVars, ruleCache, bookCache, looking, fileVars, toolVars, pastVars, boundVars>>
    BY <1>8 DEF Investigate
  <2>3. QED
    BY <2>1, <2>2
<1>9. ASSUME NEW s \in Servers, Restart(s) PROVE TypeOK'
  BY <1>9 DEF Restart
<1>10. ASSUME NEW t \in BookTypes, BuildDraft(t) PROVE TypeOK'
  <2> DEFINE new == [id |-> drafts + 1, type |-> t, version |-> 1, fingerprint |-> Filter(rule, t)]
  <2>1. Filter(rule, t) \in SUBSET Rows
    BY FilterTyped
  <2>2. drafts + 1 \in 0..MaxDrafts /\ drafts' = drafts + 1 /\ draft' = [draft EXCEPT ![t] = new]
    BY <1>10 DEF BuildDraft
  <2>3. new \in Books /\ new.id > 0 /\ new.type = t
    BY <2>1, <2>2 DEF Books
  <2>4. clean' \in BOOLEAN
        /\ UNCHANGED <<worldVars, serverVars, final, toolVars, pastVars,
                       edits, runs, faults, commits>>
    BY <1>10 DEF BuildDraft
  <2> HIDE DEF new
  <2>5. draft' \in [BookTypes -> Books]
    BY <2>2, <2>3
  <2>6. \A u \in BookTypes : draft'[u] # NoBook => draft'[u].id > 0 /\ draft'[u].type = u
    BY <2>2, <2>3
  <2>7. QED
    BY <2>2, <2>4, <2>5, <2>6
<1>11. ASSUME NEW t \in BookTypes, ShowDraft(t) PROVE TypeOK'
  <2>1. Existing(t) \in Books
    BY DEF Existing, BookTypes
  <2>2. version' \in Nat
    <3>1. Existing(t).version \in Nat
      BY <2>1 DEF Books
    <3>2. QED
      BY <3>1, <1>11 DEF ShowDraft
  <2>3. shown' \in Books /\ offered' \subseteq BookTypes /\ promoting' = "asking"
        /\ UNCHANGED <<worldVars, serverVars, fileVars, pastVars, boundVars>>
    BY <1>11 DEF ShowDraft
  <2>4. QED
    BY <2>2, <2>3
<1>12. CASE StartPromotion
  BY <1>12 DEF StartPromotion
<1>13. CASE Decline
  BY <1>13 DEF Decline
<1>14. CASE Approve
  <2>1. shown.id \in 1..MaxDrafts /\ shown.type \in BookTypes /\ version > 0
    BY <1>14 DEF Offers, Approve, Books
  <2>2. Promoted \in Books /\ Promoted.type = shown.type /\ Promoted.version = version
    BY DEF Promoted, Books
  <2>3. final' \in [BookTypes -> Books]
    BY <2>2, <1>14 DEF Approve
  <2>4. \A u \in BookTypes : final'[u] # NoBook => final'[u].type = u /\ final'[u].version > 0
    BY <2>1, <2>2, <1>14 DEF Approve
  <2>5. approved' \subseteq 1..MaxDrafts
    BY <2>1, <1>14 DEF Approve
  <2>6. pastBooks' \subseteq [book : Books, age : Ages]
    BY <2>1, <1>14 DEF Approve
  <2>7. clean' \in BOOLEAN /\ promoting' = "written"
        /\ UNCHANGED <<worldVars, serverVars, draft, offered, shown, version, pastRules, boundVars>>
    BY <1>14 DEF Approve
  <2>8. QED
    BY <2>3, <2>4, <2>5, <2>6, <2>7
<1>15. CASE RemoveDraft
  BY <1>15 DEF RemoveDraft
<1>16. CASE CommitPromotion
  BY <1>16 DEF CommitPromotion
<1>17. CASE EndPromotion
  BY <1>17 DEF EndPromotion
<1>18. CASE PromotionDies
  BY <1>18 DEF PromotionDies
<1>19. CASE Commit
  BY <1>19 DEF Commit
<1>20. CASE UNCHANGED vars
  BY <1>20 DEF vars
<1>21. ASSUME NEW s \in Servers, CacheBook(s) PROVE TypeOK'
  <2>1. looking[s] \in Lookups /\ looking[s].book \in Books /\ looking[s].book.type \in BookTypes
    BY DEF Lookups, Books
  <2> DEFINE t == looking[s].book.type
             new == [held |-> TRUE, book |-> looking[s].book, age |-> 0]
  <2>2. new \in BookCopies /\ [looking[s] EXCEPT !.at = "found"] \in Lookups
    BY <2>1 DEF BookCopies, Lookups
  <2>3. [bookCache[s] EXCEPT ![t] = new] \in [BookTypes -> BookCopies]
    BY <2>2
  <2>4. bookCache' = [bookCache EXCEPT ![s] = [bookCache[s] EXCEPT ![t] = new]]
        /\ looking' = [looking EXCEPT ![s] = [looking[s] EXCEPT !.at = "found"]]
        /\ UNCHANGED <<worldVars, ruleCache, ruleReads, fileVars, toolVars, pastVars, boundVars>>
    BY <1>21 DEF CacheBook
  <2> HIDE DEF t, new
  <2>5. bookCache' \in [Servers -> [BookTypes -> BookCopies]] /\ looking' \in [Servers -> Lookups]
    BY <2>2, <2>3, <2>4
  <2>6. QED
    BY <2>4, <2>5
<1>22. ASSUME NEW s \in Servers, CacheRule(s) PROVE TypeOK'
  <2>1. PICK rows \in ruleReads[s] :
           /\ ruleCache' = [ruleCache EXCEPT ![s] = [held |-> TRUE, rows |-> rows, age |-> 0]]
           /\ ruleReads' = [ruleReads EXCEPT ![s] = @ \ {rows}]
           /\ UNCHANGED <<worldVars, bookCache, looking, fileVars, toolVars, pastVars, boundVars>>
    BY <1>22 DEF CacheRule
  <2>2. [held |-> TRUE, rows |-> rows, age |-> 0] \in RuleCopies
    BY DEF RuleCopies
  <2>3. QED
    BY <2>1, <2>2
<1>23. QED
  BY <1>1, <1>2, <1>3, <1>4, <1>5, <1>6, <1>7, <1>8, <1>9, <1>10, <1>11, <1>12, <1>13, <1>14,
     <1>15, <1>16, <1>17, <1>18, <1>19, <1>20, <1>21, <1>22 DEF Next
-----------------------------------------------------------------------------
LEMMA OffersKept == ASSUME TypeOK, Offers, [Next]_vars PROVE Offers'
<1> USE NullsTyped DEF Offers, worldVars, serverVars, fileVars, toolVars, pastVars, boundVars
<1>1. ASSUME NEW rows \in Rules, EditRule(rows) PROVE Offers'
  BY <1>1 DEF EditRule, Fault
<1>2. CASE Outage
  BY <1>2 DEF Outage, Fault
<1>3. CASE Recover
  BY <1>3 DEF Recover, Fault
<1>4. CASE Tick
  BY <1>4 DEF Tick, Fault
<1>5. ASSUME NEW s \in Servers, NEW t \in Types, GetRunbook(s, t) PROVE Offers'
  BY <1>5 DEF GetRunbook, Fault
<1>6. ASSUME NEW s \in Servers, CheckRule(s) PROVE Offers'
  BY <1>6 DEF CheckRule, Fault
<1>7. ASSUME NEW s \in Servers, Serve(s) PROVE Offers'
  BY <1>7 DEF Serve, Fault
<1>8. ASSUME NEW s \in Servers, Investigate(s) PROVE Offers'
  BY <1>8 DEF Investigate, Fault
<1>9. ASSUME NEW s \in Servers, Restart(s) PROVE Offers'
  BY <1>9 DEF Restart, Fault
<1>10. ASSUME NEW t \in BookTypes, BuildDraft(t) PROVE Offers'
  <2>1. draft'[t] # NoBook
    <3>1. draft'[t].id = drafts + 1
      BY <1>10 DEF BuildDraft, TypeOK
    <3>2. QED
      BY <3>1 DEF TypeOK
  <2>2. \A u \in BookTypes \ {t} : draft'[u] = draft[u]
    BY <1>10 DEF BuildDraft, TypeOK
  <2>3. UNCHANGED toolVars
    BY <1>10 DEF BuildDraft
  <2>4. QED
    BY <2>1, <2>2, <2>3 DEF TypeOK
<1>11. ASSUME NEW t \in BookTypes, ShowDraft(t) PROVE Offers'
  <2>1. shown'.id > 0 /\ shown'.type = t /\ offered' = offered \ {t} /\ UNCHANGED draft
    BY <1>11 DEF ShowDraft, TypeOK
  <2>2. version' > 0
    <3>1. Existing(t) \in Books
      BY DEF TypeOK, Existing, BookTypes
    <3>2. Existing(t).version \in Nat
      BY <3>1 DEF Books
    <3>3. QED
      BY <3>2, <1>11 DEF ShowDraft
  <2>3. QED
    BY <2>1, <2>2
<1>12. CASE StartPromotion
  BY <1>12 DEF StartPromotion, TypeOK
<1>13. CASE Decline
  BY <1>13 DEF Decline, Fault
<1>14. CASE Approve
  BY <1>14 DEF Approve, Fault
<1>15. CASE RemoveDraft
  BY <1>15 DEF RemoveDraft, TypeOK
<1>16. CASE CommitPromotion
  BY <1>16 DEF CommitPromotion, Fault
<1>17. CASE EndPromotion
  BY <1>17 DEF EndPromotion, Fault
<1>18. CASE PromotionDies
  BY <1>18 DEF PromotionDies, Fault
<1>19. CASE Commit
  BY <1>19 DEF Commit, Fault
<1>20. CASE UNCHANGED vars
  BY <1>20 DEF vars
<1>21. ASSUME NEW s \in Servers, CacheBook(s) PROVE Offers'
  BY <1>21 DEF CacheBook, Fault
<1>22. ASSUME NEW s \in Servers, CacheRule(s) PROVE Offers'
  BY <1>22 DEF CacheRule, Fault
<1>23. QED
  BY <1>1, <1>2, <1>3, <1>4, <1>5, <1>6, <1>7, <1>8, <1>9, <1>10, <1>11, <1>12, <1>13, <1>14,
     <1>15, <1>16, <1>17, <1>18, <1>19, <1>20, <1>21, <1>22 DEF Next
-----------------------------------------------------------------------------
LEMMA ReviewedKept == ASSUME TypeOK, Offers, Reviewed, [Next]_vars PROVE Reviewed'
<1> USE NullsTyped DEF Reviewed, worldVars, serverVars, fileVars, toolVars, pastVars, boundVars
<1>1. ASSUME NEW rows \in Rules, EditRule(rows) PROVE Reviewed'
  BY <1>1 DEF EditRule, Fault
<1>2. CASE Outage
  BY <1>2 DEF Outage, Fault
<1>3. CASE Recover
  BY <1>3 DEF Recover, Fault
<1>4. CASE Tick
  <2>1. \A s \in Servers : \A t \in BookTypes :
           bookCache'[s][t].held =>
              bookCache[s][t].held /\ bookCache'[s][t].book = bookCache[s][t].book
    BY <1>4 DEF Tick, Aged, TypeOK, BookCopies
  <2>2. UNCHANGED <<looking, final, approved>>
    BY <1>4 DEF Tick
  <2>3. QED
    BY <2>1, <2>2
<1>5. ASSUME NEW s \in Servers, NEW t \in Types, GetRunbook(s, t) PROVE Reviewed'
  <2> DEFINE found == IF Copy(s, t) # NoBook THEN t ELSE AnyType
             book  == Copy(s, found)
  <2>1. found \in BookTypes
    BY DEF BookTypes
  <2>2. book # NoBook
    BY <1>5 DEF GetRunbook
  <2>3. book.id \in approved
    BY <2>1, <2>2 DEF Copy
  <2> HIDE DEF found, book
  <2>4. looking' = [looking EXCEPT ![s] =
           [at |-> IF bookCache[s][found].held THEN "found" ELSE "read",
            book |-> book, type |-> t, rows |-> {}]]
    BY <1>5 DEF GetRunbook, found, book
  <2>5. UNCHANGED <<bookCache, final, approved>>
    BY <1>5 DEF GetRunbook
  <2>6. \A u \in Servers : looking'[u].at # "idle" => looking'[u].book.id \in approved
    BY <2>3, <2>4 DEF TypeOK
  <2>7. QED
    BY <2>5, <2>6
<1>6. ASSUME NEW s \in Servers, CheckRule(s) PROVE Reviewed'
  <2>1. looking'[s].at # "idle" => looking[s].at # "idle" /\ looking'[s].book = looking[s].book
    <3>1. looking[s] \in Lookups
      BY DEF TypeOK
    <3>2. looking'[s] = Idle \/ looking'[s] =
             [looking[s] EXCEPT !.at = "hit", !.rows = Filter(Rule(s), looking[s].type)]
      BY <1>6 DEF CheckRule, TypeOK
    <3>3. looking[s].at = "found"
      BY <1>6 DEF CheckRule
    <3>4. QED
      BY <3>1, <3>2, <3>3 DEF Lookups
  <2>2. \A u \in Servers \ {s} : looking'[u] = looking[u]
    BY <1>6 DEF CheckRule, TypeOK
  <2>3. UNCHANGED <<bookCache, final, approved>>
    BY <1>6 DEF CheckRule
  <2>4. QED
    BY <2>1, <2>2, <2>3
<1>7. ASSUME NEW s \in Servers, Serve(s) PROVE Reviewed'
  BY <1>7 DEF Serve, TypeOK
<1>8. ASSUME NEW s \in Servers, Investigate(s) PROVE Reviewed'
  BY <1>8 DEF Investigate
<1>9. ASSUME NEW s \in Servers, Restart(s) PROVE Reviewed'
  BY <1>9 DEF Restart, Fault, TypeOK
<1>10. ASSUME NEW t \in BookTypes, BuildDraft(t) PROVE Reviewed'
  BY <1>10 DEF BuildDraft, Fault
<1>11. ASSUME NEW t \in BookTypes, ShowDraft(t) PROVE Reviewed'
  BY <1>11 DEF ShowDraft, Fault
<1>12. CASE StartPromotion
  BY <1>12 DEF StartPromotion, Fault
<1>13. CASE Decline
  BY <1>13 DEF Decline, Fault
<1>14. CASE Approve
  <2>1. Promoted.id = shown.id
    BY DEF Promoted, TypeOK, Books
  <2>2. approved \subseteq approved' /\ shown.id \in approved' /\ UNCHANGED serverVars
    BY <1>14 DEF Approve
  <2>3. \A u \in BookTypes : final'[u] = final[u] \/ final'[u].id \in approved'
    BY <2>1, <2>2, <1>14 DEF Approve, TypeOK
  <2>4. QED
    BY <2>2, <2>3
<1>15. CASE RemoveDraft
  BY <1>15 DEF RemoveDraft, Fault
<1>16. CASE CommitPromotion
  BY <1>16 DEF CommitPromotion, Fault
<1>17. CASE EndPromotion
  BY <1>17 DEF EndPromotion, Fault
<1>18. CASE PromotionDies
  BY <1>18 DEF PromotionDies, Fault
<1>19. CASE Commit
  BY <1>19 DEF Commit, Fault
<1>20. CASE UNCHANGED vars
  BY <1>20 DEF vars
<1>21. ASSUME NEW s \in Servers, CacheBook(s) PROVE Reviewed'
  <2>1. looking[s] \in Lookups /\ looking[s].at = "read" /\ looking[s].book.id \in approved
    BY <1>21 DEF CacheBook, TypeOK
  <2>2. \A u \in Servers : looking'[u].at # "idle" =>
           looking[u].at # "idle" /\ looking'[u].book = looking[u].book
    BY <1>21, <2>1 DEF CacheBook, TypeOK, Lookups
  <2>3. \A u \in Servers : \A v \in BookTypes :
           bookCache'[u][v] = bookCache[u][v] \/ bookCache'[u][v].book = looking[s].book
    BY <1>21 DEF CacheBook, TypeOK
  <2>4. UNCHANGED <<final, approved>>
    BY <1>21 DEF CacheBook
  <2>5. QED
    BY <2>1, <2>2, <2>3, <2>4
<1>22. ASSUME NEW s \in Servers, CacheRule(s) PROVE Reviewed'
  BY <1>22 DEF CacheRule, Fault
<1>23. QED
  BY <1>1, <1>2, <1>3, <1>4, <1>5, <1>6, <1>7, <1>8, <1>9, <1>10, <1>11, <1>12, <1>13, <1>14,
     <1>15, <1>16, <1>17, <1>18, <1>19, <1>20, <1>21, <1>22 DEF Next
-----------------------------------------------------------------------------
(* What was known stays known, but for what TTL has gone by for.           *)
LEMMA BookStaysKnown ==
    ASSUME TypeOK, [Next]_vars, ~Tick, NEW book, NEW age \in Nat, book.type \in BookTypes,
           BookKnown(book, age)
    PROVE  BookKnown(book, age)'
<1> USE AgesTyped DEF BookKnown, worldVars, serverVars, fileVars, toolVars, pastVars, boundVars
<1>1. ASSUME NEW rows \in Rules, EditRule(rows) PROVE BookKnown(book, age)'
  BY <1>1 DEF EditRule, Fault
<1>2. CASE Outage
  BY <1>2 DEF Outage, Fault
<1>3. CASE Recover
  BY <1>3 DEF Recover, Fault
<1>4. CASE Tick
  BY <1>4
<1>5. ASSUME NEW s \in Servers, NEW t \in Types, GetRunbook(s, t) PROVE BookKnown(book, age)'
  BY <1>5 DEF GetRunbook, Fault
<1>6. ASSUME NEW s \in Servers, CheckRule(s) PROVE BookKnown(book, age)'
  BY <1>6 DEF CheckRule, Fault
<1>7. ASSUME NEW s \in Servers, Serve(s) PROVE BookKnown(book, age)'
  BY <1>7 DEF Serve, Fault
<1>8. ASSUME NEW s \in Servers, Investigate(s) PROVE BookKnown(book, age)'
  BY <1>8 DEF Investigate, Fault
<1>9. ASSUME NEW s \in Servers, Restart(s) PROVE BookKnown(book, age)'
  BY <1>9 DEF Restart, Fault
<1>10. ASSUME NEW t \in BookTypes, BuildDraft(t) PROVE BookKnown(book, age)'
  BY <1>10 DEF BuildDraft, Fault
<1>11. ASSUME NEW t \in BookTypes, ShowDraft(t) PROVE BookKnown(book, age)'
  BY <1>11 DEF ShowDraft, Fault
<1>12. CASE StartPromotion
  BY <1>12 DEF StartPromotion, Fault
<1>13. CASE Decline
  BY <1>13 DEF Decline, Fault
<1>14. CASE Approve
  <2>1. ASSUME book = final[book.type] PROVE BookKnown(book, age)'
    <3> DEFINE p == [book |-> final[shown.type], age |-> 0]
    <3>1. p \in pastBooks' /\ p.book = final[shown.type] /\ p.age <= age
      BY <1>14 DEF Approve
    <3>2. final'[book.type] = final[book.type] \/ book.type = shown.type
      BY <1>14 DEF Approve, TypeOK
    <3> HIDE DEF p
    <3>3. QED
      BY <2>1, <3>1, <3>2
  <2>2. pastBooks \subseteq pastBooks'
    BY <1>14 DEF Approve
  <2>3. QED
    BY <2>1, <2>2
<1>15. CASE RemoveDraft
  BY <1>15 DEF RemoveDraft, Fault
<1>16. CASE CommitPromotion
  BY <1>16 DEF CommitPromotion, Fault
<1>17. CASE EndPromotion
  BY <1>17 DEF EndPromotion, Fault
<1>18. CASE PromotionDies
  BY <1>18 DEF PromotionDies, Fault
<1>19. CASE Commit
  BY <1>19 DEF Commit, Fault
<1>20. CASE UNCHANGED vars
  BY <1>20 DEF vars
<1>21. ASSUME NEW s \in Servers, CacheBook(s) PROVE BookKnown(book, age)'
  BY <1>21 DEF CacheBook, Fault
<1>22. ASSUME NEW s \in Servers, CacheRule(s) PROVE BookKnown(book, age)'
  BY <1>22 DEF CacheRule, Fault
<1>23. QED
  BY <1>1, <1>2, <1>3, <1>4, <1>5, <1>6, <1>7, <1>8, <1>9, <1>10, <1>11, <1>12, <1>13, <1>14,
     <1>15, <1>16, <1>17, <1>18, <1>19, <1>20, <1>21, <1>22 DEF Next

LEMMA RuleStaysKnown ==
    ASSUME TypeOK, [Next]_vars, ~Tick, NEW rows, NEW age \in Nat, RuleKnown(rows, age)
    PROVE  RuleKnown(rows, age)'
<1> USE AgesTyped DEF RuleKnown, worldVars, serverVars, fileVars, toolVars, pastVars, boundVars
<1>1. ASSUME NEW new \in Rules, EditRule(new) PROVE RuleKnown(rows, age)'
  <2>1. ASSUME rows = rule PROVE RuleKnown(rows, age)'
    <3> DEFINE p == [rows |-> rule, age |-> 0]
    <3>1. p \in pastRules' /\ p.rows = rule /\ p.age <= age
      BY <1>1 DEF EditRule
    <3> HIDE DEF p
    <3>2. QED
      BY <2>1, <3>1
  <2>2. pastRules \subseteq pastRules'
    BY <1>1 DEF EditRule
  <2>3. QED
    BY <2>1, <2>2
<1>2. CASE Outage
  BY <1>2 DEF Outage, Fault
<1>3. CASE Recover
  BY <1>3 DEF Recover, Fault
<1>4. CASE Tick
  BY <1>4
<1>5. ASSUME NEW s \in Servers, NEW t \in Types, GetRunbook(s, t) PROVE RuleKnown(rows, age)'
  BY <1>5 DEF GetRunbook, Fault
<1>6. ASSUME NEW s \in Servers, CheckRule(s) PROVE RuleKnown(rows, age)'
  BY <1>6 DEF CheckRule, Fault
<1>7. ASSUME NEW s \in Servers, Serve(s) PROVE RuleKnown(rows, age)'
  BY <1>7 DEF Serve, Fault
<1>8. ASSUME NEW s \in Servers, Investigate(s) PROVE RuleKnown(rows, age)'
  BY <1>8 DEF Investigate, Fault
<1>9. ASSUME NEW s \in Servers, Restart(s) PROVE RuleKnown(rows, age)'
  BY <1>9 DEF Restart, Fault
<1>10. ASSUME NEW t \in BookTypes, BuildDraft(t) PROVE RuleKnown(rows, age)'
  BY <1>10 DEF BuildDraft, Fault
<1>11. ASSUME NEW t \in BookTypes, ShowDraft(t) PROVE RuleKnown(rows, age)'
  BY <1>11 DEF ShowDraft, Fault
<1>12. CASE StartPromotion
  BY <1>12 DEF StartPromotion, Fault
<1>13. CASE Decline
  BY <1>13 DEF Decline, Fault
<1>14. CASE Approve
  BY <1>14 DEF Approve, Fault
<1>15. CASE RemoveDraft
  BY <1>15 DEF RemoveDraft, Fault
<1>16. CASE CommitPromotion
  BY <1>16 DEF CommitPromotion, Fault
<1>17. CASE EndPromotion
  BY <1>17 DEF EndPromotion, Fault
<1>18. CASE PromotionDies
  BY <1>18 DEF PromotionDies, Fault
<1>19. CASE Commit
  BY <1>19 DEF Commit, Fault
<1>20. CASE UNCHANGED vars
  BY <1>20 DEF vars
<1>21. ASSUME NEW s \in Servers, CacheBook(s) PROVE RuleKnown(rows, age)'
  BY <1>21 DEF CacheBook, Fault
<1>22. ASSUME NEW s \in Servers, CacheRule(s) PROVE RuleKnown(rows, age)'
  BY <1>22 DEF CacheRule, Fault
<1>23. QED
  BY <1>1, <1>2, <1>3, <1>4, <1>5, <1>6, <1>7, <1>8, <1>9, <1>10, <1>11, <1>12, <1>13, <1>14,
     <1>15, <1>16, <1>17, <1>18, <1>19, <1>20, <1>21, <1>22 DEF Next

(* A tick keeps in the past what a cache may still hold.                   *)
LEMMA BookAges ==
    ASSUME TypeOK, Tick, NEW book, NEW age \in Nat, age + 1 < TTL, BookKnown(book, age)
    PROVE  BookKnown(book, age + 1)'
<1>1. UNCHANGED final /\ pastBooks' = Recent(pastBooks)
  BY DEF Tick, fileVars
<1>2. CASE book = final[book.type]
  BY <1>1, <1>2 DEF BookKnown
<1>3. ASSUME NEW p \in pastBooks, p.book = book, p.age <= age PROVE BookKnown(book, age + 1)'
  <2>1. p \in [book : Books, age : Ages] /\ p.age \in Nat
    BY AgesTyped DEF TypeOK
  <2>2. p.age + 1 < TTL
    BY <1>3, <2>1, RunbookAssumption
  <2>3. [p EXCEPT !.age = p.age + 1] \in pastBooks'
    BY <1>1, <2>2 DEF Recent
  <2>4. [p EXCEPT !.age = p.age + 1].book = book /\ [p EXCEPT !.age = p.age + 1].age = p.age + 1
    BY <1>3, <2>1
  <2>5. QED
    BY <1>3, <2>1, <2>3, <2>4 DEF BookKnown
<1>4. QED
  BY <1>2, <1>3 DEF BookKnown

LEMMA RuleAges ==
    ASSUME TypeOK, Tick, NEW rows, NEW age \in Nat, age + 1 < TTL, RuleKnown(rows, age)
    PROVE  RuleKnown(rows, age + 1)'
<1>1. UNCHANGED rule /\ pastRules' = Recent(pastRules)
  BY DEF Tick, worldVars
<1>2. CASE rows = rule
  BY <1>1, <1>2 DEF RuleKnown
<1>3. ASSUME NEW p \in pastRules, p.rows = rows, p.age <= age PROVE RuleKnown(rows, age + 1)'
  <2>1. p \in [rows : Rules, age : Ages] /\ p.age \in Nat
    BY AgesTyped DEF TypeOK
  <2>2. p.age + 1 < TTL
    BY <1>3, <2>1, RunbookAssumption
  <2>3. [p EXCEPT !.age = p.age + 1] \in pastRules'
    BY <1>1, <2>2 DEF Recent
  <2>4. [p EXCEPT !.age = p.age + 1].rows = rows /\ [p EXCEPT !.age = p.age + 1].age = p.age + 1
    BY <1>3, <2>1
  <2>5. QED
    BY <1>3, <2>1, <2>3, <2>4 DEF RuleKnown
<1>4. QED
  BY <1>2, <1>3 DEF RuleKnown

-----------------------------------------------------------------------------
(* The caches.                                                             *)
RuleEntryKnown(entry) == entry.held => RuleKnown(entry.rows, entry.age)
BookEntryKnown(entry, t) ==
    entry.held => entry.book # NoBook /\ entry.book.type = t /\ BookKnown(entry.book, entry.age)

LEMMA CachesSplit ==
    CachesKnown <=> /\ \A s \in Servers : RuleEntryKnown(ruleCache[s])
                    /\ \A s \in Servers : \A t \in BookTypes : BookEntryKnown(bookCache[s][t], t)
BY DEF CachesKnown, RuleEntryKnown, BookEntryKnown

(* What a server reads now is known, however young the cache entry is.     *)
LEMMA ReadKnown ==
    /\ \A age : RuleKnown(rule, age)
    /\ TypeOK => \A t \in BookTypes : \A age : final[t] # NoBook =>
           final[t].type = t /\ BookKnown(final[t], age)
BY DEF RuleKnown, BookKnown, TypeOK

LEMMA RuleEntryStays ==
    ASSUME TypeOK, [Next]_vars, ~Tick, NEW entry \in RuleCopies, RuleEntryKnown(entry)
    PROVE  RuleEntryKnown(entry)'
<1>1. entry.age \in Nat
  BY AgesTyped DEF RuleCopies
<1>2. ASSUME entry.held PROVE RuleKnown(entry.rows, entry.age)'
  BY <1>1, <1>2, RuleStaysKnown DEF RuleEntryKnown
<1>3. QED
  BY <1>2 DEF RuleEntryKnown

LEMMA BookEntryStays ==
    ASSUME TypeOK, [Next]_vars, ~Tick, NEW t \in BookTypes, NEW entry \in BookCopies,
           BookEntryKnown(entry, t)
    PROVE  BookEntryKnown(entry, t)'
<1>1. entry.age \in Nat
  BY AgesTyped DEF BookCopies
<1>2. ASSUME entry.held PROVE BookKnown(entry.book, entry.age)'
  BY <1>1, <1>2, BookStaysKnown DEF BookEntryKnown
<1>3. QED
  BY <1>2 DEF BookEntryKnown

LEMMA RuleEntryAges ==
    ASSUME TypeOK, Tick, NEW entry \in RuleCopies, RuleEntryKnown(entry)
    PROVE  RuleEntryKnown(Aged(entry, Uncached))'
<1> DEFINE aged == Aged(entry, Uncached)
<1>1. SUFFICES ASSUME aged.held PROVE RuleKnown(aged.rows, aged.age)'
  BY DEF RuleEntryKnown
<1>2. entry.held /\ entry.age + 1 < TTL /\ aged = [entry EXCEPT !.age = entry.age + 1]
  BY <1>1, NullsTyped DEF Aged
<1>3. entry.age \in Nat /\ aged.rows = entry.rows /\ aged.age = entry.age + 1
  BY <1>2, AgesTyped DEF RuleCopies
<1>4. RuleKnown(entry.rows, entry.age + 1)'
  BY <1>2, <1>3, RuleAges DEF RuleEntryKnown
<1>5. QED
  BY <1>3, <1>4

LEMMA BookEntryAges ==
    ASSUME TypeOK, Tick, NEW t \in BookTypes, NEW entry \in BookCopies, BookEntryKnown(entry, t)
    PROVE  BookEntryKnown(Aged(entry, NoCopy), t)'
<1> DEFINE aged == Aged(entry, NoCopy)
<1>1. SUFFICES ASSUME aged.held
               PROVE  aged.book # NoBook /\ aged.book.type = t /\ BookKnown(aged.book, aged.age)'
  BY DEF BookEntryKnown
<1>2. entry.held /\ entry.age + 1 < TTL /\ aged = [entry EXCEPT !.age = entry.age + 1]
  BY <1>1, NullsTyped DEF Aged
<1>3. entry.age \in Nat /\ aged.book = entry.book /\ aged.age = entry.age + 1
  BY <1>2, AgesTyped DEF BookCopies
<1>4. BookKnown(entry.book, entry.age + 1)'
  BY <1>2, <1>3, BookAges DEF BookEntryKnown
<1>5. QED
  BY <1>2, <1>3, <1>4 DEF BookEntryKnown

LEMMA RulesCachedKept ==
    ASSUME TypeOK, CachesKnown, ReadsKnown, [Next]_vars
    PROVE  (\A s \in Servers : RuleEntryKnown(ruleCache[s]))'
<1>1. SUFFICES ASSUME NEW s \in Servers PROVE RuleEntryKnown(ruleCache[s])'
  OBVIOUS
<1>2. RuleEntryKnown(ruleCache[s]) /\ ruleCache[s] \in RuleCopies
  BY CachesSplit DEF TypeOK
<1>3. CASE Tick
  <2>1. ruleCache'[s] = Aged(ruleCache[s], Uncached)
    BY <1>3 DEF Tick
  <2>2. \A entry \in RuleCopies : RuleEntryKnown(entry) => RuleEntryKnown(Aged(entry, Uncached))'
    BY <1>3, RuleEntryAges
  <2>3. QED
    BY <1>2, <2>1, <2>2 DEF RuleEntryKnown
<1>4. CASE ~Tick
  <2>1. \A entry \in RuleCopies : RuleEntryKnown(entry) => RuleEntryKnown(entry)'
    BY <1>4, RuleEntryStays
  <2>2. CASE ruleCache'[s] = ruleCache[s]
    BY <1>2, <2>1, <2>2 DEF RuleEntryKnown
  <2>3. CASE ruleCache'[s] = Uncached
    BY <2>3, NullsTyped DEF RuleEntryKnown
  <2>4. ASSUME NEW u \in Servers, CacheRule(u) PROVE RuleEntryKnown(ruleCache[s])'
    <3>1. PICK rows \in ruleReads[u] :
             ruleCache' = [ruleCache EXCEPT ![u] = [held |-> TRUE, rows |-> rows, age |-> 0]]
      BY <2>4 DEF CacheRule
    <3>2. RuleKnown(rows, 0)'
      BY <1>4, RuleStaysKnown DEF ReadsKnown
    <3>3. ruleCache'[s] = ruleCache[s] \/ ruleCache'[s] = [held |-> TRUE, rows |-> rows, age |-> 0]
      BY <3>1 DEF TypeOK
    <3>4. QED
      BY <2>2, <3>2, <3>3 DEF RuleEntryKnown
  <2> USE DEF serverVars, worldVars
  <2>5. ASSUME NEW rows \in Rules, EditRule(rows) PROVE ruleCache' = ruleCache
    BY <2>5 DEF EditRule
  <2>6. ASSUME NEW u \in Servers, CacheBook(u) \/ \E t \in Types : GetRunbook(u, t)
        PROVE  ruleCache' = ruleCache
    BY <2>6 DEF CacheBook, GetRunbook
  <2>7. ASSUME NEW u \in Servers, CheckRule(u) \/ Investigate(u) PROVE ruleCache' = ruleCache
    BY <2>7 DEF CheckRule, Investigate
  <2>8. ASSUME NEW u \in Servers, Serve(u) PROVE ruleCache' = ruleCache
    BY <2>8 DEF Serve
  <2>9. ASSUME NEW u \in Servers, Restart(u)
        PROVE  ruleCache'[s] = ruleCache[s] \/ ruleCache'[s] = Uncached
    BY <2>9 DEF Restart, TypeOK
  <2>10. ASSUME NEW t \in BookTypes, BuildDraft(t) \/ ShowDraft(t) PROVE ruleCache' = ruleCache
    BY <2>10 DEF BuildDraft, ShowDraft
  <2>11. ASSUME Outage \/ Recover \/ StartPromotion \/ Decline \/ Approve \/ RemoveDraft
                \/ CommitPromotion \/ EndPromotion \/ PromotionDies \/ Commit
         PROVE  ruleCache' = ruleCache
    BY <2>11 DEF Outage, Recover, StartPromotion, Decline, Approve, RemoveDraft,
       CommitPromotion, EndPromotion, PromotionDies, Commit
  <2>12. CASE UNCHANGED vars
    BY <2>2, <2>12 DEF vars
  <2>13. QED
    BY <1>4, <2>2, <2>3, <2>4, <2>5, <2>6, <2>7, <2>8, <2>9, <2>10, <2>11, <2>12 DEF Next
<1>5. QED
  BY <1>3, <1>4

LEMMA BooksCachedKept ==
    ASSUME TypeOK, CachesKnown, LookupsKnown, [Next]_vars
    PROVE  (\A s \in Servers : \A t \in BookTypes : BookEntryKnown(bookCache[s][t], t))'
<1>1. SUFFICES ASSUME NEW s \in Servers, NEW t \in BookTypes
               PROVE  BookEntryKnown(bookCache[s][t], t)'
  OBVIOUS
<1>2. BookEntryKnown(bookCache[s][t], t) /\ bookCache[s][t] \in BookCopies
  BY CachesSplit DEF TypeOK
<1>3. CASE Tick
  <2>1. bookCache'[s][t] = Aged(bookCache[s][t], NoCopy)
    BY <1>3 DEF Tick
  <2>2. \A entry \in BookCopies :
           BookEntryKnown(entry, t) => BookEntryKnown(Aged(entry, NoCopy), t)'
    BY <1>3, BookEntryAges
  <2>3. QED
    BY <1>2, <2>1, <2>2 DEF BookEntryKnown
<1>4. CASE ~Tick
  <2>1. \A entry \in BookCopies : BookEntryKnown(entry, t) => BookEntryKnown(entry, t)'
    BY <1>4, BookEntryStays
  <2>2. CASE bookCache'[s][t] = bookCache[s][t]
    BY <1>2, <2>1, <2>2 DEF BookEntryKnown
  <2>3. CASE bookCache'[s][t] = NoCopy
    BY <2>3, NullsTyped DEF BookEntryKnown
  <2>4. ASSUME NEW u \in Servers, CacheBook(u)
        PROVE  BookEntryKnown(bookCache[s][t], t)'
    <3>0. PICK book : book = looking[u].book
      OBVIOUS
    <3> DEFINE new == [held |-> TRUE, book |-> book, age |-> 0]
    <3>1. looking[u].at = "read"
          /\ bookCache' = [bookCache EXCEPT ![u][book.type] = new]
      BY <2>4, <3>0 DEF CacheBook
    <3>2. book # NoBook /\ BookKnown(book, 0) /\ book.type \in BookTypes
      BY <3>0, <3>1 DEF LookupsKnown, TypeOK, Lookups, Books
    <3>3. BookKnown(book, 0)'
      BY <1>4, <3>2, BookStaysKnown
    <3>4. bookCache'[s][t] = bookCache[s][t] \/ (book.type = t /\ bookCache'[s][t] = new)
      <4>1. bookCache \in [Servers -> [BookTypes -> BookCopies]]
        BY DEF TypeOK
      <4> HIDE DEF new
      <4>2. QED
        BY <3>1, <3>2, <4>1
    <3>5. ASSUME book.type = t, bookCache'[s][t] = new PROVE BookEntryKnown(bookCache[s][t], t)'
      BY <3>2, <3>3, <3>5 DEF BookEntryKnown, BookKnown
    <3>6. QED
      BY <2>2, <3>4, <3>5
  <2> USE DEF serverVars, worldVars
  <2>5. ASSUME NEW rows \in Rules, EditRule(rows) PROVE bookCache' = bookCache
    BY <2>5 DEF EditRule
  <2>6. ASSUME NEW u \in Servers, CheckRule(u) \/ CacheRule(u) \/ Investigate(u) \/ Serve(u)
               \/ \E v \in Types : GetRunbook(u, v)
        PROVE  bookCache' = bookCache
    BY <2>6 DEF CheckRule, CacheRule, Investigate, Serve, GetRunbook
  <2>7. ASSUME NEW u \in Servers, Restart(u)
        PROVE  bookCache'[s][t] = bookCache[s][t] \/ bookCache'[s][t] = NoCopy
    BY <2>7 DEF Restart, TypeOK
  <2>8. ASSUME NEW v \in BookTypes, BuildDraft(v) \/ ShowDraft(v) PROVE bookCache' = bookCache
    BY <2>8 DEF BuildDraft, ShowDraft
  <2>9. ASSUME Outage \/ Recover \/ StartPromotion \/ Decline \/ Approve \/ RemoveDraft
               \/ CommitPromotion \/ EndPromotion \/ PromotionDies \/ Commit
        PROVE  bookCache' = bookCache
    BY <2>9 DEF Outage, Recover, StartPromotion, Decline, Approve, RemoveDraft,
       CommitPromotion, EndPromotion, PromotionDies, Commit
  <2>10. CASE UNCHANGED vars
    BY <2>2, <2>10 DEF vars
  <2>11. QED
    BY <1>4, <2>2, <2>3, <2>4, <2>5, <2>6, <2>7, <2>8, <2>9, <2>10 DEF Next
<1>5. QED
  BY <1>3, <1>4

LEMMA CachesKept ==
    ASSUME TypeOK, CachesKnown, ReadsKnown, LookupsKnown, [Next]_vars
    PROVE  CachesKnown'
<1>1. (\A s \in Servers : RuleEntryKnown(ruleCache[s]))'
  BY RulesCachedKept
<1>2. (\A s \in Servers : \A t \in BookTypes : BookEntryKnown(bookCache[s][t], t))'
  BY BooksCachedKept
<1>3. QED
  BY <1>1, <1>2 DEF CachesKnown, RuleEntryKnown, BookEntryKnown

(* What a server has read is known, whatever replaces it before it is      *)
(* cached.                                                                 *)
LEMMA ReadsKept ==
    ASSUME TypeOK, ReadsKnown, [Next]_vars
    PROVE  ReadsKnown'
<1>1. SUFFICES ASSUME NEW s \in Servers, NEW rows \in ruleReads'[s] PROVE RuleKnown(rows, 0)'
  BY DEF ReadsKnown
<1>2. CASE Tick
  BY <1>2 DEF Tick
<1>3. CASE ~Tick
  <2>1. CASE rows \in ruleReads[s]
    BY <1>3, <2>1, RuleStaysKnown DEF ReadsKnown
  <2>2. ASSUME NEW u \in Servers, ReadRule(u), UNCHANGED rule PROVE RuleKnown(rows, 0)'
    <3>1. rows \in ruleReads[s] \/ rows = rule'
      BY <2>2 DEF ReadRule, TypeOK
    <3>2. QED
      BY <2>1, <3>1 DEF RuleKnown
  <2> USE DEF serverVars, worldVars
  <2>3. ASSUME NEW u \in Servers, CheckRule(u) \/ Investigate(u)
        PROVE  ReadRule(u) /\ UNCHANGED rule
    BY <2>3 DEF CheckRule, Investigate
  <2>4. ASSUME NEW u \in Servers, CacheRule(u) \/ Restart(u) PROVE ruleReads'[s] \subseteq ruleReads[s]
    BY <2>4 DEF CacheRule, Restart, TypeOK
  <2>5. ASSUME NEW u \in Servers, CacheBook(u) \/ Serve(u) \/ \E t \in Types : GetRunbook(u, t)
        PROVE  ruleReads' = ruleReads
    BY <2>5 DEF CacheBook, Serve, GetRunbook
  <2>6. ASSUME NEW t \in BookTypes, BuildDraft(t) \/ ShowDraft(t) PROVE ruleReads' = ruleReads
    BY <2>6 DEF BuildDraft, ShowDraft
  <2>7. ASSUME NEW new \in Rules, EditRule(new) PROVE ruleReads' = ruleReads
    BY <2>7 DEF EditRule
  <2>8. ASSUME Outage \/ Recover \/ StartPromotion \/ Decline \/ Approve \/ RemoveDraft
               \/ CommitPromotion \/ EndPromotion \/ PromotionDies \/ Commit
        PROVE  ruleReads' = ruleReads
    BY <2>8 DEF Outage, Recover, StartPromotion, Decline, Approve, RemoveDraft,
       CommitPromotion, EndPromotion, PromotionDies, Commit
  <2>9. ASSUME UNCHANGED vars PROVE ruleReads' = ruleReads
    BY <2>9 DEF vars
  <2>10. QED
    BY <1>3, <2>1, <2>2, <2>3, <2>4, <2>5, <2>6, <2>7, <2>8, <2>9 DEF Next
<1>4. QED
  BY <1>2, <1>3

-----------------------------------------------------------------------------
(* The lookups.                                                            *)
RowsKnown(rows, type) ==
    rows = Filter(rule, type) \/ \E p \in pastRules : rows = Filter(p.rows, type)
LookupKnown(look) ==
    /\ look.at # "idle" => BookKnown(look.book, TTL)
    /\ look.at = "read" => look.book # NoBook /\ BookKnown(look.book, 0)
    /\ look.at = "hit" => \/ look.rows = {}
                          \/ look.rows = look.book.fingerprint /\ RowsKnown(look.rows, look.type)

LEMMA LookupsSplit == LookupsKnown <=> \A s \in Servers : LookupKnown(looking[s])
BY DEF LookupsKnown, LookupKnown, RowsKnown

LEMMA RowsStayKnown ==
    ASSUME [Next]_vars, ~Tick, NEW rows, NEW type, RowsKnown(rows, type)
    PROVE  RowsKnown(rows, type)'
<1> USE DEF RowsKnown, worldVars, serverVars, fileVars, toolVars, pastVars, boundVars
<1>1. ASSUME NEW new \in Rules, EditRule(new) PROVE RowsKnown(rows, type)'
  <2>1. ASSUME rows = Filter(rule, type) PROVE RowsKnown(rows, type)'
    <3> DEFINE p == [rows |-> rule, age |-> 0]
    <3>1. p \in pastRules' /\ p.rows = rule
      BY <1>1 DEF EditRule
    <3> HIDE DEF p
    <3>2. rows = Filter(p.rows, type)
      BY <2>1, <3>1
    <3>3. QED
      BY <3>1, <3>2
  <2>2. pastRules \subseteq pastRules'
    BY <1>1 DEF EditRule
  <2>3. QED
    BY <2>1, <2>2
<1>2. CASE Outage
  BY <1>2 DEF Outage, Fault
<1>3. CASE Recover
  BY <1>3 DEF Recover, Fault
<1>4. CASE Tick
  BY <1>4
<1>5. ASSUME NEW s \in Servers, NEW t \in Types, GetRunbook(s, t) PROVE RowsKnown(rows, type)'
  BY <1>5 DEF GetRunbook, Fault
<1>6. ASSUME NEW s \in Servers, CheckRule(s) PROVE RowsKnown(rows, type)'
  BY <1>6 DEF CheckRule, Fault
<1>7. ASSUME NEW s \in Servers, Serve(s) PROVE RowsKnown(rows, type)'
  BY <1>7 DEF Serve, Fault
<1>8. ASSUME NEW s \in Servers, Investigate(s) PROVE RowsKnown(rows, type)'
  BY <1>8 DEF Investigate, Fault
<1>9. ASSUME NEW s \in Servers, Restart(s) PROVE RowsKnown(rows, type)'
  BY <1>9 DEF Restart, Fault
<1>10. ASSUME NEW t \in BookTypes, BuildDraft(t) PROVE RowsKnown(rows, type)'
  BY <1>10 DEF BuildDraft, Fault
<1>11. ASSUME NEW t \in BookTypes, ShowDraft(t) PROVE RowsKnown(rows, type)'
  BY <1>11 DEF ShowDraft, Fault
<1>12. CASE StartPromotion
  BY <1>12 DEF StartPromotion, Fault
<1>13. CASE Decline
  BY <1>13 DEF Decline, Fault
<1>14. CASE Approve
  BY <1>14 DEF Approve, Fault
<1>15. CASE RemoveDraft
  BY <1>15 DEF RemoveDraft, Fault
<1>16. CASE CommitPromotion
  BY <1>16 DEF CommitPromotion, Fault
<1>17. CASE EndPromotion
  BY <1>17 DEF EndPromotion, Fault
<1>18. CASE PromotionDies
  BY <1>18 DEF PromotionDies, Fault
<1>19. CASE Commit
  BY <1>19 DEF Commit, Fault
<1>20. CASE UNCHANGED vars
  BY <1>20 DEF vars
<1>21. ASSUME NEW s \in Servers, CacheBook(s) PROVE RowsKnown(rows, type)'
  BY <1>21 DEF CacheBook, Fault
<1>22. ASSUME NEW s \in Servers, CacheRule(s) PROVE RowsKnown(rows, type)'
  BY <1>22 DEF CacheRule, Fault
<1>23. QED
  BY <1>1, <1>2, <1>3, <1>4, <1>5, <1>6, <1>7, <1>8, <1>9, <1>10, <1>11, <1>12, <1>13, <1>14,
     <1>15, <1>16, <1>17, <1>18, <1>19, <1>20, <1>21, <1>22 DEF Next

LEMMA LookupStays ==
    ASSUME TypeOK, [Next]_vars, ~Tick, NEW look \in Lookups, LookupKnown(look)
    PROVE  LookupKnown(look)'
<1>1. TTL \in Nat /\ look.book.type \in BookTypes
  BY RunbookAssumption DEF Lookups, Books
<1>2. ASSUME look.at # "idle" PROVE BookKnown(look.book, TTL)'
  BY <1>1, <1>2, BookStaysKnown DEF LookupKnown
<1>3. ASSUME look.at = "read" PROVE BookKnown(look.book, 0)'
  BY <1>1, <1>3, BookStaysKnown DEF LookupKnown
<1>4. ASSUME RowsKnown(look.rows, look.type) PROVE RowsKnown(look.rows, look.type)'
  BY <1>4, RowsStayKnown
<1>5. QED
  BY <1>2, <1>3, <1>4 DEF LookupKnown

(* The copy a lookup finds is known, whether it comes from the cache or    *)
(* from the file.                                                          *)
LEMMA CopyKnown ==
    ASSUME TypeOK, CachesKnown, NEW s \in Servers, NEW t \in BookTypes, Copy(s, t) # NoBook
    PROVE  BookKnown(Copy(s, t), TTL)
<1>1. CASE bookCache[s][t].held
  <2>1. BookKnown(bookCache[s][t].book, bookCache[s][t].age) /\ bookCache[s][t].age \in Ages
    BY <1>1 DEF CachesKnown, TypeOK, BookCopies
  <2>2. \A p \in pastBooks : p.age <= bookCache[s][t].age => p.age <= TTL
    BY <2>1, AgesTyped, RunbookAssumption DEF Ages, TypeOK
  <2>3. QED
    BY <1>1, <2>1, <2>2 DEF Copy, BookKnown
<1>2. CASE ~bookCache[s][t].held
  BY <1>2, ReadKnown DEF Copy
<1>3. QED
  BY <1>1, <1>2

(* So are the rows it compares, but that there may be none.                *)
LEMMA RuleRowsKnown ==
    ASSUME TypeOK, CachesKnown, NEW s \in Servers, NEW t \in BookTypes
    PROVE  Filter(Rule(s), t) = {} \/ RowsKnown(Filter(Rule(s), t), t)
<1>1. Filter({}, t) = {}
  BY DEF Filter
<1>2. CASE ruleCache[s].held
  <2>1. RuleKnown(ruleCache[s].rows, ruleCache[s].age)
    BY <1>2 DEF CachesKnown
  <2>2. Rule(s) = ruleCache[s].rows
    BY <1>2 DEF Rule
  <2>3. QED
    BY <2>1, <2>2 DEF RuleKnown, RowsKnown
<1>3. CASE ~ruleCache[s].held
  <2>1. Rule(s) = rule \/ Rule(s) = {}
    BY <1>3 DEF Rule
  <2>2. QED
    BY <1>1, <2>1 DEF RowsKnown
<1>4. QED
  BY <1>2, <1>3

LEMMA LookupsKept ==
    ASSUME TypeOK, CachesKnown, LookupsKnown, [Next]_vars
    PROVE  LookupsKnown'
<1>1. SUFFICES ASSUME NEW s \in Servers PROVE LookupKnown(looking[s])'
  BY DEF LookupsKnown, LookupKnown, RowsKnown
<1>2. LookupKnown(looking[s]) /\ looking[s] \in Lookups
  BY LookupsSplit DEF TypeOK
<1>3. CASE Tick
  BY <1>3, NullsTyped DEF Tick, LookupKnown
<1>4. CASE ~Tick
  <2>1. \A look \in Lookups : LookupKnown(look) => LookupKnown(look)'
    BY <1>4, LookupStays
  <2>2. CASE looking'[s] = looking[s]
    BY <1>2, <2>1, <2>2 DEF LookupKnown
  <2>3. CASE looking'[s] = Idle
    BY <2>3, NullsTyped DEF LookupKnown
  <2>4. ASSUME NEW look \in Lookups, LookupKnown(look), looking'[s] = look
        PROVE  LookupKnown(looking[s])'
    BY <2>1, <2>4 DEF LookupKnown
  <2>5. ASSUME NEW u \in Servers, NEW v \in Types, GetRunbook(u, v)
        PROVE  LookupKnown(looking[s])'
    <3> DEFINE found == IF Copy(u, v) # NoBook THEN v ELSE AnyType
               book  == Copy(u, found)
               held  == bookCache[u][found].held
               look  == [at |-> IF held THEN "found" ELSE "read",
                         book |-> book, type |-> v, rows |-> {}]
    <3>1. v \in BookTypes /\ found \in BookTypes
      BY DEF BookTypes
    <3>2. book # NoBook /\ looking' = [looking EXCEPT ![u] = look]
      BY <2>5 DEF GetRunbook
    <3>3. book \in Books /\ BookKnown(book, TTL)
      BY <3>1, <3>2, CopyTyped, CopyKnown
    <3>4. ~held => BookKnown(book, 0)
      BY <3>1, <3>2, ReadKnown DEF Copy
    <3> HIDE DEF found, book, held
    <3>5. look \in Lookups /\ LookupKnown(look)
      BY <3>1, <3>2, <3>3, <3>4 DEF Lookups, LookupKnown
    <3> HIDE DEF look
    <3>6. looking'[s] = looking[s] \/ looking'[s] = look
      BY <3>2 DEF TypeOK
    <3>7. QED
      BY <2>2, <2>4, <3>5, <3>6
  <2>6. ASSUME NEW u \in Servers, CheckRule(u)
        PROVE  LookupKnown(looking[s])'
    <3> DEFINE rows == Filter(Rule(u), looking[u].type)
               look == [looking[u] EXCEPT !.at = "hit", !.rows = rows]
    <3>1. looking[u] \in Lookups /\ LookupKnown(looking[u]) /\ looking[u].at = "found"
      BY <2>6, LookupsSplit DEF TypeOK, CheckRule
    <3>2. looking'[s] = looking[s] \/ looking'[s] = Idle
          \/ (looking'[s] = look /\ ~Contradicts(rows, looking[u].book))
      BY <2>6 DEF CheckRule, TypeOK
    <3>3. rows \in SUBSET Rows
      BY RuleTyped, FilterTyped
    <3>4. rows = {} \/ RowsKnown(rows, looking[u].type)
      BY <3>1, RuleRowsKnown DEF Lookups
    <3> HIDE DEF rows
    <3>5. look \in Lookups /\ look.at = "hit" /\ look.rows = rows /\ look.book = looking[u].book
          /\ look.type = looking[u].type
      BY <3>1, <3>3 DEF Lookups
    <3> HIDE DEF look
    <3>6. ASSUME ~Contradicts(rows, looking[u].book) PROVE LookupKnown(look)
      BY <3>1, <3>4, <3>5, <3>6 DEF Contradicts, LookupKnown
    <3>7. QED
      BY <2>2, <2>3, <2>4, <3>2, <3>5, <3>6
  <2> USE DEF serverVars
  <2>7. ASSUME NEW rows \in Rules, EditRule(rows) PROVE looking' = looking
    BY <2>7 DEF EditRule
  <2>8. ASSUME NEW u \in Servers, Investigate(u) \/ CacheRule(u) PROVE looking' = looking
    BY <2>8 DEF Investigate, CacheRule
  <2>9. ASSUME NEW u \in Servers, Serve(u) \/ Restart(u)
        PROVE  looking'[s] = looking[s] \/ looking'[s] = Idle
    BY <2>9 DEF Serve, Restart, TypeOK
  <2>10. ASSUME NEW v \in BookTypes, BuildDraft(v) \/ ShowDraft(v) PROVE looking' = looking
    BY <2>10 DEF BuildDraft, ShowDraft
  <2>11. ASSUME Outage \/ Recover \/ StartPromotion \/ Decline \/ Approve \/ RemoveDraft
                \/ CommitPromotion \/ EndPromotion \/ PromotionDies \/ Commit
         PROVE  looking' = looking
    BY <2>11 DEF Outage, Recover, StartPromotion, Decline, Approve, RemoveDraft,
       CommitPromotion, EndPromotion, PromotionDies, Commit
  <2>12. CASE UNCHANGED vars
    BY <2>2, <2>12 DEF vars
  <2>13. ASSUME NEW u \in Servers, CacheBook(u) PROVE LookupKnown(looking[s])'
    <3> DEFINE look == [looking[u] EXCEPT !.at = "found"]
    <3>1. looking[u] \in Lookups /\ LookupKnown(looking[u]) /\ looking[u].at = "read"
      BY <2>13, LookupsSplit DEF TypeOK, CacheBook
    <3>2. look \in Lookups /\ LookupKnown(look)
      BY <3>1 DEF Lookups, LookupKnown
    <3>3. looking'[s] = looking[s] \/ looking'[s] = look
      BY <2>13 DEF CacheBook, TypeOK
    <3> HIDE DEF look
    <3>4. QED
      BY <2>2, <2>4, <3>2, <3>3
  <2>14. QED
    BY <1>4, <2>2, <2>3, <2>5, <2>6, <2>7, <2>8, <2>9, <2>10, <2>11, <2>12, <2>13 DEF Next
<1>5. QED
  BY <1>3, <1>4

-----------------------------------------------------------------------------
(* The servers and the tools of Runbooks keep IInv, whatever they do.      *)
THEOREM Invariant == Spec => []IInv
<1>1. Init => IInv
  <2> SUFFICES ASSUME Init PROVE IInv
    OBVIOUS
  <2> USE NullsTyped, AgesTyped, RunbookAssumption DEF Init
  <2>1. TypeOK
    <3>1. draft \in [BookTypes -> Books] /\ final \in [BookTypes -> Books]
          /\ bookCache \in [Servers -> [BookTypes -> BookCopies]]
          /\ \A t \in BookTypes : draft[t] = NoBook /\ final[t] = NoBook
      OBVIOUS
    <3>2. QED
      BY <3>1 DEF TypeOK
  <2>2. Offers
    BY DEF Offers
  <2>3. Reviewed
    BY DEF Reviewed
  <2>4. CachesKnown
    BY DEF CachesKnown
  <2>5. LookupsKnown
    BY DEF LookupsKnown
  <2>6. ReadsKnown
    BY DEF ReadsKnown
  <2>7. QED
    BY <2>1, <2>2, <2>3, <2>4, <2>5, <2>6 DEF IInv
<1>2. IInv /\ [Next]_vars => IInv'
  BY TypesKept, OffersKept, ReviewedKept, CachesKept, ReadsKept, LookupsKept DEF IInv
<1>3. QED
  BY <1>1, <1>2, PTL DEF Spec

(* Every file holds a promoted runbook of its own type.                    *)
THEOREM TypeCorrect == Spec => []TypeOK
<1>1. IInv => TypeOK
  BY DEF IInv
<1>2. QED
  BY <1>1, Invariant, PTL

(* No packet is answered with a runbook no operator has approved.          *)
THEOREM ReviewedServed == Spec => []OnlyReviewedServed
<1>1. IInv => OnlyReviewedServed
  BY DEF IInv, Reviewed, OnlyReviewedServed
<1>2. QED
  BY <1>1, Invariant, PTL

(* A runbook that was superseded, or whose rule was, is served for less    *)
(* than TTL after that, unless no rows could be compared.                  *)
THEOREM StaleBounded == Spec => []StaleForLessThanTTL
<1>1. IInv => StaleForLessThanTTL
  <2> SUFFICES ASSUME IInv, NEW s \in Servers, looking[s].at = "hit"
               PROVE  LET book == looking[s].book
                      IN  /\ book = final[book.type] \/ \E p \in pastBooks : p.book = book
                          /\ \/ looking[s].rows = {}
                             \/ book.fingerprint = Filter(rule, looking[s].type)
                             \/ \E p \in pastRules :
                                   book.fingerprint = Filter(p.rows, looking[s].type)
    BY DEF StaleForLessThanTTL
  <2>1. BookKnown(looking[s].book, TTL)
    BY DEF IInv, LookupsKnown
  <2>2. QED
    BY <2>1 DEF IInv, LookupsKnown, BookKnown
<1>2. QED
  BY <1>1, Invariant, PTL

=============================================================================
