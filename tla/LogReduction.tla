---------------------------- MODULE LogReduction ----------------------------
(***************************************************************************)
(* What the agents are shown of a packet's log (reduce_logs of             *)
(* src/log_pipeline/pipeline.py): a short trace whole, otherwise the lines *)
(* around its errors, otherwise its templates.  Templates are numbered by  *)
(* a Drain3 tree; every process loads it once, keeps it, and writes it     *)
(* over the file that all processes share.  An offline builder classifies  *)
(* the templates of sample packets, by those numbers, in a catalog that    *)
(* each process also loads once.                                           *)
(***************************************************************************)
EXTENDS LineSelection, FiniteSets, SequencesExt

CONSTANTS
    Processes,         \* API replicas and tools that reduce logs
    Builder,           \* the process of build_catalog
    NoProcess,
    Templates,
    TemplateOf,        \* the template Drain3 finds for a line
    Errors,            \* lines of level ERROR
    Decisions,         \* lines that match the decision vocabulary
    DecisiveTemplates, \* templates whose own text matches it
    SmallTrace,        \* the 50 of reduce_logs
    ErrorBefore,       \* LOG_ERROR_CONTEXT_LINES
    ErrorAfter,        \* LOG_ERROR_TRAILING_LINES
    RareThreshold,     \* LOG_RARE_TEMPLATE_THRESHOLD
    MaxExamples,       \* the 3 of cluster_logs
    Phrases,           \* templates whose text is a phrase their lines match
    Flows,             \* logs of the packets a catalog may be built from
    SampleSize,        \* packets given to build_catalog
    MaxLines,          \* bound: lines of a log
    MaxInstances,      \* bound: instances of a container
    MaxReports,        \* bound: reports of a behaviour
    MaxCrashes, MaxBuilds

All == Processes \cup {Builder}

ASSUME ReductionAssumption ==
    /\ Builder \notin Processes /\ NoProcess \notin All
    /\ TemplateOf \in [Lines -> Templates]
    /\ Errors \subseteq Lines /\ Decisions \subseteq Lines
    /\ DecisiveTemplates \subseteq Templates
    /\ \A l \in Lines : TemplateOf[l] \in DecisiveTemplates => l \in Decisions
    /\ Phrases \subseteq Templates /\ MaxInstances \in Nat
    /\ SmallTrace \in Nat /\ ErrorBefore \in Nat /\ ErrorAfter \in Nat
    /\ RareThreshold \in Nat /\ MaxExamples \in Nat
    /\ Flows \subseteq Seq(Lines) /\ <<>> \notin Flows /\ SampleSize \in Nat \ {0}
    /\ MaxLines \in Nat /\ MaxReports \in Nat /\ MaxCrashes \in Nat /\ MaxBuilds \in Nat

VARIABLES
    worker,      \* the process that has a packet, and NoProcess
    source,      \* where its lines come from
    miner,       \* template trees in memory
    stateFile,   \* drain3_state.bin
    catalog,     \* catalogs in memory
    catalogFile, \* the catalog on file
    sample,      \* the builder's statistics
    report,      \* what the last packet's agents were shown
    forked,      \* history: the tree was overwritten by one that does not extend it
    reports, crashes, builds

packetVars == <<worker, source, selectorVars>>
treeVars   == <<miner, stateFile, forked>>
boundVars  == <<reports, crashes, builds>>
vars == <<packetVars, treeVars, catalog, catalogFile, sample, report, boundVars>>

Classes == {"boilerplate", "informative", "decision-marker"}
Entries == [id : Nat, template : Templates, class : Classes]
Trees   == [loaded : BOOLEAN, tree : Seq(Templates)]
NoTree  == [loaded |-> FALSE, tree |-> <<>>]
NoCatalog == [loaded |-> FALSE, entries |-> {}]
NoSample  == [flows |-> 0, seen |-> [t \in Templates |-> 0]]

(* The text of a log, without where its lines are from.                    *)
Kept == [k \in DOMAIN kept |-> stream[kept[k]].line]

TemplatesIn(lines) == {TemplateOf[lines[i]] : i \in DOMAIN lines}
Places(lines, t)   == {i \in DOMAIN lines : TemplateOf[lines[i]] = t}
Rank(S, i)         == Cardinality({j \in S : j <= i})
FirstOf(S, n)      == {i \in S : Rank(S, i) <= n}

(* cluster_logs: a template the tree has not seen gets the next number.    *)
Unseen(tree, lines) ==
    {i \in DOMAIN lines : /\ TemplateOf[lines[i]] \notin Range(tree)
                          /\ \A j \in 1..(i - 1) : TemplateOf[lines[j]] # TemplateOf[lines[i]]}
Learn(tree, lines) ==
    LET new == Unseen(tree, lines)
    IN  tree \o [k \in 1..Cardinality(new) |->
                    TemplateOf[lines[CHOOSE i \in new : Rank(new, i) = k]]]

Tree(p) == IF miner[p].loaded THEN miner[p].tree ELSE stateFile

(* Mutated form: clusters are numbered from 0.                             *)
ClustersFromZero(tree, lines) ==
    {[id |-> i - 1, template |-> tree[i], count |-> Cardinality(Places(lines, tree[i]))] :
        i \in {i \in DOMAIN tree : tree[i] \in TemplatesIn(lines)}}

(* The clusters a batch touches, by number, in the tree it leaves.         *)
Clusters(tree, lines) ==
    {[id |-> i, template |-> tree[i], count |-> Cardinality(Places(lines, tree[i]))] :
        i \in {i \in DOMAIN tree : tree[i] \in TemplatesIn(lines)}}

Saved(p, tree) ==
    /\ miner' = [miner EXCEPT ![p] = [loaded |-> TRUE, tree |-> tree]]
    /\ stateFile' = tree
    /\ forked' = (forked \/ ~IsPrefix(stateFile, tree))

ClassOf(entries, id) ==
    IF \E e \in entries : e.id = id THEN (CHOOSE e \in entries : e.id = id).class ELSE "unknown"

(* Mutated form: a rare template keeps the class of the catalog.           *)
GuardedByCatalog(cluster, entries) ==
    [id |-> cluster.id, template |-> cluster.template, count |-> cluster.count,
     class |-> ClassOf(entries, cluster.id)]

(* apply_evidence_guardrails.                                              *)
Guarded(cluster, entries) ==
    [id |-> cluster.id, template |-> cluster.template, count |-> cluster.count,
     class |-> IF cluster.count < RareThreshold THEN "rare" ELSE ClassOf(entries, cluster.id)]

(* Boilerplate is reduced to its count.                                    *)
ExamplesOf(cluster, lines) ==
    IF cluster.class = "boilerplate" THEN {}
    ELSE FirstOf(Places(lines, cluster.template), MaxExamples)

DecisionLines(lines) == {i \in DOMAIN lines : lines[i] \in Decisions}
Boundary(lines)      == {1, Len(lines)}
ErrorLines(lines)    == {i \in DOMAIN lines : lines[i] \in Errors}

(* branch_on_error: from before the first error until after the last one.  *)
ErrorWindow(lines) ==
    {i \in DOMAIN lines : /\ \E e \in ErrorLines(lines) : i >= e - ErrorBefore
                          /\ \E e \in ErrorLines(lines) : i <= e + ErrorAfter}

Path(lines) ==
    IF lines = <<>> THEN "none"
    ELSE IF Len(lines) < SmallTrace THEN "trace"
    ELSE IF ErrorLines(lines) # {} THEN "errors"
    ELSE "templates"

Report(path, lines, shown, clusters) ==
    [path |-> path, lines |-> lines, shown |-> shown, clusters |-> clusters,
     known |-> {[template |-> e.template, class |-> e.class] : e \in catalog[worker].entries}]
NoReport == [path |-> "failed", lines |-> <<>>, shown |-> {}, clusters |-> {}, known |-> {}]

-----------------------------------------------------------------------------
Init ==
    /\ worker = NoProcess /\ source = "kubernetes" /\ Fresh
    /\ miner = [p \in All |-> NoTree] /\ stateFile = <<>> /\ forked = FALSE
    /\ catalog = [p \in Processes |-> NoCatalog] /\ catalogFile = {}
    /\ sample = NoSample /\ report = NoReport
    /\ reports = 0 /\ crashes = 0 /\ builds = 0

(* A process starts on a packet, with the catalog it has or loads.         *)
Receive(p, src) ==
    /\ worker = NoProcess /\ reports < MaxReports
    /\ worker' = p /\ source' = src /\ Restart
    /\ catalog' = IF catalog[p].loaded THEN catalog
                  ELSE [catalog EXCEPT ![p] = [loaded |-> TRUE, entries |-> catalogFile]]
    /\ reports' = reports + 1
    /\ report' = NoReport
    /\ UNCHANGED <<treeVars, catalogFile, sample, crashes, builds>>

Unchanged == UNCHANGED <<worker, source, treeVars, catalog, catalogFile, sample, report, boundVars>>

Reading(src) == worker # NoProcess /\ source = src /\ Len(stream) < MaxLines

ReadLine(line) == Reading("kubernetes") /\ Feed(line) /\ Unchanged

ReadInstance ==
    /\ Reading("kubernetes") /\ instance < MaxInstances
    /\ OpenInstance /\ Unchanged

(* Elasticsearch has the lines that mention the packet, and fetch_logs     *)
(* excludes those that match a boilerplate phrase of the catalog.          *)
Excluded == {e.template : e \in {e \in catalog[worker].entries : e.class = "boilerplate"}} \cap Phrases
SearchLine(line) ==
    /\ Reading("elastic")
    /\ stream' = Append(stream, [line |-> line, from |-> instance])
    /\ kept' = IF line \in Mentioned /\ TemplateOf[line] \notin Excluded
               THEN Append(kept, Position) ELSE kept
    /\ UNCHANGED <<instance, held, trailing>> /\ Unchanged

Answer(path, shown, clusters) ==
    /\ worker # NoProcess /\ Path(Kept) = path
    /\ report' = Report(path, Kept, shown, clusters)
    /\ worker' = NoProcess /\ Restart
    /\ UNCHANGED <<source, catalog, catalogFile, sample, boundVars>>

ShowNothing == Answer("none", {}, {}) /\ UNCHANGED treeVars
ShowTrace   == Answer("trace", DOMAIN Kept, {}) /\ UNCHANGED treeVars
ShowErrors  == Answer("errors", ErrorWindow(Kept), {}) /\ UNCHANGED treeVars

Summary(tree) == {Guarded(c, catalog[worker].entries) : c \in Clusters(tree, Kept)}
ShownOf(clusters) ==
    Boundary(Kept) \cup DecisionLines(Kept) \cup UNION {ExamplesOf(c, Kept) : c \in clusters}

(* cluster_logs holds a thread lock and a file lock from load to save.     *)
ShowTemplates ==
    LET tree     == Learn(Tree(worker), Kept)
        clusters == Summary(tree)
    IN  /\ Answer("templates", ShownOf(clusters), clusters)
        /\ Saved(worker, tree)

(* The file lock is not to be had for 30 s: reduce_logs raises.            *)
LockTimesOut ==
    /\ worker # NoProcess /\ Path(Kept) = "templates"
    /\ worker' = NoProcess /\ Restart
    /\ UNCHANGED <<source, treeVars, report, catalog, catalogFile, sample, boundVars>>

-----------------------------------------------------------------------------
(* build_catalog: it clusters its sample packets one by one.               *)
Building == builds < MaxBuilds /\ sample.flows < SampleSize

BuildFlow(flow) ==
    LET tree == Learn(Tree(Builder), flow)
    IN  /\ Building
        /\ Saved(Builder, tree)
        /\ sample' = [flows |-> sample.flows + 1,
                      seen |-> [t \in Templates |->
                                  sample.seen[t] + IF t \in TemplatesIn(flow) THEN 1 ELSE 0]]
        /\ UNCHANGED <<packetVars, catalog, catalogFile, report, boundVars>>

(* No logs, or an exception: the packet still counts in the share.         *)
SkipFlow ==
    /\ Building
    /\ sample' = [sample EXCEPT !.flows = @ + 1]
    /\ UNCHANGED <<packetVars, treeVars, catalog, catalogFile, report, boundVars>>

Classification(t) ==
    CASE t \in DecisiveTemplates                     -> "decision-marker"
      [] t \notin DecisiveTemplates /\ 10 * sample.seen[t] >= 9 * SampleSize -> "boilerplate"
      [] OTHER                                       -> "informative"

(* What it adds to the catalog, and puts in place of entries of old.       *)
NewEntries ==
    LET tree == miner[Builder].tree
    IN  {[id |-> i, template |-> tree[i], class |-> Classification(tree[i])] :
            i \in {i \in DOMAIN tree : sample.seen[tree[i]] > 0}}

SaveCatalog ==
    /\ builds < MaxBuilds /\ sample.flows = SampleSize
    /\ catalogFile' = NewEntries \cup {e \in catalogFile : \A n \in NewEntries : n.id # e.id}
    /\ sample' = NoSample
    /\ miner' = [miner EXCEPT ![Builder] = NoTree]
    /\ builds' = builds + 1
    /\ UNCHANGED <<packetVars, stateFile, forked, catalog, report, reports, crashes>>

(* What a process has loaded dies with it, and its packet.                 *)
Crash(p) ==
    /\ crashes < MaxCrashes
    /\ crashes' = crashes + 1
    /\ miner' = [miner EXCEPT ![p] = NoTree]
    /\ catalog' = [q \in Processes |-> IF q = p THEN NoCatalog ELSE catalog[q]]
    /\ sample' = IF p = Builder THEN NoSample ELSE sample
    /\ IF worker = p THEN worker' = NoProcess /\ Restart ELSE UNCHANGED <<worker, selectorVars>>
    /\ UNCHANGED <<source, stateFile, forked, catalogFile, report, reports, builds>>

Next ==
    \/ \E p \in Processes, src \in {"kubernetes", "elastic"} : Receive(p, src)
    \/ \E line \in Lines : ReadLine(line) \/ SearchLine(line)
    \/ ReadInstance
    \/ ShowNothing \/ ShowTrace \/ ShowErrors \/ ShowTemplates \/ LockTimesOut
    \/ \E flow \in Flows : BuildFlow(flow)
    \/ SkipFlow \/ SaveCatalog
    \/ \E p \in All : Crash(p)

Spec == Init /\ [][Next]_vars

-----------------------------------------------------------------------------
Shown == Classes \cup {"rare", "unknown"}

TypeOK ==
    /\ worker \in Processes \cup {NoProcess} /\ source \in {"kubernetes", "elastic"}
    /\ stream \in Seq([line : Lines, from : Nat \ {0}]) /\ instance \in Nat \ {0}
    /\ held \in Seq(Nat) /\ trailing \in 0..After /\ kept \in Seq(DOMAIN stream)
    /\ miner \in [All -> Trees] /\ stateFile \in Seq(Templates) /\ forked \in BOOLEAN
    /\ catalog \in [Processes -> [loaded : BOOLEAN, entries : SUBSET Entries]]
    /\ catalogFile \in SUBSET Entries
    /\ sample \in [flows : 0..SampleSize, seen : [Templates -> Nat]]
    /\ report.clusters \in SUBSET [id : Nat, template : Templates, count : Nat, class : Shown]
    /\ reports \in 0..MaxReports /\ crashes \in 0..MaxCrashes /\ builds \in 0..MaxBuilds

(* In one pass over a pod's log the selector keeps the windows around the  *)
(* matches and nothing else, over every instance that is read.             *)
PodLinesExact == source = "kubernetes" => ExactlyTheWindows

(* Whatever the catalog says of the templates, every error is shown, and a *)
(* line that is not shown is counted under its template or, in a log with  *)
(* errors, stands outside the context of all of them.  Where templates are *)
(* reported, the decisions and the ends of the flow are shown as well, and *)
(* of a rare template the first MaxExamples lines.  (In a log with errors  *)
(* a decision may be neither shown nor counted.)                           *)
EvidenceKept ==
    LET lines == report.lines IN
    /\ ErrorLines(lines) \subseteq report.shown
    /\ \A i \in DOMAIN lines \ report.shown :
        \/ \E e \in ErrorLines(lines) : \A d \in ErrorLines(lines) :
               i < d - ErrorBefore \/ i > d + ErrorAfter
        \/ \E c \in report.clusters :
               c.template = TemplateOf[lines[i]] /\ c.count = Cardinality(Places(lines, c.template))
    /\ report.path = "templates" =>
        /\ DecisionLines(lines) \cup Boundary(lines) \subseteq report.shown
        /\ \A c \in report.clusters : c.count < RareThreshold =>
               FirstOf(Places(lines, c.template), MaxExamples) \subseteq report.shown

(* config.py:33: templates below the threshold are always kept in full;    *)
(* pipeline.py:241 tells the agents so.  Beyond the third example the      *)
(* lines are only counted.                                                 *)
RareKeptInFull ==
    report.path = "templates" =>
        \A c \in report.clusters :
            c.count < RareThreshold => Places(report.lines, c.template) \subseteq report.shown

(* While no process has written its tree over one it does not extend, a    *)
(* class given to a template is one the catalog has for that template,     *)
(* although the catalog is asked by number.                                *)
ClassesFit ==
    ~forked => \A c \in report.clusters :
        c.class \in {"rare", "unknown"} \/ [template |-> c.template, class |-> c.class] \in report.known

(* catalog.py:10: templates the catalog has never seen are "unknown" and   *)
(* are never dropped.  They are when processes fork the tree.              *)
NewTemplatesKept ==
    \A c \in report.clusters :
        c.class = "boilerplate" => \E e \in report.known : e.template = c.template
=============================================================================
