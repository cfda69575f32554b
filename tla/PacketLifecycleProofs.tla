----------------------- MODULE PacketLifecycleProofs -----------------------
(***************************************************************************)
(* Theorems about PacketLifecycle, for any number of overlapping calls,    *)
(* redeliveries, timeouts and API stops.                                   *)
(***************************************************************************)
EXTENDS PacketLifecycle, FiniteSetTheorems, TLAPS

(* Moving a call to another place in its handler keeps `at` well typed.    *)
LEMMA GoToTyped ==
    ASSUME TypeOK, NEW c \in Calls,
           NEW where \in Handling \cup Finished \cup {"idle", "received"}, GoTo(c, where)
    PROVE  at' \in [Calls -> Handling \cup Finished \cup {"idle", "received"}]
BY DEF GoTo, TypeOK

(* So does ending a handler, which forgets what it read.                   *)
LEMMA ForgetsTyped ==
    ASSUME TypeOK, NEW c \in Calls, Forgets(c)
    PROVE  value' \in [Calls -> Statuses \cup {"OLD"}]
BY DEF Forgets, TypeOK, Statuses

(* The types hold initially, and every step keeps them; that a handler     *)
(* saves a terminal status only is part of the order of the saves.         *)
LEMMA TypeKept ==
    /\ Init => TypeOK
    /\ TypeOK /\ SavesInOrder /\ [Next]_vars => TypeOK'
<1>1. Init => TypeOK
  <2> SUFFICES ASSUME Init PROVE TypeOK
    OBVIOUS
  <2>1. redeliveries \in [Endpoints -> Nat] /\ queued \in [Endpoints -> Nat]
    BY DEF Init
  <2>2. \A e \in Endpoints : redeliveries[e] <= MaxRedeliveries[e]
    BY BoundsAssumption DEF Init
  <2>3. /\ endpoint \in [Calls -> Endpoints]
        /\ at \in [Calls -> Handling \cup Finished \cup {"idle", "received"}]
        /\ value \in [Calls -> Statuses \cup {"OLD"}]
    BY DEF Init, Endpoints, Statuses
  <2>4. apiStops \in 0 .. MaxApiStops /\ clientTimeouts \in 0 .. MaxClientTimeouts
        /\ saveFaults \in 0 .. MaxSaveFaults
    BY BoundsAssumption DEF Init
  <2>5. QED
    BY <2>1, <2>2, <2>3, <2>4 DEF Init, TypeOK, Statuses
<1>2. TypeOK /\ SavesInOrder /\ [Next]_vars => TypeOK'
  <2> SUFFICES ASSUME TypeOK, SavesInOrder, [Next]_vars PROVE TypeOK'
    OBVIOUS
  <2> USE DEF queueVars, kafkaVars, fileVars, callVars, boundVars
  <2>1. ASSUME NEW e \in Endpoints, Consume(e) PROVE TypeOK'
    <3>1. queued' \in [Endpoints -> Nat] /\ UNCHANGED lost
      <4>1. queued[e] \in Nat /\ queued[e] > 0 /\ Take(e)
        BY <2>1 DEF Consume, Skip, Refused, Forward, TypeOK
      <4>2. queued[e] - 1 \in Nat
        BY <4>1
      <4>3. QED
        BY <4>1, <4>2 DEF Take, TypeOK
    <3>2. CASE Skip(e)
      BY <3>1, <3>2 DEF Skip, TypeOK
    <3>3. CASE Refused(e)
      BY <3>1, <3>3 DEF Refused, TypeOK
    <3>4. CASE \E c \in Calls : Forward(e, c)
      BY <3>1, <3>4 DEF Forward, TypeOK, Statuses
    <3>5. QED
      BY <2>1, <3>2, <3>3, <3>4 DEF Consume
  <2>2. ASSUME NEW e \in Endpoints, Redeliver(e) PROVE TypeOK'
    <3> DEFINE held == {c \in Calls : client[c] # "none" /\ endpoint[c] = e}
               gone == {c \in held : client[c] = "done"}
    <3>1. Cardinality(held) \in Nat
      BY CallsAssumption, FS_Subset, FS_CardinalityType
    <3>2. /\ redeliveries[e] < MaxRedeliveries[e]
          /\ redeliveries' = [redeliveries EXCEPT ![e] = redeliveries[e] + 1]
          /\ queued' = [queued EXCEPT ![e] = queued[e] + Cardinality(held)]
          /\ \E left \in {gone, held} :
                client' = [c \in Calls |-> IF c \in left THEN "none" ELSE client[c]]
          /\ UNCHANGED <<lost, inDlq, fileVars, checkpoint, api, inFlight, drain, callVars, graph,
                         apiStops, clientTimeouts, saveFaults>>
      BY <2>2 DEF Redeliver
    <3>3. queued' \in [Endpoints -> Nat]
      BY <3>1, <3>2 DEF TypeOK
    <3>4. client' \in [Calls -> {"none", "waiting", "saving_casebook", "saving_status",
                                 "publishing", "done"}]
      BY <3>2 DEF TypeOK
    <3>5. /\ redeliveries' \in [Endpoints -> Nat]
          /\ \A f \in Endpoints : redeliveries'[f] <= MaxRedeliveries[f]
      <4>1. redeliveries[e] \in Nat /\ MaxRedeliveries[e] \in Nat
        BY BoundsAssumption DEF TypeOK
      <4>2. redeliveries[e] + 1 <= MaxRedeliveries[e]
        BY <3>2, <4>1
      <4>3. QED
        BY <3>2, <4>1, <4>2 DEF TypeOK
    <3>6. QED
      BY <3>2, <3>3, <3>4, <3>5 DEF TypeOK
  <2>3. ASSUME NEW c \in Calls, Client(c) \/ ClientTimeout(c) PROVE TypeOK'
    <3>1. CASE GetAnswer(c)
      BY <3>1 DEF GetAnswer, TypeOK
    <3>5. CASE Commit(c)
      BY <3>5 DEF Commit, TypeOK
    <3>2. CASE ClientSaves(c)
      <4>1. client' \in [Calls -> {"none", "waiting", "saving_casebook", "saving_status",
                                   "publishing", "done"}]
        BY <3>2 DEF ClientSaves, TypeOK
      <4>2. /\ casebook' \in Terminal \cup {"none"} /\ status' \in Statuses
            /\ stale' \in BOOLEAN /\ inDlq' \in BOOLEAN
        BY <3>2 DEF ClientSaves, SaveCasebook, SaveStatus, TypeOK, Terminal, Statuses
      <4>3. saveFaults' \in 0 .. MaxSaveFaults /\ UNCHANGED <<redeliveries, apiStops, clientTimeouts>>
        BY <3>2, BoundsAssumption DEF ClientSaves, SaveFaults, TypeOK
      <4>4. UNCHANGED <<queueVars, checkpoint, api, inFlight, drain, callVars, graph>>
        BY <3>2 DEF ClientSaves
      <4>5. QED
        BY <4>1, <4>2, <4>3, <4>4 DEF TypeOK
    <3>3. CASE ClientTimeout(c)
      BY <3>3, BoundsAssumption DEF ClientTimeout, TypeOK
    <3>4. QED
      BY <2>3, <3>1, <3>2, <3>3, <3>5 DEF Client
  <2>4. ASSUME NEW c \in Calls, Handler(c) PROVE TypeOK'
    <3> USE DEF Handling, Finished, OnLoop
    <3>1. CASE FetchCheck(c) \/ FetchReadStatus(c) \/ AnalyzeReadStatus(c)
      BY <3>1, GoToTyped DEF FetchCheck, FetchReadStatus, AnalyzeReadStatus, TypeOK, Statuses
    <3>2. CASE FetchMark(c)
      <4>1. at' \in [Calls -> Handling \cup Finished \cup {"idle", "received"}]
        BY <3>2, GoToTyped DEF FetchMark
      <4>2. status' \in Statuses /\ stale' \in BOOLEAN /\ UNCHANGED casebook
        BY <3>2 DEF FetchMark, SaveStatus, TypeOK, Statuses
      <4>3. QED
        BY <3>2, <4>1, <4>2, ForgetsTyped DEF FetchMark, TypeOK
    <3>3. CASE FetchPublish(c)
      BY <3>3, GoToTyped DEF FetchPublish, TypeOK, Endpoints
    <3>4. CASE AnalyzeCheck(c) \/ AnalyzeDecide(c) \/ Guard(c)
      <4>1. /\ at' \in [Calls -> Handling \cup Finished \cup {"idle", "received"}]
            /\ inFlight' \in BOOLEAN
        <5>1. \E where \in Handling \cup Finished : GoTo(c, where) /\ inFlight' \in BOOLEAN
          BY <3>4 DEF AnalyzeCheck, AnalyzeDecide, Guard, Answer, TypeOK
        <5>2. QED
          BY <5>1, GoToTyped
      <4>2. value' \in [Calls -> Statuses \cup {"OLD"}]
        <5>1. UNCHANGED value \/ Forgets(c)
          BY <3>4 DEF AnalyzeCheck, AnalyzeDecide, Guard, Answer
        <5>2. QED
          BY <5>1, ForgetsTyped DEF TypeOK
      <4>3. UNCHANGED <<kafkaVars, fileVars, checkpoint, api, drain, endpoint, graph,
                        client, boundVars>>
        BY <3>4 DEF AnalyzeCheck, AnalyzeDecide, Guard
      <4>4. QED
        BY <4>1, <4>2, <4>3 DEF TypeOK
    <3>5. CASE AnalyzeInvoke(c)
      BY <3>5, GoToTyped DEF AnalyzeInvoke, SaveStatus, TypeOK, Statuses
    <3>6. CASE AwaitEnds(c)
      <4>1. \E v \in Terminal, where \in {"guarding", "saving_casebook"} :
               value' = [value EXCEPT ![c] = v] /\ GoTo(c, where)
        BY <3>6 DEF AwaitEnds, Terminal
      <4>2. /\ at' \in [Calls -> Handling \cup Finished \cup {"idle", "received"}]
            /\ value' \in [Calls -> Statuses \cup {"OLD"}]
        BY <4>1, GoToTyped DEF TypeOK, Statuses
      <4>3. graph' \in [Calls -> {"none", "running", "returned", "raised"}] /\ inDlq' \in BOOLEAN
        BY <3>6 DEF AwaitEnds, TypeOK
      <4>4. QED
        BY <3>6, <4>2, <4>3 DEF AwaitEnds, TypeOK
    <3>7. CASE HandlerSavesCasebook(c)
      <4>1. casebook' \in Terminal \cup {"none"}
        BY <3>7 DEF HandlerSavesCasebook, SaveCasebook, SavesInOrder
      <4>2. QED
        BY <3>7, <4>1, GoToTyped DEF HandlerSavesCasebook, SaveCasebook, TypeOK
    <3>8. CASE HandlerSavesStatus(c)
      <4>1. status' \in Statuses
        BY <3>8 DEF HandlerSavesStatus, SaveStatus, SavesInOrder, Statuses
      <4>2. QED
        BY <3>8, <4>1, GoToTyped, ForgetsTyped DEF HandlerSavesStatus, SaveStatus, Answer, TypeOK
    <3>9. CASE HandlerFails(c)
      BY <3>9, GoToTyped, ForgetsTyped DEF HandlerFails, TypeOK
    <3>10. CASE SavingFails(c)
      <4>1. saveFaults' \in 0 .. MaxSaveFaults /\ UNCHANGED <<redeliveries, apiStops, clientTimeouts>>
        BY <3>10, BoundsAssumption DEF SavingFails, SaveFaults, TypeOK
      <4>2. value' \in [Calls -> Statuses \cup {"OLD"}]
        BY <3>10, ForgetsTyped DEF SavingFails, TypeOK, Statuses, Terminal
      <4>3. /\ at' \in [Calls -> Handling \cup Finished \cup {"idle", "received"}]
            /\ inDlq' \in BOOLEAN /\ inFlight' \in BOOLEAN
        BY <3>10, GoToTyped DEF SavingFails, TypeOK
      <4>4. UNCHANGED <<queueVars, fileVars, checkpoint, api, drain, endpoint, graph, client>>
        BY <3>10 DEF SavingFails
      <4>5. QED
        BY <4>1, <4>2, <4>3, <4>4 DEF TypeOK
    <3>11. QED
      BY <2>4, <3>1, <3>2, <3>3, <3>4, <3>5, <3>6, <3>7, <3>8, <3>9, <3>10 DEF Handler
  <2>5. ASSUME NEW c \in Calls, GraphRuns(c) \/ Recycle(c) PROVE TypeOK'
    BY <2>5, GoToTyped DEF GraphRuns, Recycle, TypeOK, Endpoints
  <2>6. CASE Crash \/ Exit
    <3>1. Die
      BY <2>6 DEF Crash, Exit
    <3>2. at' \in [Calls -> Handling \cup Finished \cup {"idle", "received"}]
      BY <3>1 DEF Die, Finished, TypeOK
    <3>3. apiStops' \in 0 .. MaxApiStops
      BY <2>6, BoundsAssumption DEF Crash, Exit, TypeOK
    <3>4. QED
      BY <3>1, <3>2, <3>3 DEF Die, TypeOK, Statuses
  <2>7. CASE Shutdown
    BY <2>7, BoundsAssumption DEF Shutdown, TypeOK
  <2>8. CASE DrainSteps
    <3>1. saveFaults' \in 0 .. MaxSaveFaults /\ UNCHANGED <<redeliveries, apiStops, clientTimeouts>>
      BY <2>8, BoundsAssumption DEF DrainSteps, SaveFaults, TypeOK
    <3>2. /\ casebook' \in Terminal \cup {"none"} /\ status' \in Statuses /\ stale' \in BOOLEAN
          /\ drain' \in {"waiting", "saving_casebook", "saving_status", "done"}
      BY <2>8 DEF DrainSteps, SaveCasebook, SaveStatus, TypeOK, Terminal, Statuses
    <3>3. QED
      BY <2>8, <3>1, <3>2 DEF DrainSteps, TypeOK
  <2>9. CASE Age \/ Restart
    <3>1. CASE Age
      BY <3>1 DEF Age, TypeOK
    <3>2. CASE Restart
      BY <3>2 DEF Restart, TypeOK
    <3>3. QED
      BY <2>9, <3>1, <3>2
  <2>10. CASE UNCHANGED vars
    BY <2>10 DEF vars, TypeOK
  <2>11. QED
    BY <2>1, <2>2, <2>3, <2>4, <2>5, <2>6, <2>7, <2>8, <2>9, <2>10 DEF Next, Process
<1>3. QED
  BY <1>1, <1>2

(* A step that leaves the files alone and moves no handler, client or      *)
(* drain towards a save keeps the order of the saves.                      *)
LEMMA OrderUntouched ==
    ASSUME TypeOK, SavesInOrder,
           UNCHANGED <<casebook, status, drain>>,
           \A c \in Calls : client'[c] = "saving_status" => client[c] = "saving_status",
           \A c \in Calls :
              at'[c] \in {"guarding", "saving_casebook", "saving_status"} =>
                 at'[c] = at[c] /\ value'[c] = value[c]
    PROVE  SavesInOrder'
BY DEF SavesInOrder, StatusHasCasebook

(* Every step keeps the order of the saves.                                *)
LEMMA OrderKept ==
    ASSUME TypeOK, SavesInOrder, [Next]_vars
    PROVE  SavesInOrder'
<1> USE DEF queueVars, kafkaVars, fileVars, callVars, boundVars
<1>1. ASSUME NEW e \in Endpoints, Consume(e) \/ Redeliver(e) PROVE SavesInOrder'
  <2>1. CASE Skip(e) \/ Refused(e)
    BY <2>1, OrderUntouched DEF Skip, Refused
  <2>2. ASSUME NEW c \in Calls, Forward(e, c) PROVE SavesInOrder'
    BY <2>2, OrderUntouched DEF Forward, TypeOK
  <2>3. CASE Redeliver(e)
    BY <2>3, OrderUntouched DEF Redeliver
  <2>4. QED
    BY <1>1, <2>1, <2>2, <2>3 DEF Consume
<1>2. ASSUME NEW c \in Calls, Client(c) \/ ClientTimeout(c) PROVE SavesInOrder'
  <2>1. CASE GetAnswer(c) \/ Commit(c) \/ ClientTimeout(c)
    BY <2>1, OrderUntouched DEF GetAnswer, Commit, ClientTimeout, TypeOK
  <2>2. CASE ClientSaves(c)
    BY <2>2 DEF ClientSaves, SaveCasebook, SaveStatus, SavesInOrder, StatusHasCasebook,
                Terminal, TypeOK
  <2>3. QED
    BY <1>2, <2>1, <2>2 DEF Client
<1>3. ASSUME NEW c \in Calls, Handler(c) PROVE SavesInOrder'
  <2> USE DEF GoTo, Answer, Forgets
  <2>1. CASE FetchCheck(c) \/ FetchReadStatus(c) \/ AnalyzeReadStatus(c)
    BY <2>1, OrderUntouched DEF FetchCheck, FetchReadStatus, AnalyzeReadStatus, TypeOK
  <2>2. CASE FetchMark(c)
    BY <2>2 DEF FetchMark, SaveStatus, SavesInOrder, StatusHasCasebook, Terminal, TypeOK
  <2>3. CASE FetchPublish(c)
    BY <2>3, OrderUntouched DEF FetchPublish, TypeOK
  <2>4. CASE AnalyzeCheck(c) \/ AnalyzeDecide(c)
    BY <2>4, OrderUntouched DEF AnalyzeCheck, AnalyzeDecide, TypeOK
  <2>5. CASE AnalyzeInvoke(c)
    BY <2>5 DEF AnalyzeInvoke, SaveStatus, SavesInOrder, StatusHasCasebook, Terminal, TypeOK
  <2>6. CASE AwaitEnds(c)
    <3>1. \E v \in Terminal, where \in {"guarding", "saving_casebook"} :
             value' = [value EXCEPT ![c] = v] /\ at' = [at EXCEPT ![c] = where]
      BY <2>6 DEF AwaitEnds, Terminal
    <3>2. UNCHANGED <<fileVars, drain, client>>
      BY <2>6 DEF AwaitEnds
    <3>3. QED
      BY <3>1, <3>2 DEF SavesInOrder, StatusHasCasebook, TypeOK
  <2>7. CASE Guard(c)
    BY <2>7 DEF Guard, SavesInOrder, StatusHasCasebook, TypeOK
  <2>8. CASE HandlerSavesCasebook(c)
    BY <2>8 DEF HandlerSavesCasebook, SaveCasebook, SavesInOrder, StatusHasCasebook, TypeOK
  <2>9. CASE HandlerSavesStatus(c)
    BY <2>9 DEF HandlerSavesStatus, SaveStatus, SavesInOrder, StatusHasCasebook, TypeOK
  <2>10. CASE HandlerFails(c)
    BY <2>10, OrderUntouched DEF HandlerFails, TypeOK
  <2>11. CASE SavingFails(c)
    BY <2>11 DEF SavingFails, SavesInOrder, StatusHasCasebook, Terminal, TypeOK
  <2>12. QED
    BY <1>3, <2>1, <2>2, <2>3, <2>4, <2>5, <2>6, <2>7, <2>8, <2>9, <2>10, <2>11 DEF Handler
<1>4. ASSUME NEW c \in Calls, GraphRuns(c) \/ Recycle(c) PROVE SavesInOrder'
  BY <1>4, OrderUntouched DEF GraphRuns, Recycle, GoTo, TypeOK
<1>5. CASE Crash \/ Exit
  <2>1. Die
    BY <1>5 DEF Crash, Exit
  <2>2. QED
    BY <2>1 DEF Die, SavesInOrder, StatusHasCasebook
<1>6. CASE DrainSteps
  BY <1>6 DEF DrainSteps, SaveCasebook, SaveStatus, SavesInOrder, StatusHasCasebook, Terminal,
              TypeOK
<1>7. CASE Age \/ Shutdown \/ Restart \/ UNCHANGED vars
  BY <1>7, OrderUntouched DEF Age, Shutdown, Restart, vars
<1>8. QED
  BY <1>1, <1>2, <1>3, <1>4, <1>5, <1>6, <1>7 DEF Next, Process

(* The types and the order of the saves, together inductive.               *)
LEMMA SavesInductive == Spec => [](TypeOK /\ SavesInOrder)
<1>1. Init => TypeOK /\ SavesInOrder
  BY TypeKept DEF Init, SavesInOrder, StatusHasCasebook, Terminal
<1>2. TypeOK /\ SavesInOrder /\ [Next]_vars => (TypeOK /\ SavesInOrder)'
  BY TypeKept, OrderKept
<1>3. QED
  BY <1>1, <1>2, PTL DEF Spec

(* Type correctness of the packet's files, calls, threads and clients.     *)
THEOREM TypeCorrect == Spec => []TypeOK
BY SavesInductive, PTL

(* However handlers, consumers and the drain interleave their two writes,  *)
(* crash between them or fail in them, no reader ever finds status.json    *)
(* terminal with no terminal casebook.json behind it.                      *)
THEOREM CasebookBehindStatus == Spec => []StatusHasCasebook
<1>1. SavesInOrder => StatusHasCasebook
  BY DEF SavesInOrder
<1>2. QED
  BY <1>1, SavesInductive, PTL
----------------------------------------------------------------------------
(* Two investigations, and two files that disagree.                        *)

(* Every step keeps one call on the event loop, and each call in the       *)
(* handler of its own endpoint.                                            *)
LEMMA CallsFitKept ==
    ASSUME TypeOK, CallsFit, [Next]_vars
    PROVE  CallsFit'
<1> USE DEF queueVars, kafkaVars, fileVars, callVars, boundVars
<1>1. ASSUME NEW e \in Endpoints, Consume(e) \/ Redeliver(e) PROVE CallsFit'
  <2>1. CASE Skip(e) \/ Refused(e)
    BY <2>1 DEF Skip, Refused, CallsFit
  <2>2. ASSUME NEW c \in Calls, Forward(e, c) PROVE CallsFit'
    BY <2>2 DEF Forward, CallsFit, TypeOK, OnLoop
  <2>3. CASE Redeliver(e)
    <3>1. /\ UNCHANGED <<at, endpoint, api, apiStops, drain, clientTimeouts>>
          /\ \A c \in Calls : client'[c] \in {"none", client[c]}
      BY <2>3 DEF Redeliver, TypeOK
    <3>2. QED
      BY <3>1 DEF CallsFit
  <2>4. QED
    BY <1>1, <2>1, <2>2, <2>3 DEF Consume
<1>2. ASSUME NEW c \in Calls, Client(c) \/ ClientTimeout(c) PROVE CallsFit'
  <2>1. CASE GetAnswer(c) \/ Commit(c)
    BY <2>1 DEF GetAnswer, Commit, CallsFit, TypeOK
  <2>2. CASE ClientTimeout(c)
    BY <2>2 DEF ClientTimeout, CallsFit, TypeOK
  <2>3. CASE ClientSaves(c)
    <3>1. UNCHANGED <<at, endpoint, api, drain, apiStops, clientTimeouts>>
      BY <2>3 DEF ClientSaves, SaveFaults
    <3>2. clientTimeouts # 0
      BY <2>3 DEF ClientSaves, CallsFit
    <3>3. QED
      BY <3>1, <3>2 DEF CallsFit
  <2>4. QED
    BY <1>2, <2>1, <2>2, <2>3 DEF Client
<1>3. ASSUME NEW c \in Calls, Handler(c) PROVE CallsFit'
  <2> DEFINE Moves(where) == /\ at' = [at EXCEPT ![c] = where]
                             /\ where \in OnLoop =>
                                   /\ endpoint[c] = "analyze"
                                   /\ \A d \in Calls \ {c} : at[d] \notin OnLoop
                             /\ where = "awaiting" => endpoint[c] = "analyze"
                             /\ where \in {"fetching", "fetched", "publishing"}
                                   => endpoint[c] = "fetch"
  <2>1. /\ UNCHANGED <<endpoint, api, drain, client, apiStops, clientTimeouts>>
        /\ at[c] \notin Finished \cup {"idle"}
    BY <1>3 DEF Handler, FetchCheck, FetchReadStatus, FetchMark, FetchPublish, AnalyzeCheck,
                AnalyzeReadStatus, AnalyzeDecide, AnalyzeInvoke, AwaitEnds, Guard, HandlerSavesCasebook,
                HandlerSavesStatus, HandlerFails, SavingFails, SaveFaults, Finished
  <2>2. CASE FetchCheck(c) \/ FetchReadStatus(c) \/ FetchMark(c) \/ FetchPublish(c)
             \/ HandlerFails(c)
    <3>1. \E where \in {"fetching", "fetched", "publishing"} \cup Finished :
             Moves(where)
      BY <2>2 DEF FetchCheck, FetchReadStatus, FetchMark, FetchPublish, HandlerFails, GoTo,
                  Finished, OnLoop, CallsFit
    <3>2. QED
      BY <3>1, <2>1 DEF CallsFit, TypeOK, OnLoop, Finished
  <2>3. CASE AnalyzeCheck(c) \/ AwaitEnds(c)
    <3>1. \E where \in OnLoop \cup Finished : Moves(where)
      BY <2>3 DEF AnalyzeCheck, AwaitEnds, LoopFree, Answer, GoTo, Finished, OnLoop, CallsFit
    <3>2. QED
      BY <3>1, <2>1 DEF CallsFit, TypeOK, OnLoop, Finished
  <2>4. CASE AnalyzeReadStatus(c) \/ AnalyzeDecide(c) \/ AnalyzeInvoke(c) \/ Guard(c)
             \/ HandlerSavesCasebook(c) \/ HandlerSavesStatus(c) \/ SavingFails(c)
    <3>1. at[c] \in OnLoop
      BY <2>4 DEF AnalyzeReadStatus, AnalyzeDecide, AnalyzeInvoke, Guard, HandlerSavesCasebook,
                  HandlerSavesStatus, SavingFails, OnLoop
    <3>2. \E where \in OnLoop \cup Finished \cup {"awaiting"} :
             at' = [at EXCEPT ![c] = where]
      BY <2>4 DEF AnalyzeReadStatus, AnalyzeDecide, AnalyzeInvoke, Guard, HandlerSavesCasebook,
                  HandlerSavesStatus, SavingFails, Answer, GoTo, Finished, OnLoop
    <3>3. \E where \in OnLoop \cup Finished \cup {"awaiting"} : Moves(where)
      BY <3>1, <3>2 DEF CallsFit, OnLoop, Finished
    <3>4. QED
      BY <3>3, <2>1 DEF CallsFit, TypeOK, OnLoop, Finished
  <2>5. QED
    BY <1>3, <2>2, <2>3, <2>4 DEF Handler
<1>4. ASSUME NEW c \in Calls, GraphRuns(c) \/ Recycle(c) PROVE CallsFit'
  <2>1. CASE GraphRuns(c)
    BY <2>1 DEF GraphRuns, CallsFit
  <2>2. CASE Recycle(c)
    BY <2>2 DEF Recycle, GoTo, CallsFit, TypeOK, OnLoop, Finished
  <2>3. QED
    BY <1>4, <2>1, <2>2
<1>5. CASE Crash \/ Exit
  <2>1. /\ api' = "down" /\ UNCHANGED <<endpoint, client, clientTimeouts>>
        /\ \A c \in Calls : at'[c] \in Finished \cup {"idle"}
    BY <1>5 DEF Crash, Exit, Die, Finished
  <2>2. apiStops' # 0
    BY <1>5 DEF Crash, Exit, CallsFit, TypeOK
  <2>3. QED
    BY <2>1, <2>2 DEF CallsFit, OnLoop, Finished
<1>6. CASE DrainSteps
  <2>1. /\ UNCHANGED <<at, endpoint, api, client, apiStops, clientTimeouts>>
        /\ api = "draining"
    BY <1>6 DEF DrainSteps, SaveFaults
  <2>2. QED
    BY <2>1 DEF CallsFit
<1>7. CASE Shutdown
  BY <1>7 DEF Shutdown, CallsFit, TypeOK
<1>8. CASE Restart
  BY <1>8 DEF Restart, CallsFit
<1>9. CASE Age \/ UNCHANGED vars
  BY <1>9 DEF Age, vars, CallsFit
<1>10. QED
  BY <1>1, <1>2, <1>3, <1>4, <1>5, <1>6, <1>7, <1>8, <1>9 DEF Next, Process
(* Every step keeps a rejection that was delivered once from being fetched *)
(* twice, or beside its own analysis.                                      *)
LEMMA FetchedOnceKept ==
    ASSUME TypeOK, CallsFit, FetchedOnce, [Next]_vars
    PROVE  FetchedOnce'
<1> USE DEF queueVars, kafkaVars, fileVars, callVars, boundVars
<1>1. ASSUME NEW e \in Endpoints, Consume(e) PROVE FetchedOnce'
  <2>1. /\ queued[e] > 0 /\ queued[e] \in Nat
        /\ queued' = [queued EXCEPT ![e] = queued[e] - 1] /\ UNCHANGED redeliveries
    BY <1>1 DEF Consume, Skip, Refused, Forward, Take, TypeOK
  <2>2. CASE Skip(e) \/ Refused(e)
    <3>1. UNCHANGED <<at, endpoint>>
      BY <2>2 DEF Skip, Refused
    <3>2. QED
      BY <2>1, <3>1 DEF FetchedOnce, FetchActive, TypeOK, Endpoints
  <2>3. ASSUME NEW c \in Calls, Forward(e, c) PROVE FetchedOnce'
    <3>1. /\ endpoint' = [endpoint EXCEPT ![c] = e]
          /\ at' = [at EXCEPT ![c] = "received"]
      BY <2>3 DEF Forward
    <3>2. QED
      BY <2>1, <3>1 DEF FetchedOnce, FetchActive, TypeOK, Endpoints
  <2>4. QED
    BY <1>1, <2>2, <2>3 DEF Consume
<1>2. ASSUME NEW e \in Endpoints, Redeliver(e) PROVE FetchedOnce'
  <2>1. /\ redeliveries' = [redeliveries EXCEPT ![e] = redeliveries[e] + 1]
        /\ redeliveries[e] \in Nat
        /\ UNCHANGED <<at, endpoint>>
        /\ \E c \in Calls : endpoint[c] = e
        /\ \A f \in Endpoints \ {e} : queued'[f] = queued[f]
    BY <1>2 DEF Redeliver, TypeOK
  <2>2. CASE e = "fetch"
    BY <2>1, <2>2 DEF FetchedOnce, TypeOK, Endpoints
  <2>3. CASE e = "analyze"
    BY <2>1, <2>3 DEF FetchedOnce, FetchActive, TypeOK, Endpoints
  <2>4. QED
    BY <2>2, <2>3 DEF Endpoints
<1>3. ASSUME NEW c \in Calls, Handler(c) PROVE FetchedOnce'
  <2>1. /\ UNCHANGED <<endpoint, redeliveries>> /\ at[c] \notin Finished \cup {"idle"}
        /\ \A d \in Calls \ {c} : at'[d] = at[d]
    BY <1>3 DEF Handler, FetchCheck, FetchReadStatus, FetchMark, FetchPublish, AnalyzeCheck,
                AnalyzeReadStatus, AnalyzeDecide, AnalyzeInvoke, AwaitEnds, Guard, HandlerSavesCasebook,
                HandlerSavesStatus, HandlerFails, SavingFails, SaveFaults, Answer, GoTo, TypeOK,
                Finished
  <2>2. CASE FetchPublish(c)
    <3>1. /\ c \in FetchActive
          /\ at'[c] \in {"failed", "answered"} /\ queued'["fetch"] = queued["fetch"]
      BY <2>2 DEF FetchPublish, FetchActive, GoTo, CallsFit, TypeOK, Endpoints
    <3>2. QED
      BY <3>1, <2>1 DEF FetchedOnce, FetchActive, Finished
  <2>3. ASSUME queued' = queued PROVE FetchedOnce'
    <3>1. endpoint[c] = "fetch" => c \in FetchActive
      BY <2>1 DEF FetchActive, CallsFit, TypeOK, Handling, OnLoop
    <3>2. FetchActive' \subseteq FetchActive
      BY <2>1, <3>1 DEF FetchActive
    <3>3. QED
      BY <2>1, <2>3, <3>2 DEF FetchedOnce, FetchActive, Finished
  <2>4. CASE FetchCheck(c) \/ FetchReadStatus(c) \/ FetchMark(c) \/ AnalyzeCheck(c)
             \/ AnalyzeReadStatus(c) \/ AnalyzeDecide(c) \/ AnalyzeInvoke(c)
    BY <2>3, <2>4 DEF FetchCheck, FetchReadStatus, FetchMark, AnalyzeCheck, AnalyzeReadStatus,
                      AnalyzeDecide, AnalyzeInvoke
  <2>5. CASE AwaitEnds(c) \/ Guard(c) \/ HandlerSavesCasebook(c) \/ HandlerSavesStatus(c)
             \/ HandlerFails(c) \/ SavingFails(c)
    BY <2>3, <2>5 DEF AwaitEnds, Guard, HandlerSavesCasebook, HandlerSavesStatus, HandlerFails,
                      SavingFails
  <2>6. QED
    BY <1>3, <2>2, <2>4, <2>5 DEF Handler
<1>4. ASSUME NEW c \in Calls, Recycle(c) PROVE FetchedOnce'
  <2>1. /\ at[c] \in {"answered", "failed"} /\ at' = [at EXCEPT ![c] = "idle"]
        /\ endpoint' = [endpoint EXCEPT ![c] = "fetch"]
        /\ UNCHANGED <<queued, redeliveries>>
    BY <1>4 DEF Recycle, GoTo, Finished
  <2>2. FetchActive' = FetchActive \ {c} /\ c \notin FetchActive
    BY <2>1 DEF FetchActive, TypeOK
  <2>3. QED
    BY <2>1, <2>2 DEF FetchedOnce, TypeOK
<1>5. CASE Crash \/ Exit
  <2>1. /\ \A c \in Calls : at'[c] \in {"answered", "failed", "idle"}
        /\ \A c \in Calls : at[c] = "idle" => at'[c] = "idle"
        /\ UNCHANGED <<endpoint, queued, redeliveries>>
    BY <1>5 DEF Crash, Exit, Die
  <2>2. QED
    BY <2>1 DEF FetchedOnce, FetchActive
<1>6. CASE \/ \E c \in Calls : Client(c) \/ ClientTimeout(c) \/ GraphRuns(c)
           \/ Age \/ Shutdown \/ DrainSteps \/ Restart \/ UNCHANGED vars
  <2>1. UNCHANGED <<at, endpoint, queued, redeliveries>>
    BY <1>6 DEF Client, GetAnswer, Commit, ClientSaves, ClientTimeout, GraphRuns, Age, Shutdown,
                DrainSteps, Restart, SaveFaults, vars
  <2>2. QED
    BY <2>1 DEF FetchedOnce, FetchActive
<1>7. QED
  BY <1>1, <1>2, <1>3, <1>4, <1>5, <1>6 DEF Next, Process

(* A step that keeps each engaged call where it is, and status.json with   *)
(* it, keeps one call engaged.                                             *)
LEMMA EngagedUntouched ==
    ASSUME OneEngaged, NEW c \in Calls, at'[c] \in {"idle", "received", "checking"} \cup Finished
                                        \/ at'[c] = at[c],
           \A d \in Calls \ {c} : at'[d] = at[d],
           \A d \in Calls : at'[d] = "deciding" => value'[d] = value[d],
           UNCHANGED <<redeliveries, clientTimeouts, api, status, stale>>
    PROVE  OneEngaged'
BY DEF OneEngaged, Engaged, Finished

(* Every step keeps one call engaged.                                      *)
LEMMA OneEngagedKept ==
    ASSUME TypeOK, CallsFit, FetchedOnce, OneEngaged, [Next]_vars
    PROVE  OneEngaged'
<1> USE DEF queueVars, kafkaVars, fileVars, callVars, boundVars
<1>1. ASSUME NEW e \in Endpoints, Consume(e) PROVE OneEngaged'
  <2>1. CASE Skip(e) \/ Refused(e)
    BY <2>1 DEF Skip, Refused, OneEngaged, Engaged
  <2>2. ASSUME NEW c \in Calls, Forward(e, c) PROVE OneEngaged'
    BY <2>2, EngagedUntouched DEF Forward, TypeOK
  <2>3. QED
    BY <1>1, <2>1, <2>2 DEF Consume
<1>2. ASSUME NEW e \in Endpoints, Redeliver(e) PROVE OneEngaged'
  <2>1. /\ redeliveries' = [redeliveries EXCEPT ![e] = redeliveries[e] + 1]
        /\ redeliveries[e] \in Nat
        /\ UNCHANGED <<at, value, status, stale, clientTimeouts, api>>
    BY <1>2 DEF Redeliver, TypeOK
  <2>2. redeliveries'["fetch"] = 0 => redeliveries["fetch"] = 0
    BY <2>1 DEF TypeOK, Endpoints
  <2>3. QED
    BY <2>1, <2>2 DEF OneEngaged, Engaged
<1>3. ASSUME NEW c \in Calls, Client(c) \/ ClientTimeout(c) PROVE OneEngaged'
  <2>1. CASE GetAnswer(c) \/ Commit(c)
    BY <2>1 DEF GetAnswer, Commit, OneEngaged, Engaged
  <2>2. CASE ClientTimeout(c)
    BY <2>2 DEF ClientTimeout, OneEngaged, TypeOK
  <2>3. CASE ClientSaves(c)
    <3>1. clientTimeouts' # 0
      BY <2>3 DEF ClientSaves, SaveFaults, CallsFit
    <3>2. QED
      BY <3>1 DEF OneEngaged
  <2>4. QED
    BY <1>3, <2>1, <2>2, <2>3 DEF Client
<1>4. ASSUME NEW c \in Calls, Handler(c) PROVE OneEngaged'
  <2> USE DEF GoTo, Answer, Forgets, Finished
  <2>1. CASE FetchCheck(c) \/ FetchReadStatus(c) \/ FetchPublish(c)
    BY <2>1 DEF FetchCheck, FetchReadStatus, FetchPublish, OneEngaged, Engaged, TypeOK
  <2>2. CASE FetchMark(c)
    <3>1. c \in FetchActive /\ at' = [at EXCEPT ![c] = "publishing"]
          /\ UNCHANGED <<redeliveries, clientTimeouts, api>>
      BY <2>2 DEF FetchMark, FetchActive, CallsFit
    <3>2. redeliveries["fetch"] = 0 => Engaged' = {}
      BY <3>1 DEF FetchedOnce, FetchActive, Engaged, TypeOK
    <3>3. QED
      BY <3>1, <3>2 DEF OneEngaged
  <2>3. CASE AnalyzeCheck(c)
    BY <2>3, EngagedUntouched DEF AnalyzeCheck, TypeOK
  <2>4. CASE AnalyzeReadStatus(c)
    <3>1. /\ at[c] = "checking" /\ at' = [at EXCEPT ![c] = "deciding"]
          /\ value'[c] # "IN_PROGRESS" => ~(status = "IN_PROGRESS" /\ ~stale)
          /\ UNCHANGED <<redeliveries, clientTimeouts, api, status, stale>>
      BY <2>4 DEF AnalyzeReadStatus, TypeOK
    <3>2. \A d \in Calls \ {c} : at[d] \notin OnLoop
      BY <3>1 DEF CallsFit, OnLoop
    <3>3. Engaged' = Engaged /\ \A d \in Engaged : at[d] # "marking"
      BY <3>1, <3>2 DEF Engaged, OnLoop, TypeOK
    <3>4. \A d \in Calls : at'[d] = "deciding" => d = c
      BY <3>1, <3>2 DEF OnLoop, TypeOK
    <3>5. QED
      BY <3>1, <3>3, <3>4 DEF OneEngaged, Engaged, TypeOK
  <2>10. CASE AnalyzeDecide(c)
    <3>1. CASE at'[c] # "marking"
      BY <2>10, <3>1, EngagedUntouched DEF AnalyzeDecide, TypeOK
    <3>2. CASE at'[c] = "marking"
      <4>1. /\ at[c] = "deciding" /\ value[c] # "IN_PROGRESS" /\ at' = [at EXCEPT ![c] = "marking"]
            /\ UNCHANGED <<redeliveries, clientTimeouts, api, status, stale>>
        BY <2>10, <3>2 DEF AnalyzeDecide, TypeOK
      <4>2. \A d \in Calls \ {c} : at[d] # "marking" /\ at[d] # "deciding"
        BY <2>10 DEF AnalyzeDecide, CallsFit, OnLoop
      <4>3. QED
        BY <4>1, <4>2 DEF OneEngaged, Engaged, TypeOK
    <3>3. QED
      BY <3>1, <3>2
  <2>a. ASSUME at[c] \in OnLoop PROVE \A d \in Calls \ {c} : at[d] # "deciding"
    BY <2>a DEF CallsFit, OnLoop
  <2>5. CASE AnalyzeInvoke(c)
    BY <2>5, <2>a DEF AnalyzeInvoke, SaveStatus, OneEngaged, Engaged, OnLoop, TypeOK
  <2>6. CASE AwaitEnds(c) \/ Guard(c) \/ HandlerSavesCasebook(c) \/ SavingFails(c)
    <3>1. /\ c \in Engaged /\ at[c] # "marking" /\ \A d \in Calls \ {c} : at'[d] = at[d]
          /\ at'[c] # "deciding"
          /\ UNCHANGED <<redeliveries, clientTimeouts, api, status, stale>>
      BY <2>6 DEF AwaitEnds, Guard, HandlerSavesCasebook, SavingFails, SaveCasebook, SaveFaults,
                  Engaged, TypeOK
    <3>2. \A d \in Calls : at'[d] # "deciding"
      BY <2>6, <2>a, <3>1 DEF AwaitEnds, LoopFree, Guard, HandlerSavesCasebook, SavingFails, OnLoop
    <3>3. QED
      BY <3>1, <3>2 DEF OneEngaged, Engaged
  <2>7. CASE HandlerSavesStatus(c)
    <3>1. /\ c \in Engaged /\ at' = [at EXCEPT ![c] = "answered"]
          /\ UNCHANGED <<redeliveries, clientTimeouts, api>>
      BY <2>7 DEF HandlerSavesStatus, Engaged
    <3>2. \A d \in Calls : at'[d] # "deciding"
      BY <2>7, <2>a, <3>1 DEF HandlerSavesStatus, OnLoop, TypeOK
    <3>3. QED
      BY <3>1, <3>2 DEF OneEngaged, Engaged, TypeOK
  <2>8. CASE HandlerFails(c)
    BY <2>8, EngagedUntouched DEF HandlerFails, TypeOK
  <2>9. QED
    BY <1>4, <2>1, <2>2, <2>3, <2>4, <2>5, <2>6, <2>7, <2>8, <2>10 DEF Handler
<1>5. ASSUME NEW c \in Calls, GraphRuns(c) \/ Recycle(c) PROVE OneEngaged'
  BY <1>5, EngagedUntouched DEF GraphRuns, Recycle, GoTo, TypeOK
<1>6. CASE Crash \/ Exit \/ Shutdown \/ DrainSteps
  <2>1. api' # "up"
    BY <1>6 DEF Crash, Exit, Die, Shutdown, DrainSteps
  <2>2. QED
    BY <2>1 DEF OneEngaged
<1>7. CASE Restart
  <2>1. Engaged' = {}
    BY <1>7 DEF Restart, CallsFit, Engaged, Finished
  <2>2. QED
    BY <2>1 DEF OneEngaged
<1>8. CASE Age
  <2>1. Engaged' = {}
    BY <1>8 DEF Age, Engaged, Handling, OnLoop
  <2>2. QED
    BY <2>1 DEF OneEngaged
<1>9. CASE UNCHANGED vars
  BY <1>9 DEF vars, OneEngaged, Engaged
<1>10. QED
  BY <1>1, <1>2, <1>3, <1>4, <1>5, <1>6, <1>7, <1>8, <1>9 DEF Next, Process

(* A step that leaves both files alone, and no call half way between them  *)
(* or out of its save, keeps the pair.                                     *)
LEMMA PairUntouched ==
    ASSUME SavesPair, UNCHANGED <<casebook, status>>,
           OnlyTheLoopSaves' /\ NoHalfSaves' => OnlyTheLoopSaves /\ NoHalfSaves,
           \A c \in Calls : at[c] = "saving_status" <=> at'[c] = "saving_status",
           \A c \in Calls : at'[c] = "saving_status" => value'[c] = value[c]
    PROVE  SavesPair'
BY DEF SavesPair

(* Every step keeps the two files, or the call between them, in agreement. *)
LEMMA SavesPairKept ==
    ASSUME TypeOK, CallsFit, FetchedOnce, OneEngaged, SavesPair, [Next]_vars
    PROVE  SavesPair'
<1> USE DEF queueVars, kafkaVars, fileVars, callVars, boundVars
<1>1. ASSUME NEW e \in Endpoints, Consume(e) PROVE SavesPair'
  <2>1. CASE Skip(e) \/ Refused(e)
    BY <2>1, PairUntouched DEF Skip, Refused, OnlyTheLoopSaves, NoHalfSaves
  <2>2. ASSUME NEW c \in Calls, Forward(e, c) PROVE SavesPair'
    BY <2>2, PairUntouched DEF Forward, OnlyTheLoopSaves, NoHalfSaves, TypeOK
  <2>3. QED
    BY <1>1, <2>1, <2>2 DEF Consume
<1>2. ASSUME NEW e \in Endpoints, Redeliver(e) PROVE SavesPair'
  <2>1. /\ redeliveries' = [redeliveries EXCEPT ![e] = redeliveries[e] + 1]
        /\ redeliveries[e] \in Nat
        /\ UNCHANGED <<at, value, casebook, status, clientTimeouts, apiStops, saveFaults>>
    BY <1>2 DEF Redeliver, TypeOK
  <2>2. redeliveries'["fetch"] = 0 => redeliveries["fetch"] = 0
    BY <2>1 DEF TypeOK, Endpoints
  <2>3. QED
    BY <2>1, <2>2, PairUntouched DEF OnlyTheLoopSaves, NoHalfSaves
<1>3. ASSUME NEW c \in Calls, Client(c) \/ ClientTimeout(c) PROVE SavesPair'
  <2>1. CASE GetAnswer(c) \/ Commit(c)
    BY <2>1, PairUntouched DEF GetAnswer, Commit, OnlyTheLoopSaves, NoHalfSaves
  <2>2. CASE ClientTimeout(c)
    BY <2>2 DEF ClientTimeout, SavesPair, OnlyTheLoopSaves, TypeOK
  <2>3. CASE ClientSaves(c)
    <3>1. clientTimeouts' # 0
      BY <2>3 DEF ClientSaves, SaveFaults, CallsFit
    <3>2. QED
      BY <3>1 DEF SavesPair, OnlyTheLoopSaves
  <2>4. QED
    BY <1>3, <2>1, <2>2, <2>3 DEF Client
<1>4. ASSUME NEW c \in Calls, Handler(c) PROVE SavesPair'
  <2> USE DEF GoTo, Answer, Forgets
  <2>1. CASE FetchCheck(c) \/ FetchReadStatus(c) \/ FetchPublish(c)
    BY <2>1, PairUntouched DEF FetchCheck, FetchReadStatus, FetchPublish, OnlyTheLoopSaves,
                               NoHalfSaves, TypeOK
  <2>2. CASE FetchMark(c)
    <3>1. CASE status' = "LOGS_FETCHED"
      BY <2>2, <3>1 DEF FetchMark, SaveStatus, SavesPair, OnlyTheLoopSaves, NoHalfSaves,
                        Terminal, TypeOK
    <3>2. CASE UNCHANGED fileVars
      BY <2>2, <3>2, PairUntouched DEF FetchMark, OnlyTheLoopSaves, NoHalfSaves, TypeOK
    <3>3. QED
      BY <2>2, <3>1, <3>2 DEF FetchMark, SaveStatus
  <2>3. CASE AnalyzeCheck(c) \/ AnalyzeReadStatus(c) \/ AnalyzeDecide(c) \/ Guard(c)
             \/ HandlerFails(c)
    BY <2>3, PairUntouched DEF AnalyzeCheck, AnalyzeReadStatus, AnalyzeDecide, Guard,
                               HandlerFails, OnlyTheLoopSaves, NoHalfSaves, TypeOK
  <2>4. CASE AnalyzeInvoke(c)
    BY <2>4 DEF AnalyzeInvoke, SaveStatus, SavesPair, OnlyTheLoopSaves, NoHalfSaves, Terminal,
                TypeOK
  <2>5. CASE AwaitEnds(c)
    <3>1. /\ at[c] = "awaiting" /\ at'[c] \in {"guarding", "saving_casebook"}
          /\ \A d \in Calls \ {c} : at'[d] = at[d] /\ value'[d] = value[d]
          /\ UNCHANGED <<casebook, status, redeliveries, clientTimeouts, apiStops, saveFaults>>
      BY <2>5 DEF AwaitEnds, TypeOK
    <3>2. QED
      BY <3>1, PairUntouched DEF OnlyTheLoopSaves, NoHalfSaves
  <2>6. CASE HandlerSavesCasebook(c)
    <3>1. \A d \in Calls : at'[d] = "saving_status" => d = c
      BY <2>6 DEF HandlerSavesCasebook, CallsFit, OnLoop, TypeOK
    <3>2. /\ at'[c] = "saving_status" /\ casebook' = value[c] /\ UNCHANGED value
      BY <2>6 DEF HandlerSavesCasebook, SaveCasebook, TypeOK
    <3>3. QED
      BY <3>1, <3>2 DEF SavesPair
  <2>7. CASE HandlerSavesStatus(c)
    <3>1. \A d \in Calls : at'[d] # "saving_status"
      BY <2>7 DEF HandlerSavesStatus, CallsFit, OnLoop, TypeOK
    <3>2. /\ at[c] = "saving_status" /\ status' = value[c] /\ UNCHANGED casebook
          /\ OnlyTheLoopSaves' /\ NoHalfSaves' => OnlyTheLoopSaves /\ NoHalfSaves
      BY <2>7 DEF HandlerSavesStatus, SaveStatus, OnlyTheLoopSaves, NoHalfSaves
    <3>3. QED
      BY <3>1, <3>2 DEF SavesPair
  <2>8. CASE SavingFails(c)
    <3> SUFFICES ASSUME OnlyTheLoopSaves', NoHalfSaves' PROVE SavesPair'
      BY DEF SavesPair
    <3>1. /\ c \in Engaged /\ at[c] # "marking" /\ at'[c] # "saving_status"
          /\ saveFaults' = saveFaults + 1 /\ saveFaults \in Nat
          /\ UNCHANGED <<casebook, status, api, redeliveries, clientTimeouts, apiStops>>
          /\ \A d \in Calls \ {c} : at'[d] = at[d]
      BY <2>8 DEF SavingFails, SaveFaults, Engaged, TypeOK
    <3>2. redeliveries["fetch"] = 0 /\ clientTimeouts = 0 /\ api = "up"
      BY <3>1 DEF OnlyTheLoopSaves, NoHalfSaves, CallsFit
    <3>3. status = "IN_PROGRESS" /\ \A d \in Engaged : d = c
      BY <3>1, <3>2 DEF OneEngaged
    <3>4. \A d \in Calls : at'[d] # "saving_status"
      BY <3>1, <3>3 DEF Engaged
    <3>5. QED
      BY <3>1, <3>3, <3>4 DEF SavesPair, Terminal
  <2>9. QED
    BY <1>4, <2>1, <2>2, <2>3, <2>4, <2>5, <2>6, <2>7, <2>8 DEF Handler
<1>5. ASSUME NEW c \in Calls, GraphRuns(c) \/ Recycle(c) PROVE SavesPair'
  <2>1. CASE GraphRuns(c)
    BY <2>1, PairUntouched DEF GraphRuns, OnlyTheLoopSaves, NoHalfSaves
  <2>2. CASE Recycle(c)
    BY <2>2, PairUntouched DEF Recycle, GoTo, Finished, OnlyTheLoopSaves, NoHalfSaves, TypeOK
  <2>3. QED
    BY <1>5, <2>1, <2>2
<1>6. CASE Crash \/ Exit \/ Shutdown \/ DrainSteps \/ Restart
  <2>1. apiStops' # 0
    BY <1>6 DEF Crash, Exit, Die, Shutdown, DrainSteps, SaveFaults, Restart, CallsFit, TypeOK
  <2>2. QED
    BY <2>1 DEF SavesPair, OnlyTheLoopSaves
<1>7. CASE Age \/ UNCHANGED vars
  BY <1>7, PairUntouched DEF Age, vars, OnlyTheLoopSaves, NoHalfSaves
<1>8. QED
  BY <1>1, <1>2, <1>3, <1>4, <1>5, <1>6, <1>7 DEF Next, Process

(* The four parts, with the types and the order of the saves, are          *)
(* inductive.                                                              *)
LEMMA LifecycleInductive == Spec => []Lifecycle
<1>1. Init => Lifecycle
  BY DEF Init, Lifecycle, CallsFit, FetchedOnce, FetchActive, OneEngaged, Engaged, SavesPair,
         OnLoop, Finished, Endpoints, Terminal
<1>2. TypeOK /\ Lifecycle /\ [Next]_vars => Lifecycle'
  BY CallsFitKept, FetchedOnceKept, OneEngagedKept, SavesPairKept DEF Lifecycle
<1>3. TypeOK /\ SavesInOrder => TypeOK
  OBVIOUS
<1>4. QED
  BY <1>1, <1>2, <1>3, SavesInductive, PTL DEF Spec

(* Once nobody writes, casebook.json and status.json hold the same         *)
(* outcome: the loop's saves never interleave, and a save that fails       *)
(* between the two leaves status.json at IN_PROGRESS, not at another       *)
(* outcome.                                                                *)
THEOREM FilesAgreeProved == Spec => []FilesAgree
<1>1. Lifecycle => FilesAgree
  BY DEF Lifecycle, SavesPair, FilesAgree, Writing
<1>2. QED
  BY <1>1, LifecycleInductive, PTL

(* However its analysis message is redelivered, delayed or answered: while *)
(* the API stays up, no client has timed out and the rejection was         *)
(* delivered once, at most one handler waits for a running graph.          *)
THEOREM OneInvestigationProved == Spec => []OneUnlessRefetched
<1>1. TypeOK /\ Lifecycle => OneUnlessRefetched
  <2> SUFFICES ASSUME TypeOK, Lifecycle, redeliveries["fetch"] = 0, clientTimeouts = 0, api = "up"
               PROVE  OneInvestigation
    BY DEF OneUnlessRefetched
  <2>1. \A c, d \in Investigating : c = d
    BY DEF Lifecycle, OneEngaged, Engaged, Investigating
  <2>2. CASE Investigating = {}
    BY <2>2, FS_EmptySet DEF OneInvestigation
  <2>3. CASE Investigating # {}
    <3>1. PICK c : c \in Investigating
      BY <2>3
    <3>2. Investigating = {c}
      BY <2>1, <3>1
    <3>3. QED
      BY <3>2, FS_Singleton DEF OneInvestigation
  <2>4. QED
    BY <2>2, <2>3
<1>2. TypeOK /\ SavesInOrder => TypeOK
  OBVIOUS
<1>3. QED
  BY <1>1, <1>2, LifecycleInductive, SavesInductive, PTL
----------------------------------------------------------------------------
(* No packet is stranded.                                                  *)

(* An idle call never has a client: a call is recycled when its client has *)
(* gone, and a message is forwarded on an idle call.                       *)
LEMMA IdleUnclaimedKept ==
    ASSUME TypeOK, IdleUnclaimed, [Next]_vars
    PROVE  IdleUnclaimed'
<1> USE DEF queueVars, kafkaVars, fileVars, callVars, boundVars, IdleUnclaimed
<1>1. ASSUME NEW e \in Endpoints, Consume(e) PROVE IdleUnclaimed'
  <2>1. CASE Skip(e) \/ Refused(e)
    BY <2>1 DEF Skip, Refused
  <2>2. ASSUME NEW c \in Calls, Forward(e, c) PROVE IdleUnclaimed'
    BY <2>2 DEF Forward, TypeOK
  <2>3. QED
    BY <1>1, <2>1, <2>2 DEF Consume
<1>2. ASSUME NEW e \in Endpoints, Redeliver(e) PROVE IdleUnclaimed'
  <2>1. UNCHANGED at /\ \A c \in Calls : client[c] = "none" => client'[c] = "none"
    BY <1>2 DEF Redeliver
  <2>2. QED
    BY <2>1
<1>3. ASSUME NEW c \in Calls, Client(c) \/ ClientTimeout(c) PROVE IdleUnclaimed'
  <2>1. UNCHANGED at /\ \A d \in Calls : client[d] = "none" => client'[d] = "none"
    BY <1>3 DEF Client, GetAnswer, Commit, ClientSaves, ClientTimeout, TypeOK
  <2>2. QED
    BY <2>1
<1>4. ASSUME NEW c \in Calls, Handler(c) PROVE IdleUnclaimed'
  <2>1. CASE FetchCheck(c) \/ FetchReadStatus(c) \/ FetchMark(c) \/ FetchPublish(c)
    BY <2>1 DEF FetchCheck, FetchReadStatus, FetchMark, FetchPublish, GoTo, TypeOK
  <2>2. CASE AnalyzeCheck(c) \/ AnalyzeReadStatus(c) \/ AnalyzeDecide(c) \/ AnalyzeInvoke(c)
             \/ AwaitEnds(c)
    BY <2>2 DEF AnalyzeCheck, AnalyzeReadStatus, AnalyzeDecide, AnalyzeInvoke, AwaitEnds, Answer,
                GoTo, TypeOK
  <2>3. CASE Guard(c) \/ HandlerSavesCasebook(c) \/ HandlerSavesStatus(c)
    BY <2>3 DEF Guard, HandlerSavesCasebook, HandlerSavesStatus, Answer, GoTo, TypeOK
  <2>4. CASE HandlerFails(c) \/ SavingFails(c)
    BY <2>4 DEF HandlerFails, SavingFails, GoTo, TypeOK
  <2>5. QED
    BY <1>4, <2>1, <2>2, <2>3, <2>4 DEF Handler
<1>5. ASSUME NEW c \in Calls, GraphRuns(c) \/ Recycle(c) PROVE IdleUnclaimed'
  BY <1>5 DEF GraphRuns, Recycle, GoTo, TypeOK
<1>6. CASE Crash \/ Exit
  BY <1>6 DEF Crash, Exit, Die
<1>7. CASE Age \/ Shutdown \/ DrainSteps \/ Restart \/ UNCHANGED vars
  BY <1>7 DEF Age, Shutdown, DrainSteps, Restart, vars
<1>8. QED
  BY <1>1, <1>2, <1>3, <1>4, <1>5, <1>6, <1>7 DEF Next, Process

(* What an unsettled packet looks like: no terminal status anywhere, and   *)
(* nobody between the two writes of one.                                   *)
LEMMA Unsettled ==
    ASSUME TypeOK, SavesInOrder, ~Settled
    PROVE  /\ casebook \notin Terminal /\ inDlq = FALSE /\ TerminalStatus = "none"
           /\ drain # "saving_status"
           /\ \A c \in Calls : /\ client[c] # "saving_status" /\ at[c] # "saving_status"
                               /\ at[c] = "saving_casebook" => value[c] \in Terminal
BY DEF TypeOK, SavesInOrder, StatusHasCasebook, Settled, TerminalStatus, Terminal

(* A settled packet stays settled: a casebook is only ever replaced by     *)
(* another terminal one, and nothing leaves the DLQ.                       *)
LEMMA SettledStays ==
    ASSUME TypeOK, SavesInOrder, [Next]_vars, Settled
    PROVE  Settled'
<1> USE DEF queueVars, kafkaVars, fileVars, callVars, boundVars, Settled
<1>1. ASSUME NEW e \in Endpoints, Consume(e) \/ Redeliver(e) PROVE Settled'
  BY <1>1 DEF Consume, Skip, Refused, Forward, Redeliver
<1>2. ASSUME NEW c \in Calls, Client(c) \/ ClientTimeout(c) PROVE Settled'
  BY <1>2 DEF Client, GetAnswer, Commit, ClientSaves, ClientTimeout, SaveCasebook, SaveStatus, Terminal
<1>3. ASSUME NEW c \in Calls, Handler(c) PROVE Settled'
  <2>1. CASE HandlerSavesCasebook(c)
    BY <2>1 DEF HandlerSavesCasebook, SaveCasebook, SavesInOrder
  <2>2. CASE FetchCheck(c) \/ FetchReadStatus(c) \/ FetchMark(c) \/ FetchPublish(c)
             \/ AnalyzeCheck(c) \/ AnalyzeReadStatus(c) \/ AnalyzeDecide(c) \/ AnalyzeInvoke(c)
    BY <2>2 DEF FetchCheck, FetchReadStatus, FetchMark, FetchPublish, AnalyzeCheck,
                AnalyzeReadStatus, AnalyzeDecide, AnalyzeInvoke, SaveStatus
  <2>3. CASE AwaitEnds(c) \/ Guard(c) \/ HandlerSavesStatus(c) \/ HandlerFails(c) \/ SavingFails(c)
    BY <2>3 DEF AwaitEnds, Guard, HandlerSavesStatus, HandlerFails, SavingFails, SaveStatus
  <2>4. QED
    BY <1>3, <2>1, <2>2, <2>3 DEF Handler
<1>4. CASE \/ \E c \in Calls : GraphRuns(c) \/ Recycle(c)
           \/ Age \/ Crash \/ Shutdown \/ Process \/ UNCHANGED vars
  BY <1>4 DEF GraphRuns, Recycle, Age, Crash, Die, Shutdown, Process, DrainSteps, Exit, Restart,
              SaveCasebook, SaveStatus, Terminal, vars
<1>5. QED
  BY <1>1, <1>2, <1>3, <1>4 DEF Next

(* What a step leaves of the excuses: counters only grow, and a loss is    *)
(* never forgotten.                                                        *)
LEMMA ExcusesStay ==
    ASSUME TypeOK, [Next]_vars
    PROVE  /\ apiStops > 0 => apiStops' > 0
           /\ saveFaults > 0 => saveFaults' > 0
           /\ \A e \in Endpoints : redeliveries[e] > 0 => redeliveries'[e] > 0
           /\ lost => lost'
<1> DEFINE Grown == /\ apiStops' \in {apiStops, apiStops + 1}
                    /\ saveFaults' \in {saveFaults, saveFaults + 1}
                    /\ \A e \in Endpoints : redeliveries'[e] \in {redeliveries[e], redeliveries[e] + 1}
                    /\ lost => lost'
<1> SUFFICES Grown
  <2>1. apiStops \in Nat /\ saveFaults \in Nat /\ \A e \in Endpoints : redeliveries[e] \in Nat
    BY DEF TypeOK
  <2>2. QED
    BY <2>1
<1> USE DEF queueVars, kafkaVars, boundVars
<1>1. ASSUME NEW e \in Endpoints, Consume(e) \/ Redeliver(e) PROVE Grown
  <2>1. CASE Consume(e)
    BY <2>1 DEF Consume, Skip, Refused, Forward, Take
  <2>2. CASE Redeliver(e)
    <3>1. /\ redeliveries' = [redeliveries EXCEPT ![e] = redeliveries[e] + 1]
          /\ redeliveries \in [Endpoints -> Nat]
          /\ UNCHANGED <<apiStops, saveFaults, lost>>
      BY <2>2 DEF Redeliver, TypeOK
    <3>2. QED
      BY <3>1
  <2>3. QED
    BY <1>1, <2>1, <2>2
<1>2. ASSUME NEW c \in Calls, Client(c) \/ ClientTimeout(c) PROVE Grown
  BY <1>2 DEF Client, GetAnswer, Commit, ClientSaves, ClientTimeout, SaveFaults
<1>3. ASSUME NEW c \in Calls, Handler(c) PROVE Grown
  <2>1. CASE SavingFails(c)
    BY <2>1 DEF SavingFails, SaveFaults
  <2>2. CASE FetchCheck(c) \/ FetchReadStatus(c) \/ FetchMark(c) \/ AnalyzeCheck(c)
             \/ AnalyzeReadStatus(c) \/ AnalyzeDecide(c) \/ AnalyzeInvoke(c)
    BY <2>2 DEF FetchCheck, FetchReadStatus, FetchMark, AnalyzeCheck, AnalyzeReadStatus,
                AnalyzeDecide, AnalyzeInvoke
  <2>3. CASE AwaitEnds(c) \/ Guard(c) \/ HandlerSavesCasebook(c) \/ HandlerSavesStatus(c)
             \/ HandlerFails(c)
    BY <2>3 DEF AwaitEnds, Guard, HandlerSavesCasebook, HandlerSavesStatus, HandlerFails
  <2>4. CASE FetchPublish(c)
    <3>1. UNCHANGED boundVars /\ (lost => lost')
      BY <2>4, Zenon DEF FetchPublish
    <3>2. QED
      BY <3>1
  <2>5. QED
    BY <1>3, <2>1, <2>2, <2>3, <2>4 DEF Handler
<1>4. CASE \/ \E c \in Calls : GraphRuns(c) \/ Recycle(c)
           \/ Age \/ Crash \/ Shutdown \/ Process \/ UNCHANGED vars
  <2>1. CASE Crash \/ Shutdown \/ Exit \/ Restart
    BY <2>1 DEF Crash, Shutdown, Exit, Die, Restart
  <2>2. CASE DrainSteps
    BY <2>2 DEF DrainSteps, SaveFaults
  <2>3. CASE Age \/ UNCHANGED vars \/ \E c \in Calls : GraphRuns(c) \/ Recycle(c)
    BY <2>3 DEF Age, GraphRuns, Recycle, vars
  <2>4. QED
    BY <1>4, <2>1, <2>2, <2>3 DEF Process
<1>5. QED
  BY <1>1, <1>2, <1>3, <1>4 DEF Next

(* A message is done with once its call answered, which a handler does not *)
(* take back, or once the packet is in the DLQ.                            *)
LEMMA DoneKept ==
    ASSUME TypeOK, SavesInOrder, DoneIsOver, [Next]_vars
    PROVE  DoneIsOver'
<1> SUFFICES ASSUME ~Settled', NEW d \in Calls, client'[d] = "done"
             PROVE  at'[d] \in Finished
  BY DEF DoneIsOver
<1>u. ~Settled
  BY SettledStays
<1>g. client[d] = "done" => at[d] \in Finished
  BY <1>u DEF DoneIsOver
<1> USE DEF queueVars, kafkaVars, fileVars, callVars, boundVars, Finished
<1>1. ASSUME NEW e \in Endpoints, Consume(e) \/ Redeliver(e) PROVE at'[d] \in Finished
  <2>1. CASE Skip(e) \/ Refused(e)
    BY <2>1, <1>g DEF Skip, Refused
  <2>2. ASSUME NEW c \in Calls, Forward(e, c) PROVE at'[d] \in Finished
    BY <2>2, <1>g DEF Forward, TypeOK
  <2>3. CASE Redeliver(e)
    BY <2>3, <1>g DEF Redeliver, TypeOK
  <2>4. QED
    BY <1>1, <2>1, <2>2, <2>3 DEF Consume
<1>2. ASSUME NEW c \in Calls, Client(c) \/ ClientTimeout(c) PROVE at'[d] \in Finished
  <2>1. CASE GetAnswer(c) \/ Commit(c) \/ ClientTimeout(c)
    BY <2>1, <1>g DEF GetAnswer, Commit, ClientTimeout, TypeOK
  <2>2. CASE ClientSaves(c)
    <3>1. UNCHANGED at /\ client'[c] # "done"
      BY <2>2 DEF ClientSaves, Settled, TypeOK
    <3>2. client'[d] = client[d]
      BY <2>2, <3>1 DEF ClientSaves, TypeOK
    <3>3. QED
      BY <3>1, <3>2, <1>g
  <2>3. QED
    BY <1>2, <2>1, <2>2 DEF Client
<1>3. ASSUME NEW c \in Calls, Handler(c) PROVE at'[d] \in Finished
  <2>1. at[c] \notin Finished /\ UNCHANGED client /\ (d # c => at'[d] = at[d])
    BY <1>3 DEF Handler, FetchCheck, FetchReadStatus, FetchMark, FetchPublish, AnalyzeCheck,
                AnalyzeReadStatus, AnalyzeDecide, AnalyzeInvoke, AwaitEnds, Guard,
                HandlerSavesCasebook, HandlerSavesStatus, HandlerFails, SavingFails, Answer, GoTo,
                TypeOK
  <2>2. QED
    BY <2>1, <1>g
<1>4. ASSUME NEW c \in Calls, GraphRuns(c) \/ Recycle(c) PROVE at'[d] \in Finished
  BY <1>4, <1>g DEF GraphRuns, Recycle, GoTo, TypeOK
<1>5. CASE Crash \/ Exit
  BY <1>5, <1>g DEF Crash, Exit, Die
<1>6. CASE Age \/ Shutdown \/ DrainSteps \/ Restart \/ UNCHANGED vars
  BY <1>6, <1>g DEF Age, Shutdown, DrainSteps, Restart, vars
<1>7. QED
  BY <1>1, <1>2, <1>3, <1>4, <1>5, <1>6 DEF Next, Process

(* A handler loses its caller only to a redelivery: an answer ends it, and *)
(* a consumer's timeout settles the packet.                                *)
LEMMA OrphansKept ==
    ASSUME TypeOK, SavesInOrder, OrphansRedelivered, DoneIsOver, [Next]_vars
    PROVE  OrphansRedelivered'
<1> DEFINE Open == Handling \cup {"received"}
<1> SUFFICES ASSUME ~Settled',
                    NEW d \in Calls, at'[d] \in Open, client'[d] = "none"
             PROVE  redeliveries'[endpoint'[d]] > 0
  BY DEF OrphansRedelivered
<1>u. ~Settled
  BY SettledStays
<1>n. casebook \notin Terminal
  BY <1>u, Unsettled
<1>g. ASSUME at[d] \in Open, client[d] = "none", endpoint'[d] = endpoint[d]
      PROVE  redeliveries'[endpoint'[d]] > 0
  <2>1. redeliveries[endpoint[d]] > 0 /\ endpoint[d] \in Endpoints
    BY <1>u, <1>g DEF OrphansRedelivered, TypeOK
  <2>2. QED
    BY <1>g, <2>1, ExcusesStay
<1> HIDE DEF Open
<1> USE DEF queueVars, kafkaVars, fileVars, callVars, boundVars
<1>1. ASSUME NEW e \in Endpoints, Consume(e) PROVE redeliveries'[endpoint'[d]] > 0
  <2>1. CASE Skip(e) \/ Refused(e)
    BY <2>1, <1>g DEF Skip, Refused
  <2>2. ASSUME NEW c \in Calls, Forward(e, c) PROVE redeliveries'[endpoint'[d]] > 0
    <3>1. client'[c] = "waiting"
      BY <2>2 DEF Forward, TypeOK
    <3>2. d # c /\ at'[d] = at[d] /\ client'[d] = client[d] /\ endpoint'[d] = endpoint[d]
      BY <2>2, <3>1 DEF Forward, TypeOK
    <3>3. QED
      BY <3>2, <1>g
  <2>3. QED
    BY <1>1, <2>1, <2>2 DEF Consume
<1>2. ASSUME NEW e \in Endpoints, Redeliver(e) PROVE redeliveries'[endpoint'[d]] > 0
  <2>1. UNCHANGED <<at, endpoint>>
    BY <1>2 DEF Redeliver
  <2>2. CASE client[d] = "none"
    BY <2>1, <2>2, <1>g
  <2>3. CASE client[d] # "none"
    <3>1. endpoint[d] = e
      BY <1>2, <2>3 DEF Redeliver
    <3>2. redeliveries'[e] = redeliveries[e] + 1 /\ redeliveries[e] \in Nat
      BY <1>2 DEF Redeliver, TypeOK
    <3>3. QED
      BY <2>1, <3>1, <3>2
  <2>4. QED
    BY <2>2, <2>3
<1>3. ASSUME NEW c \in Calls, Client(c) \/ ClientTimeout(c) PROVE redeliveries'[endpoint'[d]] > 0
  <2>1. UNCHANGED <<at, endpoint>>
    BY <1>3 DEF Client, GetAnswer, Commit, ClientSaves, ClientTimeout
  <2>2. CASE client[d] = "none"
    BY <2>1, <2>2, <1>g
  <2>3. CASE client[d] # "none" /\ (GetAnswer(c) \/ Commit(c))
    <3>1. at[d] \in Finished
      BY <2>3, <1>u DEF GetAnswer, Commit, DoneIsOver, TypeOK
    <3>2. QED
      BY <2>1, <3>1 DEF Open, Handling, OnLoop, Finished
  <2>4. CASE client[d] # "none" /\ (ClientSaves(c) \/ ClientTimeout(c))
    <3>1. inDlq'
      BY <2>4 DEF ClientSaves, ClientTimeout, TypeOK
    <3>2. QED
      BY <3>1 DEF Settled
  <2>5. QED
    BY <1>3, <2>2, <2>3, <2>4 DEF Client
<1>4. ASSUME NEW c \in Calls, Handler(c) PROVE redeliveries'[endpoint'[d]] > 0
  <2>1. at[c] \in Open /\ UNCHANGED <<client, endpoint>> /\ (d # c => at'[d] = at[d])
    <3>1. CASE FetchCheck(c) \/ FetchReadStatus(c) \/ FetchMark(c) \/ FetchPublish(c)
      BY <3>1 DEF FetchCheck, FetchReadStatus, FetchMark, FetchPublish, GoTo, TypeOK, Open,
                  Handling, OnLoop
    <3>2. CASE AnalyzeCheck(c) \/ AnalyzeReadStatus(c) \/ AnalyzeDecide(c) \/ AnalyzeInvoke(c)
               \/ AwaitEnds(c)
      BY <3>2 DEF AnalyzeCheck, AnalyzeReadStatus, AnalyzeDecide, AnalyzeInvoke, AwaitEnds, Answer,
                  GoTo, TypeOK, Open, Handling, OnLoop
    <3>3. CASE Guard(c) \/ HandlerSavesCasebook(c) \/ HandlerSavesStatus(c)
      BY <3>3 DEF Guard, HandlerSavesCasebook, HandlerSavesStatus, Answer, GoTo, TypeOK,
                  Open, Handling, OnLoop
    <3>4. CASE HandlerFails(c) \/ SavingFails(c)
      BY <3>4 DEF HandlerFails, SavingFails, GoTo, TypeOK, Open, Handling, OnLoop
    <3>5. QED
      BY <1>4, <3>1, <3>2, <3>3, <3>4 DEF Handler
  <2>2. QED
    BY <2>1, <1>g
<1>5. ASSUME NEW c \in Calls, GraphRuns(c) \/ Recycle(c) PROVE redeliveries'[endpoint'[d]] > 0
  <2>1. at'[d] = at[d] /\ endpoint'[d] = endpoint[d] /\ UNCHANGED client
    BY <1>5 DEF GraphRuns, Recycle, GoTo, TypeOK, Open, Handling, OnLoop
  <2>2. QED
    BY <2>1, <1>g
<1>6. CASE Crash \/ Exit
  <2>1. at'[d] \in Finished \cup {"idle"}
    BY <1>6 DEF Crash, Exit, Die, Finished
  <2>2. QED
    BY <2>1 DEF Open, Handling, OnLoop, Finished
<1>7. CASE Age \/ Shutdown \/ DrainSteps \/ Restart \/ UNCHANGED vars
  BY <1>7, <1>g DEF Age, Shutdown, DrainSteps, Restart, vars
<1>8. QED
  BY <1>1, <1>2, <1>3, <1>4, <1>5, <1>6, <1>7 DEF Next, Process

(* A call that a step leaves with whoever has it in hand.                  *)
StillHeld(d) ==
    /\ d \in Running => d \in Running'
    /\ d \in ToDlq => d \in ToDlq' /\ endpoint'[d] = endpoint[d]
    /\ d \in Pending => /\ d \in Pending' /\ endpoint'[d] = endpoint[d]
                        /\ at[d] = "failed" => at'[d] = "failed"

(* When every call stays with whoever has it, the packet stays in hand,    *)
(* and a stub keeps its owner.                                             *)
LEMMA OwnerStays ==
    ASSUME TypeOK, [Next]_vars, Owned, \A d \in Calls : StillHeld(d)
    PROVE  Owned'
<1>1. saveFaults > 0 => saveFaults' > 0
  BY ExcusesStay
<1>2. Running \subseteq Running'
  BY DEF StillHeld, Running
<1>3. ASSUME NEW d \in ToldOfFailure PROVE d \in ToldOfFailure'
  BY <1>3 DEF StillHeld, ToldOfFailure
<1>4. QED
  BY <1>1, <1>2, <1>3 DEF Owned

LEMMA HandsStay ==
    ASSUME InHand, \A d \in Calls : StillHeld(d),
           \A e \in Endpoints : queued[e] > 0 => queued'[e] > 0
    PROVE  InHand'
<1>1. Running \subseteq Running' /\ ToDlq \subseteq ToDlq' /\ Pending \subseteq Pending'
  BY DEF StillHeld, Running, ToDlq, Pending
<1>2. QED
  BY <1>1 DEF InHand

(* Nothing is claimed by a step that marks no stub and reads none.         *)
LEMMA ClaimedFades ==
    ASSUME status' \in {status, "LOGS_FETCHED"},
           \A d \in Calls : at'[d] = "deciding" => at[d] = "deciding" /\ value'[d] = value[d]
    PROVE  Claimed' => Claimed
BY DEF Claimed

(* The owner of a stub has the packet in hand.                             *)
LEMMA OwnerHasIt == Owned => InHand
BY DEF Owned, InHand, ToldOfFailure

(* A step that moves one call, from one place on its way to another with   *)
(* its client still there, or out of everybody's hands to begin with.      *)
LEMMA MovesOn ==
    ASSUME TypeOK, NEW c \in Calls, NEW where \in Handling \cup {"received", "failed"},
           GoTo(c, where), UNCHANGED <<client, endpoint>>,
           at[c] \in Handling \cup {"received"},
           c \in Running => where \in {"awaiting", "guarding", "saving_casebook", "saving_status"}
    PROVE  \A d \in Calls : StillHeld(d)
<1> TAKE d \in Calls
<1>1. CASE d # c
  BY <1>1 DEF GoTo, StillHeld, Running, ToDlq, Pending, TypeOK
<1>2. CASE d = c
  <2>1. at'[c] = where /\ at[c] # "failed"
    BY DEF GoTo, TypeOK, Handling, OnLoop
  <2>2. QED
    BY <1>2, <2>1 DEF StillHeld, Running, ToDlq, Pending
<1>3. QED
  BY <1>1, <1>2

(* While the API is up, no send was lost and no excuse arises, a step of   *)
(* an unsettled packet leaves it in somebody's hands, and a stub with its  *)
(* owner.                                                                  *)
LEMMA HandsKept ==
    ASSUME TypeOK, SavesInOrder, CallsFit, HandedOn, [Next]_vars, ~Settled', ~Excused'
    PROVE  InHand' /\ (Claimed' => Owned')
<1> DEFINE Goal == InHand' /\ (Claimed' => Owned')
<1>u. ~Settled /\ ~Settled'
  BY SettledStays
<1>x. ~Excused /\ apiStops = 0 /\ ~Excused'
  BY ExcusesStay DEF Excused, TypeOK, Endpoints
<1>a. api = "up"
  BY <1>x DEF CallsFit
<1>n. /\ casebook \notin Terminal /\ inDlq = FALSE /\ TerminalStatus = "none"
      /\ \A c \in Calls : /\ client[c] # "saving_status" /\ at[c] # "saving_status"
                          /\ at[c] = "saving_casebook" => value[c] \in Terminal
  BY <1>u, Unsettled
<1>h. InHand /\ (Claimed => Owned)
  BY <1>u, <1>x DEF HandedOn, NotStranded, StubOwned
<1>k. ASSUME Claimed' => Claimed, \A d \in Calls : StillHeld(d),
             \A e \in Endpoints : queued[e] > 0 => queued'[e] > 0
      PROVE  Goal
  <2>1. InHand'
    BY <1>h, <1>k, HandsStay
  <2>2. ASSUME Claimed' PROVE Owned'
    BY <1>h, <1>k, <2>2, OwnerStays
  <2>3. QED
    BY <2>1, <2>2
<1>o. Owned' => Goal
  <2>1. Owned' => InHand'
    BY OwnerHasIt, PTL
  <2>2. QED
    BY <2>1
<1> SUFFICES Goal
  OBVIOUS
<1> HIDE DEF Goal
<1> USE DEF queueVars, kafkaVars, fileVars, callVars, boundVars
<1>1. ASSUME NEW e \in Endpoints, Consume(e) PROVE Goal
  <2>1. CASE Skip(e) \/ Refused(e)
    BY <2>1, <1>u, <1>n DEF Skip, Refused, Settled
  <2>2. ASSUME NEW c \in Calls, Forward(e, c) PROVE Goal
    <3>1. /\ at[c] = "idle" /\ client[c] = "none"
          /\ at' = [at EXCEPT ![c] = "received"] /\ client' = [client EXCEPT ![c] = "waiting"]
          /\ endpoint' = [endpoint EXCEPT ![c] = e] /\ UNCHANGED <<status, value, saveFaults>>
      BY <2>2 DEF Forward, HandedOn, IdleUnclaimed
    <3>2. \A d \in Calls : StillHeld(d)
      BY <3>1 DEF StillHeld, Running, ToDlq, Pending, TypeOK
    <3>3. c \in Pending'
      BY <3>1 DEF Pending, TypeOK
    <3>c. Claimed' => Claimed
      BY <3>1, ClaimedFades DEF TypeOK
    <3>4. Claimed' => Owned'
      BY <1>h, <3>c, <3>2, OwnerStays
    <3>5. QED
      BY <3>3, <3>4 DEF Goal, InHand
  <2>3. QED
    BY <1>1, <2>1, <2>2 DEF Consume
<1>2. ASSUME NEW e \in Endpoints, Redeliver(e) PROVE Goal
  <2> DEFINE held == {c \in Calls : client[c] # "none" /\ endpoint[c] = e}
  <2>1. /\ held # {}
        /\ redeliveries' = [redeliveries EXCEPT ![e] = redeliveries[e] + 1]
        /\ queued' = [queued EXCEPT ![e] = queued[e] + Cardinality(held)]
        /\ \A d \in Calls \ held : client'[d] = client[d]
        /\ UNCHANGED <<at, endpoint, value, status, saveFaults, lost, apiStops>>
    BY <1>2 DEF Redeliver
  <2>c. Claimed' => Claimed
    BY <2>1, ClaimedFades
  <2>2. queued'[e] > 0
    <3>1. IsFiniteSet(held)
      BY CallsAssumption, FS_Subset
    <3>2. Cardinality(held) \in Nat /\ Cardinality(held) # 0
      BY <2>1, <3>1, FS_CardinalityType, FS_EmptySet
    <3>3. QED
      BY <2>1, <3>2 DEF TypeOK
  <2>3. CASE e = "analyze"
    <3>1. redeliveries'["analyze"] > 0
      BY <2>1, <2>3 DEF TypeOK
    <3>2. saveFaults' = 0
      BY <1>x, <3>1, <2>1 DEF Excused, TypeOK
    <3>3. Running' = Running /\ saveFaults = 0
      BY <2>1, <3>2 DEF Running
    <3>4. Claimed' => Owned'
      BY <1>h, <2>c, <3>3 DEF Owned
    <3>5. QED
      BY <2>2, <3>4 DEF Goal, InHand
  <2>4. CASE e = "fetch"
    <3>1. Running \subseteq Running'
      BY <2>1 DEF Running
    <3>2. ToldOfFailure \subseteq ToldOfFailure'
      BY <2>1, <2>4 DEF ToldOfFailure, ToDlq, Pending
    <3>3. Claimed' => Owned'
      BY <1>h, <2>1, <2>c, <3>1, <3>2 DEF Owned
    <3>4. QED
      BY <2>2, <3>3 DEF Goal, InHand
  <2>5. QED
    BY <2>3, <2>4 DEF Endpoints
<1>3. ASSUME NEW c \in Calls, Client(c) \/ ClientTimeout(c) PROVE Goal
  <2>c. Claimed' => Claimed
    <3>1. UNCHANGED <<at, value>> /\ status' = status
      BY <1>3, <1>u, <1>n DEF Client, GetAnswer, Commit, ClientSaves, ClientTimeout, SaveCasebook
    <3>2. QED
      BY <3>1, ClaimedFades
  <2>1. CASE GetAnswer(c) \/ Commit(c)
    <3>1. GetAnswer(c) => at[c] # "failed"
      BY <1>u DEF GetAnswer, Settled
    <3>2. c \notin ToDlq /\ c \notin Pending
      BY <2>1, <3>1 DEF GetAnswer, Commit, ToDlq, Pending, Finished, Handling, OnLoop
    <3>3. \A d \in Calls : StillHeld(d)
      BY <2>1, <3>2 DEF GetAnswer, Commit, StillHeld, Running, ToDlq, Pending, TypeOK
    <3>4. QED
      BY <2>1, <2>c, <3>3, <1>k DEF GetAnswer, Commit
  <2>2. CASE ClientSaves(c)
    <3>1. /\ client[c] \in {"saving_casebook", "saving_status"}
          /\ client' = [client EXCEPT ![c] = "publishing"]
          /\ UNCHANGED <<queued, status, at, endpoint>>
      BY <2>2, <1>u, <1>n DEF ClientSaves, SaveCasebook, Settled, Terminal
    <3>2. \A d \in Calls : StillHeld(d)
      BY <3>1 DEF StillHeld, Running, ToDlq, Pending, TypeOK
    <3>3. QED
      BY <2>c, <3>1, <3>2, <1>k
  <2>3. CASE ClientTimeout(c)
    <3>1. /\ client[c] = "waiting" /\ at[c] \notin Finished
          /\ client' = [client EXCEPT ![c] = "saving_casebook"]
          /\ UNCHANGED <<queued, status, at, endpoint>>
      BY <2>3 DEF ClientTimeout
    <3>2. c \in ToDlq'
      BY <3>1 DEF ToDlq, TypeOK
    <3>3. InHand'
      BY <3>2 DEF InHand
    <3>4. Running \subseteq Running' /\ ToldOfFailure \subseteq ToldOfFailure'
      BY <3>1 DEF Running, ToldOfFailure, ToDlq, Pending, Finished, TypeOK
    <3>5. saveFaults' = saveFaults
      BY <2>3 DEF ClientTimeout
    <3>6. Claimed' => Owned'
      BY <1>h, <2>c, <3>4, <3>5 DEF Owned
    <3>7. QED
      BY <3>3, <3>6 DEF Goal
  <2>4. QED
    BY <1>3, <2>1, <2>2, <2>3 DEF Client
<1>4. ASSUME NEW c \in Calls, Handler(c) PROVE Goal
  <2> DEFINE Places == Handling \cup {"received", "failed"}
  <2>m. ASSUME NEW where \in Places, GoTo(c, where), UNCHANGED <<client, endpoint>>,
               at[c] \in Handling \cup {"received"},
               c \in Running => where \in {"awaiting", "guarding", "saving_casebook",
                                           "saving_status"},
               status' \in {status, "LOGS_FETCHED"}, where # "deciding",
               \A d \in Calls \ {c} : value'[d] = value[d],
               \A e \in Endpoints : queued[e] > 0 => queued'[e] > 0
        PROVE  Goal
    <3>1. \A d \in Calls : at'[d] = "deciding" => at[d] = "deciding" /\ value'[d] = value[d]
      BY <2>m DEF GoTo, TypeOK
    <3>2. QED
      BY <2>m, <3>1, <1>k, MovesOn, ClaimedFades
  <2> USE DEF Handling, OnLoop, Running
  <2>1. CASE FetchCheck(c) \/ FetchReadStatus(c)
    <3>1. CASE FetchCheck(c)
      BY <3>1, <2>m, <1>n DEF FetchCheck
    <3>2. CASE FetchReadStatus(c)
      <4>1. \A d \in Calls \ {c} : value'[d] = value[d]
        BY <3>2 DEF FetchReadStatus, TypeOK
      <4>2. QED
        BY <3>2, <4>1, <2>m DEF FetchReadStatus
    <3>3. QED
      BY <2>1, <3>1, <3>2
  <2>2. CASE FetchMark(c)
    BY <2>2, <2>m DEF FetchMark, SaveStatus, Forgets
  <2>3. CASE FetchPublish(c)
    <3>1. PICK outcome \in PublishOutcomes :
             /\ queued' = IF outcome = "queued" THEN [queued EXCEPT !["analyze"] = @ + 1]
                                                ELSE queued
             /\ lost' = (lost \/ outcome = "lost")
             /\ GoTo(c, IF outcome = "raised" THEN "failed" ELSE "answered")
      BY <2>3 DEF FetchPublish
    <3>2. at[c] = "publishing" /\ UNCHANGED <<client, endpoint, value, status, saveFaults>>
      BY <2>3 DEF FetchPublish
    <3>c. Claimed' => Claimed
      BY <3>1, <3>2, ClaimedFades DEF GoTo, TypeOK
    <3>3. CASE outcome = "raised"
      BY <3>1, <3>2, <3>3, <2>m
    <3>4. CASE outcome = "queued"
      <4>1. queued'["analyze"] > 0
        BY <3>1, <3>4 DEF TypeOK, Endpoints
      <4>2. Running \subseteq Running' /\ ToldOfFailure \subseteq ToldOfFailure'
        BY <3>1, <3>2, <3>4 DEF GoTo, ToldOfFailure, ToDlq, Pending, TypeOK
      <4>3. Claimed' => Owned'
        BY <1>h, <3>2, <3>c, <4>2 DEF Owned
      <4>4. QED
        BY <4>1, <4>3 DEF Goal, InHand, Endpoints
    <3>5. outcome # "lost"
      BY <3>1, <1>x DEF Excused
    <3>6. QED
      BY <3>3, <3>4, <3>5, OutcomesAssumption
  <2>4. CASE AnalyzeCheck(c)
    BY <2>4, <2>m, <1>n DEF AnalyzeCheck
  <2>r. CASE AnalyzeReadStatus(c)
    <3>1. /\ at[c] = "checking" /\ GoTo(c, "deciding")
          /\ value'[c] \in {"IN_PROGRESS", "OLD"} => status = "IN_PROGRESS"
          /\ \A d \in Calls \ {c} : value'[d] = value[d]
          /\ UNCHANGED <<client, endpoint, status, queued>>
      BY <2>r DEF AnalyzeReadStatus, TypeOK
    <3>2. Claimed' => Claimed
      BY <3>1 DEF Claimed, GoTo, TypeOK
    <3>3. \A d \in Calls : StillHeld(d)
      BY <3>1, MovesOn
    <3>4. QED
      BY <3>1, <3>2, <3>3, <1>k
  <2>5. CASE AnalyzeDecide(c)
    <3>1. CASE value[c] = "IN_PROGRESS" \/ (value[c] = "OLD" /\ checkpoint = "active")
      <4>1. /\ at[c] = "deciding" /\ at' = [at EXCEPT ![c] = "answered"]
            /\ UNCHANGED <<client, endpoint, status, saveFaults>>
        BY <2>5, <3>1 DEF AnalyzeDecide, Answer, GoTo
      <4>2. Running \subseteq Running' /\ ToldOfFailure \subseteq ToldOfFailure'
        BY <4>1 DEF ToldOfFailure, ToDlq, Pending, TypeOK
      <4>3. Claimed
        BY <3>1, <4>1 DEF Claimed
      <4>4. Owned'
        BY <1>h, <4>1, <4>2, <4>3 DEF Owned
      <4>5. QED
        BY <4>4, <1>o
    <3>2. CASE ~(value[c] = "IN_PROGRESS" \/ (value[c] = "OLD" /\ checkpoint = "active"))
      <4>1. \A d \in Calls \ {c} : value'[d] = value[d]
        BY <2>5, <3>2 DEF AnalyzeDecide, Forgets, TypeOK
      <4>2. QED
        BY <2>5, <3>2, <4>1, <2>m DEF AnalyzeDecide
    <3>3. QED
      BY <3>1, <3>2
  <2>6. CASE AnalyzeInvoke(c)
    <3>1. c \in Running'
      BY <2>6 DEF AnalyzeInvoke, GoTo, TypeOK
    <3>2. QED
      BY <3>1, <1>o DEF Owned
  <2>7. CASE AwaitEnds(c)
    <3>1. c \in Running'
      BY <2>7 DEF AwaitEnds, GoTo, TypeOK
    <3>2. QED
      BY <3>1, <1>o DEF Owned
  <2>8. CASE Guard(c)
    <3>1. c \in Running'
      BY <2>8, <1>n DEF Guard, Protected, GoTo, TypeOK
    <3>2. QED
      BY <3>1, <1>o DEF Owned
  <2>9. CASE HandlerSavesCasebook(c) \/ HandlerSavesStatus(c)
    BY <2>9, <1>u, <1>n DEF HandlerSavesCasebook, HandlerSavesStatus, SaveCasebook, Settled
  <2>10. CASE HandlerFails(c)
    BY <2>10, <2>m DEF HandlerFails, Forgets
  <2>11. CASE SavingFails(c)
    <3>1. /\ at[c] \in {"guarding", "saving_casebook", "saving_status"}
          /\ at' = [at EXCEPT ![c] = "failed"] /\ saveFaults' = saveFaults + 1
          /\ UNCHANGED <<client, endpoint, redeliveries>>
      BY <2>11, <1>u DEF SavingFails, SaveFaults, GoTo, Settled
    <3>2. endpoint[c] = "analyze" /\ saveFaults' > 0
      BY <3>1 DEF CallsFit, TypeOK
    <3>3. client[c] # "none"
      <4>1. ~(redeliveries'["analyze"] > 0)
        BY <1>x, <3>2 DEF Excused
      <4>2. QED
        BY <1>u, <3>1, <3>2, <4>1 DEF HandedOn, OrphansRedelivered
    <3>4. at'[c] = "failed" /\ client'[c] \in {"waiting", "saving_casebook", "saving_status",
                                               "publishing"}
      BY <3>1, <3>3, <1>u DEF HandedOn, DoneIsOver, Finished, TypeOK
    <3>5. c \in ToldOfFailure'
      BY <3>1, <3>2, <3>4 DEF ToldOfFailure, ToDlq, Pending
    <3>6. QED
      BY <3>2, <3>5, <1>o DEF Owned
  <2>12. QED
    BY <1>4, <2>1, <2>2, <2>3, <2>4, <2>5, <2>6, <2>7, <2>8, <2>9, <2>10, <2>11, <2>r
    DEF Handler
<1>5. ASSUME NEW c \in Calls, GraphRuns(c) \/ Recycle(c) PROVE Goal
  <2>1. \A d \in Calls : StillHeld(d)
    BY <1>5 DEF GraphRuns, Recycle, GoTo, Finished, StillHeld, Running, ToDlq, Pending, TypeOK
  <2>2. Claimed' => Claimed
    BY <1>5, ClaimedFades DEF GraphRuns, Recycle, GoTo, TypeOK
  <2>3. QED
    BY <1>5, <2>1, <2>2, <1>k DEF GraphRuns, Recycle
<1>6. CASE Crash \/ Shutdown
  <2>1. apiStops' = apiStops + 1
    BY <1>6 DEF Crash, Shutdown
  <2>2. QED
    BY <1>x, <2>1 DEF Excused
<1>7. CASE Process
  BY <1>7, <1>a DEF Process, DrainSteps, Exit, Restart
<1>8. CASE Age \/ UNCHANGED vars
  <2>1. \A d \in Calls : StillHeld(d)
    BY <1>8 DEF Age, vars, StillHeld, Running, ToDlq, Pending
  <2>2. Claimed' => Claimed
    BY <1>8, ClaimedFades DEF Age, vars
  <2>3. QED
    BY <1>8, <2>1, <2>2, <1>k DEF Age, vars
<1>9. QED
  BY <1>1, <1>2, <1>3, <1>4, <1>5, <1>6, <1>7, <1>8 DEF Next

(* Somebody has the packet, a stub has an owner, and every orphan's        *)
(* message is delivered again: inductive beside the types, the order of    *)
(* the saves and where the calls are.                                      *)
LEMMA HandedOnInductive == Spec => []HandedOn
<1>1. Init => HandedOn
  BY DEF Init, HandedOn, NotStranded, StubOwned, Claimed, OrphansRedelivered, IdleUnclaimed,
         DoneIsOver, InHand, Handling, OnLoop, Endpoints
<1>2. ASSUME TypeOK, SavesInOrder, CallsFit, HandedOn, [Next]_vars PROVE HandedOn'
  <2>1. OrphansRedelivered' /\ IdleUnclaimed' /\ DoneIsOver'
    BY <1>2, OrphansKept, IdleUnclaimedKept, DoneKept DEF HandedOn
  <2>2. ~Settled' /\ ~Excused' => InHand' /\ (Claimed' => Owned')
    BY <1>2, HandsKept
  <2>3. NotStranded' /\ StubOwned'
    BY <2>2 DEF NotStranded, StubOwned
  <2>4. QED
    BY <2>1, <2>3 DEF HandedOn
<1>3. Lifecycle => CallsFit
  BY DEF Lifecycle
<1>4. QED
  BY <1>1, <1>2, <1>3, SavesInductive, LifecycleInductive, PTL DEF Spec

(* However consumers time out, redeliver and give up, handlers fail and    *)
(* duplicates are told "already_processing": while the API stays up and no *)
(* send is lost, an unsettled packet waits on a topic, is carried to the   *)
(* DLQ, or is in the hands of a handler.                                   *)
THEOREM NeverStranded == Spec => []NotStranded
<1>1. HandedOn => NotStranded
  BY DEF HandedOn
<1>2. QED
  BY <1>1, HandedOnInductive, PTL
=============================================================================
