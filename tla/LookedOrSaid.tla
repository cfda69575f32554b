---------------------------- MODULE LookedOrSaid ----------------------------
(***************************************************************************)
(* What a log fetch promises the agents that read its answer: the three    *)
(* outcomes found, absent and could-not-look stay apart, and what an       *)
(* answer leaves out is announced with it (KUBERNETES_LOGS_PLAN.md, design *)
(* principles 2 and 3) -- except for the kinds of loss in Silent.          *)
(***************************************************************************)
CONSTANTS Fetches,  \* who fetches, one log at a time
          Losses,   \* ways to return less than was asked for
          Silent    \* those an answer does not announce

VARIABLES lost,     \* what the answer lacks
          said,     \* what the answer announces
          told      \* the answer: none yet, found, absent, blind

Outcomes == {"none", "found", "absent", "blind"}

Init == /\ lost = [f \in Fetches |-> {}]
        /\ said = [f \in Fetches |-> {}]
        /\ told = [f \in Fetches |-> "none"]

Keep(fs) == \A f \in fs : /\ lost'[f] = lost[f]
                          /\ said'[f] = said[f]
                          /\ told'[f] = told[f]

(* An answer with or without logs says what it lacks, a source that could  *)
(* not look included; a source that could not look answers nothing else.   *)
Tell(f) == /\ told[f] = "none"
           /\ lost' \in [Fetches -> SUBSET Losses]
           /\ said' \in [Fetches -> SUBSET Losses]
           /\ told' \in [Fetches -> Outcomes]
           /\ told'[f] \in {"found", "absent"} => lost'[f] \ Silent \subseteq said'[f]
           /\ told'[f] = "absent" => "everything" \notin lost'[f]
           /\ Keep(Fetches \ {f})

(* The next fetch.                                                         *)
Ask(f) == /\ lost' = [lost EXCEPT ![f] = {}]
          /\ said' = [said EXCEPT ![f] = {}]
          /\ told' = [told EXCEPT ![f] = "none"]

Next == \E f \in Fetches : Tell(f) \/ Ask(f)

Spec == Init /\ [][Next]_<<lost, said, told>>
=============================================================================
