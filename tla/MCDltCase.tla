----------------------------- MODULE MCDltCase -----------------------------
(* Instances of DltCase for TLC, with the default ceilings.                *)
EXTENDS DltCase, TLC

CONSTANTS d1, d2, q1, q2, k1, k2

Symmetric == Permutations({d1, d2}) \cup Permutations({q1, q2}) \cup Permutations({k1, k2})

Coded(catalog, described) ==
    [root |-> "business", code |-> TRUE, catalog |-> catalog, described |-> described]
MCTraced == {Coded("A", TRUE), Coded("C", TRUE)}

Lines(declared, others, gapped) ==
    [kind |-> "lines", declared |-> declared, others |-> others, gapped |-> gapped]
MCLogs    == {Lines(TRUE, FALSE, TRUE)}
MCAllLogs == {Lines(TRUE, FALSE, FALSE), Lines(FALSE, TRUE, TRUE)}

MCFindings == {[action |-> "REDRIVE_AFTER_RECOVERY", confidence |-> 1000]}
=============================================================================
