--------------------------- MODULE MCLogReduction ---------------------------
(* Instances of LogReduction for TLC.                                      *)
EXTENDS LogReduction, TLC

(* Lines a, b: plain; v: decisive by its variable part; d: by its template;*)
(* e: an error; x does not mention the packet.                             *)
CONSTANTS a, b, v, d, e, x

Template     == a :> "A" @@ b :> "B" @@ v :> "B" @@ d :> "D" @@ e :> "A" @@ x :> "X"
MCTemplateOf == [l \in Lines |-> Template[l]]
MCTemplates  == {"A", "B", "D", "X"}
MCDecisive   == {"D"}
MCPhrases    == {"A", "B"}
MCSymmetry   == Permutations(Processes)
MCFlows      == {<<a, x>>, <<v>>}
MCForked     == {<<a>>}
=============================================================================
