-------------------------- MODULE MCKafkaConsumer --------------------------
(* Instances of KafkaConsumer for TLC.                                     *)
EXTENDS KafkaConsumer, TLC

CONSTANTS m1, m2, p1, w1, w2

MCMemberSymmetry == Permutations({m1, m2})

MCPoison == {<<p1, 1>>}
MCNone == {}
=============================================================================
