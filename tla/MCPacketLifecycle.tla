------------------------- MODULE MCPacketLifecycle -------------------------
(* Instances of PacketLifecycle for TLC.                                   *)
EXTENDS PacketLifecycle

CONSTANTS c1, c2

(* Each topic may redeliver once; or only the analysis queue; or none.     *)
MCBothRedeliver == [e \in Endpoints |-> 1]
MCAnalyzeRedelivers == [e \in Endpoints |-> IF e = "analyze" THEN 1 ELSE 0]
MCNoRedelivery == [e \in Endpoints |-> 0]
=============================================================================
