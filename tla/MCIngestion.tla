----------------------------- MODULE MCIngestion -----------------------------
(***************************************************************************)
(* Small instances of Ingestion.  Two sensors; the readings of sensor s1   *)
(* are one retention period apart, so the newer evicts the older, and the  *)
(* first and third message carry the same reading.                         *)
(***************************************************************************)
EXTENDS Ingestion, TLC

MCSensors == {"s1", "s2"}
MCBodies == {"b"}

Old == [sensor |-> "s1", ts |-> 0, body |-> "b"]
New == [sensor |-> "s1", ts |-> 2, body |-> "b"]
MCReadings == {Old, New}

MCContent ==
    [m \in MsgIds |-> IF m = "m2" THEN New ELSE Old]

OneHost == [q \in Requests |-> CHOOSE c \in Instances : TRUE]

RequestSymmetry == Permutations(Requests)
=============================================================================
