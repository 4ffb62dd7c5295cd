-------------------------- MODULE MCWorkerReports --------------------------
(***************************************************************************)
(* Two workers, so that a report can have read the one and not the other,  *)
(* and a request besides the report.                                       *)
(***************************************************************************)
EXTENDS WorkerReports, TLC

WorkerSymmetry == Permutations(Workers)
=============================================================================
