----------------------------- MODULE MCScaling -----------------------------
(***************************************************************************)
(* The totals lie on both sides of each threshold of one to three workers: *)
(* with a window of 2 and thresholds of 3 and 2, a worker takes 4 to 6     *)
(* readings.                                                               *)
(***************************************************************************)
EXTENDS Scaling, TLC

MCTotals == {0, 4, 5, 7, 12, 13, 20}

WorkerSymmetry == Permutations(Workers)
=============================================================================
