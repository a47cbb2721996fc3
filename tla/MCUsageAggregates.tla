------------------------- MODULE MCUsageAggregates -------------------------
(* Days of two hours. *)
EXTENDS UsageAggregates, TLC

NetworkSymmetry == Permutations(Network)
=============================================================================
