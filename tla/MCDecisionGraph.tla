--------------------------- MODULE MCDecisionGraph ---------------------------
(* Instances of DecisionGraph for TLC. *)
EXTENDS DecisionGraph, TLC

Interchangeable == Permutations(DecisionId) \cup Permutations(Chosen)
=============================================================================
