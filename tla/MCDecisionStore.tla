--------------------------- MODULE MCDecisionStore ---------------------------
(* Instances of DecisionStore for TLC: every file starts with `decision init'. *)
EXTENDS DecisionStore, TLC

NoFile == {Missing}

Interchangeable == Permutations(Proc) \cup Permutations(DecisionId)
=============================================================================
