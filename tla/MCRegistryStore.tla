--------------------------- MODULE MCRegistryStore ---------------------------
(* Instances of RegistryStore for TLC. *)
EXTENDS RegistryStore, TLC

\* job only matters once a command has set it.
MCInit == Init /\ \A p \in Proc : job[p] = CHOOSE j \in [version : Version, content : Content] : TRUE
MCSpec == MCInit /\ [][Next]_vars

Interchangeable == Permutations(Proc)
=============================================================================
