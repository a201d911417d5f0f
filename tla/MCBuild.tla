------------------------------- MODULE MCBuild -------------------------------
(* Small projects for Build: a handful of programs, three built-in platforms  *)
(* and two files in targets/, of which one does not parse.                    *)
EXTENDS Build, MCPrograms

Programs_ == [division |-> Division, twice |-> Twice, distinct |-> Distinct, housed |-> Housed,
              obliged |-> Obliged, mismatched |-> Mismatched, confused |-> Confused,
              iterating |-> Iterating, cyclic |-> Cyclic]
AllSources == DOMAIN Programs_
EditedInto == {"twice", Unreadable}

Ask(flag, all, mode) == [flag |-> flag, all |-> all, mode |-> mode]
Requests == {Ask(NoName, TRUE, "executable"), Ask("custom", FALSE, "llvm-ir"),
             Ask("nowhere", FALSE, "object"), Ask(NoName, FALSE, "graph-stats")}
TheManifest == [given |-> TRUE, default |-> "linux-x86_64", platforms |-> {"stm32f407-discovery"}]
TheFiles == <<[name |-> "broken", platform |-> <<>>],
              [name |-> "custom", platform |-> <<Platform("custom", ArmV7M, "ARMv7-M", "Custom", BareMemory, "AAPCS")>>]>>

Decided   == {{"Committed", "Tentative"}}
Redecided == {{"Committed", "Conflicted"}, Unreadable}
Integers8 == -3..12
OnlyX == {"x"}
=============================================================================
