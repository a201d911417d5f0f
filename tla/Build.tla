--------------------------------- MODULE Build ---------------------------------
(***************************************************************************)
(* torc build with the engine that its gate runs, the code that nodes are  *)
(* lowered to and the memory they take, and what its results are worth     *)
(* (crates/torc-materialize/src: gate.rs, layout.rs, codegen/lower.rs).    *)
(***************************************************************************)
EXTENDS BuildProcess, Codegen, Verification

CONSTANT Solver   \* whether an SMT solver is built in

ASSUME SolverAssumption == Solver \in BOOLEAN

\* What the gate verifies, with a new engine for every platform.  A solver
\* answers in time, or it does not.  The gate is not strict.
GateReports(p, setting) ==
    {r \in {VerifiedIn(obs, p, setting, {}, answers) : obs \in {Collected(p)}, answers \in {FALSE, Solver}} :
       GatePasses(Summary(Collected(p), r), FALSE, None)}

-----------------------------------------------------------------------------
(* What holds *)

\* The programs whose meaning a build has to keep.
MeaningfulSource == {s \in SourceFile : Meaningful(ProgramOf[s])}

MergedNodes == {n \in DOMAIN group : group[n] # n}
Means(n) == LET t == BaseType(Outs(Original, n)[1])
            IN Meaning(Original, n) # None => Denotes(values[n], t) = Meaning(Original, n)

\* A program that means something, and in which only literals of one value were
\* merged, is compiled to values that are the numbers its nodes stand for,
\* through canonicalization, the order of the nodes, the order of their inputs
\* and LLVM's arithmetic (codegen/lower.rs).
CompiledMeaning ==
    origin \in MeaningfulSource
      /\ (\A n \in MergedNodes : /\ Original.attr[n].kind = "Literal"
                                 /\ Original.attr[n].value = Original.attr[group[n]].value) =>
        /\ \A n \in DOMAIN values : Means(n)
        /\ status # "panicked"

\* The same for every program that means something: canonicalization takes nodes
\* for duplicates that are not structurally identical (spec/06, Phase 1).
CanonicalKeepsMeaning ==
    origin \in MeaningfulSource => \A n \in DOMAIN values : Means(n)

\* What the report calls verified holds for every value of the variables,
\* whichever of the engine's passes verified it (engine.rs, interval.rs, smt.rs).
VerifiedHolds ==
    status = "verified" =>
      \A i \in report :
         LET q == Collected(work)[i].predicate IN Faithful(q) => Valid(q)
=============================================================================
