------------------------------- MODULE Programs -------------------------------
(***************************************************************************)
(* The compatibility check of types (crates/torc-core/src/types), and the  *)
(* validators of torc-core that look at the types, effects and contracts   *)
(* of a program (crates/torc-core/src/graph/mod.rs).                       *)
(***************************************************************************)
EXTENDS ProgramGraphs

\* The outermost ownership annotation below the resource and refinement wrappers.
RECURSIVE LinearityOf(_)
LinearityOf(t) == CASE t.k = "Linear" -> t.lin
                    [] t.k \in Bounds -> LinearityOf(t.c[1])
                    [] OTHER          -> "none"

RECURSIVE BaseType(_)
BaseType(t) == IF t.k \in Bounds \cup {"Linear"} THEN BaseType(t.c[1]) ELSE t

-----------------------------------------------------------------------------
(* Compatibility of a source type with a target type *)

LinearityFits(source, target) ==
    \/ source = target
    \/ target = "Unrestricted"
    \/ <<source, target>> \in {<<"Linear", "Affine">>, <<"Unique", "Shared">>}

\* Value parameters: two concrete ones must be equal, a symbolic one is left
\* to an obligation.
ParamsFit(sp, tp) ==
    /\ Len(sp) = Len(tp)
    /\ \A i \in DOMAIN sp : sp[i].op = "int" /\ tp[i].op = "int" => sp[i] = tp[i]

\* The attributes of two types with the same constructor.  The hardware a
\* time bound was measured on is not looked at.
AttributesFit(s, t) ==
    CASE t.k = "Linear"               -> LinearityFits(s.lin, t.lin)
      [] t.k = "Timed"                -> s.ns <= t.ns
      [] t.k \in {"Sized", "Powered"} -> s.bound <= t.bound
      [] t.k = "Bandwidth"            -> s.bound >= t.bound
      [] t.k = "Parameterized"        -> s.name = t.name /\ ParamsFit(s.params, t.params)
      [] OTHER                        -> Bare(s) = Bare(t)

\* Only the base of a refinement counts here.  No named type is compatible
\* with anything: it should have been resolved.
RECURSIVE Fits(_, _)
Fits(s, t) ==
    CASE "Named" \in {s.k, t.k} -> FALSE
      [] t.k = "Refined"        -> Fits(IF s.k = "Refined" THEN s.c[1] ELSE s, t.c[1])
      [] s.k = "Refined"        -> Fits(s.c[1], t)
      [] OTHER                  -> /\ s.k = t.k
                                   /\ DOMAIN s.c = DOMAIN t.c
                                   /\ AttributesFit(s, t)
                                   /\ \A i \in DOMAIN t.c : Fits(s.c[i], t.c[i])

Concat(f) == FoldSet(LAMBDA x, all : f[x] \o all, <<>>, DOMAIN f)

\* The predicates a verifier has to prove before s may flow into t, when s
\* fits t.
RECURSIVE Refinements(_, _)
Refinements(s, t) ==
    CASE t.k = "Refined" /\ s.k = "Refined" ->
           Append(Refinements(s.c[1], t.c[1]), Implies(s.pred, t.pred))
      [] t.k = "Refined" -> Append(Refinements(s, t.c[1]), t.pred)
      [] s.k = "Refined" -> Refinements(s.c[1], t)
      [] OTHER ->
           LET symbolic == {i \in DOMAIN t.params : "int" # s.params[i].op \/ "int" # t.params[i].op}
           IN Concat([i \in DOMAIN t.c |-> Refinements(s.c[i], t.c[i])])
              \o IF t.k # "Parameterized" THEN <<>>
                 ELSE Concat([i \in symbolic |-> <<App("eq", <<s.params[i], t.params[i]>>)>>])

-----------------------------------------------------------------------------
(* The validators: each gives the set of what is wrong. *)

Consumers(p, n, port) == Cardinality({e \in EdgesFrom(p, n) : p.ports[e].from = port})

\* The output ports (of the first four) whose consumers are too many or too few.
BadLinearity(p) ==
    {<<n, i>> \in p.graph.nodes \X (0..3) :
       /\ i + 1 \in DOMAIN Outs(p, n)
       /\ LET lin == LinearityOf(Outs(p, n)[i + 1])
              uses == Consumers(p, n, i)
          IN \/ lin \in {"Linear", "Unique"} /\ uses # 1
             \/ lin = "Affine" /\ uses > 1}

\* The effects of the predecessors that have a contract.
InheritedEffects(p, n) ==
    LET sources == {p.graph.edges[e].source : e \in EdgesInto(p, n)}
        bound == {m \in sources : p.attr[m].contract # None}
        all   == UNION {p.attr[m].contract.effects : m \in bound}
    IN MergeEffects(all, {})

\* A node without a contract is not checked and hands nothing on.
BadEffects(p) ==
    {n \in p.graph.nodes :
       /\ p.attr[n].contract # None
       /\ ~IsPure(InheritedEffects(p, n))
       /\ ~(InheritedEffects(p, n) \subseteq p.attr[n].contract.effects)}

TypedEdges(p) == {e \in DOMAIN p.graph.edges : SourceType(p, e) # None /\ TargetType(p, e) # None}
Mismatches(p) == {e \in TypedEdges(p) : ~Fits(SourceType(p, e), TargetType(p, e))}

Refinement(q) == Obligation("TypeRefinement", q, "refinement subtyping")
EdgeObligations(p) ==
    Concat([e \in TypedEdges(p) |->
       LET qs == Refinements(SourceType(p, e), TargetType(p, e))
       IN [i \in DOMAIN qs |-> Refinement(qs[i])]])

\* Where both ends of an edge have a contract, every postcondition of the
\* source has to imply every precondition of the target.
CrossingObligations(p, e) ==
    LET s == p.attr[p.graph.edges[e].source].contract
        t == p.attr[p.graph.edges[e].target].contract
    IN IF None \in {s, t} THEN <<>>
       ELSE Concat([ij \in (DOMAIN s.post) \X (DOMAIN t.pre) |->
              <<Obligation("Precondition", Implies(s.post[ij[1]], t.pre[ij[2]]), "edge-crossing")>>])

ContractObligations(p) ==
    Concat([n \in {m \in p.graph.nodes : p.attr[m].contract # None} |->
              Obligations(p.attr[n].contract)])
    \o Concat([e \in DOMAIN p.graph.edges |-> CrossingObligations(p, e)])
    \o Concat([n \in {m \in p.graph.nodes : p.attr[m].kind \in CycleExempt} |->
                 <<Obligation("Termination", Bool(TRUE), p.attr[n].kind)>>])

\* validate_types.  When any check fails, also one of validate, there are no
\* obligations.
WellTyped(p)  == BadLinearity(p) = {} /\ BadEffects(p) = {} /\ Mismatches(p) = {}
TypeObligations(p) == EdgeObligations(p) \o ContractObligations(p)
=============================================================================
