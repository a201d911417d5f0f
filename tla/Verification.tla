----------------------------- MODULE Verification -----------------------------
(***************************************************************************)
(* torc-verify: how the proof obligations of a program are discharged, by  *)
(* a cache of earlier proofs, the structural pass, the interval domain and *)
(* (when it is built in) an SMT solver (crates/torc-verify/src).           *)
(*                                                                         *)
(* Numbers are fractions <<numerator, denominator>>.  A float holds an     *)
(* integer exactly up to Exact (2^53 in the code) and rounds it to an even *)
(* one above; fractions are not rounded.                                   *)
(***************************************************************************)
EXTENDS Programs

CONSTANTS Exact,     \* the largest integer up to which every one is a float
          Word,      \* the largest integer the solver's literals hold (i64::MAX)
          Variable,  \* the names predicates use
          Sample     \* bound: the integers that a predicate is tried on

ASSUME ExactAssumption == Exact \in Nat /\ Word \in Nat /\ Sample \subseteq Int

FloatLit(n, d) == [op |-> "float", q |-> <<n, d>>]
Quantified(op, x, range, body) == [op |-> op, name |-> x, args |-> <<range, body>>]

-----------------------------------------------------------------------------
(* The interval domain *)

AsFloat(n) == IF -Exact <= n /\ n <= Exact THEN n
              ELSE CASE n % 4 = 1 -> n - 1
                     [] n % 4 = 3 -> n + 1
                     [] OTHER     -> n

Normal(n, d) == IF d < 0 THEN <<-n, -d>> ELSE <<n, d>>
Rounded(q) == IF q[2] = 1 THEN <<AsFloat(q[1]), 1>> ELSE q
AtMost(a, b) == a[1] * b[2] <= b[1] * a[2]
Below(a, b)  == a[1] * b[2] < b[1] * a[2]
Negated(a)   == <<-a[1], a[2]>>
Added(a, b)  == Rounded(<<a[1] * b[2] + b[1] * a[2], a[2] * b[2]>>)
Times(a, b)  == Rounded(<<a[1] * b[1], a[2] * b[2]>>)
Over(a, b)   == Normal(a[1] * b[2], a[2] * b[1])
Least(S)     == CHOOSE a \in S : \A b \in S : AtMost(a, b)
Greatest(S)  == CHOOSE a \in S : \A b \in S : AtMost(b, a)

\* None is an end without a bound.
Unbounded == [lo |-> None, hi |-> None]
Point(q)  == [lo |-> q, hi |-> q]
Finite(i) == i.lo # None /\ i.hi # None
Opposite(i) == [lo |-> IF i.hi = None THEN None ELSE Negated(i.hi),
                hi |-> IF i.lo = None THEN None ELSE Negated(i.lo)]
SumOf(i, j) == [lo |-> IF None \in {i.lo, j.lo} THEN None ELSE Added(i.lo, j.lo),
                hi |-> IF None \in {i.hi, j.hi} THEN None ELSE Added(i.hi, j.hi)]

Products(i, j)  == {Times(a, b) : a \in {i.lo, i.hi}, b \in {j.lo, j.hi}}
Quotients(i, j) == {Over(a, b) : a \in {i.lo, i.hi}, b \in {j.lo, j.hi}}
ProductOf(i, j) == IF ~Finite(i) \/ ~Finite(j) THEN Unbounded
                   ELSE [lo |-> Least(Products(i, j)), hi |-> Greatest(Products(i, j))]
QuotientOf(i, j) ==
    IF ~Finite(i) \/ ~Finite(j) THEN Unbounded
    ELSE IF AtMost(j.lo, <<0, 1>>) /\ AtMost(<<0, 1>>, j.hi) THEN Unbounded
    ELSE [lo |-> Least(Quotients(i, j)), hi |-> Greatest(Quotients(i, j))]

\* Nothing is known of a variable: the environment is never filled.
RECURSIVE IntervalOf(_)
IntervalOf(e) ==
    CASE e.op = "int"   -> Point(<<AsFloat(e.n), 1>>)
      [] e.op = "float" -> Point(e.q)
      [] e.op = "add"   -> SumOf(IntervalOf(e.args[1]), IntervalOf(e.args[2]))
      [] e.op = "sub"   -> SumOf(IntervalOf(e.args[1]), Opposite(IntervalOf(e.args[2])))
      [] e.op = "mul"   -> ProductOf(IntervalOf(e.args[1]), IntervalOf(e.args[2]))
      [] e.op = "div"   -> QuotientOf(IntervalOf(e.args[1]), IntervalOf(e.args[2]))
      [] e.op = "neg"   -> Opposite(IntervalOf(e.args[1]))
      [] OTHER          -> Unbounded

\* An end without a bound decides nothing.
Before(a, b) == a # None /\ b # None /\ Below(a, b)
NotAfter(a, b) == a # None /\ b # None /\ AtMost(a, b)
IsLess(i, j) == CASE Before(i.hi, j.lo)   -> "proven"
                  [] NotAfter(j.hi, i.lo) -> "disproven"
                  [] OTHER                -> "inconclusive"
IsAtMost(i, j) == CASE NotAfter(i.hi, j.lo) -> "proven"
                    [] Before(j.hi, i.lo)   -> "disproven"
                    [] OTHER                -> "inconclusive"

\* l > r and l >= r are decided as r < l and r <= l.
RECURSIVE Verdict(_)
Verdict(p) ==
    LET L == IntervalOf(p.args[1])
        R == IntervalOf(p.args[2])
        Both == {Verdict(p.args[1]), Verdict(p.args[2])}
    IN CASE p.op = "bool" -> IF p.b THEN "proven" ELSE "disproven"
         [] p.op = "lt"   -> IsLess(L, R)
         [] p.op = "gt"   -> IsLess(R, L)
         [] p.op = "le"   -> IsAtMost(L, R)
         [] p.op = "ge"   -> IsAtMost(R, L)
         [] p.op = "and"  -> CASE "disproven" \in Both -> "disproven"
                               [] Both = {"proven"}    -> "proven"
                               [] OTHER                -> "inconclusive"
         [] p.op = "or"   -> CASE "proven" \in Both    -> "proven"
                               [] Both = {"disproven"} -> "disproven"
                               [] OTHER                -> "inconclusive"
         [] OTHER -> "inconclusive"

-----------------------------------------------------------------------------
(* The meaning of a predicate for the values env gives its variables *)

RECURSIVE ValueOf(_, _)
ValueOf(e, env) ==
    CASE e.op = "int"   -> <<e.n, 1>>
      [] e.op = "float" -> e.q
      [] e.op = "var"   -> <<env[e.name], 1>>
      [] e.op = "neg"   -> Negated(ValueOf(e.args[1], env))
      [] OTHER ->
           LET a == ValueOf(e.args[1], env)
               b == ValueOf(e.args[2], env)
           IN CASE e.op = "add" -> <<a[1] * b[2] + b[1] * a[2], a[2] * b[2]>>
                [] e.op = "sub" -> <<a[1] * b[2] - b[1] * a[2], a[2] * b[2]>>
                [] e.op = "mul" -> <<a[1] * b[1], a[2] * b[2]>>
                [] e.op = "div" -> Over(a, b)

RECURSIVE Holds(_, _)
Holds(p, env) ==
    LET a == ValueOf(p.args[1], env)
        b == ValueOf(p.args[2], env)
    IN CASE p.op = "bool"    -> p.b
         [] p.op = "lt"      -> Below(a, b)
         [] p.op = "gt"      -> Below(b, a)
         [] p.op = "le"      -> AtMost(a, b)
         [] p.op = "ge"      -> AtMost(b, a)
         [] p.op = "eq"      -> AtMost(a, b) /\ AtMost(b, a)
         [] p.op = "ne"      -> ~(AtMost(a, b) /\ AtMost(b, a))
         [] p.op = "and"     -> Holds(p.args[1], env) /\ Holds(p.args[2], env)
         [] p.op = "or"      -> Holds(p.args[1], env) \/ Holds(p.args[2], env)
         [] p.op = "not"     -> ~Holds(p.args[1], env)
         [] p.op = "implies" -> Holds(p.args[1], env) => Holds(p.args[2], env)
         [] p.op = "forall"  -> \A v \in Sample : LET at == [env EXCEPT ![p.name] = v]
                                                 IN Holds(p.args[1], at) => Holds(p.args[2], at)
         [] p.op = "exists"  -> \E v \in Sample : LET at == [env EXCEPT ![p.name] = v]
                                                 IN Holds(p.args[1], at) /\ Holds(p.args[2], at)

\* It holds whatever the variables are: no variable is tied to a value.
Valid(p) == \A env \in [Variable -> Sample] : Holds(p, env)

-----------------------------------------------------------------------------
(* The solver *)

Comparisons == {"eq", "ne", "lt", "le", "gt", "ge"}
Connectives == {"and", "or", "not", "implies"}

\* What the solver is asked about: its literals are 64-bit integers, a float
\* is cut off to one, and the range of a quantifier is dropped.  A predicate
\* that uses anything else is not asked about.
RECURSIVE Encodable(_, _)
Encodable(p, sort) ==
    IF sort = "int"
      THEN \/ p.op \in {"int", "float", "var"}
           \/ /\ p.op \in {"add", "sub", "mul", "div", "mod", "neg"}
              /\ \A i \in DOMAIN p.args : Encodable(p.args[i], "int")
      ELSE \/ p.op \in {"bool", "float"}
           \/ p.op \in Comparisons /\ \A i \in DOMAIN p.args : Encodable(p.args[i], "int")
           \/ p.op \in Connectives /\ \A i \in DOMAIN p.args : Encodable(p.args[i], "bool")
           \/ p.op \in {"forall", "exists"} /\ Encodable(p.args[2], "bool")

Clamped(n) == CASE n > Word -> Word [] n < -Word - 1 -> -Word - 1 [] OTHER -> n
Truncated(q) == IF q[1] >= 0 THEN q[1] \div q[2] ELSE -((-q[1]) \div q[2])

\* A float that stands for a truth value is true unless it is zero.
RECURSIVE Encoded(_, _)
Encoded(p, sort) ==
    LET inner == IF p.op \in Connectives THEN "bool" ELSE "int"
    IN CASE p.op = "int"   -> Lit(Clamped(p.n))
         [] p.op = "float" -> IF sort = "bool" THEN Bool(p.q[1] # 0) ELSE Lit(Clamped(Truncated(p.q)))
         [] p.op \in {"bool", "var"} -> p
         [] p.op \in {"forall", "exists"} -> [p EXCEPT !.args = <<Bool(TRUE), Encoded(p.args[2], "bool")>>]
         [] OTHER -> [p EXCEPT !.args = [i \in DOMAIN p.args |-> Encoded(p.args[i], inner)]]

\* Division is whole for the solver; what it proves of one is not modelled.
RECURSIVE Divides(_)
Divides(p) == \/ p.op \in {"div", "mod"}
              \/ "args" \in DOMAIN p /\ \E i \in DOMAIN p.args : Divides(p.args[i])

Provable(p) == Encodable(p, "bool") /\ ~Divides(p) /\ Valid(Encoded(p, "bool"))

\* Predicates over literals that neither the floats of the interval domain nor
\* the integers of the solver round, without division or quantifiers.
RECURSIVE Faithful(_)
Faithful(p) ==
    CASE p.op = "int" -> -Exact <= p.n /\ p.n <= Exact /\ Clamped(p.n) = p.n
      [] p.op \in {"var", "bool"} -> TRUE
      [] p.op \in {"float", "div", "mod", "forall", "exists"} -> FALSE
      [] OTHER -> \A i \in DOMAIN p.args : Faithful(p.args[i])

-----------------------------------------------------------------------------
(* One run of the engine *)

Profile == {"development", "integration", "certification"}

\* When the types do not check, the obligations of the edges are lost and
\* only those of the contracts are tracked.
Collected(p) == IF WellTyped(p) THEN TypeObligations(p) ELSE ContractObligations(p)

\* The structural pass looks at edges that dangle, ports, linearity and
\* effects; mismatched types are in none of its diagnostics.
Diagnosed(p) == (IF WellFormed(p) THEN {} ELSE {"malformed"})
                \cup (IF BadLinearity(p) = {} THEN {} ELSE {"linearity"})
                \cup (IF BadEffects(p) = {} THEN {} ELSE {"effects"})

\* Fault: what the interval domain does not refute is taken as proven.
Found_Undecided(o, profile, answers) == Verdict(o.predicate) # "disproven"

\* A proof is found for an obligation.  The solver (answers) is not there unless
\* it is built in, is not asked in development, and may time out.
Found(o, profile, answers) ==
    \/ Verdict(o.predicate) = "proven"
    \/ answers /\ profile # "development" /\ Provable(o.predicate)

\* What the structural pass settles, and what a proof of an earlier run does.
Settled(o, p) == o.kind = "Linearity" /\ BadLinearity(p) = {}
Reused(o, profile, cache) == profile # "certification" /\ o \in cache

\* A run on the obligations obs of p, with the proofs of earlier runs in cache.
\* The cache is keyed by the whole obligation.
VerifiedIn(obs, p, profile, cache, answers) ==
    {i \in DOMAIN obs : \/ Reused(obs[i], profile, cache)
                        \/ Settled(obs[i], p)
                        \/ Found(obs[i], profile, answers)}

\* Fault: whatever was looked at is kept, proven or not.
CacheAfter_Any(obs, p, profile, cache, answers) == cache \cup {o \in ToSet(obs) : ~Settled(o, p)}

CacheAfter(obs, p, profile, cache, answers) ==
    cache \cup {o \in ToSet(obs) : ~Settled(o, p) /\ Found(o, profile, answers)}

\* The report's numbers.  What it calls failed are the assumed obligations, and
\* the engine never assumes or waives one.
Summary(obs, verified) ==
    [total |-> Len(obs), verified |-> Cardinality(verified),
     pending |-> Len(obs) - Cardinality(verified), waived |-> 0, failed |-> 0]

\* The gate before materialization.
GatePasses(summary, strict, maxWaivers) ==
    /\ maxWaivers # None => summary.waived <= maxWaivers
    /\ summary.failed = 0
    /\ strict => summary.pending = 0
=============================================================================
