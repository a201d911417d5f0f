-------------------------------- MODULE Types --------------------------------
(***************************************************************************)
(* torc-core's type universe (crates/torc-core/src/types), and the         *)
(* contracts of nodes with the proof obligations they give rise to         *)
(* (crates/torc-core/src/contract).  What looks below the constructor of a *)
(* type is in Programs.                                                    *)
(*                                                                         *)
(* A type is a record: its constructor k, the constructor's own            *)
(* attributes, and the sequence c of its component types.  A predicate is  *)
(* an operator with its arguments.                                         *)
(***************************************************************************)
EXTENDS Integers, SequencesExt

-----------------------------------------------------------------------------
(* Predicates *)

Lit(n)    == [op |-> "int", n |-> n]
Bool(b)   == [op |-> "bool", b |-> b]
Var(x)    == [op |-> "var", name |-> x]
App(f, args) == [op |-> f, args |-> args]
Implies(p, q) == App("implies", <<p, q>>)
InRange(x, lo, hi) == App("and", <<App("ge", <<Var(x), Lit(lo)>>), App("le", <<Var(x), Lit(hi)>>)>>)
Trivial(p) == p = Bool(TRUE)

-----------------------------------------------------------------------------
(* Types *)

Plain(k)         == [k |-> k, c |-> <<>>]             \* Void, Unit, Bool
IntType(w, sign) == [k |-> "Int", width |-> w, sign |-> sign, c |-> <<>>]
Float(p)         == [k |-> "Float", precision |-> p, c |-> <<>>]
Fixed(total, frac) == [k |-> "Fixed", total |-> total, frac |-> frac, c |-> <<>>]
Tuple(ts)        == [k |-> "Tuple", c |-> ts]
Record(names, ts)  == [k |-> "Record", names |-> names, c |-> ts]   \* in the order of the names
Variant(names, ts) == [k |-> "Variant", names |-> names, c |-> ts]
Array(t, n)      == [k |-> "Array", length |-> n, c |-> <<t>>]
Wrapped(k, t)    == [k |-> k, c |-> <<t>>]            \* Vec, Distribution, Option
Refined(t, p)    == [k |-> "Refined", pred |-> p, c |-> <<t>>]
Linear(t, l)     == [k |-> "Linear", lin |-> l, c |-> <<t>>]
Timed(t, ns, hw) == [k |-> "Timed", ns |-> ns, hw |-> hw, c |-> <<t>>]
Bounded(k, t, n) == [k |-> k, bound |-> n, c |-> <<t>>]  \* Sized, Powered, Bandwidth
Qualified(k, t, q) == [k |-> k, about |-> q, c |-> <<t>>] \* Posterior, Interval, Approximate
Parameterized(name, ts, ps) == [k |-> "Parameterized", name |-> name, params |-> ps, c |-> ts]
Named(x)         == [k |-> "Named", name |-> x, c |-> <<>>]

Bare(t) == [t EXCEPT !.c = <<>>]                      \* a constructor without components
Bounds  == {"Timed", "Sized", "Powered", "Bandwidth", "Refined"}

-----------------------------------------------------------------------------
(* Effects and contracts *)

\* Pure is dropped as soon as there is another effect.
MergeEffects(a, b) == IF Cardinality(a \cup b) > 1 THEN (a \cup b) \ {"Pure"} ELSE a \cup b
IsPure(E) == E \subseteq {"Pure"}

\* A contract: conditions, the resources it bounds, failure modes, effects.
\* The numbers of a bound only appear in descriptions.
Contract(pre, post, bounds, failures, effects) ==
    [pre |-> pre, post |-> post, bounds |-> bounds, failures |-> failures, effects |-> effects]
PureContract == Contract(<<>>, <<>>, <<>>, <<>>, {"Pure"})

Obligation(kind, p, about) == [kind |-> kind, predicate |-> p, about |-> about]

\* What a contract obliges to prove: its conditions except the literal TRUE,
\* and for every bound and every failure mode the literal TRUE.
Obligations(contract) ==
    LET Proper(p) == ~Trivial(p)
        Of(kind, p, about) == [i \in DOMAIN p |-> Obligation(kind, p[i], about)]
        Each(kind, names) == [i \in DOMAIN names |-> Obligation(kind, Bool(TRUE), names[i])]
    IN Of("Precondition", SelectSeq(contract.pre, Proper), "precondition must hold")
       \o Of("Postcondition", SelectSeq(contract.post, Proper), "postcondition must hold")
       \o Each("ResourceBound", contract.bounds)
       \o Each("Postcondition", contract.failures)
=============================================================================
