------------------------------- MODULE MCToolchain -------------------------------
(* A registry of three modules, two declarations of a C library, a few programs, *)
(* and a graph of two nodes for the builder.                                     *)
EXTENDS Toolchain, MCPrograms, Examples

\* The builder: two kinds of nodes, one of them with a contract or without.
Protos   == {"plain", "bound", "literal"}
Changes  == {<<"plain", "bound">>}
Arities  == [p \in Protos |-> CASE p = "literal" -> [ins |-> 0, outs |-> 1]
                                [] OTHER -> None]

\* The engine: a program that shares most obligations of Obliged, one of which
\* is false, one whose types do not match, and the shipped ones that oblige to
\* something.
Renamed == [Obliged EXCEPT !.attr.a.sig.outs = <<Refined(U8, App("le", <<Var("x"), Lit(5)>>))>>]
Checkable == {Obliged, Renamed, Mismatched, Iterating, Checksum, PidController, FocController}

\* A library: double hypot(double x, double y), const char *name(void),
\* void free_sized(void *p, size_t n), unsigned long put(const char *s, ...).
Function(result, params, trust, excluded) ==
    [result |-> result, params |-> params, trust |-> trust, excluded |-> excluded]
Hypot(trust) == Function(<<"double", "hypot">>, <<<<"double", "x">>, <<"double", "y">>>>, trust, FALSE)
Name  == Function(<<"const", "char", "*", "name">>, <<<<"void">>>>, "verified", FALSE)
Free  == Function(<<"void", "free_sized">>, <<<<"void", "*", "p">>, <<"size_t", "n">>>>, "platform", FALSE)
Put   == Function(<<"unsigned", "long", "put">>, <<<<"const", "char", "*", "s">>, <<"...">>>>, "audited", FALSE)
Odd   == Function(<<"off_t", "tell">>, <<<<"int">>>>, "unsafe", FALSE)
Libraries == {<<Hypot("unsafe"), [Odd EXCEPT !.excluded = TRUE]>>, <<Name, Free>>, <<Put, Odd>>,
              <<[Name EXCEPT !.excluded = TRUE]>>}
TrustPolicies == {[unsafe |-> TRUE, audited |-> FALSE], [unsafe |-> FALSE, audited |-> TRUE]}

\* The registry: app needs hal, hal needs math, and the third hal needs app again.
Versions3 == 1..3
Manifests ==
  [app  |-> <<[hal |-> {1, 2}], [hal |-> {2}, math |-> {1}], EmptyMap>>,
   hal  |-> <<[math |-> Versions3], [math |-> {1, 2}], [app |-> Versions3]>>,
   math |-> <<EmptyMap, EmptyMap, EmptyMap>>]
Present == [app |-> {1, 2}, hal |-> {1, 2}, math |-> {1}]
Coming  == {<<"hal", 3>>, <<"math", 2>>, <<"math", 3>>}
Tomls   == {EmptyMap, [app |-> {1}, math |-> Versions3], [hal |-> Versions3, app |-> {2}], [math |-> {3}]}
Adding  == {<<"math", {1}>>, <<"hal", {1}>>}
Licenses == {"app", "hal"} \X Versions3

\* Every role, and every input of a role, of the two functions a process wraps
\* has a number; the names that go with them serve the other programs too.
Offset(k) == 4 * (2 * k[2] - 2 + IF k[1] = (CHOOSE b \in Bridger : TRUE) THEN 0 ELSE 1)
Numbered(letter, n) == letter \o ToString(n)
DrawnNode(k) == Numbered("n", Offset(k) + CASE k[3] = "pre" -> 1 [] k[3] = "call" -> 2
                                            [] k[3] = "post" -> 3 [] k[3] = "assume" -> 4)
DrawnEdge(k) == Numbered("e", Offset(k) + CASE k[3] = "call" -> k[4] [] k[3] = "post" -> 3
                                            [] k[3] = "assume" -> 4)
Names == {"a", "b", "c", "d", "e"} \cup {Numbered("n", i) : i \in 1..16}
Wires == {Numbered("e", i) : i \in 1..16}
\* More than the examples' bounds, on both sides.
Samples == (-3..12) \cup {-1000, 1000}
TheVariable == {"x"}
=============================================================================
