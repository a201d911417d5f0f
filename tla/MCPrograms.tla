------------------------------- MODULE MCPrograms -------------------------------
(* Small programs for the instances that TLC checks. *)
EXTENDS Verification

U8 == IntType(8, FALSE)
I8 == IntType(8, TRUE)
I4 == IntType(4, TRUE)
U16 == IntType(16, FALSE)
Flag == Plain("Bool")
Yes  == Bool(TRUE)

Nodes == {"a", "b", "c", "d", "e"}
Edges == {"e1", "e2", "e3", "e4", "e5", "e6", "e7"}
Outer == "r1"
Inner == "r2"
Apart == "r3"

\* A literal n of type t, with a contract that may keep it from being merged.
Const(t, n, contract) == Node("Literal", Sig(<<>>, <<t>>), contract, Lit(n))
Op(kind, ins, result) == Node(kind, Sig(ins, <<result>>), None, None)
Promise(posts)        == Contract(<<>>, posts, <<>>, <<>>, {"Pure"})
Demand(pres, effects) == Contract(pres, <<>>, <<"time">>, <<"overflow">>, effects)

Wire(s, t, from, to) == [ends |-> [source |-> s, target |-> t], port |-> [from |-> from, to |-> to]]

\* A program: its nodes, its wires, its regions listed from the outermost, each
\* [id, kind, children, parent], and which of them carry a constraint.
Program(attr, wires, regions, constrained) ==
    LET At(end, n) == [e \in EdgeId |-> IF e \in DOMAIN wires /\ wires[e].ends[end] = n THEN 1 ELSE 0]
        ids   == {regions[i].id : i \in DOMAIN regions}
        House_(id) == regions[CHOOSE i \in DOMAIN regions : regions[i].id = id]
        homes == UNION {regions[i].children : i \in DOMAIN regions}
    IN [graph |-> [nodes |-> DOMAIN attr,
                   edges |-> [e \in DOMAIN wires |-> wires[e].ends],
                   outgoing |-> [n \in DOMAIN attr |-> At("source", n)],
                   incoming |-> [n \in DOMAIN attr |-> At("target", n)],
                   regions |-> [id \in ids |-> [children |-> Listing(House_(id).children),
                                                parent |-> House_(id).parent]],
                   regionChildren |-> [id \in ids |-> Listing(House_(id).children)],
                   regionParent |-> [id \in {i \in ids : House_(i).parent # None} |-> House_(id).parent],
                   nodeRegion |-> [n \in homes |-> CHOOSE id \in ids : n \in House_(id).children]],
        attr  |-> attr,
        ports |-> [e \in DOMAIN wires |-> wires[e].port],
        kindOf |-> [id \in ids |-> House_(id).kind],
        constrained |-> constrained]
House(id, kind, children, parent) ==
    [id |-> id, kind |-> kind, children |-> children, parent |-> parent]

\* 200 / 3 in eight unsigned bits, negated; the contracts keep the literals apart.
Division == Program(
    [a |-> Const(U8, 200, PureContract), b |-> Const(U8, 3, None),
     c |-> Op("Div", <<U8, U8>>, U8), d |-> Op("Not", <<U8>>, U8)],
    [e1 |-> Wire("a", "c", 0, 0), e2 |-> Wire("b", "c", 0, 1), e3 |-> Wire("c", "d", 0, 0)],
    <<>>, {})

\* 7 + 7, from one literal after the merge, if it is more than 7.
Twice == Program(
    [a |-> Const(I8, 7, None), b |-> Const(I8, 7, None), c |-> Op("Add", <<I8, I8>>, I8),
     d |-> Op("Gt", <<I8, I8>>, Flag), e |-> Op("Select", <<Flag, I8, I8>>, I8)],
    [e1 |-> Wire("a", "c", 0, 0), e2 |-> Wire("b", "c", 0, 1), e3 |-> Wire("c", "d", 0, 0),
     e4 |-> Wire("a", "d", 0, 1), e5 |-> Wire("d", "e", 0, 0), e6 |-> Wire("c", "e", 0, 1),
     e7 |-> Wire("b", "e", 0, 2)],
    <<>>, {})

\* 10 + 20: two literals that differ only in their value.
Distinct == Program(
    [a |-> Const(U8, 10, None), b |-> Const(U8, 20, None), c |-> Op("Add", <<U8, U8>>, U8)],
    [e1 |-> Wire("a", "c", 0, 0), e2 |-> Wire("b", "c", 0, 1)],
    <<>>, {})

\* 5 * -3, widened: regions keep the literals apart, a nested one of its parent's
\* kind, one of a single node, and one of a single node with a constraint.
Housed == Program(
    [a |-> Const(I4, 5, None), b |-> Const(I4, -3, None),
     c |-> Op("Mul", <<I4, I4>>, I4), d |-> Op("Conversion", <<I4>>, I8)],
    [e1 |-> Wire("a", "c", 0, 0), e2 |-> Wire("b", "c", 0, 1), e3 |-> Wire("c", "d", 0, 0)],
    <<House(Outer, "Sequential", {"d"}, None), House(Inner, "Sequential", {"a", "c"}, Outer),
      House(Apart, "Parallel", {"b"}, None)>>, {Outer})

\* Refinements and contracts to be proved, some of them false.
Obliged == Program(
    [a |-> Const(Refined(U8, App("lt", <<Var("x"), Lit(5)>>)), 4,
                 Promise(<<App("ge", <<Lit(7), App("mul", <<Lit(-2), Lit(-3)>>)>>),
                           App("lt", <<App("sub", <<Lit(1), Lit(4)>>), App("neg", <<Lit(3)>>)>>)>>)),
     b |-> Node("Conversion",
                Sig(<<Refined(U8, App("le", <<Var("x"), Lit(5)>>))>>, <<U16>>),
                Demand(<<App("or", <<App("gt", <<Lit(2), Lit(1)>>), App("eq", <<Var("x"), Lit(0)>>)>>),
                         Quantified("exists", "x", App("lt", <<Var("x"), Var("x")>>), Yes)>>,
                       {"Pure"}), None),
     c |-> Op("Conversion", <<Refined(U16, App("ge", <<Var("x"), Lit(1)>>))>>, U8)],
    [e1 |-> Wire("a", "b", 0, 0), e2 |-> Wire("b", "c", 0, 0)],
    <<>>, {})

\* Types that do not match: LLVM is given operands of two widths.
Mismatched == Program(
    [a |-> Const(U8, 1, Promise(<<App("ne", <<Var("x"), Lit(2)>>)>>)), b |-> Const(U16, 1, None),
     c |-> Op("Add", <<U8, U8>>, U8)],
    [e1 |-> Wire("a", "c", 0, 0), e2 |-> Wire("b", "c", 0, 1)],
    <<>>, {})

\* A float where an integer is wanted.
Confused == Program(
    [a |-> Const(Float(64), 1, None), b |-> Op("Add", <<U8, U8>>, U8)],
    [e1 |-> Wire("a", "b", 0, 0), e2 |-> Wire("a", "b", 0, 1)],
    <<>>, {})

\* A cycle through an iteration, and one that nothing excuses.
Iterating == Program(
    [a |-> Op("Iterate", <<U8>>, U8), b |-> Op("Not", <<U8>>, U8), c |-> Const(Linear(U8, "Linear"), 1, None)],
    [e1 |-> Wire("a", "b", 0, 0), e2 |-> Wire("b", "a", 0, 0)],
    <<>>, {})
Cyclic == Program(
    [a |-> Op("Not", <<U8>>, U8), b |-> Op("Not", <<I8>>, I8)],
    [e1 |-> Wire("a", "b", 0, 0), e2 |-> Wire("b", "a", 0, 0)],
    <<>>, {})
===============================================================================
