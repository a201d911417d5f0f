-------------------------------- MODULE Layout --------------------------------
(***************************************************************************)
(* What follows from the order in which materialization takes the nodes of *)
(* a program: its levels, the memory it takes, and whether a platform has  *)
(* that much (crates/torc-materialize/src: schedule.rs, layout.rs,         *)
(* resource.rs, postverify.rs).                                            *)
(*                                                                         *)
(* Sizes are in bytes, those of a platform in pages of 64 KiB.             *)
(***************************************************************************)
EXTENDS Programs, Targets

WordBytes(platform) == platform.isa.word \div 8
Page == 65536

AlignUp(n, align) == IF align = 0 THEN n ELSE ((n + align - 1) \div align) * align
BytesOf(bits) == (bits + 7) \div 8
Larger(a, b)  == IF a > b THEN a ELSE b
Smaller(a, b) == IF a < b THEN a ELSE b
Largest(S)    == CHOOSE n \in S : \A m \in S : m <= n

Size(bytes, align) == [bytes |-> bytes, align |-> align]
Natural(bytes, word) == Size(bytes, Smaller(bytes, word))

\* Fields one after the other, each at its alignment, and the whole padded.
Struct(sizes) ==
    LET Place(acc, s) == Size(AlignUp(acc.bytes, s.align) + s.bytes, Larger(acc.align, s.align))
        all == FoldLeft(Place, Size(0, 1), sizes)
    IN [all EXCEPT !.bytes = AlignUp(@, all.align)]

\* A tag and room for the largest case.
Tagged(tag, sizes, align) ==
    LET widest == Largest({align} \cup {sizes[i].align : i \in DOMAIN sizes})
    IN Size(AlignUp(tag + Largest({0} \cup {sizes[i].bytes : i \in DOMAIN sizes}), widest), widest)

\* estimate_type_size: None for a type whose size is not known before it runs.
RECURSIVE SizeOf(_, _)
SizeOf(t, word) ==
    LET parts == [i \in DOMAIN t.c |-> SizeOf(t.c[i], word)]
        tag   == IF Len(t.c) <= 256 THEN 1 ELSE 4
    IN CASE t.k \in {"Vec", "Distribution", "Named", "Parameterized"} -> None
         [] \E i \in DOMAIN parts : parts[i] = None -> None
         [] t.k \in {"Void", "Unit"}     -> Size(0, 1)
         [] t.k = "Bool"                 -> Size(1, 1)
         [] t.k = "Int"                  -> Natural(BytesOf(t.width), word)
         [] t.k = "Float"                -> Natural(BytesOf(t.precision), word)
         [] t.k = "Fixed"                -> Natural(BytesOf(t.total), word)
         [] t.k \in {"Tuple", "Record"}  -> Struct(parts)
         [] t.k = "Variant"              -> Tagged(tag, parts, Smaller(tag, word))
         [] t.k = "Option"               -> Tagged(1, parts, 1)
         [] t.k = "Array" -> Size(AlignUp(parts[1].bytes, parts[1].align) * t.length, parts[1].align)
         [] OTHER                        -> parts[1]

-----------------------------------------------------------------------------
(* Levels *)

\* compute_levels, and the steps of the schedule: the nodes of one level.  A
\* node is as high as the longest path to it has edges.
LevelsOf(p, order) ==
    LET nodes == PathWeights(p, order, [n \in p.graph.nodes |-> 1])
    IN [k \in DOMAIN order |-> nodes[k] - 1]
StepsOf(p, order) ==
    LET level == LevelsOf(p, order)
        Of(l) == {order[i] : i \in {j \in DOMAIN order : level[j] = l}}
    IN [s \in 1..Cardinality(ToSet(level)) |-> Of(s - 1)]

-----------------------------------------------------------------------------
(* The estimate *)

BytesIn(types, word) ==
    LET Sized(t) == SizeOf(t, word)
    IN FoldLeft(LAMBDA sum, t : IF Sized(t) = None THEN sum ELSE sum + Sized(t).bytes, 0, types)

\* Inputs, outputs, and two words for the return address and registers.
FrameBytes(attr, word) ==
    2 * word + (IF attr.sig = None THEN 0 ELSE BytesIn(attr.sig.ins, word) + BytesIn(attr.sig.outs, word))

\* The heaviest path, along an order.
PeakAlong(p, order, word) ==
    HeaviestPath(p, order, [n \in p.graph.nodes |-> FrameBytes(p.attr[n], word)])

\* estimate_layout.  The schedule was computed before, so there is an order.
LayoutOf(p, order, platform) ==
    LET word     == WordBytes(platform)
        literals == {n \in p.graph.nodes : p.attr[n].kind = "Literal"}
    IN [peak   |-> PeakAlong(p, order, word),
        static |-> FoldSet(LAMBDA n, sum : BytesIn(Outs(p, n), word) + sum, 0, literals),
        code   |-> Cardinality(p.graph.nodes) * 10 * (IF platform.isa.word = 32 THEN 4 ELSE 8)]

Pages(bytes) == (bytes + Page - 1) \div Page

\* check_resource_fit: what does not fit.  RAM and stack are held against the
\* same estimate.
Overflows(layout, platform) ==
    {r \in {"flash", "ram", "stack"} :
       CASE r = "flash" -> Pages(layout.code + layout.static) > platform.flash
         [] r = "ram"   -> Pages(layout.peak) > platform.ram
         [] r = "stack" -> Pages(layout.peak) > platform.stack}

\* verify_binary: a size within a factor of five of the estimate.
SizePlausible(bytes, estimate) ==
    IF estimate = 0 THEN bytes = 0 ELSE 5 * bytes >= estimate /\ bytes <= 5 * estimate
=============================================================================
