------------------------------- MODULE Codegen -------------------------------
(***************************************************************************)
(* How the nodes of a program become LLVM values                           *)
(* (crates/torc-materialize/src/codegen: lower.rs, types.rs, context.rs),  *)
(* and what the program means.                                             *)
(*                                                                         *)
(* Every root is a literal, so every value is known: an integer value is   *)
(* its width and its bits; a float value is its precision, its arithmetic  *)
(* is not modelled; "poison" is what LLVM leaves undefined or depends on   *)
(* a float, "broken" an instruction whose operands have the wrong types;   *)
(* an "error" or a "panic" ends the lowering.                              *)
(***************************************************************************)
EXTENDS Layout, Bitwise

CONSTANT LiteralBits   \* bits of a literal that reach LLVM (64 in the code)

ASSUME LiteralBitsAssumption == LiteralBits \in Nat \ {0}

Signed(t) == t.k = "Int" /\ t.sign
Wide(w, n) == [sort |-> "int", width |-> w, bits |-> n % 2^w]
Real(p)    == [sort |-> "float", precision |-> p]
Outcome(sort) == [sort |-> sort]
Poison == Outcome("poison")
Broken == Outcome("broken")
Error  == Outcome("error")
Panic  == Outcome("panic")

\* The number that bits stand for.
Unsigned(v) == v.bits
SignedOf(v) == IF v.bits >= 2^(v.width - 1) THEN v.bits - 2^v.width ELSE v.bits
NumberIn(v, sign) == IF sign THEN SignedOf(v) ELSE Unsigned(v)

\* Division and remainder truncate.
Abs(n) == IF n < 0 THEN -n ELSE n
Quotient(a, b)  == IF (a < 0) = (b < 0) THEN Abs(a) \div Abs(b) ELSE -(Abs(a) \div Abs(b))
Remainder(a, b) == a - b * Quotient(a, b)

Arithmetic == {"Add", "Sub", "Mul", "Div", "Mod"}
BitOps     == {"And", "Or", "Xor", "ShiftLeft", "ShiftRight"}
Orderings  == {"Eq", "Ne", "Lt", "Le", "Gt", "Ge"}

Compared(op, a, b) == CASE op = "Eq" -> a = b [] op = "Ne" -> a # b
                        [] op = "Lt" -> a < b [] op = "Le" -> a <= b
                        [] op = "Gt" -> a > b [] op = "Ge" -> a >= b

-----------------------------------------------------------------------------
(* to_llvm_type *)

LlvmInt(w)     == [llvm |-> "int", width |-> w, parts |-> <<>>]
LlvmStruct(ts) == [llvm |-> "struct", width |-> 64 * Len(ts), parts |-> ts]

\* The rough size by which the payload of a variant is chosen is in width.
RECURSIVE LlvmType(_)
LlvmType(t) ==
    LET parts == [i \in DOMAIN t.c |-> LlvmType(t.c[i])]
        tag   == LlvmInt(IF Len(parts) <= 256 THEN 8 ELSE 32)
        big   == {i \in DOMAIN parts : /\ parts[i].width > 0
                                       /\ \A j \in DOMAIN parts : parts[j].width <= parts[i].width}
        first == CHOOSE i \in big : \A j \in big : i <= j
    IN CASE t.k \in {"Vec", "Distribution", "Named", "Parameterized"} -> None
         [] \E i \in DOMAIN parts : parts[i] = None -> None
         [] t.k \in {"Void", "Unit"}    -> LlvmStruct(<<>>)
         [] t.k = "Bool"                -> LlvmInt(1)
         [] t.k = "Int"                 -> LlvmInt(t.width)
         [] t.k = "Fixed"               -> LlvmInt(t.total)
         [] t.k = "Float"               -> [llvm |-> "float", width |-> 64, precision |-> t.precision,
                                            parts |-> <<>>]
         [] t.k \in {"Tuple", "Record"} -> LlvmStruct(parts)
         [] t.k = "Option"              -> LlvmStruct(<<LlvmInt(1), parts[1]>>)
         [] t.k = "Array" -> [llvm |-> "array", width |-> 64 * t.length, parts |-> parts]
         [] t.k = "Variant" -> LlvmStruct(IF big = {} THEN <<tag>> ELSE <<tag, parts[first]>>)
         [] OTHER                       -> parts[1]

\* A value is returned where its LLVM type is the function's.
OfLlvmType(v, ty) ==
    CASE v.sort = "int"   -> ty.llvm = "int" /\ ty.width = v.width
      [] v.sort = "float" -> ty.llvm = "float" /\ ty.precision = v.precision
      [] OTHER            -> TRUE

\* A return of v from a function of the type of node n, which returns nothing
\* when that type has no LLVM equivalent, passes LLVM's verifier.
ReturnsAs(p, n, v) ==
    LET outs == Outs(p, n)
        ty   == IF outs = <<>> THEN None ELSE LlvmType(outs[1])
    IN ty # None /\ OfLlvmType(v, ty)

-----------------------------------------------------------------------------
(* lower_node *)

\* The low bits of a literal, extended by the sign of its type.
LowerLiteral(t, value) ==
    CASE t.k = "Bool"  /\ value.op = "bool"  -> Wide(1, IF value.b THEN 1 ELSE 0)
      [] t.k = "Int"   /\ value.op = "int"   -> Wide(t.width, NumberIn(Wide(LiteralBits, value.n), t.sign))
      [] t.k = "Float" /\ value.op \in {"int", "float"} -> Real(t.precision)
      [] OTHER -> Error

\* Fault: signed division of unsigned numbers.
IntOp_Signed(op, sign, a, b) ==
    LET x == SignedOf(a)  y == SignedOf(b)
    IN CASE a.width # b.width -> Broken
         [] op = "Add" -> Wide(a.width, x + y)
         [] op = "Sub" -> Wide(a.width, x - y)
         [] op = "Mul" -> Wide(a.width, x * y)
         [] y = 0      -> Poison
         [] op = "Div" -> Wide(a.width, Quotient(x, y))
         [] op = "Mod" -> Wide(a.width, Remainder(x, y))

\* Dividing by zero, and the smallest number by -1, is undefined.
IntOp(op, sign, a, b) ==
    LET x == NumberIn(a, sign)  y == NumberIn(b, sign)
    IN CASE a.width # b.width -> Broken
         [] op = "Add" -> Wide(a.width, x + y)
         [] op = "Sub" -> Wide(a.width, x - y)
         [] op = "Mul" -> Wide(a.width, x * y)
         [] y = 0 \/ (sign /\ x = -(2^(a.width - 1)) /\ y = -1) -> Poison
         [] op = "Div" -> Wide(a.width, Quotient(x, y))
         [] op = "Mod" -> Wide(a.width, Remainder(x, y))

\* A shift by the width or more is undefined.
BitOp(op, sign, a, b) ==
    CASE a.width # b.width -> Broken
      [] op = "And" -> Wide(a.width, a.bits & b.bits)
      [] op = "Or"  -> Wide(a.width, a.bits | b.bits)
      [] op = "Xor" -> Wide(a.width, a.bits ^^ b.bits)
      [] b.bits >= a.width  -> Poison
      [] op = "ShiftLeft"   -> Wide(a.width, a.bits * 2^b.bits)
      [] op = "ShiftRight"  -> Wide(a.width, NumberIn(a, sign) \div 2^b.bits)

\* An integer is widened by the sign of the type it becomes, not of the one it had.
Convert(from, to, v) ==
    CASE from.k = "Int" /\ to.k = "Int"     -> Wide(to.width, NumberIn(v, to.sign))
      [] from.k = "Bool" /\ to.k = "Int"    ->
           IF v.width > to.width THEN Broken ELSE Wide(to.width, Unsigned(v))
      [] from.k \in {"Int", "Float"} /\ to.k = "Float" -> Real(to.precision)
      [] from.k = "Float" /\ to.k = "Int"   -> Poison

\* What an instruction expects of its operands before it looks at them.
Wants(v, sort) == v.sort \in {sort, "poison", "broken"}
Undefined(vs) == \E i \in DOMAIN vs : vs[i].sort \in {"poison", "broken"}
Worst(vs) == IF \E i \in DOMAIN vs : vs[i].sort = "broken" THEN Broken ELSE Poison

LowerBinary(op, ins, outs, vs) ==
    LET out   == IF outs = <<>> THEN None ELSE BaseType(outs[1])
        asked == IF op \in Orderings THEN (IF ins = <<>> THEN None ELSE BaseType(ins[1])) ELSE out
        float == asked # None /\ asked.k = "Float" /\ op \notin BitOps
        sign  == IF asked = None THEN op \in Orderings ELSE Signed(asked)
        two   == SubSeq(vs, 1, 2)
    IN CASE op \in Arithmetic /\ out = None -> Error
         [] Len(vs) < 2 -> Error
         [] \E i \in 1..2 : ~Wants(vs[i], IF float THEN "float" ELSE "int") -> Panic
         [] Undefined(two) -> Worst(two)
         [] float /\ vs[1].precision # vs[2].precision -> Broken
         [] float /\ op \in Arithmetic -> Real(vs[1].precision)
         [] float -> Poison
         [] op \in Arithmetic -> IntOp(op, sign, vs[1], vs[2])
         [] op \in BitOps     -> BitOp(op, sign, vs[1], vs[2])
         [] OTHER -> IF vs[1].width # vs[2].width THEN Broken
                     ELSE Wide(1, IF Compared(op, NumberIn(vs[1], sign), NumberIn(vs[2], sign))
                                  THEN 1 ELSE 0)

TypeOf(v) == IF v.sort = "int" THEN <<"int", v.width>> ELSE <<"float", v.precision>>

LowerSelect(vs) ==
    CASE Len(vs) < 3 -> Error
      [] ~Wants(vs[1], "int") -> Panic
      [] Undefined(SubSeq(vs, 1, 3)) -> Worst(SubSeq(vs, 1, 3))
      [] vs[1].width # 1 \/ TypeOf(vs[2]) # TypeOf(vs[3]) -> Broken
      [] OTHER -> IF vs[1].bits = 1 THEN vs[2] ELSE vs[3]

LowerConversion(ins, outs, vs) ==
    LET from == IF ins = <<>> THEN None ELSE BaseType(ins[1])
        to   == IF outs = <<>> THEN None ELSE BaseType(outs[1])
        known == {<<"Int", "Int">>, <<"Float", "Float">>, <<"Int", "Float">>,
                  <<"Float", "Int">>, <<"Bool", "Int">>}
    IN CASE vs = <<>> \/ None \in {from, to} -> Error
         [] <<from.k, to.k>> \notin known -> Error
         [] ~Wants(vs[1], IF from.k = "Float" THEN "float" ELSE "int") -> Panic
         [] Undefined(<<vs[1]>>) -> vs[1]
         [] OTHER -> Convert(from, to, vs[1])

\* The value of a node whose inputs are vs.  Pow, Rotate and every other kind
\* are errors.
LowerNode(p, n, vs) ==
    LET attr == p.attr[n]  ins == Ins(p, n)  outs == Outs(p, n)
    IN CASE attr.kind = "Literal" ->
              IF outs = <<>> \/ attr.value = None THEN Error
              ELSE LowerLiteral(BaseType(outs[1]), attr.value)
         [] attr.kind \in Arithmetic \cup BitOps \cup Orderings ->
              LowerBinary(attr.kind, ins, outs, vs)
         [] attr.kind = "Not" ->
              CASE vs = <<>> -> Error
                [] ~Wants(vs[1], "int") -> Panic
                [] Undefined(<<vs[1]>>) -> vs[1]
                [] OTHER -> Wide(vs[1].width, -1 - vs[1].bits)
         [] attr.kind = "Select"     -> LowerSelect(vs)
         [] attr.kind = "Conversion" -> LowerConversion(ins, outs, vs)
         [] OTHER -> Error

-----------------------------------------------------------------------------
(* The meaning of a program: what its nodes compute, as numbers *)

\* The number a type gives to n, which it may not be able to hold.
InType(t, n) == CASE t.k = "Bool" -> n % 2
                  [] t.k = "Int"  -> NumberIn(Wide(t.width, n), t.sign)

Binary(op, t, x, y) ==
    LET a == Wide(t.width, x).bits  b == Wide(t.width, y).bits
    IN CASE op = "Add" -> InType(t, x + y)
         [] op = "Sub" -> InType(t, x - y)
         [] op = "Mul" -> InType(t, x * y)
         [] op \in {"Div", "Mod"} /\ y = 0 -> None
         [] op = "Div" -> InType(t, Quotient(x, y))
         [] op = "Mod" -> InType(t, Remainder(x, y))
         [] op = "And" -> InType(t, a & b)
         [] op = "Or"  -> InType(t, a | b)
         [] op = "Xor" -> InType(t, a ^^ b)
         [] op = "ShiftLeft"  -> IF b >= t.width THEN None ELSE InType(t, x * 2^b)
         [] op = "ShiftRight" -> IF b >= t.width THEN None ELSE x \div 2^b
         [] op \in Orderings  -> IF Compared(op, x, y) THEN 1 ELSE 0

\* The node whose output is on the port, for a program that feeds every port once.
Feeder(p, n, port) ==
    p.graph.edges[CHOOSE e \in EdgesInto(p, n) : p.ports[e].to = port].source

RECURSIVE Meaning(_, _)
Meaning(p, n) ==
    LET attr == p.attr[n]
        t    == BaseType(Outs(p, n)[1])
        arg  == [i \in DOMAIN Ins(p, n) |-> Meaning(p, Feeder(p, n, i - 1))]
    IN CASE attr.kind = "Literal" ->
              IF attr.value.op = "bool" THEN (IF attr.value.b THEN 1 ELSE 0) ELSE attr.value.n
         [] \E i \in DOMAIN arg : arg[i] = None -> None
         [] attr.kind = "Not"        -> InType(t, -1 - arg[1])
         [] attr.kind = "Select"     -> IF arg[1] = 1 THEN arg[2] ELSE arg[3]
         [] attr.kind = "Conversion" -> InType(t, arg[1])
         [] OTHER                    -> Binary(attr.kind, t, arg[1], arg[2])

\* The number in a value of type t.
Denotes(v, t) == IF t.k = "Int" THEN NumberIn(v, t.sign) ELSE Unsigned(v)

\* Signatures that suit a kind, over integers and Booleans.
Suits(kind, ins, outs) ==
    LET base == [i \in DOMAIN ins |-> BaseType(ins[i])]
        out  == BaseType(outs[1])
    IN /\ Len(outs) = 1 /\ out.k \in {"Int", "Bool"}
       /\ CASE kind = "Literal" -> ins = <<>>
            [] kind \in Arithmetic \cup BitOps -> out.k = "Int" /\ base = <<out, out>>
            [] kind \in Orderings  -> out.k = "Bool" /\ Len(ins) = 2 /\ base[1] = base[2] /\ base[1].k = "Int"
            [] kind = "Not"        -> base = <<out>>
            [] kind = "Select"     -> base = <<Plain("Bool"), out, out>>
            [] kind = "Conversion" -> Len(ins) = 1 /\ base[1].k \in {"Int", "Bool"} /\ out.k = "Int"
            [] OTHER               -> FALSE

\* A conversion that keeps the number where the new type has room for it: not
\* one that changes the sign of a type while it gets wider.
KeepsNumbers(ins, outs) ==
    LET from == BaseType(ins[1])  to == BaseType(outs[1])
    IN from.k = "Int" => from.sign = to.sign \/ to.width <= from.width

\* A literal that its type and the compiler's literals can hold.
Representable(t, value) ==
    IF t.k = "Bool" THEN value.op = "bool"
    ELSE value.op = "int" /\ InType(t, value.n) = value.n /\ t.width <= LiteralBits

\* The programs whose meaning the compiler has to keep.
Meaningful(p) ==
    /\ WellFormed(p) /\ Orders(p) # {}
    /\ \A n \in p.graph.nodes :
         LET attr == p.attr[n]  ins == Ins(p, n)  outs == Outs(p, n)
         IN /\ attr.sig # None /\ Suits(attr.kind, ins, outs)
            /\ attr.kind = "Literal" => attr.value # None /\ Representable(BaseType(outs[1]), attr.value)
            /\ attr.kind = "Conversion" => KeepsNumbers(ins, outs)
            /\ \A i \in DOMAIN ins :
                 Cardinality({e \in EdgesInto(p, n) : p.ports[e].to = i - 1}) = 1
    /\ \A e \in DOMAIN p.graph.edges : BaseType(SourceType(p, e)) = BaseType(TargetType(p, e))
=============================================================================
