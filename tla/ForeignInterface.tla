--------------------------- MODULE ForeignInterface ---------------------------
(***************************************************************************)
(* What the bridges of BridgeFiles are worth: the guards around a foreign  *)
(* call, and the C header that a wrapped function is exported to           *)
(* (crates/torc-ffi/src: bridge_from_c.rs, bridge_to_c.rs, marshal.rs).    *)
(***************************************************************************)
EXTENDS BridgeFiles, Programs

\* ctype_string_from_torc, as words: what a generated header calls a type.
RECURSIVE HeaderType(_)
HeaderType(t) ==
    CASE t.k \in {"Void", "Unit"} -> <<"void">>
      [] t.k = "Bool"             -> <<"_Bool">>
      [] t.k = "Int" /\ t.width \in {8, 16, 32, 64} ->
           LET sized == [w \in {8, 16, 32, 64} |->
                          CASE w = 8  -> <<"int8_t", "uint8_t">>   [] w = 16 -> <<"int16_t", "uint16_t">>
                            [] w = 32 -> <<"int32_t", "uint32_t">> [] w = 64 -> <<"int64_t", "uint64_t">>]
           IN <<sized[t.width][IF t.sign THEN 1 ELSE 2]>>
      [] t.k = "Float"            -> <<IF t.precision = 32 THEN "float" ELSE "double">>
      [] t.k = "Array" /\ t.c[1].k = "Int" /\ t.c[1].width = 8 -> <<"const", "char", "*">>
      [] t.k = "Array"            -> Append(HeaderType(t.c[1]), "*")
      [] t.k = "Option"           -> LET inner == HeaderType(t.c[1])
                                     IN IF Last(inner) = "*" THEN inner ELSE Append(inner, "*")
      [] t.k \in {"Refined", "Linear", "Timed", "Sized"} -> HeaderType(t.c[1])
      [] t.k = "Named"            -> <<"struct", t.name>>
      [] OTHER                    -> <<"void", "*">>

\* Fault: a node without a result is declared without one.
Exported_Implicit(p, n, name) ==
    [result |-> Append(IF Outs(p, n) = <<>> THEN <<>> ELSE HeaderType(Outs(p, n)[1]), name),
     params |-> IF Ins(p, n) = <<>> THEN <<<<"void">>>>
                ELSE [i \in DOMAIN Ins(p, n) |-> HeaderType(Ins(p, n)[i])]]

\* collect_exports and generate_c_header: the declaration of an exported node,
\* in words.  Parameters have no names.
Exported(p, n, name) ==
    [result |-> Append(IF Outs(p, n) = <<>> THEN <<"void">> ELSE HeaderType(Outs(p, n)[1]), name),
     params |-> IF Ins(p, n) = <<>> THEN <<<<"void">>>>
                ELSE [i \in DOMAIN Ins(p, n) |-> HeaderType(Ins(p, n)[i])]]

-----------------------------------------------------------------------------
(* What holds *)

\* A bridge that is generated, finished or not, has edges between equal types
\* only; and a wrapped call that is exported to a C header, and wrapped again
\* from there, has the types it had (bridge_from_c.rs, bridge_to_c.rs,
\* marshal.rs, csig.rs).
BridgeSound ==
    \A b \in Bridger :
       /\ WellTyped(made[b]) /\ TypeObligations(made[b]) = <<>>
       /\ \A n \in Calls(made[b]) :
            LET f == Exported(made[b], n, "exported") IN
            Parses(f) /\ Taken(f) = Ins(made[b], n) /\ Given(f) = Outs(made[b], n)
=============================================================================
