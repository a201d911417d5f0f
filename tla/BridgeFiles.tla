------------------------------ MODULE BridgeFiles ------------------------------
(***************************************************************************)
(* torc ffi bridge (crates/torc-ffi/src, cli/torc/src/commands/ffi.rs):    *)
(* processes that read the declaration of a foreign library, generate a    *)
(* graph that wraps its functions, and write it to the library's file.     *)
(*                                                                         *)
(* A C type is its base, whether that is const, and how many pointers are  *)
(* around it.  A signature is given as words; a star is a word.            *)
(***************************************************************************)
EXTENDS TrcFile

CONSTANTS Bridger,      \* the processes
          Declarations, \* what they may read: sequences of functions
          Policies,     \* the trust policies: [unsafe, audited]
          WordBits,     \* the word size of the default target
          MaxCuts,      \* bound: processes that are cut short
          NodeFor(_),   \* process, functions left, role -> the UUID drawn for that node
          EdgeFor(_)    \* and the place of an input -> the UUID drawn for that edge

ASSUME ForeignAssumption == MaxCuts \in Nat /\ WordBits \in Nat

VARIABLES doing,     \* process -> "idle", "bridging", "open", "writing", "done", "failed", "cut"
          left,      \* process -> the functions still to wrap
          made,      \* process -> the graph it generated
          written,   \* process -> how many cells it has written
          bytes,     \* what graph/ffi/<library>.trc holds
          acked,     \* the graph of the process that finished last, or None
          disturbed  \* two processes wrote at a time, or one was cut short in it

foreignVars == <<doing, left, made, written, bytes, acked, disturbed>>

\* The nodes of a wrapped function: a check before the call, the call, a check
\* after it, an assumption.
Roles == {"pre", "call", "post", "assume"}
Turns  == UNION {DOMAIN d : d \in Declarations}
Inputs == UNION {UNION {DOMAIN d[i].params : i \in DOMAIN d} : d \in Declarations}
NodeKeys == Bridger \X Turns \X Roles
EdgeKeys == (Bridger \X Turns \X {"call"} \X Inputs) \cup (Bridger \X Turns \X {"post", "assume"} \X {1})

\* No UUID is drawn twice.
ASSUME DrawAssumption ==
    /\ \A k \in NodeKeys : NodeFor(k) \in NodeId /\ \A l \in NodeKeys : NodeFor(k) = NodeFor(l) => k = l
    /\ \A k \in EdgeKeys : EdgeFor(k) \in EdgeId /\ \A l \in EdgeKeys : EdgeFor(k) = EdgeFor(l) => k = l

-----------------------------------------------------------------------------
(* C types *)

CType(base, const, pointers) == [base |-> base, const |-> const, pointers |-> pointers]

\* The words of every base type.
Spelled ==
    {<<<<w>>, w>> : w \in {"void", "char", "short", "int", "long", "float", "double", "_Bool", "size_t",
                           "int8_t", "int16_t", "int32_t", "int64_t",
                           "uint8_t", "uint16_t", "uint32_t", "uint64_t"}}
    \cup {<<<<"bool">>, "_Bool">>, <<<<"long", "long">>, "long long">>, <<<<"long", "double">>, "long double">>}
    \cup {<<<<"signed">> \o s[1], s[2]>> :
            s \in {<<<<>>, "int">>, <<<<"char">>, "signed char">>, <<<<"short">>, "short">>, <<<<"int">>, "int">>,
                   <<<<"long">>, "long">>, <<<<"long", "long">>, "long long">>}}
    \cup {<<<<"unsigned">> \o s[1], s[2]>> :
            s \in {<<<<>>, "unsigned int">>, <<<<"char">>, "unsigned char">>,
                   <<<<"short">>, "unsigned short">>, <<<<"int">>, "unsigned int">>,
                   <<<<"long">>, "unsigned long">>, <<<<"long", "long">>, "unsigned long long">>}}

\* parse_base_type: the longest spelling at the start; the type and how many
\* words it takes, or no words when there is none.
BaseIn(words) ==
    LET const == words # <<>> /\ words[1] = "const"
        rest  == IF const THEN Tail(words) ELSE words
        fits  == {s \in Spelled : IsPrefix(s[1], rest)}
        best  == CHOOSE s \in fits : \A t \in fits : Len(t[1]) <= Len(s[1])
        taken == IF const THEN 1 ELSE 0
    IN CASE Len(rest) > 1 /\ rest[1] = "struct" -> [type |-> CType("struct", const, 0), taken |-> taken + 2]
         [] fits # {} -> [type |-> CType(best[2], const, 0), taken |-> taken + Len(best[1])]
         [] OTHER     -> [type |-> CType("none", const, 0), taken |-> 0]

\* The type and the name in the words of a parameter or a function: stars count,
\* a later const does not, the last other word is the name.
Declared(words) ==
    LET base  == BaseIn(words)
        rest  == SubSeq(words, base.taken + 1, Len(words))
        Named_(w) == w \notin {"*", "const"}
        names == SelectSeq(rest, Named_)
    IN [fine |-> base.taken > 0,
        type |-> [base.type EXCEPT !.pointers = Len(SelectSeq(rest, LAMBDA w : w = "*"))],
        name |-> IF names = <<>> THEN "" ELSE Last(names)]

\* CSignature::parse: one void is no parameter, dots may only come last.
Dotted(f) == f.params # <<>> /\ f.params[Len(f.params)] = <<"...">>
Parameters(f) == CASE f.params = <<<<"void">>>> -> <<>>
                   [] Dotted(f) -> [i \in 1..(Len(f.params) - 1) |-> f.params[i]]
                   [] OTHER     -> f.params
Parses(f) ==
    /\ Declared(f.result).fine /\ Declared(f.result).name # ""
    /\ \A i \in DOMAIN Parameters(f) : Declared(Parameters(f)[i]).fine

\* torc_type_from_ctype: strings are arrays, any other pointer is a number of 64
\* bits, and a long has 32.
TorcType(t) ==
    CASE t.pointers = 1 /\ t.base = "char"       -> Array(IntType(8, FALSE), 0)
      [] t.pointers > 0 \/ t.base = "struct"     -> IntType(64, FALSE)
      [] t.base = "void"                         -> Plain("Void")
      [] t.base = "_Bool"                        -> Plain("Bool")
      [] t.base = "float"                        -> Float(32)
      [] t.base \in {"double", "long double"}    -> Float(64)
      [] t.base \in {"char", "signed char", "int8_t"} -> IntType(8, TRUE)
      [] t.base \in {"unsigned char", "uint8_t"} -> IntType(8, FALSE)
      [] t.base \in {"short", "int16_t"}         -> IntType(16, TRUE)
      [] t.base \in {"unsigned short", "uint16_t"} -> IntType(16, FALSE)
      [] t.base \in {"int", "long", "int32_t"}   -> IntType(32, TRUE)
      [] t.base \in {"unsigned int", "unsigned long", "uint32_t"} -> IntType(32, FALSE)
      [] t.base \in {"long long", "int64_t"}     -> IntType(64, TRUE)
      [] t.base = "size_t"                       -> IntType(IF WordBits >= 64 THEN 64 ELSE 32, FALSE)
      [] OTHER                                   -> IntType(64, FALSE)

-----------------------------------------------------------------------------
(* Wrapping a function *)

Checked(trust) == trust # "verified"
Level == [verified |-> 0, platform |-> 1, audited |-> 2, unsafe |-> 3]

\* check_function.  The libraries that the policy trusts are not looked at.
Permits(policy, f) ==
    /\ f.trust = "unsafe" => policy.unsafe
    /\ policy.audited => Level[f.trust] <= Level["audited"]

\* The types of what a function takes and gives: nothing comes out of one that
\* is plain void.
Taken(f) == [i \in DOMAIN Parameters(f) |-> TorcType(Declared(Parameters(f)[i]).type)]
Given(f) == LET result == Declared(f.result).type
            IN IF result = CType("void", FALSE, 0) THEN <<>> ELSE <<TorcType(result)>>

\* A function is a record with a sequence of parameters, and None is not a type.
ASSUME DeclarationAssumption ==
    \A d \in Declarations :
       /\ d \in Seq(Range(d))
       /\ \A i \in DOMAIN d : /\ d[i].params \in Seq(Range(d[i].params))
                              /\ None \notin Range(Taken(d[i])) \cup Range(Given(d[i]))

\* A node, and the node of the function that feeds all its inputs, if any.
Piece(kind, ins, outs, contract, f, fed) ==
    [node |-> Node(kind, Sig(ins, outs), contract, f), fed |-> fed]
Foreign == Contract(<<>>, <<>>, <<>>, <<>>, {"FFI"})

\* Fault: the assumption is made about the unchecked result.
Pieces_Unchecked(f, takes, gives) ==
    LET checked == Checked(f.trust)
        posted  == checked /\ gives # <<>>
        assumed == IF gives = <<>> THEN <<Plain("Unit")>> ELSE gives
        roles   == {r \in Roles : CASE r = "pre"    -> checked
                                    [] r = "call"   -> TRUE
                                    [] r = "post"   -> posted
                                    [] r = "assume" -> f.trust = "unsafe"}
    IN [r \in roles |->
         CASE r = "pre"  -> Piece("Verify", takes, takes, None, f, {})
           [] r = "call" -> Piece("FFICall", takes, gives, Foreign, f, IF checked THEN {"pre"} ELSE {})
           [] r = "post" -> Piece("Verify", gives, gives, None, f, {"call"})
           [] OTHER      -> Piece("Assume", assumed, assumed, None, f,
                                  IF gives = <<>> THEN {} ELSE {"call"})]

\* generate_function_bridge: a check before the call and one after it when the
\* function is not verified, and an assumption when it is unsafe.
Pieces(f, takes, gives) ==
    LET checked == Checked(f.trust)
        posted  == checked /\ gives # <<>>
        assumed == IF gives = <<>> THEN <<Plain("Unit")>> ELSE gives
        roles   == {r \in Roles : CASE r = "pre"    -> checked
                                    [] r = "call"   -> TRUE
                                    [] r = "post"   -> posted
                                    [] r = "assume" -> f.trust = "unsafe"}
    IN [r \in roles |->
         CASE r = "pre"  -> Piece("Verify", takes, takes, None, f, {})
           [] r = "call" -> Piece("FFICall", takes, gives, Foreign, f, IF checked THEN {"pre"} ELSE {})
           [] r = "post" -> Piece("Verify", gives, gives, None, f, {"call"})
           [] OTHER      -> Piece("Assume", assumed, assumed, None, f,
                                  IF gives = <<>> THEN {} ELSE {IF posted THEN "post" ELSE "call"})]

Wrapper(f) == Pieces(f, Taken(f), Given(f))

\* add_full_node for every node and connect_typed for every input that is fed:
\* an edge joins the ports of the same number.
WithPieces(p, pieces, b, k) ==
    LET nodes    == {NodeFor(<<b, k, r>>) : r \in DOMAIN pieces}
        RoleOf(n) == CHOOSE r \in DOMAIN pieces : NodeFor(<<b, k, r>>) = n
        wires    == UNION {{<<r, i>> : i \in DOMAIN pieces[r].node.sig.ins} :
                             r \in {q \in DOMAIN pieces : pieces[q].fed # {}}}
        edges    == {EdgeFor(<<b, k, w[1], w[2]>>) : w \in wires}
        WireOf(e) == CHOOSE w \in wires : EdgeFor(<<b, k, w[1], w[2]>>) = e
        Ends(w)  == [source |-> NodeFor(<<b, k, CHOOSE r \in pieces[w[1]].fed : TRUE>>),
                     target |-> NodeFor(<<b, k, w[1]>>)]
        Ports(w) == [from |-> w[2] - 1, to |-> w[2] - 1]
    IN [p EXCEPT !.graph = WithEdges(WithNodes(@, nodes), [e \in edges |-> Ends(WireOf(e))]),
                 !.attr  = @ ++ [n \in nodes |-> pieces[RoleOf(n)].node],
                 !.ports = @ ++ [e \in edges |-> Ports(WireOf(e))]]

WithFunction(p, f, b, k) == WithPieces(p, Wrapper(f), b, k)

-----------------------------------------------------------------------------
(* The processes *)

Blank == [graph |-> EmptyGraph, attr |-> EmptyMap, ports |-> EmptyMap, kindOf |-> EmptyMap, constrained |-> {}]

ForeignInit ==
    /\ doing = [p \in Bridger |-> "idle"] /\ left = [p \in Bridger |-> <<>>]
    /\ made = [p \in Bridger |-> Blank] /\ written = [p \in Bridger |-> 0]
    /\ bytes = <<>> /\ acked = None /\ disturbed = FALSE

Turn(p, now) == doing' = [doing EXCEPT ![p] = now]

\* The declaration is loaded and held against the policy; nothing is generated
\* when no function is active.
Declare(p, d, policy) ==
    /\ doing[p] = "idle"
    /\ left' = [left EXCEPT ![p] = d]
    /\ Turn(p, CASE \E i \in DOMAIN d : ~d[i].excluded /\ ~Permits(policy, d[i]) -> "failed"
                 [] \A i \in DOMAIN d : d[i].excluded -> "done"
                 [] OTHER -> "bridging")
    /\ UNCHANGED <<made, written, bytes, acked, disturbed>>

\* The next function: passed over when it is excluded.
Wrap(p) ==
    LET f == left[p][1] IN
    /\ doing[p] = "bridging" /\ left[p] # <<>>
    /\ \/ f.excluded /\ left' = [left EXCEPT ![p] = Tail(@)] /\ UNCHANGED <<doing, made>>
       \/ /\ ~f.excluded /\ Parses(f)
          /\ made' = [made EXCEPT ![p] = WithFunction(@, f, p, Len(left[p]))]
          /\ left' = [left EXCEPT ![p] = Tail(@)]
          /\ UNCHANGED doing
       \/ ~f.excluded /\ ~Parses(f) /\ Turn(p, "failed") /\ UNCHANGED <<made, left>>
    /\ UNCHANGED <<written, bytes, acked, disturbed>>

Others(p) == {q \in Bridger \ {p} : doing[q] = "writing"}

\* std::fs::write empties the file, then writes from its start.
Open(p) ==
    /\ doing[p] = "bridging" /\ left[p] = <<>>
    /\ bytes' = <<>>
    /\ disturbed' = (disturbed \/ Others(p) # {})
    /\ Turn(p, "writing")
    /\ UNCHANGED <<left, made, written, acked>>

Zeros == [cell |-> "zeros"]

\* A cell further on than the file is long leaves zeros before it.
Write(p) ==
    LET cells == ToBytes(made[p])
        at    == written[p] + 1
    IN /\ doing[p] = "writing" /\ written[p] < Len(cells)
       /\ bytes' = [i \in DOMAIN bytes \cup (1..at) |->
                      IF i = at THEN cells[i] ELSE IF i \in DOMAIN bytes THEN bytes[i] ELSE Zeros]
       /\ written' = [written EXCEPT ![p] = at]
       /\ IF at = Len(cells) THEN Turn(p, "done") /\ acked' = made[p]
          ELSE UNCHANGED <<doing, acked>>
       /\ UNCHANGED <<left, made, disturbed>>

\* A process dies, or a call returns an error (create_dir_all, the open or the
\* write): the command is over, and after the open the file is what was written.
CutShort(p) ==
    /\ doing[p] \in {"bridging", "writing"}
    /\ Cardinality({q \in Bridger : doing[q] = "cut"}) < MaxCuts
    /\ Turn(p, "cut")
    /\ disturbed' = (disturbed \/ doing[p] = "writing")
    /\ UNCHANGED <<left, made, written, bytes, acked>>

ForeignNext ==
    \E p \in Bridger :
       \/ \E d \in Declarations, policy \in Policies : Declare(p, d, policy)
       \/ Wrap(p) \/ Open(p) \/ Write(p) \/ CutShort(p)

ForeignSpec == ForeignInit /\ [][ForeignNext]_foreignVars
-----------------------------------------------------------------------------
(* What holds *)

OfKind(p, kind) == {n \in p.graph.nodes : p.attr[n].kind = kind}
Calls(p) == OfKind(p, "FFICall")
Receivers(p, n) == {p.graph.edges[e].target : e \in EdgesFrom(p, n)}

\* Every input of the node comes over one edge, from the output of the same
\* place of another one.
AllFrom(p, n, m) ==
    \A i \in DOMAIN Ins(p, n) :
       \E e \in EdgesInto(p, n) : /\ {x \in EdgesInto(p, n) : p.ports[x].to = i - 1} = {e}
                                  /\ p.graph.edges[e].source = m /\ p.ports[e].from = i - 1

\* The call has all its arguments from one check and hands its result to one
\* check and to nothing else, and an unsafe result goes from there to an
\* assumption and to nothing else.
Guarded(p, n) ==
    /\ \E m \in OfKind(p, "Verify") : AllFrom(p, n, m)
    /\ Outs(p, n) # <<>> =>
         \E m \in OfKind(p, "Verify") :
            /\ Receivers(p, n) = {m}
            /\ p.attr[n].value.trust = "unsafe" => \E a \in OfKind(p, "Assume") : Receivers(p, m) = {a}

\* Whatever was wrapped before and however the command ends, the graph, which is
\* taken from the builder without a check, would pass validate, and every
\* wrapped call is guarded unless its function is verified (bridge_from_c.rs).
GuardsInPlace ==
    \A b \in Bridger :
       /\ WellFormed(made[b])
       /\ \A n \in Calls(made[b]) : Checked(made[b].attr[n].value.trust) => Guarded(made[b], n)

\* Whatever processes that overlap, fail or die leave in the file, a reader gets
\* a graph that one of them generated to its end, or none; and with no overlap
\* and no write cut short, the graph of the one that finished last (format.rs,
\* cli ffi.rs).
AcceptedIsWritten ==
    LET read == FromBytes(bytes) IN
    /\ read # None => \E p \in Bridger : made[p] = read /\ left[p] = <<>>
    /\ acked # None /\ ~disturbed /\ (\A p \in Bridger : doing[p] # "writing") => read = acked
=============================================================================
