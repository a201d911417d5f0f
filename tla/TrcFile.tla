-------------------------------- MODULE TrcFile --------------------------------
(***************************************************************************)
(* The file format of programs (crates/torc-trc/src/format.rs).  A file is *)
(* a sequence of cells: the header, the parts of the serialized graph, and *)
(* the hash of all that comes before it, which is as good as a copy.       *)
(***************************************************************************)
EXTENDS ProgramGraphs

Current == [major |-> 0, minor |-> 1]
Compatible(v) == v.major = Current.major /\ v.minor <= Current.minor

\* A larger graph takes more parts; one to three are enough to mix them up.
PartsOf(p) == LET size == Cardinality(p.graph.nodes)
              IN CASE size < 4 -> 1 [] size >= 4 /\ size < 8 -> 2 [] OTHER -> 3
Counts(p) == <<Cardinality(p.graph.nodes), Cardinality(DOMAIN p.graph.edges), Cardinality(DOMAIN p.graph.regions)>>

\* write_to
Header(p)  == [cell |-> "header", version |-> Current, counts |-> Counts(p), length |-> PartsOf(p)]
Payload(p) == [i \in 1..PartsOf(p) |-> [cell |-> "part", of |-> p, part |-> i]]
Hash(cells) == [cell |-> "hash", over |-> cells]
ToBytes(p) == LET body == <<Header(p)>> \o Payload(p) IN Append(body, Hash(body))

\* What the parts of one graph are read as.  Parts of several may be read as a
\* graph that nobody wrote.
Garbled == [garbled |-> TRUE]
Deserialized(parts) == IF parts = Payload(parts[1].of) THEN parts[1].of ELSE Garbled

\* Fault: the hash is not compared.
FromBytes_Unhashed(data) ==
    IF Len(data) < 3 THEN None
    ELSE IF data[1].cell # "header" THEN None
    ELSE IF Len(data) < data[1].length + 2 THEN None
    ELSE LET parts == SubSeq(data, 2, data[1].length + 1)
         IN IF \E i \in DOMAIN parts : parts[i].cell # "part" THEN None ELSE Deserialized(parts)

\* from_bytes: None when the data is refused.  Other cells than a header do not
\* start with the magic number.  What follows the hash is not looked at.
FromBytes(data) ==
    IF Len(data) < 3 THEN None
    ELSE IF data[1].cell # "header" THEN None
    ELSE IF ~Compatible(data[1].version) \/ Len(data) < data[1].length + 2 THEN None
    ELSE LET body  == SubSeq(data, 1, data[1].length + 1)
             graph == Deserialized(Tail(body))
         IN IF data[Len(body) + 1] # Hash(body) THEN None
            ELSE IF Counts(graph) # data[1].counts THEN None ELSE graph
=============================================================================
