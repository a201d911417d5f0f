------------------------ MODULE RegistryStore_proofs ------------------------
(***************************************************************************)
(* The registry, for any number of publishers, versions, packages, crashes *)
(* and failing calls. TInv types the state and knows which files exist at  *)
(* each phase of a publisher. FInv adds what the files hold: the publisher *)
(* of an uncontested version is alone with it, and its phase says what is  *)
(* in each file. XInv says that no index, on disk or about to be written,  *)
(* contradicts a graph; JInv that one publisher at a time updates it.      *)
(***************************************************************************)
EXTENDS RegistryStore, TLAPS

AfterManifest == {"writeManifest", "openGraph", "writeGraph", "readIndex",
                  "openIndex", "writeIndex"}
AfterGraph    == {"writeGraph", "readIndex", "openIndex", "writeIndex"}

\* The files that a publisher has opened are there.
Placed(p) ==
    /\ pc[p] \in Writing \ {"mkdir"} => job[p].version \in dirs
    /\ pc[p] \in AfterManifest       => job[p].version \in DOMAIN manifest
    /\ pc[p] \in AfterGraph          => job[p].version \in DOMAIN graph

TInv == /\ TypeOK
        /\ DOMAIN graph \subseteq DOMAIN manifest
        /\ \A p \in Proc : Placed(p)

-----------------------------------------------------------------------------
\* A map with an entry put in: its type, its keys and its values.
LEMMA PutFacts ==
  ASSUME NEW f, NEW K, NEW D, IsMap(f, K, D), NEW k \in K, NEW d \in D
  PROVE  /\ IsMap(f ++ One(k, d), K, D)
         /\ DOMAIN (f ++ One(k, d)) = DOMAIN f \cup {k}
         /\ (f ++ One(k, d))[k] = d
         /\ \A x \in DOMAIN f : x # k => (f ++ One(k, d))[x] = f[x]
BY DEF IsMap, ++, One

\* The same for an entry that is replaced.
LEMMA ReplaceFacts ==
  ASSUME NEW f, NEW K, NEW D, IsMap(f, K, D), NEW k \in DOMAIN f, NEW d \in D
  PROVE  /\ IsMap([f EXCEPT ![k] = d], K, D)
         /\ DOMAIN [f EXCEPT ![k] = d] = DOMAIN f
         /\ [f EXCEPT ![k] = d][k] = d
         /\ \A x \in DOMAIN f : x # k => [f EXCEPT ![k] = d][x] = f[x]
BY DEF IsMap

\* The empty map has any type.
LEMMA EmptyMapFacts ==
  ASSUME NEW K, NEW D
  PROVE  IsMap(EmptyMap, K, D) /\ DOMAIN EmptyMap = {}
BY DEF IsMap, EmptyMap

IndexType(i) ==
    /\ i \in [status : {"missing", "empty", "garbled", "whole"}, entries : {i.entries}]
    /\ IsMap(i.entries, Version, Content)

\* An index without entries, and one with the entries of a copy, is an index.
LEMMA IndexFacts ==
  /\ IndexType(NoIndex) /\ IndexType([status |-> "empty", entries |-> EmptyMap])
  /\ IndexType(Garbled)
  /\ \A m : IsMap(m, Version, Content) => IndexType(Whole(m))
  /\ \A m, i : IsMap(m, Version, Content) /\ i \in LandedIndex(m) => IndexType(i)
<1>1. IndexType(NoIndex) /\ IndexType([status |-> "empty", entries |-> EmptyMap])
      /\ IndexType(Garbled)
  BY EmptyMapFacts DEF IndexType, NoIndex, Garbled
<1>2. \A m : IsMap(m, Version, Content) => IndexType(Whole(m))
  BY DEF IndexType, Whole
<1> QED BY <1>1, <1>2 DEF LandedIndex

\* What a write leaves is data a file can hold.
LEMMA LandedFacts ==
  ASSUME NEW old \in FileData, NEW c \in Content, NEW d \in Landed(old, c)
  PROVE  d \in FileData
BY DEF Landed, FileData

-----------------------------------------------------------------------------
(* The state is typed, and what a publisher has opened is there. *)

\* Steps that put a file in the directory of a version, or a version there.
LEMMA FilesTyped ==
  ASSUME TInv, NEW p \in Proc,
         MakeDirectory(p) \/ OpenManifest(p) \/ WriteManifest(p) \/ OpenGraph(p) \/ WriteGraph(p)
  PROVE  TInv'
<1> DEFINE v == job[p].version
           c == job[p].content
<1>1. /\ v \in Version /\ c \in Content
      /\ IsMap(manifest, dirs, FileData) /\ IsMap(graph, dirs, FileData)
      /\ Placed(p)
  BY DEF TInv, TypeOK
<1>2. CASE MakeDirectory(p)
  <2>1. IsMap(manifest, dirs', FileData) /\ IsMap(graph, dirs', FileData)
    BY <1>1, <1>2 DEF MakeDirectory, IsMap
  <2>2. TypeOK'
    BY <1>1, <1>2, <2>1 DEF MakeDirectory, Goto, TInv, TypeOK, Writing, ghosts
  <2> QED BY <1>1, <1>2, <2>2 DEF MakeDirectory, Goto, TInv, TypeOK, Placed, Writing, AfterManifest, AfterGraph
<1>3. CASE OpenManifest(p)
  <2>1. v \in dirs /\ "empty" \in FileData
    BY <1>1, <1>3 DEF OpenManifest, Placed, Writing, FileData
  <2>2. IsMap(manifest', dirs, FileData) /\ DOMAIN manifest' = DOMAIN manifest \cup {v}
    <3> DEFINE e == "empty"
    <3>1. manifest' = manifest ++ One(v, e)
      BY <1>3 DEF OpenManifest
    <3>2. v \in dirs /\ e \in FileData /\ IsMap(manifest, dirs, FileData)
      BY <1>1, <2>1
    <3> HIDE DEF v, e
    <3>3. IsMap(manifest ++ One(v, e), dirs, FileData)
      BY <3>2, PutFacts
    <3>4. DOMAIN (manifest ++ One(v, e)) = DOMAIN manifest \cup {v}
      BY <3>2, PutFacts
    <3> QED BY <3>1, <3>3, <3>4
  <2>3. TypeOK'
    BY <1>3, <2>2 DEF OpenManifest, Goto, TInv, TypeOK, Writing, ghosts
  <2> QED BY <1>1, <1>3, <2>1, <2>2, <2>3
          DEF OpenManifest, Goto, TInv, TypeOK, Placed, Writing, AfterManifest, AfterGraph
<1>4. CASE WriteManifest(p)
  <2>1. v \in DOMAIN manifest /\ manifest[v] \in FileData
    BY <1>1, <1>4 DEF WriteManifest, Placed, AfterManifest, IsMap
  <2>2. PICK d \in Landed(manifest[v], c) : manifest' = [manifest EXCEPT ![v] = d]
    BY <1>4 DEF WriteManifest
  <2>3. IsMap(manifest', dirs, FileData) /\ DOMAIN manifest' = DOMAIN manifest
    BY <1>1, <2>1, <2>2, LandedFacts, ReplaceFacts
  <2>4. TypeOK'
    BY <1>4, <2>3 DEF WriteManifest, Goto, TInv, TypeOK, Writing, ghosts
  <2> QED BY <1>1, <1>4, <2>1, <2>3, <2>4
          DEF WriteManifest, Goto, TInv, TypeOK, Placed, Writing, AfterManifest, AfterGraph
<1>5. CASE OpenGraph(p)
  <2>1. v \in dirs /\ v \in DOMAIN manifest /\ "empty" \in FileData
    BY <1>1, <1>5 DEF OpenGraph, Placed, Writing, AfterManifest, FileData
  <2>2. IsMap(graph', dirs, FileData) /\ DOMAIN graph' = DOMAIN graph \cup {v}
    <3> DEFINE e == "empty"
    <3>1. graph' = graph ++ One(v, e)
      BY <1>5 DEF OpenGraph
    <3>2. v \in dirs /\ e \in FileData /\ IsMap(graph, dirs, FileData)
      BY <1>1, <2>1
    <3> HIDE DEF v, e
    <3>3. IsMap(graph ++ One(v, e), dirs, FileData)
      BY <3>2, PutFacts
    <3>4. DOMAIN (graph ++ One(v, e)) = DOMAIN graph \cup {v}
      BY <3>2, PutFacts
    <3> QED BY <3>1, <3>3, <3>4
  <2>3. TypeOK'
    BY <1>5, <2>2 DEF OpenGraph, Goto, TInv, TypeOK, Writing, ghosts
  <2> QED BY <1>1, <1>5, <2>1, <2>2, <2>3
          DEF OpenGraph, Goto, TInv, TypeOK, Placed, Writing, AfterManifest, AfterGraph
<1>6. CASE WriteGraph(p)
  <2>1. v \in DOMAIN graph /\ graph[v] \in FileData
    BY <1>1, <1>6 DEF WriteGraph, Placed, AfterGraph, IsMap
  <2>2. PICK d \in Landed(graph[v], c) : graph' = [graph EXCEPT ![v] = d]
    BY <1>6 DEF WriteGraph
  <2>3. IsMap(graph', dirs, FileData) /\ DOMAIN graph' = DOMAIN graph
    BY <1>1, <2>1, <2>2, LandedFacts, ReplaceFacts
  <2>4. TypeOK'
    BY <1>6, <2>3 DEF WriteGraph, Goto, TInv, TypeOK, Writing, ghosts
  <2> QED BY <1>1, <1>6, <2>1, <2>3, <2>4
          DEF WriteGraph, Goto, TInv, TypeOK, Placed, Writing, AfterManifest, AfterGraph
<1> QED BY <1>2, <1>3, <1>4, <1>5, <1>6

\* Steps on the index.
LEMMA IndexTyped ==
  ASSUME TInv, NEW p \in Proc, ReadIndex(p) \/ OpenIndex(p) \/ WriteIndex(p)
  PROVE  TInv'
<1> DEFINE v == job[p].version
           c == job[p].content
<1>1. v \in Version /\ c \in Content /\ IndexType(index) /\ IsMap(copy[p], Version, Content)
  BY DEF TInv, TypeOK, IndexType
<1>2. CASE ReadIndex(p)
  <2>1. IsMap(index.entries ++ One(v, c), Version, Content)
    BY <1>1, PutFacts DEF IndexType
  <2>2. \A q \in Proc : IsMap(copy'[q], Version, Content)
    BY <1>2, <2>1 DEF ReadIndex, TInv, TypeOK
  <2>3. TypeOK'
    BY <1>2, <2>2 DEF ReadIndex, Goto, TInv, TypeOK, Writing, files
  <2> QED BY <1>2, <2>3 DEF ReadIndex, Goto, TInv, TypeOK, Placed, Writing, AfterManifest, AfterGraph, files
<1>3. CASE OpenIndex(p)
  <2>1. IndexType(index')
    BY <1>3, IndexFacts DEF OpenIndex
  <2>2. TypeOK'
    BY <1>3, <2>1 DEF OpenIndex, Goto, TInv, TypeOK, IndexType, Writing, ghosts
  <2> QED BY <1>3, <2>2 DEF OpenIndex, Goto, TInv, TypeOK, Placed, Writing, AfterManifest, AfterGraph
<1>4. CASE WriteIndex(p)
  <2>1. IndexType(index')
    BY <1>1, <1>4, IndexFacts DEF WriteIndex
  <2>2. \A q \in Proc : IsMap(copy'[q], Version, Content)
    BY <1>4, EmptyMapFacts DEF WriteIndex, TInv, TypeOK
  <2>3. acked' \subseteq Version \X Content
    BY <1>1, <1>4 DEF WriteIndex, TInv, TypeOK
  <2>4. TypeOK'
    BY <1>4, <2>1, <2>2, <2>3 DEF WriteIndex, Goto, TInv, TypeOK, IndexType, Writing
  <2> QED BY <1>4, <2>4 DEF WriteIndex, Goto, TInv, TypeOK, Placed, Writing, AfterManifest, AfterGraph
<1> QED BY <1>2, <1>3, <1>4

\* A publish is cut short.
LEMMA CutShortTyped ==
  ASSUME TInv, NEW p \in Proc, CutShort(p)
  PROVE  TInv'
<1> DEFINE v == job[p].version
<1>1. /\ v \in Version /\ Placed(p)
      /\ IsMap(manifest, dirs, FileData) /\ IsMap(graph, dirs, FileData)
      /\ IndexType(index) /\ IsMap(copy[p], Version, Content)
      /\ "garbled" \in FileData
  BY DEF TInv, TypeOK, FileData, IndexType
<1>2. IsMap(manifest', dirs, FileData) /\ DOMAIN manifest' = DOMAIN manifest
  <2>1. CASE pc[p] = "writeManifest"
    <3>1. v \in DOMAIN manifest /\ manifest[v] \in FileData
      BY <1>1, <2>1 DEF Placed, AfterManifest, IsMap
    <3>2. PICK d \in {manifest[v], "garbled"} : manifest' = [manifest EXCEPT ![v] = d]
      BY <2>1 DEF CutShort
    <3>3. d \in FileData
      BY <1>1, <3>1
    <3> HIDE DEF v
    <3> QED BY <1>1, <3>1, <3>2, <3>3, ReplaceFacts
  <2>2. CASE pc[p] # "writeManifest"
    BY <1>1, <2>2 DEF CutShort
  <2> QED BY <2>1, <2>2
<1>3. IsMap(graph', dirs, FileData) /\ DOMAIN graph' = DOMAIN graph
  <2>1. CASE pc[p] = "writeGraph"
    <3>1. v \in DOMAIN graph /\ graph[v] \in FileData
      BY <1>1, <2>1 DEF Placed, AfterGraph, IsMap
    <3>2. PICK d \in {graph[v], "garbled"} : graph' = [graph EXCEPT ![v] = d]
      BY <2>1 DEF CutShort
    <3>3. d \in FileData
      BY <1>1, <3>1
    <3> HIDE DEF v
    <3> QED BY <1>1, <3>1, <3>2, <3>3, ReplaceFacts
  <2>2. CASE pc[p] # "writeGraph"
    BY <1>1, <2>2 DEF CutShort
  <2> QED BY <2>1, <2>2
<1>4. IndexType(index')
  BY <1>1, IndexFacts DEF CutShort
<1>5. \A q \in Proc : IsMap(copy'[q], Version, Content)
  BY EmptyMapFacts DEF CutShort, TInv, TypeOK
<1>6. TypeOK'
  BY <1>1, <1>2, <1>3, <1>4, <1>5 DEF CutShort, Goto, TInv, TypeOK, IndexType, Writing
<1> QED BY <1>2, <1>3, <1>6 DEF CutShort, Goto, TInv, TypeOK, Placed, Writing, AfterManifest, AfterGraph

\* Steps that touch no file.
LEMMA ChecksTyped ==
  ASSUME TInv, NEW p \in Proc,
         \/ \E v \in Version, c \in Content : Check(p, v, c)
         \/ Reserve(p) \/ AlreadyPublished(p)
  PROVE  TInv'
<1>1. ASSUME NEW v \in Version, NEW c \in Content, Check(p, v, c) PROVE TInv'
  BY <1>1 DEF Check, Goto, TInv, TypeOK, Placed, Writing, AfterManifest, AfterGraph, files, ghosts
<1>2. CASE Reserve(p)
  <2>1. job[p].version \in Version
    BY DEF TInv, TypeOK
  <2> QED BY <1>2, <2>1 DEF Reserve, Goto, TInv, TypeOK, Placed, Writing, AfterManifest, AfterGraph, files
<1>3. CASE AlreadyPublished(p)
  BY <1>3 DEF AlreadyPublished, Goto, TInv, TypeOK, Placed, Writing, AfterManifest, AfterGraph, files, ghosts
<1> QED BY <1>1, <1>2, <1>3

\* Initially the directory is empty and nobody writes.
LEMMA InitTyped == Init => TInv
<1>1. ASSUME Init PROVE TypeOK
  BY <1>1, EmptyMapFacts, IndexFacts DEF Init, TypeOK, IndexType, Writing
<1>2. ASSUME Init PROVE \A p \in Proc : Placed(p)
  BY <1>2 DEF Init, Placed, Writing, AfterManifest, AfterGraph
<1> QED BY <1>1, <1>2, EmptyMapFacts DEF TInv, Init

\* Every step keeps the types, whatever the publishers do.
LEMMA StepTyped == TInv /\ [Next]_vars => TInv'
<1> SUFFICES ASSUME TInv, [Next]_vars PROVE TInv'
  OBVIOUS
<1>1. CASE UNCHANGED vars
  BY <1>1 DEF vars, files, ghosts, TInv, TypeOK, Placed
<1>2. ASSUME NEW p \in Proc, Refuse(p) PROVE TInv'
  BY <1>1, <1>2 DEF Refuse
<1> QED BY <1>1, <1>2, ChecksTyped, FilesTyped, IndexTyped, CutShortTyped DEF Next

-----------------------------------------------------------------------------
(* What the files hold *)

\* The publisher of an uncontested version knows both files of it.
Progress(p) ==
    LET v == job[p].version
        c == job[p].content
    IN (pc[p] \in Writing /\ v \notin contested) =>
         /\ pc[p] \in {"mkdir", "openManifest"} => v \notin DOMAIN manifest
         /\ pc[p] \in {"writeManifest", "openGraph"} => v \notin DOMAIN graph
         /\ pc[p] = "writeManifest" => manifest[v] = "empty"
         /\ pc[p] \in AfterManifest \ {"writeManifest"} => manifest[v] = c
         /\ pc[p] = "writeGraph" => graph[v] = "empty"
         /\ pc[p] \in AfterGraph \ {"writeGraph"} => graph[v] = c

\* It is the only one.
Alone ==
    \A p, q \in Proc :
       (/\ pc[p] \in Writing /\ pc[q] \in Writing
        /\ job[p].version = job[q].version /\ job[p].version \notin contested) => p = q

\* A listed version that nobody is writing was published.
Settled ==
    \A v \in dirs :
       (v \notin contested \cup abandoned /\ Publishers(v) = {}) =>
          \E c \in Content : <<v, c>> \in acked

FInv == /\ TInv /\ Alone /\ PublishedIsFinal /\ Settled
        /\ \A p \in Proc : Progress(p)

\* Nothing changes in the directories of other versions than v.
Elsewhere(v) ==
    \A w \in Version \ {v} :
       /\ w \in dirs' <=> w \in dirs
       /\ w \in DOMAIN manifest' <=> w \in DOMAIN manifest
       /\ w \in DOMAIN graph' <=> w \in DOMAIN graph
       /\ w \in DOMAIN manifest => manifest'[w] = manifest[w]
       /\ w \in DOMAIN graph => graph'[w] = graph[w]

\* A publisher that moves on, fails or dies does not disturb the others.
LEMMA OthersKept ==
  ASSUME FInv, TInv', NEW p \in Proc, pc[p] \in Writing, NEW n, pc' = [pc EXCEPT ![p] = n],
         n \in Writing \cup {"idle"}, job' = job, contested' = contested,
         Elsewhere(job[p].version)
  PROVE  Alone' /\ \A q \in Proc \ {p} : Progress(q)'
<1>1. pc \in [Proc -> {"idle", "reserve"} \cup Writing]
      /\ \A q \in Proc : job[q].version \in Version
  BY DEF FInv, TInv, TypeOK
<1>2. Alone'
  BY <1>1 DEF FInv, Alone
<1>3. ASSUME NEW q \in Proc \ {p} PROVE Progress(q)'
  <2>1. pc'[q] = pc[q]
    BY <1>1
  <2>2. CASE pc[q] \in Writing /\ job[q].version \notin contested
    <3>1. job[q].version # job[p].version
      BY <2>2 DEF FInv, Alone
    <3>2. Progress(q) /\ Placed(q)
      BY DEF FInv, TInv
    <3> QED BY <1>1, <2>1, <2>2, <3>1, <3>2 DEF Progress, Placed, Elsewhere, AfterManifest, AfterGraph
  <2>3. CASE ~(pc[q] \in Writing /\ job[q].version \notin contested)
    BY <2>1, <2>3 DEF Progress
  <2> QED BY <2>2, <2>3
<1> QED BY <1>2, <1>3

\* While the files of a version are being made, it has not been published,
\* unless it is contested.
LEMMA NotYetPublished ==
  ASSUME FInv, NEW p \in Proc,
         pc[p] \in {"mkdir", "openManifest", "writeManifest", "openGraph", "writeGraph"},
         NEW a \in acked, a[1] \notin contested
  PROVE  a[1] # job[p].version
<1>1. a[1] \in DOMAIN manifest /\ a[1] \in DOMAIN graph
      /\ manifest[a[1]] = a[2] /\ graph[a[1]] = a[2]
  BY DEF FInv, PublishedIsFinal, Fetchable, Fetched
<1>2. a[2] \in Content
  BY DEF FInv, TInv, TypeOK
<1>3. Progress(p)
  BY DEF FInv
<1> QED BY <1>1, <1>2, <1>3, ContentAssumption DEF Progress, Writing, AfterManifest, AfterGraph

\* A publisher that makes the files of its version.
LEMMA FileStepKeeps ==
  ASSUME FInv, TInv', NEW p \in Proc,
         pc[p] \in {"mkdir", "openManifest", "writeManifest", "openGraph", "writeGraph"},
         NEW n \in Writing, pc' = [pc EXCEPT ![p] = n], job' = job,
         contested' = contested, abandoned' = abandoned, acked' = acked,
         Elsewhere(job[p].version), Progress(p)'
  PROVE  FInv'
<1> DEFINE v == job[p].version
<1>1. pc[p] \in Writing
  BY DEF Writing
<1>2. Alone' /\ \A q \in Proc : Progress(q)'
  BY <1>1, OthersKept
<1>3. PublishedIsFinal'
  <2> SUFFICES ASSUME NEW a \in acked, a[1] \notin contested
               PROVE  (Fetchable(a[1]) /\ Fetched(a[1]) = [manifest |-> a[2], graph |-> a[2]])'
    BY DEF PublishedIsFinal
  <2>1. a[1] \in Version /\ a[1] # v
    BY NotYetPublished DEF FInv, TInv, TypeOK
  <2>2. Fetchable(a[1]) /\ Fetched(a[1]) = [manifest |-> a[2], graph |-> a[2]]
    BY DEF FInv, PublishedIsFinal
  <2> QED BY <2>1, <2>2 DEF Elsewhere, Fetchable, Fetched
<1>4. Settled'
  <2> SUFFICES ASSUME NEW w \in dirs', w \notin contested \cup abandoned, Publishers(w)' = {}
               PROVE  \E c \in Content : <<w, c>> \in acked
    BY DEF Settled
  <2>1. pc \in [Proc -> {"idle", "reserve"} \cup Writing] /\ w \in Version
    BY DEF FInv, TInv, TypeOK
  <2>2. w # v
    BY <2>1 DEF Publishers
  <2>3. w \in dirs /\ Publishers(w) = {}
    BY <2>1, <2>2, <1>1 DEF Publishers, Elsewhere
  <2> QED BY <2>3 DEF FInv, Settled
<1> QED BY <1>2, <1>3, <1>4 DEF FInv

\* What opening or writing a file changes.
Puts(f, g, v, d) ==
    /\ DOMAIN g = DOMAIN f \cup {v} /\ g[v] = d
    /\ \A x \in DOMAIN f \ {v} : g[x] = f[x]

\* Putting an entry in, and replacing one, changes nothing else.
LEMMA PutPuts ==
  ASSUME NEW f, NEW v, NEW d
  PROVE  Puts(f, f ++ One(v, d), v, d)
BY DEF Puts, ++, One

\* Replacing the data of a file that exists changes no other file.
LEMMA ReplacePuts ==
  ASSUME NEW f, f = [x \in DOMAIN f |-> f[x]], NEW v \in DOMAIN f, NEW d
  PROVE  Puts(f, [f EXCEPT ![v] = d], v, d)
BY DEF Puts

\* The steps up to the graph.
LEMMA MakingKeeps ==
  ASSUME FInv, TInv', NEW p \in Proc,
         MakeDirectory(p) \/ OpenManifest(p) \/ WriteManifest(p) \/ OpenGraph(p) \/ WriteGraph(p)
  PROVE  FInv'
<1> DEFINE v == job[p].version
           c == job[p].content
<1>1. /\ v \in Version /\ Placed(p) /\ Progress(p)
      /\ pc \in [Proc -> {"idle", "reserve"} \cup Writing]
      /\ manifest = [x \in DOMAIN manifest |-> manifest[x]]
      /\ graph = [x \in DOMAIN graph |-> graph[x]]
      /\ DOMAIN graph \subseteq DOMAIN manifest
  BY DEF FInv, TInv, TypeOK, IsMap
<1>2. CASE MakeDirectory(p)
  <2>1. pc' = [pc EXCEPT ![p] = "openManifest"] /\ pc[p] = "mkdir" /\ pc'[p] = "openManifest"
    BY <1>1, <1>2 DEF MakeDirectory, Goto
  <2>2. Elsewhere(v)
    BY <1>2 DEF MakeDirectory, Elsewhere
  <2>3. Progress(p)'
    BY <1>1, <1>2, <2>1 DEF MakeDirectory, Progress, Writing, AfterManifest, AfterGraph, ghosts
  <2> QED BY <1>2, <2>1, <2>2, <2>3, FileStepKeeps DEF MakeDirectory, ghosts, Writing
<1>3. CASE OpenManifest(p)
  <2>1. pc' = [pc EXCEPT ![p] = "writeManifest"] /\ pc[p] = "openManifest" /\ pc'[p] = "writeManifest"
    BY <1>1, <1>3 DEF OpenManifest, Goto
  <2>2. Puts(manifest, manifest', v, "empty")
    BY <1>3, PutPuts DEF OpenManifest
  <2>3. Elsewhere(v)
    BY <1>3, <2>2 DEF OpenManifest, Elsewhere, Puts
  <2>4. Progress(p)'
    BY <1>1, <1>3, <2>1, <2>2 DEF OpenManifest, Puts, Progress, Writing, AfterManifest, AfterGraph, ghosts
  <2> QED BY <1>3, <2>1, <2>3, <2>4, FileStepKeeps DEF OpenManifest, ghosts, Writing
<1>4. CASE WriteManifest(p)
  <2>1. pc' = [pc EXCEPT ![p] = "openGraph"] /\ pc[p] = "writeManifest" /\ pc'[p] = "openGraph"
    BY <1>1, <1>4 DEF WriteManifest, Goto
  <2>2. PICK d \in Landed(manifest[v], c) : manifest' = [manifest EXCEPT ![v] = d]
    BY <1>4 DEF WriteManifest
  <2>3. v \in DOMAIN manifest
    BY <1>1, <2>1 DEF Placed, AfterManifest
  <2>4. Puts(manifest, manifest', v, d)
    BY <1>1, <2>2, <2>3, ReplacePuts
  <2>5. Elsewhere(v)
    BY <1>4, <2>3, <2>4 DEF WriteManifest, Elsewhere, Puts
  <2>6. v \notin contested => d = c
    BY <1>1, <2>1 DEF Progress, Landed, Writing
  <2>7. Progress(p)'
    BY <1>1, <1>4, <2>1, <2>4, <2>6 DEF WriteManifest, Puts, Progress, Writing, AfterManifest, AfterGraph, ghosts
  <2> QED BY <1>4, <2>1, <2>5, <2>7, FileStepKeeps DEF WriteManifest, ghosts, Writing
<1>5. CASE OpenGraph(p)
  <2>1. pc' = [pc EXCEPT ![p] = "writeGraph"] /\ pc[p] = "openGraph" /\ pc'[p] = "writeGraph"
    BY <1>1, <1>5 DEF OpenGraph, Goto
  <2>2. Puts(graph, graph', v, "empty")
    BY <1>5, PutPuts DEF OpenGraph
  <2>3. Elsewhere(v)
    BY <1>5, <2>2 DEF OpenGraph, Elsewhere, Puts
  <2>4. Progress(p)'
    BY <1>1, <1>5, <2>1, <2>2 DEF OpenGraph, Puts, Progress, Writing, AfterManifest, AfterGraph, ghosts
  <2> QED BY <1>5, <2>1, <2>3, <2>4, FileStepKeeps DEF OpenGraph, ghosts, Writing
<1>6. CASE WriteGraph(p)
  <2>1. pc' = [pc EXCEPT ![p] = "readIndex"] /\ pc[p] = "writeGraph" /\ pc'[p] = "readIndex"
    BY <1>1, <1>6 DEF WriteGraph, Goto
  <2>2. PICK d \in Landed(graph[v], c) : graph' = [graph EXCEPT ![v] = d]
    BY <1>6 DEF WriteGraph
  <2>3. v \in DOMAIN graph
    BY <1>1, <2>1 DEF Placed, AfterGraph
  <2>4. Puts(graph, graph', v, d)
    BY <1>1, <2>2, <2>3, ReplacePuts
  <2>5. Elsewhere(v)
    BY <1>6, <2>3, <2>4 DEF WriteGraph, Elsewhere, Puts
  <2>6. v \notin contested => d = c
    BY <1>1, <2>1 DEF Progress, Landed, Writing
  <2>7. Progress(p)'
    BY <1>1, <1>6, <2>1, <2>4, <2>6 DEF WriteGraph, Puts, Progress, Writing, AfterManifest, AfterGraph, ghosts
  <2> QED BY <1>6, <2>1, <2>5, <2>7, FileStepKeeps DEF WriteGraph, ghosts, Writing
<1> QED BY <1>2, <1>3, <1>4, <1>5, <1>6

\* The checks, and the steps that refuse.
LEMMA ChecksKeep ==
  ASSUME FInv, TInv', NEW p \in Proc,
         \/ \E v \in Version, c \in Content : Check(p, v, c)
         \/ Reserve(p) \/ AlreadyPublished(p)
  PROVE  FInv'
<1>1. /\ pc \in [Proc -> {"idle", "reserve"} \cup Writing]
      /\ job \in [Proc -> [version : Version, content : Content]]
  BY DEF FInv, TInv, TypeOK
<1>2. CASE Reserve(p)
  <2> DEFINE v == job[p].version
  <2>1. /\ pc' = [pc EXCEPT ![p] = "mkdir"] /\ contested \subseteq contested'
        /\ job' = job /\ v \notin DOMAIN manifest
        /\ manifest' = manifest /\ graph' = graph /\ dirs' = dirs
        /\ acked' = acked /\ abandoned' = abandoned
        /\ (v \notin contested' => Publishers(v) = {})
    BY <1>2 DEF Reserve, Goto, Exists, files
  <2>2. \A q \in Proc : Progress(q)'
    <3>1. ASSUME NEW q \in Proc \ {p} PROVE Progress(q)'
      <4>1. pc'[q] = pc[q] /\ Progress(q)
        BY <1>1, <2>1 DEF FInv
      <4> QED BY <2>1, <4>1 DEF Progress
    <3>2. Progress(p)'
      <4>1. pc'[p] = "mkdir"
        BY <1>1, <2>1
      <4> QED BY <2>1, <4>1 DEF Progress, Writing, AfterManifest, AfterGraph
    <3> QED BY <3>1, <3>2
  <2>3. Alone'
    <3> SUFFICES ASSUME NEW q \in Proc, NEW r \in Proc, q # r,
                        pc'[q] \in Writing, pc'[r] \in Writing,
                        job[q].version = job[r].version, job[q].version \notin contested'
                 PROVE  FALSE
      BY <2>1 DEF Alone
    <3>1. CASE q # p /\ r # p
      <4>1. pc'[q] = pc[q] /\ pc'[r] = pc[r] /\ Alone
        BY <1>1, <2>1, <3>1 DEF FInv
      <4> QED BY <2>1, <4>1 DEF Alone
    <3>2. CASE q = p
      <4>1. pc'[r] = pc[r]
        BY <1>1, <2>1, <3>2
      <4> QED BY <2>1, <3>2, <4>1 DEF Publishers
    <3>3. CASE r = p
      <4>1. pc'[q] = pc[q]
        BY <1>1, <2>1, <3>3
      <4> QED BY <2>1, <3>3, <4>1 DEF Publishers
    <3> QED BY <3>1, <3>2, <3>3
  <2>4. PublishedIsFinal'
    BY <2>1 DEF FInv, PublishedIsFinal, Fetchable, Fetched
  <2>5. Settled'
    <3>1. ASSUME NEW w, Publishers(w)' = {} PROVE Publishers(w) = {}
      <4>1. \A q \in Proc : pc[q] \in Writing => pc'[q] \in Writing
        BY <1>1, <2>1 DEF Writing
      <4> QED BY <2>1, <3>1, <4>1 DEF Publishers
    <3> QED BY <2>1, <3>1 DEF FInv, Settled
  <2> QED BY <2>2, <2>3, <2>4, <2>5 DEF FInv
<1>3. ASSUME pc[p] \notin Writing, NEW n \in {"idle", "reserve"}, pc' = [pc EXCEPT ![p] = n],
             \A q \in Proc \ {p} : job'[q] = job[q],
             UNCHANGED <<files, ghosts>>
      PROVE  FInv'
  <2>1. \A q \in Proc : pc'[q] \in Writing <=> pc[q] \in Writing
    BY <1>1, <1>3 DEF Writing
  <2>2. \A q \in Proc : pc[q] \in Writing => pc'[q] = pc[q] /\ job'[q] = job[q]
    BY <1>1, <1>3
  <2>3. \A q \in Proc : Progress(q)'
    <3> SUFFICES ASSUME NEW q \in Proc PROVE Progress(q)'
      OBVIOUS
    <3>1. CASE pc[q] \in Writing
      <4>1. pc'[q] = pc[q] /\ job'[q] = job[q] /\ Progress(q)
        BY <2>2, <3>1 DEF FInv
      <4> QED BY <1>3, <4>1 DEF Progress, files, ghosts
    <3>2. CASE pc[q] \notin Writing
      BY <2>1, <3>2 DEF Progress
    <3> QED BY <3>1, <3>2
  <2>4. Alone'
    BY <1>3, <2>1, <2>2 DEF FInv, Alone, ghosts
  <2>5. PublishedIsFinal'
    BY <1>3 DEF FInv, PublishedIsFinal, Fetchable, Fetched, files, ghosts
  <2>6. \A w : Publishers(w)' = {} => Publishers(w) = {}
    BY <2>1, <2>2 DEF Publishers
  <2>7. Settled'
    BY <1>3, <2>6 DEF FInv, Settled, files, ghosts
  <2> QED BY <2>3, <2>4, <2>5, <2>7 DEF FInv
<1>4. CASE AlreadyPublished(p)
  BY <1>1, <1>3, <1>4 DEF AlreadyPublished, Goto, Writing
<1>5. ASSUME NEW v \in Version, NEW c \in Content, Check(p, v, c) PROVE FInv'
  <2>1. \A q \in Proc \ {p} : job'[q] = job[q]
    BY <1>1, <1>5 DEF Check
  <2> QED BY <1>1, <1>3, <1>5, <2>1 DEF Check, Goto, Writing
<1> QED BY <1>2, <1>4, <1>5

\* The steps on the index.
LEMMA IndexingKeeps ==
  ASSUME FInv, TInv', NEW p \in Proc, ReadIndex(p) \/ OpenIndex(p) \/ WriteIndex(p)
  PROVE  FInv'
<1> DEFINE v == job[p].version
           c == job[p].content
<1>1. /\ v \in Version /\ c \in Content /\ Placed(p) /\ Progress(p)
      /\ pc \in [Proc -> {"idle", "reserve"} \cup Writing]
  BY DEF FInv, TInv, TypeOK
<1>2. /\ dirs' = dirs /\ manifest' = manifest /\ graph' = graph /\ job' = job
      /\ contested' = contested /\ abandoned' = abandoned
      /\ pc[p] \in {"readIndex", "openIndex", "writeIndex"}
  BY DEF ReadIndex, OpenIndex, WriteIndex, files, ghosts
<1>3. PICK n \in {"openIndex", "writeIndex", "idle"} : pc' = [pc EXCEPT ![p] = n]
  BY DEF ReadIndex, OpenIndex, WriteIndex, Goto
<1>4. Elsewhere(v)
  BY <1>2 DEF Elsewhere
<1>5. Alone' /\ \A q \in Proc \ {p} : Progress(q)'
  <2>1. pc[p] \in Writing /\ n \in Writing \cup {"idle"}
    BY <1>2 DEF Writing
  <2> QED BY <1>2, <1>3, <1>4, <2>1, OthersKept
<1>6. Progress(p)'
  <2>1. pc'[p] \in {"openIndex", "writeIndex", "idle"}
    BY <1>1, <1>3
  <2> QED BY <1>1, <1>2, <2>1 DEF Progress, Writing, AfterManifest, AfterGraph
<1>7. acked' = acked \/ acked' = acked \cup {<<v, c>>}
  BY DEF ReadIndex, OpenIndex, WriteIndex, ghosts
<1>8. PublishedIsFinal'
  <2>1. v \notin contested =>
          Fetchable(v) /\ Fetched(v) = [manifest |-> c, graph |-> c]
    BY <1>1, <1>2 DEF Progress, Placed, Writing, AfterManifest, AfterGraph, Fetchable, Fetched
  <2> HIDE DEF v, c
  <2> QED BY <1>2, <1>7, <2>1 DEF FInv, PublishedIsFinal, Fetchable, Fetched
<1>9. Settled'
  <2> SUFFICES ASSUME NEW w \in dirs, w \notin contested \cup abandoned, Publishers(w)' = {}
               PROVE  \E d \in Content : <<w, d>> \in acked'
    BY <1>2 DEF Settled
  <2>1. CASE w # v
    <3>1. Publishers(w) = {}
      BY <1>1, <1>2, <1>3, <2>1 DEF Publishers
    <3> QED BY <1>7, <3>1 DEF FInv, Settled
  <2>2. CASE w = v
    <3>1. pc'[p] \notin Writing
      BY <1>2, <2>2 DEF Publishers
    <3>2. WriteIndex(p)
      BY <1>1, <3>1 DEF ReadIndex, OpenIndex, Goto, Writing
    <3> QED BY <1>1, <2>2, <3>2 DEF WriteIndex
  <2> QED BY <2>1, <2>2
<1> QED BY <1>5, <1>6, <1>8, <1>9 DEF FInv

\* A publish that is cut short leaves its version abandoned; the files of a published
\* version are no longer being written.
LEMMA CutShortKeeps ==
  ASSUME FInv, TInv', NEW p \in Proc, CutShort(p)
  PROVE  FInv'
<1> DEFINE v == job[p].version
<1>1. /\ v \in Version /\ Placed(p)
      /\ pc \in [Proc -> {"idle", "reserve"} \cup Writing]
      /\ manifest = [x \in DOMAIN manifest |-> manifest[x]]
      /\ graph = [x \in DOMAIN graph |-> graph[x]]
  BY DEF FInv, TInv, TypeOK, IsMap
<1>2. /\ dirs' = dirs /\ job' = job /\ contested' = contested /\ acked' = acked
      /\ abandoned' = abandoned \cup {v}
      /\ pc[p] \in Writing /\ pc' = [pc EXCEPT ![p] = "idle"] /\ pc'[p] = "idle"
  BY <1>1 DEF CutShort, Goto
<1>3. /\ DOMAIN manifest' = DOMAIN manifest
      /\ \A x \in DOMAIN manifest : x # v => manifest'[x] = manifest[x]
      /\ pc[p] # "writeManifest" => manifest' = manifest
  BY <1>1 DEF CutShort
<1>4. /\ DOMAIN graph' = DOMAIN graph
      /\ \A x \in DOMAIN graph : x # v => graph'[x] = graph[x]
      /\ pc[p] # "writeGraph" => graph' = graph
  BY <1>1 DEF CutShort
<1>5. Elsewhere(v)
  BY <1>2, <1>3, <1>4 DEF Elsewhere
<1>6. Alone' /\ \A q \in Proc \ {p} : Progress(q)'
  BY <1>2, <1>5, OthersKept
<1>7. Progress(p)'
  BY <1>2 DEF Progress, Writing
<1>8. PublishedIsFinal'
  <2> SUFFICES ASSUME NEW a \in acked, a[1] \notin contested
               PROVE  (Fetchable(a[1]) /\ Fetched(a[1]) = [manifest |-> a[2], graph |-> a[2]])'
    BY <1>2 DEF PublishedIsFinal
  <2>1. Fetchable(a[1]) /\ Fetched(a[1]) = [manifest |-> a[2], graph |-> a[2]]
    BY DEF FInv, PublishedIsFinal
  <2>2. CASE pc[p] \in {"writeManifest", "writeGraph"}
    <3>1. a[1] # v
      BY <2>2, NotYetPublished
    <3> QED BY <1>3, <1>4, <2>1, <3>1 DEF Fetchable, Fetched
  <2>3. CASE pc[p] \notin {"writeManifest", "writeGraph"}
    BY <1>3, <1>4, <2>1, <2>3 DEF Fetchable, Fetched
  <2> QED BY <2>2, <2>3
<1>9. Settled'
  <2> SUFFICES ASSUME NEW w \in dirs, w \notin contested \cup abandoned', Publishers(w)' = {}
               PROVE  \E c \in Content : <<w, c>> \in acked
    BY <1>2 DEF Settled
  <2>1. Publishers(w) = {}
    BY <1>1, <1>2 DEF Publishers
  <2> QED BY <1>2, <2>1 DEF FInv, Settled
<1> QED BY <1>6, <1>7, <1>8, <1>9 DEF FInv

\* Initially nothing is written, and nobody writes.
LEMMA InitFiles == Init => FInv
<1> SUFFICES ASSUME Init PROVE FInv
  OBVIOUS
<1>1. TInv
  BY InitTyped
<1>2. \A p \in Proc : pc[p] \notin Writing
  BY DEF Init, Writing
<1> QED BY <1>1, <1>2 DEF Init, FInv, Alone, PublishedIsFinal, Settled, Progress

\* Every step keeps what is known of the files.
LEMMA StepFiles == FInv /\ [Next]_vars => FInv'
<1> SUFFICES ASSUME FInv, [Next]_vars PROVE FInv'
  OBVIOUS
<1>1. TInv'
  BY StepTyped DEF FInv
<1>2. CASE UNCHANGED vars
  <2>1. \A w : Publishers(w)' = Publishers(w)
    BY <1>2 DEF vars, Publishers
  <2> QED BY <1>1, <1>2, <2>1 DEF vars, files, ghosts, FInv, Alone, PublishedIsFinal, Settled,
             Progress, Fetchable, Fetched
<1>3. ASSUME NEW p \in Proc, Refuse(p) PROVE FInv'
  BY <1>2, <1>3 DEF Refuse
<1> QED BY <1>1, <1>2, <1>3, ChecksKeep, MakingKeeps, IndexingKeeps, CutShortKeeps DEF Next

\* The state is typed, and each file of a publisher's version is where its
\* phase of LocalRegistry::publish has left it.
THEOREM FilesKnown == Spec => []FInv
<1> QED BY InitFiles, StepFiles, PTL DEF Spec

\* publish: a version that two publishers did not write at the same time never
\* changes once publish has returned Ok for it, whatever the others do and
\* whoever fails or dies.
THEOREM PublishedAlwaysFinal == Spec => [](TypeOK /\ PublishedIsFinal)
<1>1. FInv => TypeOK /\ PublishedIsFinal
  BY DEF FInv, TInv
<1> QED BY <1>1, FilesKnown, PTL

\* list_versions and fetch: a listed version that is quiet, was not contested
\* and whose publisher lives was published, and can be fetched whole.
THEOREM SettledAlwaysPublished == Spec => []SettledIsPublished
<1>1. FInv => SettledIsPublished
  BY DEF FInv, Settled, PublishedIsFinal, SettledIsPublished, ListVersions, Fetchable, Fetched
<1> QED BY <1>1, FilesKnown, PTL

-----------------------------------------------------------------------------
(* What the index says *)

\* No entry of m contradicts a graph.
Truth(m) == \A v \in DOMAIN m \ contested : v \in DOMAIN graph /\ m[v] = graph[v]

XInv == /\ FInv
        /\ Truth(index.entries)
        /\ \A p \in Proc : Truth(copy[p])

\* A graph that was written stays, unless its version is contested: only the
\* steps between the opening and the writing of a graph change one.
LEMMA GraphKept ==
  ASSUME FInv, Next
  PROVE  /\ contested \subseteq contested'
         /\ \A w \in DOMAIN graph \ contested :
               graph[w] \in Content => w \in DOMAIN graph' /\ graph'[w] = graph[w]
<1>1. graph = [x \in DOMAIN graph |-> graph[x]]
  BY DEF FInv, TInv, TypeOK, IsMap
<1>2. ASSUME NEW p \in Proc, OpenGraph(p)
      PROVE  contested' = contested /\
             \A w \in DOMAIN graph \ contested : w \in DOMAIN graph' /\ graph'[w] = graph[w]
  <2>1. Puts(graph, graph', job[p].version, "empty") /\ contested' = contested
    BY <1>2, PutPuts DEF OpenGraph, ghosts
  <2>2. Progress(p)
    BY DEF FInv
  <2>3. job[p].version \notin contested => job[p].version \notin DOMAIN graph
    BY <1>2, <2>2 DEF OpenGraph, Progress, Writing
  <2> QED BY <2>1, <2>3 DEF Puts
<1>3. ASSUME NEW p \in Proc, WriteGraph(p) \/ CutShort(p)
      PROVE  contested' = contested /\
             \A w \in DOMAIN graph \ contested :
                graph[w] \in Content => w \in DOMAIN graph' /\ graph'[w] = graph[w]
  <2>1. contested' = contested
    BY <1>3 DEF WriteGraph, CutShort, ghosts
  <2>2. CASE pc[p] = "writeGraph"
    <3>1. PICK d : graph' = [graph EXCEPT ![job[p].version] = d]
      BY <1>3, <2>2 DEF WriteGraph, CutShort
    <3>2. Progress(p)
      BY DEF FInv
    <3>3. job[p].version \notin contested => graph[job[p].version] = "empty"
      BY <2>2, <3>2 DEF Progress, Writing
    <3> QED BY <1>1, <2>1, <3>1, <3>3, ContentAssumption
  <2>3. CASE pc[p] # "writeGraph"
    BY <1>3, <2>1, <2>3 DEF WriteGraph, CutShort
  <2> QED BY <2>2, <2>3
<1>4. ASSUME NEW p \in Proc,
             \/ \E v \in Version, c \in Content : Check(p, v, c)
             \/ Refuse(p) \/ Reserve(p) \/ AlreadyPublished(p) \/ MakeDirectory(p)
             \/ OpenManifest(p) \/ WriteManifest(p)
             \/ ReadIndex(p) \/ OpenIndex(p) \/ WriteIndex(p)
      PROVE  contested \subseteq contested' /\ graph' = graph
  BY <1>4 DEF Check, Refuse, Reserve, AlreadyPublished, MakeDirectory, OpenManifest,
              WriteManifest, ReadIndex, OpenIndex, WriteIndex, vars, files, ghosts
<1> QED BY <1>2, <1>3, <1>4 DEF Next

\* So what was true of the graphs stays true.
LEMMA TruthKept ==
  ASSUME FInv, Next, NEW m, IsMap(m, Version, Content), Truth(m)
  PROVE  \A v \in DOMAIN m \ contested' : v \in DOMAIN graph' /\ m[v] = graph'[v]
<1> SUFFICES ASSUME NEW v \in DOMAIN m, v \notin contested'
             PROVE  v \in DOMAIN graph' /\ m[v] = graph'[v]
  OBVIOUS
<1>1. v \notin contested
  BY GraphKept
<1>2. v \in DOMAIN graph /\ m[v] = graph[v] /\ m[v] \in Content
  BY <1>1 DEF Truth, IsMap
<1> QED BY <1>1, <1>2, GraphKept

\* Where the entries of an index come from.
LEMMA IndexSources ==
  ASSUME FInv, Next
  PROVE  /\ \/ index'.entries \in {index.entries, EmptyMap}
            \/ \E p \in Proc : index'.entries = copy[p]
         /\ \A q \in Proc :
               \/ copy'[q] \in {copy[q], EmptyMap}
               \/ /\ pc[q] = "readIndex" /\ graph' = graph /\ contested' = contested
                  /\ copy'[q] = index.entries ++ One(job[q].version, job[q].content)
<1>1. DOMAIN copy = Proc
  BY DEF FInv, TInv, TypeOK
<1>2. ASSUME NEW p \in Proc,
             \/ \E v \in Version, c \in Content : Check(p, v, c)
             \/ Refuse(p) \/ Reserve(p) \/ AlreadyPublished(p) \/ MakeDirectory(p)
             \/ OpenManifest(p) \/ WriteManifest(p) \/ OpenGraph(p) \/ WriteGraph(p)
      PROVE  index' = index /\ copy' = copy
  BY <1>2 DEF Check, Refuse, Reserve, AlreadyPublished, MakeDirectory, OpenManifest,
              WriteManifest, OpenGraph, WriteGraph, vars, files, ghosts
<1>3. ASSUME NEW p \in Proc, ReadIndex(p)
      PROVE  /\ index' = index /\ graph' = graph /\ contested' = contested
             /\ pc[p] = "readIndex"
             /\ copy' = [copy EXCEPT ![p] = index.entries ++ One(job[p].version, job[p].content)]
  BY <1>3 DEF ReadIndex, files
<1>4. ASSUME NEW p \in Proc, OpenIndex(p)
      PROVE  index'.entries = EmptyMap /\ copy' = copy
  BY <1>4 DEF OpenIndex
<1>5. ASSUME NEW p \in Proc, WriteIndex(p) \/ CutShort(p)
      PROVE  /\ index'.entries \in {index.entries, EmptyMap, copy[p]}
             /\ copy' = [copy EXCEPT ![p] = EmptyMap]
  BY <1>5 DEF WriteIndex, CutShort, LandedIndex, Whole, Garbled
<1>6. ASSUME NEW p \in Proc, NEW e, copy' = [copy EXCEPT ![p] = e]
      PROVE  \A q \in Proc : copy'[q] = copy[q] \/ (q = p /\ copy'[q] = e)
  BY <1>1, <1>6
<1> QED BY <1>2, <1>3, <1>4, <1>5, <1>6 DEF Next

\* Initially there is nothing to contradict.
LEMMA InitTruth == Init => XInv
<1> SUFFICES ASSUME Init PROVE XInv
  OBVIOUS
<1>1. index.entries = EmptyMap /\ \A p \in Proc : copy[p] = EmptyMap
  BY DEF Init, NoIndex
<1> QED BY <1>1, InitFiles, EmptyMapFacts DEF XInv, Truth

\* Every step keeps the index, and the copies of it, truthful.
LEMMA StepTruth == XInv /\ [Next]_vars => XInv'
<1> SUFFICES ASSUME XInv, [Next]_vars PROVE XInv'
  OBVIOUS
<1> DEFINE Good(m) == \A v \in DOMAIN m \ contested' : v \in DOMAIN graph' /\ m[v] = graph'[v]
<1>1. FInv /\ FInv'
  BY StepFiles DEF XInv
<1>2. CASE UNCHANGED vars
  BY <1>1, <1>2 DEF vars, files, ghosts, XInv, Truth
<1>3. CASE Next
  <2>1. Good(index.entries) /\ Good(EmptyMap)
    <3>1. IsMap(index.entries, Version, Content) /\ Truth(index.entries)
      BY DEF XInv, FInv, TInv, TypeOK
    <3>2. Good(index.entries)
      BY <1>1, <1>3, <3>1, TruthKept
    <3> QED BY <3>2, EmptyMapFacts
  <2>2. \A p \in Proc : Good(copy[p])
    <3> SUFFICES ASSUME NEW p \in Proc PROVE Good(copy[p])
      OBVIOUS
    <3> DEFINE m == copy[p]
    <3>1. IsMap(m, Version, Content) /\ Truth(m)
      BY DEF XInv, FInv, TInv, TypeOK
    <3> HIDE DEF m
    <3>2. Good(m)
      BY <1>1, <1>3, <3>1, TruthKept
    <3> QED BY <3>2 DEF m
  <2>3. ASSUME NEW q \in Proc, pc[q] = "readIndex", graph' = graph, contested' = contested
        PROVE  Good(index.entries ++ One(job[q].version, job[q].content))
    <3> DEFINE v == job[q].version
               c == job[q].content
               m == index.entries ++ One(v, c)
    <3>1. Progress(q) /\ Placed(q) /\ Truth(index.entries)
      BY DEF XInv, FInv, TInv
    <3>2. v \in DOMAIN graph /\ (v \notin contested => graph[v] = c)
      BY <2>3, <3>1 DEF Progress, Placed, Writing, AfterGraph
    <3>3. Puts(index.entries, m, v, c)
      BY PutPuts
    <3> HIDE DEF v, c, m
    <3>4. Good(m)
      BY <2>3, <3>1, <3>2, <3>3 DEF Puts, Truth
    <3> QED BY <3>4 DEF v, c, m
  <2>4. Good(index'.entries)
    <3> HIDE DEF Good
    <3> QED BY <1>1, <1>3, <2>1, <2>2, IndexSources
  <2>5. \A q \in Proc : Good(copy'[q])
    <3> HIDE DEF Good
    <3> QED BY <1>1, <1>3, <2>1, <2>2, <2>3, IndexSources
  <2> QED BY <1>1, <2>4, <2>5 DEF XInv, Truth
<1> QED BY <1>2, <1>3

\* update_index: an entry of the index that can be read has the hash of the
\* graph that is there, however the updates overlap and whoever fails or dies.
THEOREM IndexAlwaysTruthful == Spec => []IndexTruthful
<1>1. XInv => IndexTruthful
  BY DEF XInv, Truth, IndexTruthful
<1> QED BY <1>1, InitTruth, StepTruth, PTL DEF Spec

-----------------------------------------------------------------------------
(* What the index has *)

\* While no two updates overlap and none is cut short, one publisher at a time
\* is between the read of the index and its write.
JInv ==
    /\ TInv
    /\ ~raced =>
         /\ \A p, q \in Proc : pc[p] \in Indexing /\ pc[q] \in Indexing => p = q
         /\ \A p \in Proc : pc[p] = "writeIndex" => index.status = "empty"
         /\ (\A p \in Proc : pc[p] # "writeIndex") =>
               \A a \in acked : a[1] \in DOMAIN index.entries
         /\ \A p \in Proc : pc[p] \in Indexing =>
               /\ job[p].version \in DOMAIN copy[p]
               /\ \A a \in acked : a[1] \in DOMAIN copy[p]

\* Initially nothing was published.
LEMMA InitJoint == Init => JInv
BY InitTyped DEF Init, JInv, Indexing

\* Steps on anything but the index.
LEMMA ElsewhereJoint ==
  ASSUME JInv, TInv', NEW p \in Proc, pc[p] \notin Indexing,
         NEW n, n \notin Indexing, pc' = [pc EXCEPT ![p] = n],
         \A q \in Proc \ {p} : job'[q] = job[q],
         index' = index, acked' = acked, raced' = raced,
         \A q \in Proc \ {p} : copy'[q] = copy[q]
  PROVE  JInv'
<1>1. \A q \in Proc : /\ pc'[q] \in Indexing <=> pc[q] \in Indexing
                      /\ pc'[q] = "writeIndex" <=> pc[q] = "writeIndex"
  BY DEF JInv, TInv, TypeOK, Indexing
<1>2. \A q \in Proc : pc[q] \in Indexing => copy'[q] = copy[q] /\ job'[q] = job[q]
  OBVIOUS
<1> QED BY <1>1, <1>2 DEF JInv

\* Every step keeps the updates of the index apart, or notes that it does not.
LEMMA StepJoint == JInv /\ [Next]_vars => JInv'
<1> SUFFICES ASSUME JInv, [Next]_vars PROVE JInv'
  OBVIOUS
<1>1. /\ TInv' /\ DOMAIN copy = Proc
      /\ pc \in [Proc -> {"idle", "reserve"} \cup Writing]
      /\ job \in [Proc -> [version : Version, content : Content]]
  BY StepTyped DEF JInv, TInv, TypeOK
<1>2. CASE UNCHANGED vars
  BY <1>1, <1>2 DEF vars, files, ghosts, JInv
<1>3. ASSUME NEW p \in Proc,
             \/ \E v \in Version, c \in Content : Check(p, v, c)
             \/ Refuse(p) \/ Reserve(p) \/ AlreadyPublished(p) \/ MakeDirectory(p)
             \/ OpenManifest(p) \/ WriteManifest(p) \/ OpenGraph(p) \/ WriteGraph(p)
      PROVE  JInv'
  <2>1. CASE Refuse(p)
    BY <1>2, <2>1 DEF Refuse
  <2>2. ASSUME NEW v \in Version, NEW c \in Content, Check(p, v, c) PROVE JInv'
    <3>1. /\ pc[p] \notin Indexing /\ pc' = [pc EXCEPT ![p] = "reserve"] /\ "reserve" \notin Indexing
          /\ \A q \in Proc \ {p} : job'[q] = job[q]
          /\ index' = index /\ acked' = acked /\ raced' = raced /\ copy' = copy
      BY <1>1, <2>2 DEF Check, Goto, Indexing, files, ghosts
    <3> QED BY <1>1, <3>1, ElsewhereJoint
  <2>3. CASE Reserve(p) \/ AlreadyPublished(p) \/ MakeDirectory(p) \/ OpenManifest(p)
             \/ WriteManifest(p) \/ OpenGraph(p) \/ WriteGraph(p)
    <3>1. /\ job' = job /\ index' = index /\ acked' = acked /\ raced' = raced /\ copy' = copy
          /\ pc[p] \notin Indexing
      BY <2>3 DEF Reserve, AlreadyPublished, MakeDirectory, OpenManifest, WriteManifest,
                  OpenGraph, WriteGraph, Indexing, files, ghosts
    <3>2. PICK n \in {"idle", "mkdir", "openManifest", "writeManifest", "openGraph", "writeGraph", "readIndex"} :
             pc' = [pc EXCEPT ![p] = n]
      BY <2>3 DEF Reserve, AlreadyPublished, MakeDirectory, OpenManifest, WriteManifest,
                  OpenGraph, WriteGraph, Goto
    <3>3. n \notin Indexing
      BY DEF Indexing
    <3> QED BY <1>1, <3>1, <3>2, <3>3, ElsewhereJoint
  <2> QED BY <1>3, <2>1, <2>2, <2>3
<1>4. ASSUME NEW p \in Proc, ReadIndex(p) PROVE JInv'
  <2>1. /\ job' = job /\ index' = index /\ acked' = acked
        /\ raced' = (raced \/ \E q \in Proc : pc[q] \in Indexing)
        /\ pc' = [pc EXCEPT ![p] = "openIndex"]
        /\ copy' = [copy EXCEPT ![p] = index.entries ++ One(job[p].version, job[p].content)]
    BY <1>4 DEF ReadIndex, Goto, files
  <2>2. Puts(index.entries, copy'[p], job[p].version, job[p].content)
    BY <1>1, <2>1, PutPuts
  <2> SUFFICES ASSUME ~raced' PROVE JInv'
    BY <1>1 DEF JInv
  <2>3. ~raced /\ \A q \in Proc : pc[q] \notin Indexing
    BY <2>1
  <2>4. \A a \in acked : a[1] \in DOMAIN index.entries
    BY <2>3 DEF JInv, Indexing
  <2>5. \A q \in Proc : pc'[q] \in Indexing => q = p /\ pc'[q] = "openIndex"
    BY <1>1, <2>1, <2>3
  <2>6. \A q \in Proc : pc'[q] # "writeIndex"
    BY <2>5 DEF Indexing
  <2> QED BY <1>1, <2>1, <2>2, <2>4, <2>5, <2>6 DEF JInv, Puts
<1>5. ASSUME NEW p \in Proc, OpenIndex(p) PROVE JInv'
  <2>1. /\ job' = job /\ copy' = copy /\ acked' = acked /\ raced' = raced
        /\ pc[p] = "openIndex" /\ pc' = [pc EXCEPT ![p] = "writeIndex"] /\ pc'[p] = "writeIndex"
        /\ index'.status = "empty"
    BY <1>1, <1>5 DEF OpenIndex, Goto, ghosts
  <2>2. \A q \in Proc : pc'[q] \in Indexing <=> pc[q] \in Indexing
    BY <1>1, <2>1 DEF Indexing
  <2> QED BY <1>1, <2>1, <2>2 DEF JInv
<1>6. ASSUME NEW p \in Proc, WriteIndex(p) PROVE JInv'
  <2>1. /\ job' = job /\ raced' = raced /\ pc[p] = "writeIndex"
        /\ pc' = [pc EXCEPT ![p] = "idle"]
        /\ acked' = acked \cup {<<job[p].version, job[p].content>>}
        /\ index' \in LandedIndex(copy[p])
    BY <1>6 DEF WriteIndex, Goto
  <2> SUFFICES ASSUME ~raced PROVE JInv'
    BY <1>1, <2>1 DEF JInv
  <2>2. index'.entries = copy[p]
    BY <2>1 DEF JInv, LandedIndex, Whole
  <2>3. \A q \in Proc : pc'[q] \notin Indexing
    BY <1>1, <2>1 DEF JInv, Indexing
  <2>4. \A a \in acked' : a[1] \in DOMAIN copy[p]
    BY <2>1 DEF JInv, Indexing
  <2> QED BY <1>1, <2>1, <2>2, <2>3, <2>4 DEF JInv, Indexing
<1>7. ASSUME NEW p \in Proc, CutShort(p) PROVE JInv'
  <2>1. /\ job' = job /\ acked' = acked /\ raced' = (raced \/ pc[p] = "writeIndex")
        /\ pc' = [pc EXCEPT ![p] = "idle"]
        /\ copy' = [copy EXCEPT ![p] = EmptyMap]
        /\ pc[p] # "writeIndex" => index' = index
    BY <1>7 DEF CutShort, Goto
  <2> SUFFICES ASSUME ~raced' PROVE JInv'
    BY <1>1 DEF JInv
  <2>2. ~raced /\ index' = index /\ pc[p] # "writeIndex"
    BY <2>1
  <2>3. \A q \in Proc : /\ pc'[q] \in Indexing => q # p /\ pc[q] \in Indexing
                        /\ pc'[q] = "writeIndex" <=> pc[q] = "writeIndex"
    BY <1>1, <2>1, <2>2 DEF Indexing
  <2>4. \A q \in Proc : q # p => copy'[q] = copy[q]
    BY <1>1, <2>1
  <2> QED BY <1>1, <2>1, <2>2, <2>3, <2>4 DEF JInv
<1> QED BY <1>2, <1>3, <1>4, <1>5, <1>6, <1>7 DEF Next

\* update_index: an index that can be read has every published version, unless
\* two of its updates overlapped or one was cut short.
THEOREM AnnouncedAlways == Spec => []AnnouncedUnlessRaced
<1>1. JInv => AnnouncedUnlessRaced
  BY DEF JInv, AnnouncedUnlessRaced
<1> QED BY <1>1, InitJoint, StepJoint, PTL DEF Spec
=============================================================================
