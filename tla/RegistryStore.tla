---------------------------- MODULE RegistryStore ----------------------------
(***************************************************************************)
(* The versions of one module in a LocalRegistry, a directory tree that    *)
(* several `torc publish' processes write (crates/torc-registry/src/       *)
(* publish.rs and client.rs).  Modules share nothing with one another, so  *)
(* one is enough.                                                          *)
(*                                                                         *)
(* One step per file system call that another process can observe.  Every  *)
(* std::fs::write is two: it opens the file, which empties it, and writes  *)
(* from its start.  A package is one value, the content: it stands for the *)
(* bytes of its manifest, those of its graph and the hash of the graph.    *)
(***************************************************************************)
EXTENDS Naturals, FiniteSets, Maps

CONSTANTS Proc,        \* the processes that publish
          Version,     \* ordered as semantic versions are
          Content,     \* the packages they publish
          MaxCuts      \* bound: versions with a publish that is cut short

ASSUME VersionAssumption == Version \subseteq Nat
ASSUME ContentAssumption == {"empty", "garbled"} \cap Content = {}
ASSUME CutBound          == MaxCuts \in Nat

VARIABLES dirs,      \* the versions that have a directory
          manifest,  \* version -> what its module.toml holds
          graph,     \* version -> what its module.trc holds
          index,     \* index.json: readable or not, and its entries
          pc,        \* the next file system call of each process
          job,       \* the version and content each process publishes
          copy,      \* the index each process is about to write
          acked,     \* <<version, content>> of every publish that returned Ok
          contested, \* versions that two publishers were writing at a time
          abandoned, \* versions with a publish that was cut short
          raced      \* two index updates overlapped, or one was cut short

files  == <<dirs, manifest, graph, index>>
ghosts == <<acked, contested, abandoned, raced>>
vars   == <<files, pc, job, copy, ghosts>>

FileData == Content \cup {"empty", "garbled"}
NoIndex  == [status |-> "missing", entries |-> EmptyMap]
Writing  == {"mkdir", "openManifest", "writeManifest", "openGraph", "writeGraph",
             "readIndex", "openIndex", "writeIndex"}
Indexing == {"openIndex", "writeIndex"}

Publishers(v) == {p \in Proc : pc[p] \in Writing /\ job[p].version = v}

Init ==
    /\ dirs = {} /\ manifest = EmptyMap /\ graph = EmptyMap /\ index = NoIndex
    /\ pc = [p \in Proc |-> "idle"]
    /\ job \in [Proc -> [version : Version, content : Content]]
    /\ copy = [p \in Proc |-> EmptyMap]
    /\ acked = {} /\ contested = {} /\ abandoned = {} /\ raced = FALSE

Goto(p, next) == pc' = [pc EXCEPT ![p] = next]

-----------------------------------------------------------------------------
(* What the queries answer *)

Exists(v) == v \in DOMAIN manifest

\* list_versions looks at directories, not at what is in them.
ListVersions == dirs

\* fetch wants both files there and a manifest that parses.  It computes the
\* hash of the graph it read; it compares it with nothing.
Fetchable(v) == v \in DOMAIN manifest /\ v \in DOMAIN graph /\ manifest[v] \in Content
Fetched(v)   == [manifest |-> manifest[v], graph |-> graph[v]]

-----------------------------------------------------------------------------
(* publish *)

\* Is the version new, and higher than all?  Two calls; whatever happens
\* between them, the second one alone refuses all that the first would.
Check(p, v, c) ==
    /\ pc[p] = "idle"
    /\ ~Exists(v) /\ \A w \in ListVersions : w < v
    /\ job' = [job EXCEPT ![p] = [version |-> v, content |-> c]]
    /\ Goto(p, "reserve")
    /\ UNCHANGED <<files, copy, ghosts>>

\* A version that exists, or is not the highest, and every dry run.
Refuse(p) ==
    /\ pc[p] = "idle"
    /\ UNCHANGED vars

\* Faults: the backend relies on the earlier check; or makes no directory.
Reserve_Unchecked(p) ==
    LET v == job[p].version IN
    /\ pc[p] = "reserve"
    /\ contested' = contested \cup {w \in {v} : Publishers(w) # {}}
    /\ Goto(p, "mkdir")
    /\ UNCHANGED <<files, job, copy, acked, abandoned, raced>>
Reserve_NoDirectory(p) ==
    LET v == job[p].version IN
    /\ pc[p] = "reserve" /\ ~Exists(v)
    /\ contested' = contested \cup {w \in {v} : Publishers(w) # {}}
    /\ Goto(p, "openManifest")
    /\ UNCHANGED <<files, job, copy, acked, abandoned, raced>>

\* LocalRegistry::publish looks for the manifest once more.
Reserve(p) ==
    LET v == job[p].version IN
    /\ pc[p] = "reserve" /\ ~Exists(v)
    /\ contested' = contested \cup {w \in {v} : Publishers(w) # {}}
    /\ Goto(p, "mkdir")
    /\ UNCHANGED <<files, job, copy, acked, abandoned, raced>>

AlreadyPublished(p) ==
    /\ pc[p] = "reserve" /\ Exists(job[p].version)
    /\ Goto(p, "idle")
    /\ UNCHANGED <<files, job, copy, ghosts>>

MakeDirectory(p) ==
    /\ pc[p] = "mkdir"
    /\ dirs' = dirs \cup {job[p].version}
    /\ Goto(p, "openManifest")
    /\ UNCHANGED <<manifest, graph, index, job, copy, ghosts>>

\* What a write of c leaves of a file that holds old: bytes that another
\* process wrote since it was opened may stay behind the end of c.
Landed(old, c) == IF old \in {"empty", c} THEN {c} ELSE {c, "garbled"}

OpenManifest(p) ==
    /\ pc[p] = "openManifest"
    /\ manifest' = manifest ++ One(job[p].version, "empty")
    /\ Goto(p, "writeManifest")
    /\ UNCHANGED <<dirs, graph, index, job, copy, ghosts>>

WriteManifest(p) ==
    LET v == job[p].version IN
    /\ pc[p] = "writeManifest"
    /\ \E d \in Landed(manifest[v], job[p].content) : manifest' = [manifest EXCEPT ![v] = d]
    /\ Goto(p, "openGraph")
    /\ UNCHANGED <<dirs, graph, index, job, copy, ghosts>>

OpenGraph(p) ==
    /\ pc[p] = "openGraph"
    /\ graph' = graph ++ One(job[p].version, "empty")
    /\ Goto(p, "writeGraph")
    /\ UNCHANGED <<dirs, manifest, index, job, copy, ghosts>>

\* Fault: a write that fails is not reported.
WriteGraph_Unreported(p) ==
    /\ pc[p] = "writeGraph"
    /\ Goto(p, "readIndex")
    /\ UNCHANGED <<files, job, copy, ghosts>>

WriteGraph(p) ==
    LET v == job[p].version IN
    /\ pc[p] = "writeGraph"
    /\ \E d \in Landed(graph[v], job[p].content) : graph' = [graph EXCEPT ![v] = d]
    /\ Goto(p, "readIndex")
    /\ UNCHANGED <<dirs, manifest, index, job, copy, ghosts>>

\* Faults: the index starts afresh; or gets its entry under the highest
\* version there is.
ReadIndex_Afresh(p) ==
    /\ pc[p] = "readIndex"
    /\ copy' = [copy EXCEPT ![p] = One(job[p].version, job[p].content)]
    /\ raced' = (raced \/ \E q \in Proc : pc[q] \in Indexing)
    /\ Goto(p, "openIndex")
    /\ UNCHANGED <<files, job, acked, contested, abandoned>>
ReadIndex_Highest(p) ==
    LET v == CHOOSE v \in dirs : \A w \in dirs : w <= v IN
    /\ pc[p] = "readIndex"
    /\ copy' = [copy EXCEPT ![p] = index.entries ++ One(v, job[p].content)]
    /\ raced' = (raced \/ \E q \in Proc : pc[q] \in Indexing)
    /\ Goto(p, "openIndex")
    /\ UNCHANGED <<files, job, acked, contested, abandoned>>

\* A missing index and one that does not parse count as empty.
ReadIndex(p) ==
    /\ pc[p] = "readIndex"
    /\ copy' = [copy EXCEPT ![p] = index.entries ++ One(job[p].version, job[p].content)]
    /\ raced' = (raced \/ \E q \in Proc : pc[q] \in Indexing)
    /\ Goto(p, "openIndex")
    /\ UNCHANGED <<files, job, acked, contested, abandoned>>

OpenIndex(p) ==
    /\ pc[p] = "openIndex"
    /\ index' = [status |-> "empty", entries |-> EmptyMap]
    /\ Goto(p, "writeIndex")
    /\ UNCHANGED <<dirs, manifest, graph, job, copy, ghosts>>

Whole(m) == [status |-> "whole", entries |-> m]
Garbled  == [status |-> "garbled", entries |-> EmptyMap]
LandedIndex(m) == IF index.status = "empty" THEN {Whole(m)} ELSE {Whole(m), Garbled}

WriteIndex(p) ==
    /\ pc[p] = "writeIndex"
    /\ index' \in LandedIndex(copy[p])
    /\ copy' = [copy EXCEPT ![p] = EmptyMap]
    /\ acked' = acked \cup {<<job[p].version, job[p].content>>}
    /\ Goto(p, "idle")
    /\ UNCHANGED <<dirs, manifest, graph, job, contested, abandoned, raced>>

\* A publish ends before its next call or in the middle of a write: its process
\* dies, or the call returns an error, a full disk say, and publish returns it.
CutShort(p) ==
    LET v == job[p].version IN
    /\ pc[p] \in Writing
    /\ Cardinality(abandoned \cup {v}) <= MaxCuts
    /\ IF pc[p] = "writeManifest"
       THEN \E d \in {manifest[v], "garbled"} : manifest' = [manifest EXCEPT ![v] = d]
       ELSE UNCHANGED manifest
    /\ IF pc[p] = "writeGraph"
       THEN \E d \in {graph[v], "garbled"} : graph' = [graph EXCEPT ![v] = d]
       ELSE UNCHANGED graph
    /\ index' \in IF pc[p] = "writeIndex" THEN {index, Garbled} \cup LandedIndex(copy[p])
                                          ELSE {index}
    /\ raced' = (raced \/ pc[p] = "writeIndex")
    /\ abandoned' = abandoned \cup {v}
    /\ copy' = [copy EXCEPT ![p] = EmptyMap]
    /\ Goto(p, "idle")
    /\ UNCHANGED <<dirs, job, acked, contested>>

Next ==
    \E p \in Proc :
       \/ \E v \in Version, c \in Content : Check(p, v, c)
       \/ Refuse(p) \/ Reserve(p) \/ AlreadyPublished(p) \/ MakeDirectory(p)
       \/ OpenManifest(p) \/ WriteManifest(p) \/ OpenGraph(p) \/ WriteGraph(p)
       \/ ReadIndex(p) \/ OpenIndex(p) \/ WriteIndex(p) \/ CutShort(p)

Spec == Init /\ [][Next]_vars

-----------------------------------------------------------------------------
TypeOK ==
    /\ dirs \subseteq Version
    /\ IsMap(manifest, dirs, FileData) /\ IsMap(graph, dirs, FileData)
    /\ index \in [status : {"missing", "empty", "garbled", "whole"}, entries : {index.entries}]
    /\ IsMap(index.entries, Version, Content)
    /\ pc \in [Proc -> {"idle", "reserve"} \cup Writing]
    /\ job \in [Proc -> [version : Version, content : Content]]
    /\ DOMAIN copy = Proc /\ \A p \in Proc : IsMap(copy[p], Version, Content)
    /\ acked \subseteq Version \X Content
    /\ contested \subseteq Version /\ abandoned \subseteq Version
    /\ raced \in BOOLEAN

\* integrity.rs: "Publishing is append-only: a version, once published, cannot
\* be modified."  It holds for every version that two publishers did not write
\* at the same time, whatever else runs, fails or dies.
PublishedIsFinal ==
    \A a \in acked : a[1] \notin contested =>
       Fetchable(a[1]) /\ Fetched(a[1]) = [manifest |-> a[2], graph |-> a[2]]

\* A version that is listed, that nobody is writing, that was not contested and
\* whose publish was not cut short, was published: the version that resolve and
\* search pick from the list can be fetched, and both its files are of one
\* package.
SettledIsPublished ==
    \A v \in ListVersions :
       (v \notin contested \cup abandoned /\ Publishers(v) = {}) =>
          \E c \in Content : <<v, c>> \in acked /\ manifest[v] = c /\ graph[v] = c

\* However many updates of the index overlap or are cut short, an entry that
\* can be read has the hash of the graph that is there.
IndexTruthful ==
    \A v \in DOMAIN index.entries \ contested :
       v \in DOMAIN graph /\ index.entries[v] = graph[v]

\* An index that can be read has every published version, unless two of its
\* updates overlapped or one was cut short: a lock from the read to the write
\* is all it takes, the other steps may overlap.
AnnouncedUnlessRaced ==
    (index.status = "whole" /\ ~raced) => \A a \in acked : a[1] \in DOMAIN index.entries
=============================================================================
