# A formal model of Torc

This directory holds TLA+ modules for the parts of Torc that keep state and
take decisions: the program graph every crate works on and the builder that makes
it, the topological sort that orders it for execution, types, contracts and their
verification, `torc build` from the decisions to the linked executable, the
decision graph of a specification, the file through which the `torc decision`
commands share it, the registry directory that modules are published to, the
resolution of dependencies against it, and the generation of foreign bridges. The
four example programs are inputs of the models. TLC checks them on small
instances; TLAPS proves the most important invariants for every value of the
constants.

Paths below are relative to the repository's root (`crates/...`, `cli/...`).

## 1. The system

Torc is a graph-first language tool chain. A program is a graph of typed nodes
with contracts; it is verified, rewritten, scheduled and compiled for a target.
Beside it lies a *decision graph* that records which design decisions are open,
committed or in conflict, and that steers how strictly a build is verified.
Finished modules are published as numbered versions in a registry directory.

| component | state it keeps | operations | interacts with |
|---|---|---|---|
| graph container (`torc-core/src/graph`) | nodes, edges, regions, five indexes (outgoing, incoming, node -> region, region -> children, region -> parent) | add/remove node, edge, region; set parent; inline, merge, compose, replace, extract; validate | everything below works on it |
| `GraphBuilder` (`torc-core/src/builder.rs`) | a graph, names, a stack of open regions | node, edge, begin/end region, build | the way clients make graphs |
| topological sort (`graph/mod.rs`), execution levels (`torc-materialize/src/schedule.rs`) | in-degrees, queue, result; level per node | `topological_sort`, `compute_schedule` | pipeline, code generation |
| types, contracts, effects, linearity (`torc-core/src/types`, `contract`) | none | validators that yield obligations | verification |
| provenance, hashes, literals (`torc-core`) | none | data | - |
| TRC format (`torc-trc`) | none; bytes on disk | `to_bytes`, `from_bytes`, merge of files | registry, CLI |
| decision graph (`torc-spec`) | decisions, numbered history, assumptions | add, remove, transition, commit, defer; dependency search; impact report | decision file, bridge |
| decision file and commands (`torc-spec/src/serialize.rs`, `cli/torc/src/commands/decision.rs`) | `spec/decisions.tdg` | init, add, commit, defer, list, show, status | processes share it through the file system |
| decision bridge (`torc-spec/src/bridge.rs`) | none | readiness, profile for a set of decisions | `torc build` |
| verification engine (`torc-verify`) | obligations, statuses, proof cache | collect, look up, discharge, report | gate of the pipeline |
| interval analysis, SMT (`torc-verify`) | none | discharge one obligation | engine |
| pipeline (`torc-materialize`) | the graph as it is rewritten | canonicalize, gate, transform, schedule, layout, fit | engine, container, targets |
| layout, resources (`torc-materialize`) | none | sizes, offsets, limits | pipeline |
| code generation (`torc-materialize/src/codegen`) | LLVM module | emit | pipeline |
| registry (`torc-registry`) | version directories, `index.json`, local cache | publish, fetch, list, search | concurrent publishers, readers |
| resolver, audit (`torc-registry`) | lock map while it runs | resolve, tree, audit | registry |
| targets (`torc-targets`) | none | parse platform tables | pipeline |
| FFI (`torc-ffi`) | none | parse C signatures, map types, trust policy | - |
| observation (`torc-observe`) | none | render views | CLI |
| CLI and manifest (`cli/torc`) | files of a project | commands | everything |
| examples (`examples/`) | none | four graphs and what their tests say of them | builder, pipeline |

What makes this code hard to get right, and to test:

* **Redundant state.** The graph container writes every fact in two or three
  places and updates them by hand in each mutator. A missed update shows only
  several calls later: `remove_node` drops the edges it finds *in the index*,
  `inline_region` moves children found *in the region* to a parent found *in
  the index*.
* **Calls that fail half way.** `compose` and `replace_subgraph` return an error
  after they have changed the graph.
* **Forced cycles.** The sort lets `Iterate`, `Recurse` and `Fixpoint` nodes
  through although edges to them are outstanding.
* **Long sequences of legal calls.** History and state of a decision are written
  by different methods, in between decisions are removed and edited.
* **Processes that share a file.** Every decision command is a process that
  loads, changes and rewrites one file without a lock, and can die, or have a write
  fail, anywhere.
* **Stages that trust each other's results.** A build reads the decisions once and
  the program once per platform, and all platforms write the same files; the proof
  cache trusts a text; the registry checks, then writes; a resolution fetches what
  is being published.
* **Arithmetic of several kinds.** A predicate is decided in floats by one analysis
  and in integers by another; a literal passes through 64 bits on its way to a type
  of any width, and the sign of an operation is read off one of several types.

`PROJECT.json` lists these hazards at their lines, with the properties that
cover them or the reason why none does.

What makes each component correct, in a sentence: the container's maps and
indexes agree and it behaves like a plain graph; the sort orders everything it
may order and reports the cycles it must; the history explains the decisions and
a commitment binds; the search finds exactly the cycles; the file is always the
result of legal operations, and no acknowledged change is lost; a published
version is final and the index tells the truth; a builder's client cannot break its
graph; what a report calls verified holds, in whatever pass and for whatever program
it was proved; canonicalization keeps every dependency, code generation keeps the
meaning of what it is given, and the files that a build reports are those it made;
the resolver's answer meets every requirement and does not depend on the order of a
hash map; a foreign call that is not trusted is guarded on both sides.

## 2. Modules

```
Maps                        finite maps as functions with a partial domain
GraphOps                    operations of the container on a graph value
  GraphLemmas               what each operation keeps: indexes, regions
  TorcGraph                 the container as a state machine  --implements-->  GraphStore
    MCTorcGraph             instances for TLC
    TorcGraph_proofs        indexes, regions, the refinement   (on GraphLemmas)
  Builder                   GraphBuilder                      --client of--->  TorcGraph
TopoSort                    sort and levels, step by step     --implements-->  TopoOrder
  MCTopoSort
  TopoSort_proofs           order, verdict, levels, the refinement
DecisionOps                 operations of the decision graph on a value
  DecisionGraph             the decision graph as a state machine
    MCDecisionGraph
  DependencySearch          check_circular_deps, step by step
  DecisionStore             processes around the decision file
    MCDecisionStore
  DecisionLemmas            what the operations keep
    DecisionGraph_proofs    history, report, search
    DecisionStore_proofs
RegistryStore               publishers of one module of a registry
  MCRegistryStore
  RegistryStore_proofs

Types                       types, predicates, contracts
  ProgramGraphs             graphs with types, and their order  (also on GraphOps)
    Canonicalize            duplicates, trivial and nested regions
      BuildProcess          torc build, step by step            (also on Targets, Bridge)
    Programs                compatibility of types; the validators
      Verification          interval domain, solver, one run of the engine, the gate
        Engine              an engine and its cache over several runs
      Layout                levels, sizes, peak stack, fit      (also on Targets)
        Codegen             lowering to LLVM values, and what a program means
    TrcFile                 files of programs
      BridgeFiles           C declarations, guarded wrappers, processes that write bridges
        ForeignInterface    the types of a bridge, C headers    (also on Programs)
Targets                     platforms, and which of them a build is for
Bridge                      what the decisions ask of verification and build
Build                       BuildProcess with Codegen and Verification
  MCBuild                   nine programs, a project with a platform of its own
Resolver                    torc add, remove, update, tree, audit
Toolchain                   Builder, Engine, ForeignInterface, Resolver
  MCToolchain
Toolchain_proofs            Builder, Resolver, BridgeFiles, BuildProcess  (on GraphLemmas)
MCPrograms                  small programs for TLC
Examples                    the four programs the repository ships
```

Operators whose comment says *Fault* are wrong variants of the operator they
stand before. No specification uses them: putting one in the place of the real
operator must make a run fail, which shows that its properties can.

### 2.1 The graph container: `GraphOps`, `TorcGraph`, `GraphStore`

A graph value has the code's three maps and five indexes. Maps are functions
over the keys present. An index list (`Vec<EdgeId>`, `Vec<NodeId>`) is a
multiset, because a duplicate entry is a fault the code could have while order
is not observed by anything modelled. Ports, types, contracts and provenance are
left out: an edge is its two ends, a region is its children and its parent.

| code (`crates/torc-core/src/graph/mod.rs`) | operator | action |
|---|---|---|
| `add_node`, `add_edge`, `remove_edge`, `remove_node` | `WithNode`, `WithEdges`/`CanTake`, `WithoutEdge`, `WithoutNodes` | `AddNode`, `AddEdge`, `RemoveEdge`, `RemoveNode` |
| `add_region`, `set_region_parent`, `remove_region`, `inline_region` | `WithRegion`, `WithParent`, `WithoutRegion`, `InlinedRegion` | `AddRegion`, `SetRegionParent`, `RemoveRegion`, `InlineRegion` |
| `merge`, `compose` | `MergeConflict`, `Merged` | `MergeOther`, `Compose` |
| `replace_subgraph` | `Crossing`, `WithoutNodes`, `Merged` | `ReplaceSubgraph`, `ReplaceSubgraphFails` |
| `extract_subgraph`, `extract_module`, `validate` | `ExtractedSubgraph`, `Crossing`, `Validates` | (queries) |
| `GraphBuilder::end_region` (`builder.rs`) | `WithRegion`, `WithParent` | `AddFreshRegion` |

A call that fails before it changes anything is a stuttering step. `compose` and
`replace_subgraph` are atomic in the model because `&mut self` makes them so, but
their partial results are steps: for `compose` the edges of the connections before
the one that dangles; for `replace_subgraph` any subset of the old nodes removed
(the loop runs over a `HashSet`), or all removed and nothing merged.

Two clients are specified. `Spec` calls everything with any argument, which is
what the public interface allows: `add_region` accepts a repeated id, an unknown
parent and a child of another region, and `set_region_parent` accepts a cycle.
`DisciplinedSpec` restricts only the making of regions, to what `GraphBuilder`
does. The adjacency property holds for both; the region properties hold only for
the second, and the difference is a fact about the interface worth knowing.

`GraphStore` is the container without an index: nodes, the ends of each edge, the
region each node is in, the region each region is in. `ImplementsStore` maps
`TorcGraph` to it through the container's own queries (`containing_region`,
`parent_region`, the edge's ends).

### 2.2 Sort and levels: `TopoSort`, `TopoOrder`

One step per pop of the queue, per forced node and per placed node. Nodes are
numbers because the order of ids breaks ties (`queue.sort(); queue.pop()` takes
the largest, `exempt_remaining.first()` the smallest). `Pop` decrements the degree
of each target once per edge, never below zero. `ImplementsOrder` says that the
counters realise the precedence relation itself: `TopoOrder` lists a node when its
predecessors are listed, or forces one only when no node is ready.

### 2.3 Decisions: `DecisionOps`, `DecisionGraph`, `DependencySearch`

A decision keeps state, value, dependencies and revisit trigger; titles, authors,
rationales and times are left out. `DecisionGraph` has an action per mutator of
`torc-spec/src/graph.rs`, and `EditDependencies` for the edits that
`get_decision_mut` allows. `report` is what the last `commit` returned.
`DependencySearch` is `conflict.rs`' recursive `dfs` unrolled: a sequence of
frames, one step per dependency looked at and per return. Nothing is assumed of
the order of a dependency list, so each step takes any one that is left.

### 2.4 The decision file: `DecisionStore`

A command is three steps of a process: load and change the graph in memory;
`std::fs::write` empties the file; it writes. Other processes run in between, and a
command can end in any of them (`CutShort`): its process dies, or the open or the
write returns an error, which `save_tdg` and `init` pass on. Both leave the same file
and acknowledge nothing. The file is *missing*, *whole* (with the
graph it holds) or *torn*: `from_bytes` checks length, header hash and counts, so
a prefix is refused, and bytes left behind the end by a longer write are ignored.
`acked` (transitions that a command reported as done), `overlapped` (a command
started while another was under way) and `unfinished` (the last save to end was cut
short after its open) are history variables: no guard reads them.
`OnlyACutSaveTears` says that nothing else tears the file, and that one save that
gets through, of a command that had loaded it before, makes it whole again.

### 2.5 The registry: `RegistryStore`

One module's directory. `publish` is two checks (`Check`: the version is new and
the highest), one more (`Reserve`) and then, call by call, the directory, the
manifest, the graph, and the index, which is read, changed and written back. Each
`std::fs::write` is two steps, because it empties the file before it writes it,
and a publish can end at each (`CutShort`): its process dies, or the call fails and
`publish` returns the error with the files as they are. A package is one value that
stands for its manifest, its graph and the hash of the graph; a file holds
such a value, is empty, or is garbled (a part of one, or the end of a longer one
behind it). A readable index is a map from version to hash; the code takes every
other one for empty.

| code | definition |
|---|---|
| `publish.rs`, `publish` | `Check`, `Refuse` |
| `client.rs`, `publish` | `Reserve`, `AlreadyPublished`, `MakeDirectory`, `OpenManifest`, `WriteManifest`, `OpenGraph`, `WriteGraph`, `ReadIndex`, `OpenIndex`, `WriteIndex`; `CutShort` for each `?` |
| `client.rs`, `list_versions`, `exists`, `fetch` | `ListVersions`, `Exists`, `Fetchable`, `Fetched` |

Four history variables, which no guard but the bound on such ends reads, name the
conditions of the properties: `acked` (publishes that returned `Ok`), `contested`
(versions that two publishers were writing at the same time: nothing in the code
rules it out), `abandoned` (versions with a publish that was cut short) and `raced`
(two updates of the index overlapped, or one was cut short). `IndexTruthful` needs
none of the last two: however updates race, an entry that survives is right.

### 2.6 The builder: `Builder`

The state is `GraphBuilder`'s: the graph it owns, the stack of open regions, and
beside the graph what `GraphOps` leaves out (ports, kinds, constraints). A node's
kind, signature and contract are one member of `Prototype`, so that `Amend` can say
which of them a client may exchange.

| code (`crates/torc-core/src/builder.rs`) | action |
|---|---|
| `add_node`, `add_typed_node`, `add_full_node` | `AddBuilderNode` |
| `annotate`, `set_contract`, `set_provenance` | `Amend` |
| `connect`, `connect_typed`, ... | `Connect` |
| `begin_region`, `end_region`, `add_region_constraint` | `BeginRegion`, `EndRegion`, `AddRegionConstraint` |
| `build`, `into_graph` | `Finish` |

`BuilderKeeps` has three parts. `BuilderSound`: indexes and regions are exact after
every call, and `build` refuses a graph only for a port out of range, so its other
checks cannot fail. `NodesStayHoused`: a node added inside a region reaches that
region and stays. `DisciplinedClient`: every call is a step of `TorcGraph` that
`DisciplinedSpec` allows (or leaves the graph alone), which is what makes the
theorem about `DisciplinedSpec` one about every graph a builder makes. A region
that is never ended is in none of them: its nodes are in no region of the graph.

### 2.7 Programs and their verification: `Types`, `ProgramGraphs`, `Programs`, `Verification`, `Engine`

A type is a constructor with its attributes and its components; a predicate is an
operator with its arguments. `Fits` and `Refinements` are `types_compatible` in two
halves: whether it succeeds, and the obligations it returns when it does.
`ProgramGraphs` puts types, contracts and ports on a graph of `GraphOps`; `Programs`
has one operator per validator, which gives the set of what is wrong. What recurses
over types is in `Programs`, so that what does not need it can be proved about.

| code | definition |
|---|---|
| `torc-core/src/types`, `contract` | `Fits`, `Refinements`, `LinearityOf`, `MergeEffects`, `Obligations` |
| `graph/mod.rs`: `validate`, `validate_port_types`, `validate_linearity`, `validate_effects`, `validate_edge_types`, `validate_contracts`, `validate_types` | `WellFormed`, `BadPorts`, `BadLinearity`, `BadEffects`, `Mismatches`/`EdgeObligations`, `ContractObligations`, `WellTyped`/`TypeObligations` |
| `torc-verify/src/interval.rs` | `IntervalOf`, `Verdict` |
| `torc-verify/src/smt.rs` | `Encodable`, `Encoded`, `Provable` |
| `torc-verify/src/registry.rs`, `structural.rs`, `engine.rs`, `cache.rs` | `Collected`, `Diagnosed`, `VerifiedIn`, `CacheAfter`, `Summary` |
| `torc-materialize/src/gate.rs` | `GatePasses` |

Numbers are fractions, and a float rounds an integer above `Exact`. The reference
that verdicts are compared with is `Valid`: the predicate holds for every value its
variables may have in `Sample`. Z3 is external. It proves what is valid on the
sample once encoded, it may time out for a whole run, and nothing is said of what it
proves about a division. So for the predicates that `Faithful` admits the solver's
half of `VerifiedHolds` and `CachedHolds` is true by construction; what the two put
to the test is the interval domain, the way a verdict takes through one run, and what
the cache hands from one program and run to the next.

`Engine` runs one engine on one program after another with one cache, as a client of
the library can. `CachedHolds` says that a proof found for one program is true of the
next, and is found again whatever the solver does.

### 2.8 `torc build`: `BuildProcess`, `Build`, `Canonicalize`, `Bridge`

One process goes through `commands/build.rs` and, for every platform, through the
stages of `pipeline.rs`. Other processes edit `graph/main.trc` and
`spec/decisions.tdg`, tear them, and remove `out/`. `BuildProcess` has all the steps;
what the gate may let pass as verified (`Reports`), what a node is lowered to
(`LoweredTo`) and which return value LLVM takes (`MayReturn`) are its parameters.
`Build` gives them: the engine of `Verification`, the lowering and the types of
`Codegen`. So the steps can be reasoned about for any engine and any lowering.

| code | action |
|---|---|
| `build.rs` up to the platforms | `StartBuild` (`ResolvePlatforms`) |
| the look at the decisions | `ReadDecisions` (`MayBuild`, `ProfileFor`) |
| load, then `deduplicate_nodes` | `LoadProgram` (`Merge`), `CannotBuild` |
| `inline_trivial_regions`, `flatten_regions`, once per region | `InlineTrivial` (`Dissolved`), `Flatten` (`Flattened`) |
| `gate_or_halt` | `Verify` |
| `compute_schedule`, `estimate_layout` | `Schedule` |
| `lower_node`, once per node | `Lower` |
| `emit_code`, `link_executable` | `Emit`, `Link` |
| `verify_binary`, the loop over platforms | `PostVerify`, `NextPlatform` |

What is decided by a hash map's order or by a UUID is chosen freely: which member of
a group of duplicates stays, which region is next, the order of ready nodes, the order of edges into one
port, the order of the manifest's platforms. The load, the write of an artifact (which
may leave a part of it, `PartOfOne`), the linker and the solver may fail, with
everything else in order. `DependenciesKept` compares the rewritten graph with the
program that was read.
`CompiledMeaning` compares the value that each node gets with the number it stands
for. `ArtifactsCurrent` looks at the stamp in each file of `out/`: which build, which
platform, which program.

### 2.9 Layout and code: `Targets`, `Layout`, `Codegen`

Pure operators, evaluated by `Build`. The order they go by is any result the sort may
give (`Orders` in `ProgramGraphs`); `TopoSort` has the loop. `PathWeights`, in
`ProgramGraphs` as well, is the recurrence that `compute_levels` and
`compute_peak_stack` share: what a node weighs and the most of what was found for a
predecessor. `PeakIsHeaviestChain` compares its maximum with the set of all chains, for
every size of a word; what a frame weighs (`FrameOf`) is a parameter of `BuildProcess`,
which `Layout` gives its meaning. In `Codegen` every root is a literal, so a value is known: a width and its
bits, or *poison* where LLVM's result is undefined, *broken* for an instruction whose
operands do not have one type, *error* and *panic* for the two ways `lower_node`
stops. `Meaning` is the reference: numbers in the range of their types. It shares
with the lowering only the conversion between numbers and bits; whether an operation
is signed, which operand is first and where a value is truncated are decided apart.

### 2.10 Files, foreign functions, dependencies, examples

`TrcFile`: a file is a header, parts of a graph and a hash over both; `FromBytes`
makes the checks of `from_bytes` in their order. `BridgeFiles` parses C
declarations from words, wraps their functions one by one, and writes the result cell
by cell, as two processes may at once; one that dies, or whose call fails, stops
(`CutShort`). `Pieces` has the nodes of one function by their
role (`pre`, `call`, `post`, `assume`) with the role that feeds each, and
`WithPieces` adds them and an edge for every input that is fed. A UUID is a function
of who draws it and for what (`NodeFor`, `EdgeFor`), and none is drawn twice
(`DrawAssumption`). `GuardsInPlace` holds after every function of a bridge that is under
way: the graph would pass `validate`, which `into_graph` does not call; and unless the
function is verified, all arguments of a call come from one check, port by port, its
result goes to one check and to nothing else, and an unsafe one from there to an
assumption only. `ForeignInterface` adds the C header a wrapper is exported to.
`BridgeSound`: all edges join equal types, so nothing is left to prove about them; and
the C header of a wrapper, parsed again, gives the types it was made from. `AcceptedIsWritten` is about the file.

`Resolver` unrolls `resolve_one`: `Locate` up to the fetch, `Fetch`, `Return`, with
the maps a call still has to go through as its stack. Other processes publish in
between, first the directory (`Announce`), then the files (`Complete`).
`VerdictOrderFree` compares the verdict with a declarative one, the existence of a
set of locks that follow one another, in which no map is gone through at all.

`Examples` has the graphs of `examples/*/src/lib.rs` node by node. Its assumption,
which TLC evaluates, holds them against their tests (counts, an order of all nodes,
a round trip through a file, the memory of the board) and states what no test looks
at (section 6). `toolchain` also gives three of them to the engine.

## 3. Runs

| run | module / cfg | checks | instance and why it is enough |
|---|---|---|---|
| `graph_any` | `MCTorcGraph` / `_any` | `TypeOK`, `IndexesExact` | 2 nodes, 2 edges, 2 regions, one library graph that collides with some of them. Two edges make parallel edges, self-loops and opposite edges; two regions make an overlap and a parent cycle. |
| `graph_disciplined` | `MCTorcGraph` / `_disciplined` | `RegionsExact`, `ExtractsWellKept`, `ImplementsStore` | 3 nodes, 2 edges, 3 regions: a region can have a grandparent, so an inline in the middle of a chain, and one after another, happen. The library brings an edge and a region. |
| `toposort` | `MCTopoSort` | `TopologicalOnDags`, `CycleVerdictExact`, `LevelsAreLongestChains`, `Terminates`, `ImplementsOrder` | every multigraph of 3 nodes and up to 4 edges with every set of exempt nodes: two cycles that share a node, a cycle with an entry and an exit, doubled edges. |
| `toposort_backedges` | `MCTopoSort` / `_backedges` | `OnlyBackEdgesDisordered` (violated) | section 6 |
| `decisions` | `MCDecisionGraph` | `TypeOK`, `HistoryExplainsState`, `BindingUntilConflict`, `ReportAnnouncesRevisits` | 2 decisions, histories of 3 entries: a decision moves away and back, and a commit meets a deferred, a dependent and a removed one. |
| `dependency_search` | `DependencySearch` | `VerdictExact`, `SearchEnds` | every dependency graph of up to 3 decisions, dangling ids included, from every start, in every order: a diamond, a cycle off the path, a cycle behind a visited node. |
| `decision_file` | `MCDecisionStore` / `_shared` | `TypeOK`, `FileIsLegal`, `OnlyACutSaveTears`, `LostOnlyToOverlap` | 2 processes, 2 decisions, histories of 2 entries, one command cut short, starting before the file exists: both processes in `init`, one in the other's truncated file, a crash or failing write in every step, a save of the other process before and after it. |
| `decision_file_lost` | `MCDecisionStore` / `_lost` | `RecordsEveryStateChange` (violated) | section 6 |
| `registry` | `MCRegistryStore` | `TypeOK`, `PublishedIsFinal`, `SettledIsPublished`, `IndexTruthful`, `AnnouncedUnlessRaced` | 2 publishers, 2 versions, 2 packages, both versions may have a publish cut short: publishes of one version and of two overlap at every call, a second publish follows a first, a crash or failing call and the retry after it happen in every phase. |
| `build` | `MCBuild` | `BuildTypeOK`, `DependenciesKept`, `CompiledMeaning`, `VerifiedHolds`, `PeakIsHeaviestChain`, `ArtifactsCurrent`, `ConflictsBlock`, `BuildEnds` | nine programs of up to 5 nodes: unsigned division, literals merged and shared, literals that differ only in value, nested, trivial and constrained regions, true and false obligations, types that do not match (two ways), a cycle that is excused and one that is not. Two builds in a row, for all platforms (two built in, one of the project's, one file that does not parse), for one of them, for an unknown one, for the default; one edit or clean between any two steps. |
| `build_canonical` | `MCBuild` / `_canonical` | `CanonicalKeepsMeaning` (violated) | section 6; the same programs, one build, no edit |
| `toolchain` | `MCToolchain` | `LockMeetsAll`, `VerdictOrderFree`, `GuardsInPlace`, `BridgeSound`, `AcceptedIsWritten`, `CachedHolds`, `BuilderKeeps` | four parts that share no state, one per behaviour. Builder: 2 nodes, 1 edge, 2 regions, nested 2 deep. Engine: seven programs in any sequence of 3, every profile. Bridges: 2 processes, 4 libraries of one or two functions (each trust level, excluded or not, one that does not parse), 2 policies, one process that dies or fails. Resolver: 3 modules of 3 versions, 4 manifests, one edit; a shared module, a conflict, a cycle through a version published meanwhile, nesting at its limit. |

Bounds that are not sizes of sets: `MaxWires` (connections of one `compose`),
`MaxCopies` (times one id may be in one child list, which `inline_region` on
overlapping regions would raise for ever under `Spec`), `MaxHistory` (entries of
a history), `MaxCuts` (commands, versions' publishes and bridges that are cut short),
`MaxBuilds`, `MaxEdits`, `MaxVerifications`, `MaxDepth` (open regions),
`MaxRuns` and `MaxChanges` (resolutions; edits of `torc.toml`). Each is a conjunct of
a guard; the proofs hold for every value of them.

Four constants make a limit of the code small enough to be reached. `Exact` = 64 is
2^53, `Word` = 100 is `i64::MAX`, `LiteralBits` = 8 are the 64 bits of a literal, and
`MaxNesting` = 2 are the 100 levels of `resolve_one`. `Sample` are the integers that
predicates are tried on: -3..12 in `build`, and -1000 and 1000 as well in
`toolchain`, so that both sides of every bound in the programs occur.

*Symmetry* is used where ids are only compared for equality and only invariants
are checked (`decisions`, `decision_file`; in `registry` only the processes,
since versions are ordered; there `MCInit` also fixes `job`, which nothing reads
before a check sets it). `MCTopoSort` instead fixes the order
of edge *ids*, which the algorithm never compares; node ids are not symmetric,
since their order decides.

*Deadlock* is checked except in `toposort` and `dependency_search`, where the
algorithm ends, and in `build` and `toolchain`, where the commands do.

*Fairness.* `TopoSort` and `DependencySearch` are loops of one thread with no
lock, channel or input to wait for, so weak fairness of the whole next-state
relation is what the language's execution gives. `BuildSpec` has weak fairness
of the steps of a build that was started, a process without a lock; starting one,
editing and cleaning are not fair. Nothing else assumes fairness:
the container and the decision graph move when a client calls, and a command may
never be started, or never finish.

## 4. What is proved

All theorems hold for any ids, any libraries, any number of processes and any
bound; the assumptions are those the modules name (`ASSUME`), and none but those
named below says more than that a constant has its type. Each argument is an
inductive invariant: it holds initially, every action keeps it, and it implies the
property.

### The container: `GraphLemmas`, `TorcGraph_proofs`

`GraphLemmas` has one lemma per operator of `GraphOps` about indexes and one about
regions; builder and container cite the same ones.

* `IndexesAlwaysExact`: `Spec => [](TypeOK /\ IndexesExact)`. Inductive as it stands;
  the interesting lemmas are `WithoutNodesKept` (edges are found through the lists,
  so the lists must be exact *before* the removal) and `RewiredFits`: the edges
  `replace_subgraph` recreates always have both ends, so its `add_edge` calls cannot
  fail. Assumed of a library graph: its own indexes are exact.
* `RegionsAlwaysExact`: for `DisciplinedSpec`, membership and nesting agree in all
  four places, the regions form a forest, `validate` accepts the graph, and what
  `extract_subgraph` takes out is as well kept (`ExtractsWellKept`). The forest is
  stated without recursion: every non-empty set of regions has a member whose parent
  is not in the set. That form turns each step into a choice of a member: in
  `InlinedRegionRegions` a set that lost its witness to the inlined region is retried
  with the region added.
* `StoreImplemented`: `DisciplinedSpec => ImplementsStore`. One lemma per operator says
  what the container's queries return after it (`WithoutNodesQueries`,
  `InlinedRegionQueries`, ...), each from the invariant of `RegionsAlwaysExact`; then
  every action is one action of `GraphStore` or a stutter. `ReplaceImplements` is the
  long one: removal, merge and rewiring are one step of the store.

### Sort and levels: `TopoSort_proofs`

* `SortAlwaysExact`: `TopologicalOnDags`, `CycleVerdictExact` and
  `LevelsAreLongestChains`, from `SortInv`. A degree counts the edges from nodes that
  are not listed (`DegreeExact`), a node is out of degree just when it is queued or
  listed (`QueueExact`), and a queued node is owed nothing unless it was forced, and
  then it is alone (`QueueJustified`). *Complete*: a cycle without exempt nodes is never
  entered (`CyclesUntouched`). *Sound*: when queue and exempt nodes are used up, what
  is left has a predecessor each within what is left, which is a cycle (`LeftIsCyclic`).
  `LevelsExact` says that a level is above all those it depends on and, unless it is 0,
  just above one of them; that makes it the length of the longest chain, and the
  property is stated in that form, without chains. Assumed: nodes and edge ids are finite sets (two hash maps are).
* `OrderImplemented`: `Spec => ImplementsOrder`. Every pop lists a ready node or the
  forced one; forcing happens only when none is ready, since the queue is empty then.

### Decisions: `DecisionLemmas`, `DecisionGraph_proofs`, `DecisionStore_proofs`

* `HistoryAlwaysExplains`: `TypeOK`, `HistoryExplainsState` and `BindingUntilConflict`.
  The strengthening adds that every entry is a legal move (`Lawful`): a commitment is
  followed by a conflict because the next entry starts where it ended (`Chained`) and
  the table of transitions allows nothing else.
* `ReportAlwaysAnnounces`: the report of a commit, computed from the graph *after* the
  commit, announces what is open and what waited, and no other call leaves a report
  behind that it could make stale.
* `SearchAlwaysExact`: `VisitedIsSettled` and `VerdictExact`, from `SearchInv`. The
  frames lead from the start along dependencies (`Trail`), so a dependency found on the
  stack closes a cycle; what a frame has looked at is settled but for the call it waits
  for (`LookedAt`), so what is returned from is settled; and what is settled requires
  only settled nodes, none of which reaches itself (`SettledSound`). Hence an empty
  stack without an error means that no cycle is reachable.
* `FileAlwaysLegal`: a readable file is legal, and it is torn only while a save is under
  way or when the last save to end was cut short, by a death or a failing write. `SInv`
  says it of the file *and* of the copy each process is about to write, and that ids in any of them have been issued, so that a fresh id is in none.
* `UpdatesSurvive`: `LostOnlyToOverlap`. Without overlap at most one process is busy,
  and its copy extends the history that it loaded; `OInv` states both, and that a torn
  file's last whole graph is extended by the copy of the one process that is writing.

### The registry: `RegistryStore_proofs`

* `PublishedAlwaysFinal`, `SettledAlwaysPublished`, `IndexAlwaysTruthful`,
  `AnnouncedAlways`: all four properties. `FInv` says that the publisher of an
  uncontested version is alone with it (`Alone`) and what its phase has left in each
  file (`Progress`); so a file that is being made belongs to no published version
  (`NotYetPublished`), and no step of another can touch a published one. `XInv` adds
  that neither the index nor any copy of it about to be written contradicts a graph: a
  hash enters a copy only after the graph was written, and a written graph stays.
  `JInv` is separate: without a race one publisher at a time is between the read and
  the write of the index, the file is empty while it writes, and its copy has every
  published version. Assumed: a package is neither of the two marks for a file that is
  empty or garbled.

### Builder, resolver, bridges, builds: `Toolchain_proofs`

* `BuilderAlwaysSound`, `BuilderAlwaysKeeps`: `BuilderSpec => BuilderKeeps`, all three
  parts of it. `BuilderInv` adds to the container's invariants that open frames share no
  node and hold none that is in a region already (`FramesDisjoint`), what `build` found
  out about ports (`Judged`), and that ids are the builder's own (`Drawn`). Each call
  is then shown to be a step of `DisciplinedSpec`, so the container's theorems apply to
  every graph a builder makes.
* `LockAlwaysMeets`: `LockMeetsAll` for any registry, in any order of the maps, whatever
  is published meanwhile. `ResolverInv`: every requirement of the project and of a locked
  module is met, or is in the map of an open call, or is about to be met by the version
  being fetched (`NothingForgotten`); and everything locked or open was asked for
  (`NothingUnasked`). On success nothing is open.
* `VerdictAlwaysOrderFree`: with nothing published meanwhile, a resolution succeeds just
  when a solution exists. *If*: it never leaves the way to a solution
  (`NeverStray`): all that is open is part of it and ranked low enough for the nesting
  that is left, so neither a conflict nor the depth limit can stop it. *Only if*: every
  locked module has a rank, the longest chain below it, or owns an open call
  (`AllOwned`); when the last call returns all are ranked, and the locks are a solution.
  Assumed: versions are a finite set of numbers (a highest one exists), manifests are
  maps.
* `AcceptedAlwaysWritten`: `AcceptedIsWritten` for any number of processes that write one
  bridge without a lock. `BridgeInv`: each cell of the file is a gap or the cell at that
  place of a whole graph of some process (`CellsMade`), and undisturbed the file is a
  prefix of the writer's (`Undisturbed`). A file that `from_bytes` accepts ends in a hash
  cell; the process that wrote it wrote everything before it as well, or the hash is
  over something else and is refused. Assumed, as everywhere in `TrcFile`: a hash is as
  good as what it is over.
* `GuardsAlwaysInPlace`: `GuardsInPlace` for any declarations, any policies and any number
  of processes. `WithFunctionAdds` says what one function adds: a node for each role, an
  edge for each input that is fed, nothing else. `GuardInv` adds to the property that
  edges join nodes that are there over ports that are there (`Founded`), and that nothing
  in the graph bears an id that the functions still to be wrapped will draw (`Fresh`).
  From it, an edge of the grown graph at a new node is new and one at an old node is old
  (`EdgesOldOrNew`), so no later function can disturb the guards of an earlier one
  (`OldGuarded`), and those of the new call are found in its `Pieces` alone (`NewGuarded`). A
  function that is passed over, one that does not parse, and a process that is cut
  short change no graph.
  Assumed: no UUID is drawn twice (`DrawAssumption`), a declaration is a sequence of
  functions with parameters, and None is not a type (`DeclarationAssumption`).
* `DependenciesAlwaysKept`: `DependenciesKept` and `BuildTypeOK`, for any programs and
  whatever the gate reports and nodes are lowered to. `Canonicalized` relates the working
  program to the one that was read: its nodes are those that stand for themselves, its
  edges those of the program with both ends moved, and its constrained regions are all
  there. `MergeCanonicalizes` is the step that could lose something: `remove_node` drops
  the edges it finds in a duplicate's lists, and there are none, because the edges were
  moved first and moving keeps the lists exact (`RewiredKept`). Regions that are
  dissolved or flattened take neither node nor edge with them, by the container's lemmas.
  Assumed of a program (`SourceAssumption`): it is well kept with its ports in range and
  has finitely many nodes, which is what `BuilderAlwaysSound` shows of a built graph.
* `ArtifactsAlwaysCurrent`: `ArtifactsCurrent` and `ConflictsBlock`. `MadeHere` follows the
  files of `out/` through a build: from the emission on, an object that is there bears the
  stamp of this build, platform and program, and so does the executable once it was
  linked, since the linker takes the object that is there. Another process may remove the
  directory at any step, which leaves nothing to be wrong.
* `PeakAlwaysHeaviestChain`: `PeakIsHeaviestChain`, for any order, any program and any
  frames. The two recursive functions are first shown to be what they say: a running
  sum (`RunningSum`) and a weight for each place from those before it
  (`PathWeightsFound`), by putting one value after another to a function on the first
  few places, since the induction theorems cannot be used. Then, by a least
  counterexample among the places: no chain that ends at a place is heavier than what is
  found there (`ChainsBounded`), because without its last place it is a chain to a
  predecessor before it; and one is as heavy (`ChainsReach`), the one to the heaviest
  predecessor with this place added. Assumed: a frame is a natural number
  (`FrameAssumption`).

### Only model-checked

* `CompiledMeaning`, `VerifiedHolds`, `BridgeSound`, `CachedHolds`,
  and the reference `CanonicalKeepsMeaning`: they say what a recursive definition
  computes for every type or predicate, which is induction over data. The
  induction theorems of the library take an operator as a parameter, and no installed
  prover can instantiate one. (What of `BridgeSound` needs no recursion, the shape of the
  graph, is `GuardsInPlace`.)
* `Terminates`, `SearchEnds`, `BuildEnds`: liveness under fairness, out of the prover's
  reach.
* `OnlyBackEdgesDisordered`, `RecordsEveryStateChange`: false (section 6).

## 5. What is not modelled

`PROJECT.json` gives the reason for each component. Two are left out whole:
provenance, hashing and literals (data, SHA-256, dates), and the observation views
(text). In the modelled components:

* *Graph container*: `get_node_mut` and `get_region_mut` hand out references whose
  edits the container does not see, apart from those the builder makes. The
  scheduler's grouping by region returns the steps it is given.
* *Decision graph*: assumptions, and queries that only tests call. The bytes of the
  decision file; it is missing, whole or torn.
* *TRC files*: cells stand for bytes, so the arithmetic on `payload_len` and the
  decoding of a graph are not modelled; a hash is as good as what it is over.
* *Verification*: waivers, the invalidation of cached proofs and the lookups of the
  registry of obligations, which only tests call; the text of reports. What Z3
  proves of division or remainder.
* *Code generation*: values of floats (that they are floats, and of what precision,
  is kept), node kinds that `lower_node` refuses anyway, bitcode, optimization levels
  and names of cross-compilers. The module's check by LLVM is modelled for the
  returned value; a broken instruction may or may not be noticed, since that depends
  on how LLVM was built.
* *Registry*: `ModuleCache`, `search` and the syntax of manifests and requirements; a
  requirement is the set of versions that meet it. `fetch` reads its two files in one
  step in `RegistryStore`.
* *Foreign interface*: marshalling strategies, which nothing uses, and the wording of
  headers.
* *Targets*: tables of microarchitectures that nothing modelled reads; TOML.
* *Command line*: `init`, `target add`, `inspect`, `search` and the printing of
  results.
* *Examples*: their compiled values. Their integers are wider than TLC's, and their
  floats have no values here.

## 6. Where code and documentation disagree

Checked by a run of its own:

* `topological_sort` is documented to break an edge only as a back-edge of a cycle
  through the forced node. It forces the smallest exempt node that still has
  incoming edges, on a cycle or not; one that merely waits behind another exempt
  node's cycle is put before its predecessors (`toposort_backedges`).
* The history "records every state change"; a command that overlaps another erases
  the change the other reported as done (`decision_file_lost`). `LostOnlyToOverlap`
  shows that overlap is the only way to lose one.

* Canonicalization is to merge *structurally identical* subgraphs, and a node's
  identity is to be derived from its content "and child references"
  (`spec/06-materialization-engine.md:27`, `spec/03-language-specification.md:208`).
  `node_content_hash` looks at kind, signature and contract only. Literals that differ
  in value are merged, and the compiled program computes something else
  (`build_canonical`); so are operations with different operands. The literals of
  `examples/e2e-arithmetic` are all merged when it is canonicalized; its test, which
  asserts 79, calls `emit_code` without that. `CompiledMeaning` shows that this merge
  is the only way in which the modelled programs lose their meaning.

Seen while modelling, without a run. Graph, decisions, registry:

* `schedule.rs` calls the nodes of a step parallel; a predecessor that a forced
  node put later in the order is skipped by `compute_levels`, so one step can hold
  both ends of an edge. Follows from the first item above. `compute_peak_stack` skips
  it too. `LevelsAreLongestChains` speaks of graphs without cycles, and the chains of
  `PeakIsHeaviestChain` follow edges forward in the order only.
* The impact report leaves out a deferred decision that depends on the committed
  one without naming it as its trigger: it is in none of the three lists.
* `blocking_decisions` and `find_conflicts` look at direct dependencies, their
  docs speak of dependencies in general; only tests call them.
* `remove_node` removes the node from the one region that the node index names. A
  region that lost the node to a later `add_region` keeps it, and `validate` then
  reports it. `RegionsExact` shows that this needs a client that lists a node twice.
* A `torc decision` command whose write fails reports the error, but the decisions it
  had read are gone: the file is torn, no command reads it, and `init` leaves it alone.
* `torc build` warns about a torn decision file and goes on as if there were no
  decisions; `ConflictsBlock` is about the decisions as the build reads them.
* `integrity.rs:4` says that a published version cannot be modified. Two publishers
  of the same version can both pass the checks, and the later one overwrites what the
  earlier one has published: `PublishedIsFinal` needs its condition on `contested`.
* "Content integrity is verified on fetch" (`IMPLEMENTATION_PLAN.md:647`): `fetch`
  computes the hash of the graph it read and compares it with nothing, so a graph that
  is still being written, or was cut short, is returned as `Ok`.
* A publish that is cut short burns its version, also when the disk was full and the
  publisher is there to try again: it is listed, so `resolve` and `search` pick
  it and fail, or get a partial graph, and it cannot be published again.

Verification:

* When types do not match, `validate_types` fails, `registry.rs:63` drops the
  obligations of all edges with a comment that the structural pass handles the errors,
  and that pass does not look at types. Nobody reports the mismatch, the gate passes,
  and LLVM is given operands of two widths (`Mismatched` in `MCPrograms`).
* Resource bounds, failure modes and termination oblige to prove the literal `true`.
  So `spec/12`'s "847/847 obligations verified" and `IMPLEMENTATION_PLAN.md:669`'s
  "meaningful results (not just \"all trivially pass\")" are met by a motor controller
  all of whose 42 obligations are that literal (`ExamplesAsTested`).
* The motor controller's effects are wrong at three nodes; `validate_effects` says so,
  and its test of the gate passes all the same.
* The gate counts as *failed* the obligations that are assumed, which the engine never
  produces; "if any proof obligation fails ... materialization halts"
  (`spec/06-materialization-engine.md:48`) holds for the strict gate only, through the
  pending ones.
* The interval domain turns integers into floats: 2^53 >= 2^53 + 1 is proven. The
  solver clamps literals to 64 bits, truncates fractions and drops the range of a
  quantifier; it divides integers where the interval domain divides fractions. Within
  the bounds that `Faithful` names, both are right (`VerifiedHolds`, `CachedHolds`).
* `base_type` does not look below `Posterior`, `Interval` and `Approximate`. A `Timed`
  bound is compared without the hardware it is for. A contract-less node hands no
  effects on, so the FFI effect that "propagates through the graph"
  (`spec/11`) ends at the checks that the bridge puts around a call.

Pipeline and build:

* Canonicalization is not idempotent (merging makes new duplicates), and it gives a
  merged linear output two consumers.
* Integer conversion extends by the sign of the *output* type: u8 200 becomes i16 -56.
  Literals of types wider than 64 bits lose their upper bits. `KeepsNumbers` and
  `Representable` exclude both from `CompiledMeaning`.
* Leaf to be returned: "the one deepest in the dependency chain"
  (`codegen/mod.rs:215`) is the last one in the order. "Multiple outputs become a
  struct return" (line 94): only the first output has a value.
* `--all-targets` writes every platform's artifacts to the same `out/main.o` and
  `out/main`, where `spec/12` shows `out/<target>/`; a link that fails leaves an
  earlier executable beside the new object. A file under `targets/` whose platform has
  another name than the file can be built twice.
* The program is read again for every platform, the decisions once. Two builds share
  `out/`, and either may link the other's object (the model has one at a time).
* A default target that does not resolve is passed over in favour of linux-x86_64.
  `validate_platform` is not called by a build. A resource that does not fit and an
  artifact of the wrong size are printed and do not fail the build.
* The resource check adds up all writable memory of the board; its linker script uses
  one region. `enforce_resources`, `optimization`, the solver's timeout and the path of
  the decisions in the manifest are not used.

Files, bridges, dependencies:

* `from_bytes` adds to an unchecked `payload_len`.
* A C `long` has 32 bits and a pointer 64 on every platform; a pointer that may be null
  is not an `Option`; `const void` as a result is not taken for `void`.
  `platform_trusted` is never consulted.
* The resolver takes the highest version and does not go back, so a solution may exist
  where it reports a conflict; `VerdictOrderFree` states exactly when it succeeds. A
  publish during a resolution can make it fail. Modules that are needed twice are
  resolved twice, and the depth limit stands in for a search for cycles. `torc add`
  does not ask the registry.

## 7. Limits, and what could follow

Every safety invariant that the runs check and that does not speak of recursive data is
proved as well. Beyond that:

1. **Meaning.** `CompiledMeaning`, `VerifiedHolds` and `CachedHolds` hold for the programs
   of `MCBuild` and `MCToolchain`. A prover that can instantiate an induction theorem
   could take them up: the invariants would be `Canonicalized` with the value of every
   node, and for the cache that a key determines its obligation.
2. **Gaps of the models**: `ModuleCache` beside `fetch`, two builds at a time on one
   `out/`, values of floats in `Codegen`, bytes in place of cells in `TrcFile`.

## 8. Running

```
tlc -workers 2 -config MCTorcGraph_any.cfg MCTorcGraph
tlapm TorcGraph_proofs.tla
```

Names of the other runs and their configurations are in `PROJECT.json`.
