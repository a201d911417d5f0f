----------------------------- MODULE BuildProcess -----------------------------
(***************************************************************************)
(* torc build (cli/torc/src/commands/build.rs) and the pipeline it runs    *)
(* for each platform (crates/torc-materialize/src: pipeline.rs, gate.rs,   *)
(* codegen/mod.rs, codegen/emit.rs), among other processes that edit the   *)
(* project's files and clean its output directory meanwhile.               *)
(*                                                                         *)
(* A build reads the decisions once and the program anew for every         *)
(* platform, and writes the artifacts of all platforms to the same paths.  *)
(* What the gate finds and what a node is lowered to are parameters, which *)
(* Build gives their meaning.                                              *)
(***************************************************************************)
EXTENDS Canonicalize, Targets, Bridge

CONSTANTS SourceFile,    \* names of the programs that graph/main.trc may hold
          ProgramOf,     \* name -> program
          Request,       \* the command lines: [flag, all, mode]
          Manifest,      \* the [targets] section of torc.toml
          TargetFiles,   \* the project's own platforms
          FirstDecisions, OtherDecisions,  \* what the decision file may hold, first and after an edit
          Edits,         \* the names a program may be edited into, or Unreadable
          MaxBuilds, MaxEdits, \* bounds: builds and edits in one behaviour
          Reports(_, _),      \* program, profile -> what the gate may let pass as verified
          LoweredTo(_, _, _), \* program, node, values of its inputs -> its value
          MayReturn(_, _, _), \* program, node, value -> LLVM lets the node's function return it
          FrameOf(_, _)       \* a node's attributes, bytes of a word -> the bytes of its frame

ASSUME BuildAssumption ==
    MaxBuilds \in Nat /\ MaxEdits \in Nat /\ Edits \subseteq SourceFile \cup {Unreadable}

\* A program is as the builder makes it: a well-kept graph with ports in range.
ASSUME SourceAssumption ==
    \A s \in SourceFile :
      LET p == ProgramOf[s]
      IN /\ p = [graph |-> p.graph, attr |-> p.attr, ports |-> p.ports,
                 kindOf |-> p.kindOf, constrained |-> p.constrained]
         /\ IsGraph(p.graph) /\ EdgesKept(p.graph) /\ RegionsKept(p.graph)
         /\ IsFiniteSet(p.graph.nodes) /\ BadPorts(p) = {}
         /\ DOMAIN p.attr = p.graph.nodes /\ DOMAIN p.ports = DOMAIN p.graph.edges
         /\ DOMAIN p.kindOf = DOMAIN p.graph.regions
         /\ p.constrained \subseteq DOMAIN p.graph.regions

\* The bytes of a word that the check of a platform lets pass (torc-targets, parse.rs).
WordSizes == {1, 2, 4, 8, 16}

\* A frame is a sum of sizes.
ASSUME FrameAssumption ==
    \A s \in SourceFile, word \in WordSizes : \A n \in ProgramOf[s].graph.nodes :
       FrameOf(ProgramOf[s].attr[n], word) \in Nat

VARIABLES main,      \* graph/main.trc: a name, or Unreadable
          decisions, \* spec/decisions.tdg
          out,       \* the out/ directory: file -> what it was made from; None without it
          edits,     \* how many edits were made
          status,    \* where the build stands
          count,     \* the number of the build
          request,   \* its command line, None before the first
          platforms, \* the platforms still to build for, the current one first
          profile,   \* what its gate verifies under
          origin,    \* the name of the program it read
          group,     \* which nodes it merged into which
          work,      \* the program as it is now
          trivial,   \* its trivial regions that are still to be dissolved
          report,    \* which of its obligations the gate verified
          order,     \* the order of the nodes
          values     \* node -> the LLVM value of its output

files   == <<main, decisions, out, edits>>
process == <<status, count, request, platforms, profile, origin, group, work, trivial, report, order, values>>
buildVars == <<files, process>>

Modes    == {"graph-stats", "check-resources", "llvm-ir", "object", "executable"}
Ended    == {"idle", "ok", "failed", "panicked"}
Platform1 == platforms[1]
EmitFile == CASE request.mode = "llvm-ir" -> "main.ll" [] OTHER -> "main.o"
Stamp    == [build |-> count, platform |-> Platform1.name, origin |-> origin]
NoProgram == [graph |-> EmptyGraph, attr |-> EmptyMap, ports |-> EmptyMap,
              kindOf |-> EmptyMap, constrained |-> {}]

\* What the current platform's pipeline has worked out so far is dropped.
Forget == /\ origin' = None /\ group' = EmptyMap /\ work' = NoProgram /\ trivial' = {}
          /\ report' = {} /\ order' = <<>> /\ values' = EmptyMap

BuildInit ==
    /\ main \in SourceFile /\ decisions \in FirstDecisions /\ out = None /\ edits = 0
    /\ status = "idle" /\ count = 0 /\ request = None
    /\ platforms = <<>> /\ profile = "development"
    /\ origin = None /\ group = EmptyMap /\ work = NoProgram /\ trivial = {}
    /\ report = {} /\ order = <<>> /\ values = EmptyMap

-----------------------------------------------------------------------------
(* The build *)

Stop(s) == status' = s /\ platforms' = <<>> /\ Forget /\ UNCHANGED <<files, count, request, profile>>

StartBuild(q) ==
    /\ status \in Ended /\ count < MaxBuilds
    /\ count' = count + 1 /\ request' = q
    /\ \E ps \in ResolvePlatforms(q.flag, q.all, Manifest, TargetFiles) :
         platforms' = ps /\ status' = IF ps = <<>> THEN "failed" ELSE "resolved"
    /\ profile' = "development" /\ Forget
    /\ UNCHANGED files

\* Fault: a conflict is only warned about.
ReadDecisions_Warn ==
    /\ status = "resolved"
    /\ status' = "ready" /\ profile' = ProfileFor(decisions, "development")
    /\ UNCHANGED <<files, count, request, platforms, origin, group, work, trivial, report, order, values>>

ReadDecisions ==
    /\ status = "resolved"
    /\ \/ /\ MayBuild(decisions)
          /\ status' = "ready" /\ profile' = ProfileFor(decisions, "development")
          /\ UNCHANGED <<files, count, request, platforms, origin, group, work, trivial, report, order, values>>
       \/ ~MayBuild(decisions) /\ Stop("failed")

\* The program is loaded, and its duplicates are merged.  Which member of a
\* group stands for it is up to a hash map.  The output directory was made
\* before, when code is wanted.
LoadProgram ==
    /\ status = "ready" /\ main # Unreadable /\ request.mode \in Modes
    /\ out' = IF out = None /\ request.mode \in {"llvm-ir", "object", "executable"} THEN EmptyMap ELSE out
    /\ origin' = main
    /\ \E r \in Representatives(ProgramOf[main]) :
          LET merged == Merge(ProgramOf[main], r)
          IN group' = r /\ work' = merged /\ trivial' = Trivials(merged)
    /\ status' = "loaded"
    /\ UNCHANGED <<main, decisions, edits, count, request, platforms, profile, report, order, values>>

\* The rest of canonicalization, one region at a time in the order of a hash map.
InlineTrivial ==
    /\ status = "loaded"
    /\ \E r \in trivial : work' = Dissolved(work, r) /\ trivial' = trivial \ {r}
    /\ UNCHANGED <<files, status, count, request, platforms, profile, origin, group, report, order, values>>

Flatten ==
    /\ status = "loaded" /\ trivial = {}
    /\ \E r \in Flattenable(work) : work' = Flattened(work, r)
    /\ UNCHANGED <<files, status, count, request, platforms, profile, origin, group, trivial, report, order, values>>

\* The gate, which is not strict, halts for failures only, and the engine
\* reports none.  No transform is registered.
Verify ==
    /\ status = "loaded" /\ trivial = {} /\ Flattenable(work) = {}
    /\ report' \in Reports(work, profile)
    /\ status' = "verified"
    /\ UNCHANGED <<files, count, request, platforms, profile, origin, group, work, trivial, order, values>>

\* The program is not there or cannot be read, the output directory cannot be
\* made, or code is wanted in a form that this build of torc cannot emit.
CannotBuild == status = "ready" /\ Stop("failed")

\* The schedule; the estimate follows from it.  Without code generation that was it.
Schedule ==
    /\ status = "verified"
    /\ \/ Orders(work) = {} /\ Stop("failed")
       \/ \E o \in Orders(work) :
            /\ order' = o
            /\ status' = IF request.mode \in {"graph-stats", "check-resources"}
                         THEN "built" ELSE "lowering"
            /\ UNCHANGED <<files, count, request, platforms, profile, origin, group, work, trivial, report, values>>

\* The values on the edges into a node, sorted by their port; the order of the
\* incoming list decides between two edges into one port.
InputEdges(n) ==
    {s \in SetToSeqs(EdgesInto(work, n)) :
       \A i, j \in DOMAIN s : i < j => work.ports[s[i]].to <= work.ports[s[j]].to}

\* Only the first output of a node has a value.
Lacking(n) ==
    {e \in EdgesInto(work, n) : \/ work.graph.edges[e].source \notin DOMAIN values
                                \/ work.ports[e].from # 0}

\* Fault: a node whose input has no value is passed over.
Lower_Waiting(n) ==
    /\ status = "lowering" /\ Cardinality(DOMAIN values) < Len(order)
    /\ n = order[Cardinality(DOMAIN values) + 1]
    /\ Lacking(n) = {}
    /\ \E s \in InputEdges(n) :
         LET vs == [i \in DOMAIN s |-> values[work.graph.edges[s[i]].source]]
             v  == LoweredTo(work, n, vs)
         IN /\ v.sort \notin {"error", "panic"}
            /\ values' = values ++ One(n, v)
    /\ UNCHANGED <<files, status, count, request, platforms, profile, origin, group, work, trivial, report, order>>

\* The next node in the order.
Lower(n) ==
    /\ status = "lowering" /\ Cardinality(DOMAIN values) < Len(order)
    /\ n = order[Cardinality(DOMAIN values) + 1]
    /\ IF Lacking(n) # {} THEN Stop("failed")
       ELSE \E s \in InputEdges(n) :
              LET vs == [i \in DOMAIN s |-> values[work.graph.edges[s[i]].source]]
                  v  == LoweredTo(work, n, vs)
              IN CASE v.sort = "error" -> Stop("failed")
                   [] v.sort = "panic" -> Stop("panicked")
                   [] OTHER -> /\ values' = values ++ One(n, v)
                               /\ UNCHANGED <<files, status, count, request, platforms, profile, origin,
                                              group, work, trivial, report, order>>

\* The last leaf in the order is returned; with no leaf, nothing is.
Returned == LET at == {i \in DOMAIN order : order[i] \in Leaves(work)}
            IN IF at = {} THEN None ELSE order[CHOOSE i \in at : \A j \in at : j <= i]

\* The module passes LLVM's verifier.
ModuleVerifies == Returned # None => MayReturn(work, Returned, values[Returned])

Has(file) == IF out = None THEN FALSE ELSE file \in DOMAIN out
Put(file) == out' = out ++ One(file, Stamp)
PartOfOne == [Stamp EXCEPT !.origin = None]   \* a file that was not written to its end
Going(s)  == /\ status' = s
             /\ UNCHANGED <<main, decisions, edits, count, request, platforms, profile, origin, group,
                            work, trivial, report, order, values>>

\* Verify the module and write it.  A broken instruction is refused, or not
\* noticed by an LLVM without assertions.  The write fails without a directory,
\* and anyway may: before the file is opened, or after, when part of it is left.
Emit ==
    /\ status = "lowering" /\ Len(order) = Cardinality(DOMAIN values)
    /\ \/ /\ ModuleVerifies /\ out # None
          /\ Put(EmitFile)
          /\ Going(IF request.mode = "executable" THEN "emitted" ELSE "written")
       \/ /\ out' \in {out} \cup (IF ModuleVerifies /\ out # None
                                 THEN {out ++ One(EmitFile, PartOfOne)} ELSE {})
          /\ status' = "failed" /\ platforms' = <<>> /\ Forget
          /\ UNCHANGED <<main, decisions, edits, count, request, profile>>

\* Fault: an executable that is there is not linked again.
Link_IfMissing ==
    /\ status = "emitted"
    /\ \/ /\ Has("main.o")
          /\ out' = IF "main" \in DOMAIN out THEN out ELSE out ++ One("main", out["main.o"])
          /\ Going("written")
       \/ Stop("failed")

\* The linker makes the executable from the object that is there.  For bare
\* metal a linker script is written first.  That and the linker may fail.
Link ==
    LET bare   == Platform1.env = "BareMetal"
        script == IF bare /\ out # None THEN out ++ One("main.ld", Stamp) ELSE out
    IN /\ status = "emitted"
       /\ \/ /\ Has("main.o")
             /\ out' = script ++ One("main", out["main.o"])
             /\ Going("written")
          \/ /\ out' \in {out, script}
             /\ status' = "failed" /\ platforms' = <<>> /\ Forget
             /\ UNCHANGED <<main, decisions, edits, count, request, profile>>

\* The size of the artifact is compared with the estimate and the verdict only
\* reported; it is an error that the artifact is gone.  Text has no artifact.
PostVerify ==
    LET artifact == IF request.mode = "executable" THEN "main" ELSE "main.o"
        fine == request.mode # "llvm-ir" => Has(artifact)
    IN /\ status = "written"
       /\ \/ fine /\ out' = out /\ Going("built")
          \/ ~fine /\ Stop("failed")

\* Fault: the last platform is not told from the others.
NextPlatform_Endless ==
    /\ status = "built" /\ status' = "ready" /\ platforms' = Tail(platforms) /\ Forget
    /\ UNCHANGED <<files, count, request, profile>>

\* The next platform's pipeline starts over with the program's file.
NextPlatform ==
    /\ status = "built"
    /\ \/ /\ Tail(platforms) # <<>>
          /\ status' = "ready" /\ platforms' = Tail(platforms) /\ Forget
          /\ UNCHANGED <<files, count, request, profile>>
       \/ /\ Tail(platforms) = <<>>
          /\ status' = "ok"
          /\ UNCHANGED <<files, count, request, platforms, profile, origin, group, work, trivial, report, order, values>>

-----------------------------------------------------------------------------
(* Other processes *)

Edit ==
    /\ edits < MaxEdits /\ edits' = edits + 1
    /\ \/ main' \in Edits /\ UNCHANGED decisions
       \/ decisions' \in OtherDecisions /\ UNCHANGED main
    /\ UNCHANGED <<out, process>>

Clean == /\ out # None /\ out' = None /\ edits < MaxEdits /\ edits' = edits + 1
         /\ UNCHANGED <<main, decisions, process>>

BuildStep ==
    \/ ReadDecisions \/ CannotBuild \/ LoadProgram \/ InlineTrivial \/ Flatten
    \/ Verify \/ Schedule \/ Emit \/ Link \/ PostVerify \/ NextPlatform
    \/ status = "lowering" /\ \E n \in work.graph.nodes : Lower(n)

BuildNext == BuildStep \/ (\E q \in Request : StartBuild(q)) \/ Edit \/ Clean

\* A process that was started runs on; nobody has to start one.
progress == <<status, DOMAIN values, trivial, DOMAIN work.graph.regions>>   \* every step of a build changes it
BuildSpec == BuildInit /\ [][BuildNext]_buildVars /\ WF_progress(BuildStep)
-----------------------------------------------------------------------------
(* What holds *)

Statuses == Ended \cup {"resolved", "ready", "loaded", "verified", "lowering", "emitted", "written", "built"}

\* Every variable holds what it is for: a running build has a platform, and
\* the working program is one program in all its parts (pipeline.rs, build.rs).
BuildTypeOK ==
    /\ main \in SourceFile \cup {Unreadable} /\ decisions \in FirstDecisions \cup OtherDecisions
    /\ out # None => DOMAIN out \subseteq {"main.ll", "main.o", "main.ld", "main"}
    /\ edits \in 0..MaxEdits /\ count \in 0..MaxBuilds
    /\ status \in Statuses /\ (status \notin Ended => platforms # <<>> /\ request \in Request)
    /\ profile \in Profiles /\ (request # None => request \in Request)
    /\ IsGraph(work.graph) /\ DOMAIN work.attr = work.graph.nodes
    /\ DOMAIN work.ports = DOMAIN work.graph.edges /\ DOMAIN work.kindOf = DOMAIN work.graph.regions
    /\ trivial \subseteq DOMAIN work.graph.regions
    /\ DOMAIN values \subseteq ToSet(order) /\ ToSet(order) \subseteq work.graph.nodes

Original == ProgramOf[origin]

\* Whatever canonicalization merges, inlines and flattens (canonicalize.rs), the
\* working graph is well kept, every dependency of the program is still there
\* between the nodes that stand for its ends, no node was merged across a region
\* and no region with a constraint was dissolved.
DependenciesKept ==
    origin # None =>
      /\ EdgesKept(work.graph) /\ RegionsKept(work.graph) /\ BadPorts(work) = {}
      /\ Original.constrained \subseteq DOMAIN work.graph.regions
      /\ \A n \in Original.graph.nodes : HomeOf(Original, n) = HomeOf(Original, group[n])
      /\ \A e \in DOMAIN Original.graph.edges :
           /\ e \in DOMAIN work.graph.edges
           /\ work.graph.edges[e] = [source |-> group[Original.graph.edges[e].source],
                                     target |-> group[Original.graph.edges[e].target]]

\* When torc build says it succeeded, the object and the executable that are in
\* out/ are those of this build, for its last platform, and were made from the
\* program that its gate verified, whatever was edited or cleaned meanwhile and
\* whatever an earlier build left there (build.rs, emit.rs).
ArtifactsCurrent ==
    status = "ok" /\ request.mode \in {"object", "executable"} /\ out # None =>
      \A file \in DOMAIN out \cap (IF request.mode = "object" THEN {"main.o"} ELSE {"main.o", "main"}) :
         out[file] = Stamp

\* A conflict among the decisions keeps a build from its gate; so the profile
\* that decision_aware_profile gives to conflicts is one no build ever verifies
\* under (build.rs, bridge.rs).
ConflictsBlock == status # "resolved" => profile # "certification"

\* Paths, as the places of an order that they run through.
Chains(p, places) ==
    {K \in SUBSET DOMAIN places : K # {} /\ \A j, k \in K :
       j < k /\ K \cap ((j + 1)..(k - 1)) = {} => places[j] \in Predecessors(p, places[k])}
Total(s) == LET sum[k \in 0..Len(s)] == IF k = 0 THEN 0 ELSE sum[k - 1] + s[k] IN sum[Len(s)]
ChainWeight(places, K, own) == Total([k \in DOMAIN places |-> IF k \in K THEN own[places[k]] ELSE 0])

\* The peak that is held against the platform's memory is the weight of the
\* heaviest chain of nodes that follow one another in the program, in whatever
\* order the nodes are and however large a word is (layout.rs).
PeakIsHeaviestChain ==
    order # <<>> =>
      \A word \in WordSizes :
        LET own     == [n \in work.graph.nodes |-> FrameOf(work.attr[n], word)]
            weights == {ChainWeight(order, K, own) : K \in Chains(work, order)}
            peak    == HeaviestPath(work, order, own)
        IN peak \in weights /\ \A w \in weights : w <= peak

\* A build that was started comes to an end.
BuildEnds == (status \notin Ended) ~> (status \in Ended)
=============================================================================
