------------------------ MODULE DecisionStore_proofs ------------------------
(***************************************************************************)
(* For any number of processes and of commands that crash or fail, and any *)
(* ids and values: a file that can be read is legal, only a save under way *)
(* or cut short leaves it torn, and what a command acknowledged is lost    *)
(* only to an overlap.                                                     *)
(*                                                                         *)
(* SInv carries legality through every graph the system holds, in the file *)
(* and in the processes' memories, and knows that no id that any of them   *)
(* mentions is ever drawn again.  OInv adds, while no two commands have    *)
(* overlapped, that one process at most is in a command, and that the      *)
(* graph it is about to save has every acknowledged transition.            *)
(***************************************************************************)
EXTENDS DecisionStore, DecisionLemmas

\* A graph that processes may load, change and save.
Sound(g) == Legal(g) /\ TriggersResolve(g) /\ Drawn(g) \subseteq issued

SInv ==
    /\ file \in [status : {"missing", "torn", "whole"}, graph : {file.graph}]
    /\ pc \in [Proc -> {"idle", "truncate", "write"}]
    /\ issued \in SUBSET DecisionId
    /\ acked \subseteq Transition
    /\ cuts \in Nat /\ unfinished \in BOOLEAN
    /\ DOMAIN memory = Proc
    /\ Sound(file.graph)
    /\ \A p \in Proc : Sound(memory[p])
    /\ OnlyACutSaveTears

-----------------------------------------------------------------------------
\* A graph stays sound when more ids are drawn.
LEMMA SoundAfterDraw ==
  ASSUME NEW g, Sound(g), issued \subseteq issued'
  PROVE  Legal(g) /\ TriggersResolve(g) /\ Drawn(g) \subseteq issued'
BY DEF Sound

\* The graph that init writes is sound.
LEMMA NoDecisionsSound == Sound(NoDecisions)
<1>1. DOMAIN NoDecisions.decisions = {} /\ DOMAIN NoDecisions.history = {}
  BY DEF NoDecisions, EmptyMap
<1> QED BY <1>1, NoDecisionsLegal DEF Sound, TriggersResolve, Drawn, Ids, Recorded

\* A recorded move mentions no id that the graph does not hold.
LEMMA MovedDraws ==
  ASSUME NEW g, Sound(g), NEW h, NEW id \in DecisionId, NEW to, NEW v,
         id \in Ids(g), Moved(g, h, id, to, v)
  PROVE  Ids(h) = Ids(g) /\ Drawn(h) \subseteq issued
<1>1. Ids(h) = Ids(g)
  BY DEF Moved, Ids
<1>2. g.history \in Seq(Transition)
  BY DEF Sound, Legal, IsDecisionGraph
<1>3. \A i \in DOMAIN h.history :
         h.history[i].decision = id \/ (i \in DOMAIN g.history /\ h.history[i] = g.history[i])
  BY <1>2 DEF Moved, Entry
<1> QED BY <1>1, <1>3 DEF Drawn, Recorded, Sound, Ids

\* A commitment of a loaded decision.
LEMMA CommitSound ==
  ASSUME NEW g, Sound(g), NEW id \in DecisionId, NEW v \in Value, CanTransition(g, id, "Committed")
  PROVE  Sound(Transitioned(g, id, "Committed", v))
<1> DEFINE h == Transitioned(g, id, "Committed", v)
<1>1. "Committed" \in State /\ id \in Ids(g) /\ IsDecisionGraph(g)
  BY DEF State, CanTransition, Ids, Sound, Legal
<1>2. Legal(h) /\ Moved(g, h, id, "Committed", v)
  BY <1>1, TransitionedLegal, TransitionedMoves DEF Sound
<1>3. \A x \in Ids(g) : h.decisions[x].trigger = g.decisions[x].trigger
  BY <1>1 DEF Transitioned, IsDecisionGraph, IsMap, Decision, Ids
<1> HIDE DEF h
<1>4. TriggersResolve(h)
  BY <1>1, <1>2, <1>3, MovedDraws DEF TriggersResolve, Sound
<1>5. Sound(h)
  BY <1>1, <1>2, <1>4, MovedDraws DEF Sound
<1> QED BY <1>5 DEF h

\* A deferral that waits for a decision of the graph, or for none.
LEMMA DeferSound ==
  ASSUME NEW g, Sound(g), NEW id \in DecisionId, NEW v \in Value,
         NEW t \in Ids(g) \cup {None}, CanTransition(g, id, "Deferred")
  PROVE  Sound(Deferred(g, id, v, t))
<1> DEFINE h == Deferred(g, id, v, t)
<1>1. id \in Ids(g) /\ IsDecisionGraph(g) /\ t \in DecisionId \cup {None}
  BY DEF CanTransition, Ids, Sound, Legal, IsDecisionGraph, IsMap
<1>2. Legal(h) /\ Moved(g, h, id, "Deferred", v)
  BY <1>1, DeferredLegal, DeferredMoves DEF Sound
<1>3. \A x \in Ids(g) : h.decisions[x].trigger \in {g.decisions[x].trigger, t}
  <2>1. \A x \in Ids(g) : Transitioned(g, id, "Deferred", v).decisions[x].trigger
                            = g.decisions[x].trigger
    BY <1>1 DEF Transitioned, IsDecisionGraph, IsMap, Decision, Ids
  <2>2. Ids(Transitioned(g, id, "Deferred", v)) = Ids(g)
    BY <1>1 DEF Transitioned, IsDecisionGraph, IsMap, Decision, Ids
  <2>3. IsDecisionGraph(Transitioned(g, id, "Deferred", v))
    BY <1>1, TransitionedMoves DEF State
  <2> DEFINE m == Transitioned(g, id, "Deferred", v)
  <2> HIDE DEF m
  <2>4. \A x \in Ids(g) : [m EXCEPT !.decisions[id].trigger = t].decisions[x].trigger
                            \in {m.decisions[x].trigger, t}
    BY <1>1, <2>2, <2>3 DEF Ids, IsDecisionGraph, IsMap, Decision, m
  <2> QED BY <2>1, <2>4 DEF Deferred, m
<1> HIDE DEF h
<1>4. TriggersResolve(h)
  BY <1>1, <1>2, <1>3, MovedDraws DEF TriggersResolve, Sound
<1>5. Sound(h)
  BY <1>1, <1>2, <1>4, MovedDraws DEF Sound
<1> QED BY <1>5 DEF h

\* A decision under an id that was never drawn.
LEMMA AddSound ==
  ASSUME NEW g, Sound(g), NEW id \in DecisionId \ issued, NEW d \in Decision, d.trigger = None
  PROVE  LET h == [g EXCEPT !.decisions = @ ++ One(id, d)]
         IN Legal(h) /\ TriggersResolve(h) /\ Drawn(h) \subseteq issued \cup {id}
<1> DEFINE h == [g EXCEPT !.decisions = @ ++ One(id, d)]
<1>1. \A i \in DOMAIN g.history : g.history[i].decision # id
  BY DEF Sound, Drawn, Recorded
<1>2. Legal(h)
  BY <1>1, AddedLegal DEF Sound
<1>3. h.history = g.history /\ h.decisions = g.decisions ++ One(id, d)
  BY DEF Sound, Legal, IsDecisionGraph
<1> HIDE DEF h
<1>4. /\ Ids(h) = Ids(g) \cup {id}
      /\ \A x \in Ids(h) : h.decisions[x].trigger \in {None, g.decisions[x].trigger}
      /\ \A x \in Ids(h) \ Ids(g) : h.decisions[x].trigger = None
  BY <1>3 DEF Ids, ++, One
<1>5. TriggersResolve(h)
  BY <1>4 DEF TriggersResolve, Sound
<1>6. Drawn(h) \subseteq issued \cup {id}
  BY <1>3, <1>4 DEF Drawn, Recorded, Sound
<1> QED BY <1>2, <1>5, <1>6 DEF h

-----------------------------------------------------------------------------
\* A process that has loaded the file and changed its copy to g.
LEMMA LoadedKeeps ==
  ASSUME SInv, NEW p \in Proc, NEW g, Loaded(p, g),
         issued \subseteq issued', issued' \in SUBSET DecisionId,
         Legal(g), TriggersResolve(g), Drawn(g) \subseteq issued'
  PROVE  SInv'
<1>1. Sound(file.graph)'
  BY SoundAfterDraw DEF SInv, Loaded, Sound
<1>2. \A q \in Proc : Sound(memory[q])'
  BY SoundAfterDraw DEF SInv, Loaded, Sound
<1>3. OnlyACutSaveTears'
  BY DEF SInv, Loaded, OnlyACutSaveTears
<1> QED BY <1>1, <1>2, <1>3 DEF SInv, Loaded

\* Every graph that is saved or held is sound, at all times.
LEMMA AlwaysSound == Spec => []SInv
<1>1. Init => SInv
  <2> SUFFICES ASSUME Init PROVE SInv
    OBVIOUS
  <2>1. file.graph \in {file.graph} /\ Legal(file.graph) /\ TriggersResolve(file.graph)
        /\ file \in [status : {"missing", "whole"}, graph : {file.graph}]
    BY InitialFilesAssumption DEF Init, Legal
  <2>2. Sound(file.graph)
    BY <2>1 DEF Init, Sound
  <2>3. issued \in SUBSET DecisionId /\ acked \subseteq Transition
    <3>1. Ids(file.graph) \subseteq DecisionId
      BY <2>1 DEF Ids, Legal, IsDecisionGraph, IsMap
    <3>2. Recorded(file.graph) \subseteq Transition
      BY <2>1 DEF Recorded, Legal, IsDecisionGraph
    <3>3. \A t \in Transition : t.decision \in DecisionId
      BY DEF Transition
    <3> QED BY <3>1, <3>2, <3>3 DEF Init, Drawn
  <2>4. \A p \in Proc : Sound(memory[p])
    BY NoDecisionsSound DEF Init
  <2>5. OnlyACutSaveTears
    BY <2>1 DEF OnlyACutSaveTears
  <2> QED BY <2>1, <2>2, <2>3, <2>4, <2>5 DEF SInv, Init
<1>2. SInv /\ [Next]_vars => SInv'
  <2> SUFFICES ASSUME SInv, [Next]_vars PROVE SInv'
    OBVIOUS
  <2>1. CASE UNCHANGED vars
    BY <2>1 DEF vars, SInv, Sound, OnlyACutSaveTears
  <2>2. ASSUME NEW p \in Proc, StartInit(p)
        PROVE  SInv'
    BY <2>2, NoDecisionsSound DEF StartInit, SInv, Sound, OnlyACutSaveTears
  <2>3. ASSUME NEW p \in Proc, Truncate(p)
        PROVE  SInv'
    BY <2>3 DEF Truncate, Torn, SInv, Sound, OnlyACutSaveTears
  <2>4. ASSUME NEW p \in Proc, Write(p)
        PROVE  SInv'
    <3>1. memory' = [memory EXCEPT ![p] = NoDecisions] /\ file' = Whole(memory[p])
          /\ issued' = issued /\ unfinished' = FALSE /\ cuts' = cuts /\ pc' = [pc EXCEPT ![p] = "idle"]
      BY <2>4 DEF Write
    <3>2. acked' \subseteq Transition
      BY <2>4 DEF Write, SInv, Sound, Legal, IsDecisionGraph, Recorded
    <3>3. \A q \in Proc : Sound(memory[q])'
      BY <3>1, NoDecisionsSound DEF SInv, Sound
    <3>4. Sound(file.graph)' /\ file'.status = "whole"
      BY <3>1 DEF Whole, SInv, Sound
    <3>5. OnlyACutSaveTears'
      BY <3>4 DEF OnlyACutSaveTears
    <3> QED BY <3>1, <3>2, <3>3, <3>4, <3>5 DEF SInv, Whole
  <2>5. ASSUME NEW p \in Proc, CutShort(p)
        PROVE  SInv'
    <3>1. memory' = [memory EXCEPT ![p] = NoDecisions] /\ file' \in {file, Torn}
          /\ issued' = issued /\ cuts' = cuts + 1 /\ pc' = [pc EXCEPT ![p] = "idle"]
          /\ acked' = acked /\ unfinished' = (unfinished \/ pc[p] = "write")
          /\ (file' = file \/ pc[p] = "write")
      BY <2>5 DEF CutShort
    <3>2. \A q \in Proc : Sound(memory[q])'
      BY <3>1, NoDecisionsSound DEF SInv, Sound
    <3>3. file'.graph = file.graph
          /\ file' \in [status : {"missing", "torn", "whole"}, graph : {file'.graph}]
      BY <3>1 DEF SInv, Torn
    <3>4. Sound(file.graph)'
      BY <3>1, <3>3 DEF SInv, Sound
    <3>5. OnlyACutSaveTears'
      <4> SUFFICES ASSUME file'.status = "torn" PROVE unfinished' \/ \E q \in Proc : pc'[q] = "write"
        BY DEF OnlyACutSaveTears
      <4>1. CASE pc[p] = "write"
        BY <3>1, <4>1
      <4>2. CASE pc[p] # "write"
        <5>1. PICK q \in Proc : unfinished \/ pc[q] = "write"
          BY <3>1, <4>2 DEF SInv, OnlyACutSaveTears
        <5>2. pc'[q] = pc[q] \/ q = p
          BY <3>1 DEF SInv
        <5> QED BY <3>1, <4>2, <5>1, <5>2
      <4> QED BY <4>1, <4>2
    <3>6. cuts' \in Nat /\ unfinished' \in BOOLEAN
      BY <3>1 DEF SInv
    <3> QED BY <3>1, <3>2, <3>3, <3>4, <3>5, <3>6 DEF SInv
  <2>6. ASSUME NEW p \in Proc, Refuse(p)
        PROVE  SInv'
    BY <2>6, <2>1 DEF Refuse, vars, SInv, Sound, OnlyACutSaveTears
  <2>7. ASSUME NEW p \in Proc, NEW id \in DecisionId, StartAdd(p, id)
        PROVE  SInv'
    <3> DEFINE d == [state |-> "Unexplored", value |-> "unresolved",
                     dependsOn |-> {}, trigger |-> None]
               g == [file.graph EXCEPT !.decisions = @ ++ One(id, d)]
    <3>1. d \in Decision /\ d.trigger = None
      BY DEF Decision, State, Value
    <3>2. id \notin issued /\ issued' = issued \cup {id} /\ Loaded(p, g)
      BY <2>7 DEF StartAdd
    <3> HIDE DEF d
    <3>3. Legal(g) /\ TriggersResolve(g) /\ Drawn(g) \subseteq issued'
      BY <3>1, <3>2, AddSound DEF SInv
    <3> HIDE DEF g
    <3> QED BY <3>2, <3>3, LoadedKeeps DEF SInv
  <2>8. ASSUME NEW p \in Proc, NEW id \in DecisionId, NEW v \in Chosen, StartCommit(p, id, v)
        PROVE  SInv'
    <3> DEFINE g == Transitioned(file.graph, id, "Committed", v)
    <3>1. CanTransition(file.graph, id, "Committed") /\ Loaded(p, g) /\ issued' = issued
          /\ v \in Value
      BY <2>8 DEF StartCommit, Value
    <3>2. Sound(g)
      BY <3>1, CommitSound DEF SInv
    <3> HIDE DEF g
    <3> QED BY <3>1, <3>2, LoadedKeeps DEF SInv, Sound
  <2>9. ASSUME NEW p \in Proc, NEW id \in DecisionId, NEW v \in {"provisional", "unresolved"},
               NEW t \in DecisionId \cup {None}, StartDefer(p, id, v, t)
        PROVE  SInv'
    <3> DEFINE g == Deferred(file.graph, id, v, t)
    <3>1. CanTransition(file.graph, id, "Deferred") /\ Loaded(p, g) /\ issued' = issued
          /\ v \in Value /\ t \in Ids(file.graph) \cup {None}
      BY <2>9 DEF StartDefer, Value
    <3>2. Sound(g)
      BY <3>1, DeferSound DEF SInv
    <3> HIDE DEF g
    <3> QED BY <3>1, <3>2, LoadedKeeps DEF SInv, Sound
  <2> QED BY <2>1, <2>2, <2>3, <2>4, <2>5, <2>6, <2>7, <2>8, <2>9 DEF Next
<1> QED BY <1>1, <1>2, PTL DEF Spec

\* Whatever processes interleave, fail and die, the decision file is legal when
\* it can be read, and torn only while it is being saved or when the last save
\* to end was cut short.
THEOREM FileAlwaysLegal == Spec => [](TypeOK /\ FileIsLegal /\ OnlyACutSaveTears)
<1>1. SInv => TypeOK /\ FileIsLegal /\ OnlyACutSaveTears
  <2> SUFFICES ASSUME SInv PROVE TypeOK /\ FileIsLegal /\ OnlyACutSaveTears
    OBVIOUS
  <2>1. TypeOK
    BY DEF SInv, TypeOK, Sound, Legal
  <2>2. FileIsLegal
    BY LegalBinds DEF SInv, FileIsLegal, Sound, Legal
  <2> QED BY <2>1, <2>2 DEF SInv
<1> QED BY <1>1, AlwaysSound, PTL

-----------------------------------------------------------------------------
OInv ==
    /\ file.status = "missing" => Recorded(file.graph) = {}
    /\ ~overlapped =>
         /\ acked \subseteq Recorded(file.graph)
         /\ \A p \in Proc : pc[p] # "idle" => acked \subseteq Recorded(memory[p])
         /\ \A p, q \in Proc : pc[p] # "idle" /\ pc[q] # "idle" => p = q

\* A transition is added to the history: none is lost.
LEMMA TransitionedGrows ==
  ASSUME NEW g, IsDecisionGraph(g), NEW id, NEW to, NEW v
  PROVE  Recorded(g) \subseteq Recorded(Transitioned(g, id, to, v))
<1> DEFINE e == [decision |-> id, from |-> g.decisions[id].state, to |-> to,
                 fromValue |-> g.decisions[id].value, toValue |-> v, sequence |-> g.next]
<1>1. g.history \in Seq(Transition)
  BY DEF IsDecisionGraph
<1>2. Transitioned(g, id, to, v).history = Append(g.history, e)
  BY DEF Transitioned, IsDecisionGraph
<1> HIDE DEF e
<1>3. \A i \in DOMAIN g.history : i \in DOMAIN Append(g.history, e)
                                 /\ Append(g.history, e)[i] = g.history[i]
  BY <1>1
<1> QED BY <1>2, <1>3 DEF Recorded

\* A command that loads the file and has not lost any of its history.
LEMMA LoadedOrdered ==
  ASSUME SInv, OInv, NEW p \in Proc, NEW g, Loaded(p, g),
         Recorded(file.graph) \subseteq Recorded(g)
  PROVE  OInv'
BY DEF SInv, OInv, Loaded, NoteOverlap

\* As long as no command starts while another is under way, no transition
\* that a command acknowledged leaves the file, whoever fails or dies where.
THEOREM UpdatesSurvive == Spec => []LostOnlyToOverlap
<1>1. Init => OInv
  <2>1. ASSUME Init PROVE file.status = "missing" => file.graph = NoDecisions
    BY <2>1, InitialFilesAssumption DEF Init
  <2>2. Recorded(NoDecisions) = {}
    BY DEF Recorded, NoDecisions
  <2> QED BY <2>1, <2>2 DEF Init, OInv
<1>2. SInv /\ OInv /\ [Next]_vars => OInv'
  <2> SUFFICES ASSUME SInv, OInv, [Next]_vars PROVE OInv'
    OBVIOUS
  <2>1. CASE UNCHANGED vars
    BY <2>1 DEF vars, OInv
  <2>2. ASSUME NEW p \in Proc, StartInit(p) PROVE OInv'
    BY <2>2 DEF StartInit, NoteOverlap, SInv, OInv
  <2>3. ASSUME NEW p \in Proc, Truncate(p) PROVE OInv'
    BY <2>3 DEF Truncate, Torn, SInv, OInv
  <2>4. ASSUME NEW p \in Proc, Write(p) PROVE OInv'
    BY <2>4 DEF Write, Whole, SInv, OInv
  <2>5. ASSUME NEW p \in Proc, CutShort(p) PROVE OInv'
    <3>1. file' \in {file, Torn} /\ overlapped' = overlapped /\ acked' = acked
          /\ pc' = [pc EXCEPT ![p] = "idle"] /\ memory' = [memory EXCEPT ![p] = NoDecisions]
      BY <2>5 DEF CutShort
    <3>2. file'.graph = file.graph /\ (file'.status = "missing" => file.status = "missing")
      BY <3>1 DEF SInv, Torn
    <3> QED BY <3>1, <3>2 DEF SInv, OInv
  <2>6. ASSUME NEW p \in Proc, Refuse(p) PROVE OInv'
    BY <2>6, <2>1 DEF Refuse
  <2>7. ASSUME NEW p \in Proc, NEW id \in DecisionId, StartAdd(p, id) PROVE OInv'
    <3> DEFINE d == [state |-> "Unexplored", value |-> "unresolved",
                     dependsOn |-> {}, trigger |-> None]
               g == [file.graph EXCEPT !.decisions = @ ++ One(id, d)]
    <3>1. Loaded(p, g)
      BY <2>7 DEF StartAdd
    <3>2. g.history = file.graph.history
      BY DEF SInv, Sound, Legal, IsDecisionGraph
    <3> HIDE DEF g
    <3> QED BY <3>1, <3>2, LoadedOrdered DEF Recorded
  <2>8. ASSUME NEW p \in Proc, NEW id \in DecisionId, NEW v \in Chosen, StartCommit(p, id, v)
        PROVE  OInv'
    BY <2>8, TransitionedGrows, LoadedOrdered DEF StartCommit, SInv, Sound, Legal
  <2>9. ASSUME NEW p \in Proc, NEW id \in DecisionId, NEW v \in {"provisional", "unresolved"},
               NEW t \in DecisionId \cup {None}, StartDefer(p, id, v, t)
        PROVE  OInv'
    <3> DEFINE m == Transitioned(file.graph, id, "Deferred", v)
               g == Deferred(file.graph, id, v, t)
    <3>1. CanTransition(file.graph, id, "Deferred") /\ Loaded(p, g) /\ IsDecisionGraph(file.graph)
      BY <2>9 DEF StartDefer, SInv, Sound, Legal
    <3>2. id \in DecisionId /\ v \in Value /\ id \in DOMAIN file.graph.decisions
      BY <3>1 DEF CanTransition, Value
    <3>3. IsDecisionGraph(m)
      BY <3>1, <3>2, TransitionedMoves DEF State
    <3>4. g.history = m.history
      <4> HIDE DEF m
      <4>1. g = IF t = None THEN m ELSE [m EXCEPT !.decisions[id].trigger = t]
        BY DEF Deferred, m
      <4> QED BY <4>1, <3>3 DEF IsDecisionGraph
    <3>5. Recorded(file.graph) \subseteq Recorded(m)
      BY <3>1, TransitionedGrows
    <3> HIDE DEF m, g
    <3> QED BY <3>1, <3>4, <3>5, LoadedOrdered DEF Recorded
  <2> QED BY <2>1, <2>2, <2>3, <2>4, <2>5, <2>6, <2>7, <2>8, <2>9 DEF Next
<1>3. OInv => LostOnlyToOverlap
  BY DEF OInv, LostOnlyToOverlap
<1> QED BY <1>1, <1>2, <1>3, AlwaysSound, PTL DEF Spec
=============================================================================
