------------------------ MODULE DecisionGraph_proofs ------------------------
(***************************************************************************)
(* For every set of ids, of values and of prepared states, and a history   *)
(* of any length: the history explains the state of every decision, and a  *)
(* committed decision is next seen in conflict.                            *)
(***************************************************************************)
EXTENDS DecisionGraph, DependencySearch, DecisionLemmas, SequenceTheorems

HInv == Legal(dg) /\ report \in Report \cup {None}

\* The lists of an impact report hold ids.
LEMMA ImpactType ==
  ASSUME NEW h, IsDecisionGraph(h), NEW id \in DOMAIN h.decisions
  PROVE  Impact(h, id) \in Report
<1>1. DOMAIN h.decisions \subseteq DecisionId /\ h.decisions[id].value \in Value
  BY DEF IsDecisionGraph, IsMap, Decision
<1>2. /\ NowDetermined(h, id) \subseteq DecisionId
      /\ TriggeredRevisits(h, id) \subseteq DecisionId
      /\ StillOpen(h, id) \subseteq DecisionId
  BY <1>1 DEF NowDetermined, TriggeredRevisits, StillOpen, Dependents
<1> QED BY <1>1, <1>2 DEF Impact, Report

\* Each operation keeps the graph legal: a decision under a fresh id,
LEMMA AddKeeps ==
  ASSUME HInv, NEW id \in DecisionId, NEW s \in Prepared, NEW deps \in SUBSET DecisionId,
         Add(id, s, deps)
  PROVE  HInv'
<1> DEFINE d == [state |-> s, value |-> "unresolved", dependsOn |-> deps, trigger |-> None]
<1>1. d \in Decision
  BY PreparedAssumption DEF Decision, Value
<1>2. dg' = [dg EXCEPT !.decisions = @ ++ One(id, d)] /\ report' = None
      /\ \A i \in DOMAIN dg.history : dg.history[i].decision # id
  BY DEF Add, Used
<1> HIDE DEF d
<1> QED BY <1>1, <1>2, AddedLegal DEF HInv

\* the removal of a decision, whose entries stay in the history,
LEMMA RemoveKeeps ==
  ASSUME HInv, NEW id \in DecisionId, Remove(id)
  PROVE  HInv'
<1>1. dg'.decisions = Without(dg.decisions, {id}) /\ dg'.history = dg.history
      /\ dg'.next = dg.next /\ report' = None
      /\ dg' \in [decisions : {dg'.decisions}, history : Seq(Transition), next : Nat]
  BY DEF Remove, HInv, Legal, IsDecisionGraph
<1>2. IsMap(dg'.decisions, DecisionId, Decision)
  BY <1>1 DEF HInv, Legal, IsDecisionGraph, IsMap, Without, Restrict
<1>3. Quiet(dg, dg')
  BY <1>1 DEF Quiet, Without, Restrict
<1>4. Legal(dg')
  BY <1>1, <1>2, <1>3, QuietLegal DEF HInv, IsDecisionGraph
<1> QED BY <1>1, <1>4 DEF HInv

\* an edit of its dependencies,
LEMMA EditKeeps ==
  ASSUME HInv, NEW id \in DecisionId, NEW deps \in SUBSET DecisionId,
         EditDependencies(id, deps)
  PROVE  HInv'
<1>1. id \in DOMAIN dg.decisions /\ dg.decisions[id] \in Decision
  BY DEF EditDependencies, HInv, Legal, IsDecisionGraph, IsMap
<1>2. dg'.decisions = [dg.decisions EXCEPT ![id] = [@ EXCEPT !.dependsOn = deps]]
      /\ dg'.history = dg.history /\ dg'.next = dg.next /\ report' = None
      /\ dg' \in [decisions : {dg'.decisions}, history : Seq(Transition), next : Nat]
  BY DEF EditDependencies, HInv, Legal, IsDecisionGraph
<1>3. IsMap(dg'.decisions, DecisionId, Decision)
  BY <1>1, <1>2 DEF HInv, Legal, IsDecisionGraph, IsMap, Decision
<1>4. Quiet(dg, dg')
  BY <1>1, <1>2 DEF Quiet, Decision, HInv, Legal, IsDecisionGraph, IsMap
<1>5. Legal(dg')
  BY <1>2, <1>3, <1>4, QuietLegal DEF HInv, IsDecisionGraph
<1> QED BY <1>2, <1>5 DEF HInv

\* and a commitment, with its report.
LEMMA CommitKeeps ==
  ASSUME HInv, NEW id \in DecisionId, NEW v \in Value, Commit(id, v)
  PROVE  HInv'
<1>1. CanTransition(dg, id, "Committed") /\ dg' = Transitioned(dg, id, "Committed", v)
      /\ report' = Impact(dg', id) /\ Legal(dg) /\ "Committed" \in State
  BY DEF Commit, HInv, State
<1>2. Legal(dg')
  BY <1>1, TransitionedLegal
<1>3. id \in DOMAIN dg'.decisions
  BY <1>1, TransitionedMoves DEF Moved, CanTransition, Legal
<1>4. report' \in Report
  BY <1>1, <1>2, <1>3, ImpactType DEF Legal
<1> QED BY <1>2, <1>4 DEF HInv

\* No step makes the graph illegal.
LEMMA HistoryStep == HInv /\ [Next]_vars => HInv'
<1> SUFFICES ASSUME HInv, [Next]_vars PROVE HInv'
  OBVIOUS
<1>1. CASE UNCHANGED vars
  BY <1>1 DEF vars, HInv
<1>2. ASSUME NEW id \in DecisionId, NEW s \in Prepared, NEW deps \in SUBSET DecisionId,
             Add(id, s, deps)
      PROVE  HInv'
  BY <1>2, AddKeeps
<1>3. ASSUME NEW id \in DecisionId, Remove(id)
      PROVE  HInv'
  BY <1>3, RemoveKeeps
<1>4. ASSUME NEW id \in DecisionId, NEW deps \in SUBSET DecisionId, EditDependencies(id, deps)
      PROVE  HInv'
  BY <1>4, EditKeeps
<1>5. ASSUME NEW id \in DecisionId, NEW to \in State, NEW v \in Value, TransitionTo(id, to, v)
      PROVE  HInv'
  BY <1>5, TransitionedLegal DEF HInv, TransitionTo
<1>6. ASSUME NEW id \in DecisionId, NEW v \in Value, Commit(id, v)
      PROVE  HInv'
  BY <1>6, CommitKeeps
<1>7. ASSUME NEW id \in DecisionId, NEW v \in {"provisional", "unresolved"},
             NEW t \in DecisionId \cup {None}, Defer(id, v, t)
      PROVE  HInv'
  <2>1. v \in Value
    BY DEF Value
  <2> QED BY <1>7, <2>1, DeferredLegal DEF HInv, Defer
<1>8. ASSUME NEW id \in DecisionId, NEW to \in State, Refuse(id, to)
      PROVE  HInv'
  BY <1>8 DEF HInv, Refuse
<1> QED BY <1>1, <1>2, <1>3, <1>4, <1>5, <1>6, <1>7, <1>8 DEF Next

\* For every instance, the graph keeps its type, its history accounts for the
\* state and value of every decision, and a commitment is only ever replaced
\* after a recorded conflict.
THEOREM HistoryAlwaysExplains ==
  Spec => [](TypeOK /\ HistoryExplainsState /\ BindingUntilConflict)
<1>1. Init => HInv
  BY NoDecisionsLegal DEF Init, HInv
<1>2. HInv /\ [Next]_vars => HInv'
  BY HistoryStep
<1>3. HInv => TypeOK /\ HistoryExplainsState /\ BindingUntilConflict
  BY LegalBinds DEF HInv, Legal, TypeOK, HistoryExplainsState
     , BindingUntilConflict
<1> QED BY <1>1, <1>2, <1>3, PTL DEF Spec

\* A report is current: the call that follows a commit discards it.
LEMMA CommitAnnounces ==
  ASSUME HInv, NEW id \in DecisionId, NEW v \in Value, Commit(id, v)
  PROVE  ReportAnnouncesRevisits'
<1>1. CanTransition(dg, id, "Committed") /\ dg' = Transitioned(dg, id, "Committed", v)
      /\ report' = Impact(dg', id) /\ IsDecisionGraph(dg) /\ "Committed" \in State
  BY DEF Commit, HInv, State, Legal
<1>2. dg'.decisions[id].state = "Committed"
  BY <1>1, TransitionedMoves DEF Moved
<1>3. /\ report'.decision = id /\ report'.nowDetermined = NowDetermined(dg', id)
      /\ report'.stillOpen = StillOpen(dg', id) /\ report'.triggered = TriggeredRevisits(dg', id)
  BY <1>1 DEF Impact
<1>4. ASSUME NEW d \in DOMAIN dg'.decisions
      PROVE  dg'.decisions[d].state = "Deferred" /\ dg'.decisions[d].trigger = id
               <=> d \in TriggeredRevisits(dg', id)
  BY <1>2 DEF TriggeredRevisits
<1>5. NowDetermined(dg', id) \cap (StillOpen(dg', id) \cup TriggeredRevisits(dg', id)) = {}
      /\ StillOpen(dg', id) \cap TriggeredRevisits(dg', id) = {}
  BY DEF NowDetermined, StillOpen, TriggeredRevisits
<1>6. ASSUME NEW d \in DOMAIN dg'.decisions, dg'.decisions[d].state \in {"Unexplored", "Exploring"}
      PROVE  d \in NowDetermined(dg', id) \cup StillOpen(dg', id)
  BY <1>2, <1>6 DEF NowDetermined, StillOpen, TriggeredRevisits
<1> QED BY <1>3, <1>4, <1>5, <1>6 DEF ReportAnnouncesRevisits

\* Whatever the graph and the call that went before, the report of a commit
\* names every deferral that waited for it and every open decision once.
THEOREM ReportAlwaysAnnounces == Spec => []ReportAnnouncesRevisits
<1>1. Init => HInv /\ ReportAnnouncesRevisits
  BY NoDecisionsLegal DEF Init, HInv, ReportAnnouncesRevisits
<1>2. HInv /\ ReportAnnouncesRevisits /\ [Next]_vars => ReportAnnouncesRevisits'
  <2> SUFFICES ASSUME HInv, ReportAnnouncesRevisits, [Next]_vars PROVE ReportAnnouncesRevisits'
    OBVIOUS
  <2>1. CASE report' = None
    BY <2>1 DEF ReportAnnouncesRevisits
  <2>2. CASE UNCHANGED vars
    BY <2>2 DEF vars, ReportAnnouncesRevisits
  <2>3. CASE \E id \in DecisionId : \E v \in Value : Commit(id, v)
    BY <2>3, CommitAnnounces
  <2> QED BY <2>1, <2>2, <2>3 DEF Next, Add, Remove, EditDependencies, TransitionTo, Refuse, Defer
<1> QED BY <1>1, <1>2, HistoryStep, PTL DEF Spec

-----------------------------------------------------------------------------
(* The search for cycles that guards a commitment *)

Settled == visited \ OnStack

\* The open calls lead from the start along dependencies; no node has two.
Trail ==
    /\ \A i \in DOMAIN frames : frames[i].node \in Requires(g, start) \cup {start}
    /\ \A i, j \in DOMAIN frames : i < j => frames[j].node \in Requires(g, frames[i].node)
    /\ \A i, j \in DOMAIN frames : frames[i].node = frames[j].node => i = j

\* What a call has looked at is settled, but for the one call it waits for.
LookedAt ==
    \A i \in DOMAIN frames :
       /\ frames[i].left \subseteq DependsOn(g, frames[i].node)
       /\ \A d \in DependsOn(g, frames[i].node) \ frames[i].left :
             d \in Settled \/ (i + 1 \in DOMAIN frames /\ d = frames[i + 1].node)

\* What is settled requires settled nodes only, and lies on no cycle.
SettledSound ==
    \A x \in Settled : DependsOn(g, x) \subseteq Settled /\ x \notin Requires(g, x)

SearchInv ==
    /\ SearchTypeOK /\ start \in visited /\ Trail /\ LookedAt /\ SettledSound
    /\ verdict = "cycle" => Circular(g, start)
    /\ verdict = "acyclic" => frames = <<>>

\* What a decision requires is closed under dependencies, and the least such
\* set that holds its own.
LEMMA RequiresClosed ==
  ASSUME NEW h, IsDecisionGraph(h), NEW x
  PROVE  /\ DependsOn(h, x) \subseteq Requires(h, x) /\ Requires(h, x) \subseteq DecisionId
         /\ \A y \in Requires(h, x) : DependsOn(h, y) \subseteq Requires(h, x)
         /\ \A S \in SUBSET DecisionId :
               DependsOn(h, x) \subseteq S /\ (\A y \in S : DependsOn(h, y) \subseteq S)
                 => Requires(h, x) \subseteq S
<1>1. \A y : DependsOn(h, y) \subseteq DecisionId
  BY DEF DependsOn, IsDecisionGraph, IsMap, Decision
<1>2. DependsOn(h, x) \subseteq Requires(h, x)
  BY <1>1 DEF Requires
<1>3. ASSUME NEW y \in Requires(h, x), NEW z \in DependsOn(h, y) PROVE z \in Requires(h, x)
  BY <1>1 DEF Requires
<1> QED BY <1>2, <1>3 DEF Requires

\* So it holds all that its members require.
LEMMA RequiresTransitive ==
  ASSUME NEW h, IsDecisionGraph(h), NEW x, NEW y \in Requires(h, x)
  PROVE  Requires(h, y) \subseteq Requires(h, x)
BY RequiresClosed

Call == [node : DecisionId, left : SUBSET DecisionId]

\* The innermost call, and what the other steps make of the calls.
LEMMA FramesTyped ==
  ASSUME SearchInv, frames # <<>>
  PROVE  /\ Len(frames) \in Nat /\ DOMAIN frames = 1..Len(frames) /\ Len(frames) \in DOMAIN frames
         /\ frames \in [1..Len(frames) -> Call] /\ frames \in Seq(Call)
         /\ \A x : Frame(x).node = x /\ Frame(x).left = DependsOn(g, x)
         /\ \A x \in DecisionId : Frame(x) \in Call
<1>1. frames \in Seq(Call) /\ IsDecisionGraph(g)
  BY DEF SearchInv, SearchTypeOK, Call
<1>2. Len(frames) \in Nat \ {0} /\ DOMAIN frames = 1..Len(frames) /\ frames \in [1..Len(frames) -> Call]
  BY <1>1, EmptySeq, LenProperties
<1>3. \A x : DependsOn(g, x) \subseteq DecisionId
  BY <1>1 DEF DependsOn, IsDecisionGraph, IsMap, Decision
<1> QED BY <1>1, <1>2, <1>3 DEF Frame, Call

\* A dependency that is looked at is taken off the innermost call's list.
LEMMA RestEffect ==
  ASSUME SearchInv, frames # <<>>, NEW d
  PROVE  LET rest == [frames EXCEPT ![Len(frames)].left = @ \ {d}]
         IN  /\ rest \in Seq(Call) /\ Len(rest) = Len(frames) /\ DOMAIN rest = DOMAIN frames
             /\ \A i \in DOMAIN frames :
                  /\ rest[i].node = frames[i].node
                  /\ rest[i].left = IF i = Len(frames) THEN frames[i].left \ {d} ELSE frames[i].left
<1> DEFINE top  == frames[Len(frames)]
           less == [top EXCEPT !.left = @ \ {d}]
           rest == [frames EXCEPT ![Len(frames)].left = @ \ {d}]
<1>1. /\ Len(frames) \in Nat /\ DOMAIN frames = 1..Len(frames) /\ Len(frames) \in 1..Len(frames)
      /\ frames \in [1..Len(frames) -> Call] /\ frames \in Seq(Call)
  BY FramesTyped
<1>2. top \in Call /\ less \in Call /\ less.node = top.node /\ less.left = top.left \ {d}
  BY <1>1 DEF Call
<1>3. rest = [frames EXCEPT ![Len(frames)] = less]
  OBVIOUS
<1> HIDE DEF top, less, rest
<1>4. rest \in Seq(Call) /\ Len(rest) = Len(frames)
      /\ \A i \in 1..Len(frames) : rest[i] = IF i = Len(frames) THEN less ELSE frames[i]
  BY <1>1, <1>2, <1>3, ExceptSeq
<1>5. DOMAIN rest = DOMAIN frames
  BY <1>1, <1>4, LenProperties
<1> QED BY <1>1, <1>2, <1>4, <1>5 DEF rest, top

\* The start and its paths decide what a call that is open already means.
LEMMA CycleFound ==
  ASSUME SearchInv, NEW d \in OnStack, frames # <<>>, d \in Top.left
  PROVE  Circular(g, start)
<1> DEFINE n == Top.node
<1>1. Len(frames) \in Nat /\ DOMAIN frames = 1..Len(frames) /\ Len(frames) \in DOMAIN frames
  BY FramesTyped
<1>2. IsDecisionGraph(g) /\ d \in DependsOn(g, n)
  BY <1>1 DEF SearchInv, SearchTypeOK, LookedAt, Top
<1>3. PICK i \in DOMAIN frames : d = frames[i].node
  BY DEF OnStack
<1>4. n = d \/ n \in Requires(g, d)
  <2>1. i = Len(frames) \/ i < Len(frames)
    BY <1>1
  <2> QED BY <1>1, <1>3, <2>1 DEF SearchInv, Trail, Top
<1>5. d \in Requires(g, d)
  BY <1>2, <1>4, RequiresClosed
<1>6. d \in Requires(g, start) \cup {start}
  BY <1>3 DEF SearchInv, Trail
<1> QED BY <1>5, <1>6 DEF Circular

\* A look at a dependency finds a cycle, passes a settled decision, or goes one call deeper.
LEMMA LookKept ==
  ASSUME SearchInv, NEW d \in DecisionId, Look(d)
  PROVE  SearchInv'
<1> DEFINE L    == Len(frames)
           rest == [frames EXCEPT ![Len(frames)].left = @ \ {d}]
<1>1. /\ verdict = "searching" /\ frames # <<>> /\ d \in Top.left /\ UNCHANGED <<g, start>>
      /\ SearchTypeOK /\ start \in visited /\ Trail /\ LookedAt /\ SettledSound /\ IsDecisionGraph(g)
  BY DEF Look, SearchInv, SearchTypeOK
<1>2. /\ L \in Nat /\ DOMAIN frames = 1..L /\ L \in DOMAIN frames /\ frames[L] = Top
      /\ \A x : Frame(x).node = x /\ Frame(x).left = DependsOn(g, x)
      /\ \A x \in DecisionId : Frame(x) \in Call
  BY <1>1, FramesTyped DEF Top
<1>3. /\ rest \in Seq(Call) /\ Len(rest) = L /\ DOMAIN rest = DOMAIN frames
      /\ \A i \in DOMAIN frames :
           /\ rest[i].node = frames[i].node
           /\ rest[i].left = IF i = L THEN frames[i].left \ {d} ELSE frames[i].left
  BY <1>1, RestEffect
<1>4. d \in DependsOn(g, frames[L].node)
  BY <1>1, <1>2 DEF LookedAt
<1>5. \A x : DependsOn(g, x)' = DependsOn(g, x) /\ Requires(g, x)' = Requires(g, x)
  BY <1>1 DEF DependsOn, Requires
<1>6. Circular(g, start)' <=> Circular(g, start)
  BY <1>1 DEF Circular, Requires, DependsOn
<1> HIDE DEF L, rest
<1>7. CASE d \in OnStack
  <2>1. verdict' = "cycle" /\ UNCHANGED <<frames, visited>>
    BY <1>7 DEF Look
  <2>2. Settled' = Settled /\ OnStack' = OnStack
    BY <2>1 DEF Settled, OnStack
  <2>3. Trail' /\ LookedAt' /\ SettledSound'
    BY <1>1, <1>5, <2>1, <2>2 DEF Trail, LookedAt, SettledSound
  <2>4. SearchTypeOK' /\ start' \in visited'
    BY <1>1, <2>1, <2>2 DEF SearchTypeOK
  <2> QED BY <1>1, <1>6, <1>7, <2>1, <2>3, <2>4, CycleFound DEF SearchInv
<1>8. CASE d \notin OnStack /\ d \in visited
  <2>1. frames' = rest /\ UNCHANGED <<visited, verdict>>
    BY <1>8 DEF Look, rest
  <2>2. OnStack' = OnStack
    BY <1>3, <2>1 DEF OnStack
  <2>3. Settled' = Settled /\ d \in Settled
    BY <1>8, <2>1, <2>2 DEF Settled
  <2>4. Trail'
    BY <1>1, <1>3, <1>5, <2>1 DEF Trail
  <2>5. LookedAt'
    <3> SUFFICES ASSUME NEW i \in DOMAIN frames
                 PROVE  /\ rest[i].left \subseteq DependsOn(g, rest[i].node)
                        /\ \A x \in DependsOn(g, rest[i].node) \ rest[i].left :
                              x \in Settled \/ (i + 1 \in DOMAIN rest /\ x = rest[i + 1].node)
      BY <1>3, <1>5, <2>1, <2>3 DEF LookedAt
    <3>1. rest[i].left \subseteq frames[i].left /\ frames[i].left \subseteq rest[i].left \cup {d}
      BY <1>3
    <3> QED BY <1>1, <1>3, <2>3, <3>1 DEF LookedAt
  <2>6. SettledSound'
    BY <1>1, <1>5, <2>3 DEF SettledSound
  <2>7. SearchTypeOK' /\ start' \in visited'
    BY <1>1, <1>3, <2>1, <2>2 DEF SearchTypeOK, Call
  <2> QED BY <1>1, <2>1, <2>4, <2>5, <2>6, <2>7 DEF SearchInv
<1>9. CASE d \notin OnStack /\ d \notin visited
  <2>1. frames' = Append(rest, Frame(d)) /\ visited' = visited \cup {d} /\ verdict' = verdict
    BY <1>9 DEF Look, rest
  <2>2. /\ frames' \in Seq(Call) /\ DOMAIN frames' = DOMAIN frames \cup {L + 1}
        /\ L + 1 \notin DOMAIN frames
        /\ frames'[L + 1].node = d /\ frames'[L + 1].left = DependsOn(g, d)
        /\ \A i \in DOMAIN frames :
             /\ frames'[i].node = frames[i].node
             /\ frames'[i].left = IF i = L THEN frames[i].left \ {d} ELSE frames[i].left
    <3>1. Frame(d) \in Call
      BY <1>2
    <3>2. /\ frames' \in Seq(Call) /\ Len(frames') = L + 1 /\ frames'[L + 1] = Frame(d)
          /\ \A i \in 1..L : frames'[i] = rest[i]
      BY <1>3, <2>1, <3>1, AppendProperties
    <3>3. DOMAIN frames' = 1..(L + 1)
      BY <3>2, LenProperties
    <3>4. 1..(L + 1) = 1..L \cup {L + 1} /\ L + 1 \notin 1..L
      BY <1>2
    <3>5. DOMAIN frames' = DOMAIN frames \cup {L + 1} /\ L + 1 \notin DOMAIN frames
      BY <1>2, <3>3, <3>4
    <3>6. frames'[L + 1].node = d /\ frames'[L + 1].left = DependsOn(g, d)
      BY <1>2, <3>2
    <3>7. \A i \in DOMAIN frames : frames'[i] = rest[i]
      BY <1>2, <3>2
    <3>8. ASSUME NEW i \in DOMAIN frames
          PROVE  /\ frames'[i].node = frames[i].node
                 /\ frames'[i].left = IF i = L THEN frames[i].left \ {d} ELSE frames[i].left
      BY <1>3, <3>7
    <3>9. frames' \in Seq(Call)
      BY <3>2
    <3> QED BY <3>5, <3>6, <3>8, <3>9
  <2>3. OnStack' = OnStack \cup {d}
    <3>1. ASSUME NEW x \in OnStack' PROVE x \in OnStack \cup {d}
      <4>1. PICK i \in DOMAIN frames' : x = frames'[i].node
        BY DEF OnStack
      <4>2. CASE i \in DOMAIN frames
        BY <2>2, <4>1, <4>2 DEF OnStack
      <4>3. CASE i = L + 1
        BY <2>2, <4>1, <4>3
      <4> QED BY <2>2, <4>2, <4>3
    <3>2. ASSUME NEW x \in OnStack PROVE x \in OnStack'
      <4>1. PICK i \in DOMAIN frames : x = frames[i].node
        BY DEF OnStack
      <4>2. i \in DOMAIN frames' /\ x = frames'[i].node
        BY <2>2, <4>1
      <4> QED BY <4>2 DEF OnStack
    <3>3. L + 1 \in DOMAIN frames' /\ d = frames'[L + 1].node
      BY <2>2
    <3>4. d \in OnStack'
      BY <3>3 DEF OnStack
    <3> QED BY <3>1, <3>2, <3>4
  <2>4. Settled' = Settled
    BY <1>9, <2>1, <2>3 DEF Settled
  <2>5. Trail'
    <3>1. ASSUME NEW i \in DOMAIN frames PROVE d \in Requires(g, frames[i].node) /\ frames[i].node # d
      <4>1. i = L \/ (i < L /\ frames[L].node \in Requires(g, frames[i].node))
        BY <1>1, <1>2 DEF Trail
      <4>2. d \in Requires(g, frames[i].node)
        BY <1>1, <1>4, <4>1, RequiresClosed
      <4> QED BY <1>9, <4>2 DEF OnStack
    <3>2. d \in Requires(g, start)
      <4>1. frames[L].node \in Requires(g, start) \cup {start}
        BY <1>1, <1>2 DEF Trail
      <4> QED BY <1>1, <1>4, <4>1, RequiresClosed
    <3>3. \A i \in DOMAIN frames' : frames'[i].node \in Requires(g, start) \cup {start}
      BY <1>1, <2>2, <3>2 DEF Trail
    <3>4. ASSUME NEW i \in DOMAIN frames', NEW j \in DOMAIN frames', i < j
          PROVE  frames'[j].node \in Requires(g, frames'[i].node)
      <4>1. i \in DOMAIN frames
        BY <1>2, <2>2, <3>4
      <4>2. CASE j \in DOMAIN frames
        BY <1>1, <2>2, <3>4, <4>1, <4>2 DEF Trail
      <4>3. CASE j = L + 1
        BY <2>2, <3>1, <4>1, <4>3
      <4> QED BY <2>2, <4>2, <4>3
    <3>5. \A i, j \in DOMAIN frames' : frames'[i].node = frames'[j].node => i = j
      BY <1>1, <2>2, <3>1 DEF Trail
    <3> QED BY <1>1, <1>5, <3>3, <3>4, <3>5 DEF Trail
  <2>6. LookedAt'
    <3>1. ASSUME NEW i \in DOMAIN frames'
          PROVE  /\ frames'[i].left \subseteq DependsOn(g, frames'[i].node)
                 /\ \A x \in DependsOn(g, frames'[i].node) \ frames'[i].left :
                       x \in Settled \/ (i + 1 \in DOMAIN frames' /\ x = frames'[i + 1].node)
      <4>1. CASE i = L + 1
        BY <2>2, <4>1
      <4>2. CASE i = L
        <5>1. L + 1 \notin DOMAIN frames
          BY <2>2
        <5> QED BY <1>1, <1>2, <2>2, <4>2, <5>1 DEF LookedAt
      <4>3. CASE i \in DOMAIN frames /\ i # L
        <5>1. frames'[i].node = frames[i].node /\ frames'[i].left = frames[i].left
          BY <2>2, <4>3
        <5>2. i + 1 \in DOMAIN frames =>
                i + 1 \in DOMAIN frames' /\ frames'[i + 1].node = frames[i + 1].node
          BY <2>2
        <5> QED BY <1>1, <4>3, <5>1, <5>2 DEF LookedAt
      <4> QED BY <2>2, <4>1, <4>2, <4>3
    <3> QED BY <1>5, <1>1, <2>4, <3>1 DEF LookedAt
  <2>7. SettledSound'
    BY <1>1, <1>5, <2>4 DEF SettledSound
  <2>8. SearchTypeOK' /\ start' \in visited'
    BY <1>1, <2>1, <2>2, <2>3 DEF SearchTypeOK, Call
  <2> QED BY <1>1, <2>1, <2>5, <2>6, <2>7, <2>8 DEF SearchInv
<1> QED BY <1>7, <1>8, <1>9

\* A call that returns has looked at everything, so its node is settled: what
\* it requires was settled before it.
LEMMA ReturnKept ==
  ASSUME SearchInv, Return
  PROVE  SearchInv'
<1> DEFINE L == Len(frames)
<1>1. /\ verdict = "searching" /\ frames # <<>> /\ Top.left = {} /\ UNCHANGED <<g, start, visited>>
      /\ frames' = SubSeq(frames, 1, L - 1)
      /\ verdict' = IF L = 1 THEN "acyclic" ELSE "searching"
      /\ SearchTypeOK /\ start \in visited /\ Trail /\ LookedAt /\ SettledSound /\ IsDecisionGraph(g)
      /\ visited \subseteq DecisionId
  BY DEF Return, SearchInv, SearchTypeOK
<1>2. /\ L \in Nat /\ DOMAIN frames = 1..L /\ L \in DOMAIN frames /\ frames[L] = Top
      /\ frames \in Seq(Call) /\ frames \in [1..L -> Call]
  BY <1>1, FramesTyped DEF Top
<1> HIDE DEF L
<1>3. /\ frames' \in Seq(Call) /\ DOMAIN frames' = DOMAIN frames \ {L}
      /\ \A i \in DOMAIN frames' : frames'[i] = frames[i]
  <2>1. 1 \in Int /\ L - 1 \in Int /\ \A i \in 1..(L - 1) : frames[i] \in Call
    BY <1>2
  <2>2. L >= 1
    BY <1>2
  <2>3. frames' \in Seq(Call) /\ Len(frames') = IF 1 <= L - 1 THEN L - 1 - 1 + 1 ELSE 0
    BY <1>1, <2>1, SubSeqProperties
  <2>4. Len(frames') = L - 1
    BY <1>2, <2>2, <2>3
  <2>5. DOMAIN frames' = 1..(L - 1)
    BY <2>3, <2>4, LenProperties
  <2>6. \A i \in 1..(L - 1) : frames'[i] = frames[i]
    BY <1>1, <1>2
  <2>7. 1..(L - 1) = 1..L \ {L}
    BY <1>2
  <2> QED BY <1>2, <2>3, <2>5, <2>6, <2>7
<1>4. \A x : DependsOn(g, x)' = DependsOn(g, x) /\ Requires(g, x)' = Requires(g, x)
  BY <1>1 DEF DependsOn, Requires
<1>5. PICK n : n = Top.node
  OBVIOUS
<1>6. n \in OnStack /\ n \in visited /\ OnStack' = OnStack \ {n}
  <2>1. n \in OnStack /\ OnStack \subseteq visited
    BY <1>1, <1>2, <1>5 DEF OnStack, SearchTypeOK
  <2>2. ASSUME NEW x \in OnStack' PROVE x \in OnStack \ {n}
    <3>1. PICK i \in DOMAIN frames' : x = frames'[i].node
      BY DEF OnStack
    <3>2. i \in DOMAIN frames /\ i # L /\ x = frames[i].node
      BY <1>3, <3>1
    <3> QED BY <1>1, <1>2, <1>5, <3>2 DEF OnStack, Trail
  <2>3. ASSUME NEW x \in OnStack, x # n PROVE x \in OnStack'
    <3>1. PICK i \in DOMAIN frames : x = frames[i].node
      BY DEF OnStack
    <3>2. i \in DOMAIN frames' /\ x = frames'[i].node
      BY <1>2, <1>3, <1>5, <2>3, <3>1
    <3> QED BY <3>2 DEF OnStack
  <2> QED BY <2>1, <2>2, <2>3
<1>7. Settled' = Settled \cup {n} /\ n \notin Settled
  BY <1>1, <1>6 DEF Settled
<1>8. Trail'
  BY <1>1, <1>3, <1>4 DEF Trail
<1>9. L + 1 \notin DOMAIN frames
  BY <1>2
<1>10. DependsOn(g, n) \subseteq Settled
  BY <1>1, <1>2, <1>5, <1>9 DEF LookedAt
<1>11. LookedAt'
  <2> SUFFICES ASSUME NEW i \in DOMAIN frames'
               PROVE  /\ frames[i].left \subseteq DependsOn(g, frames[i].node)
                      /\ \A x \in DependsOn(g, frames[i].node) \ frames[i].left :
                            x \in Settled' \/ (i + 1 \in DOMAIN frames' /\ x = frames'[i + 1].node)
    BY <1>1, <1>3, <1>4 DEF LookedAt
  <2>1. i \in DOMAIN frames
    BY <1>3
  <2>2. CASE i + 1 = L
    BY <1>1, <1>2, <1>5, <1>7, <2>1, <2>2 DEF LookedAt
  <2>3. CASE i + 1 # L
    BY <1>1, <1>3, <1>7, <2>1, <2>3 DEF LookedAt
  <2> QED BY <2>2, <2>3
<1>12. SettledSound'
  <2>1. Settled \in SUBSET DecisionId /\ \A y \in Settled : DependsOn(g, y) \subseteq Settled
    BY <1>1 DEF Settled, SettledSound
  <2>2. Requires(g, n) \subseteq Settled
    BY <1>1, <1>10, <2>1, RequiresClosed
  <2> QED BY <1>1, <1>4, <1>7, <1>10, <2>2 DEF SettledSound
<1>13. SearchTypeOK' /\ start' \in visited'
  BY <1>1, <1>3, <1>6 DEF SearchTypeOK, Call
<1>14. verdict' = "acyclic" => frames' = <<>>
  <2> SUFFICES ASSUME L = 1 PROVE frames' = <<>>
    BY <1>1
  <2> QED BY <1>1, SubSeqEmpty
<1> QED BY <1>1, <1>8, <1>11, <1>12, <1>13, <1>14 DEF SearchInv

\* The search starts with one call, of the decision that is to be committed.
LEMMA SearchStart ==
  ASSUME SearchInit
  PROVE  SearchInv
<1>1. /\ frames = <<Frame(start)>> /\ visited = {start} /\ verdict = "searching"
      /\ start \in DOMAIN g.decisions
  BY DEF SearchInit
<1>2. IsDecisionGraph(g)
  <2>1. PICK present \in SUBSET DecisionId : \E D \in [present -> SUBSET DecisionId] : g = GraphOf(D)
    BY DEF SearchInit
  <2>2. PICK D \in [present -> SUBSET DecisionId] : g = GraphOf(D)
    BY <2>1
  <2>3. /\ g \in [decisions : {g.decisions}, history : {<<>>}, next : {1}]
        /\ g.decisions = [id \in present |-> [state |-> "Unexplored", value |-> "unresolved",
                                              dependsOn |-> D[id], trigger |-> None]]
    BY <2>2 DEF GraphOf, NoDecisions
  <2>4. IsMap(g.decisions, DecisionId, Decision)
    BY <2>3 DEF IsMap, Decision, State, Value
  <2>5. <<>> \in Seq(Transition) /\ 1 \in Nat
    OBVIOUS
  <2> QED BY <2>3, <2>4, <2>5 DEF IsDecisionGraph
<1>3. start \in DecisionId /\ \A x : DependsOn(g, x) \subseteq DecisionId
  BY <1>1, <1>2 DEF IsDecisionGraph, IsMap, DependsOn, Decision
<1>4. /\ frames \in Seq(Call) /\ DOMAIN frames = {1} /\ frames[1].node = start
      /\ frames[1].left = DependsOn(g, start)
  <2>1. Frame(start) \in Call
    BY <1>3 DEF Frame, Call
  <2> QED BY <1>1, <2>1 DEF Frame
<1>5. OnStack = {start} /\ Settled = {}
  BY <1>1, <1>4 DEF OnStack, Settled
<1>6. SearchTypeOK
  BY <1>1, <1>2, <1>3, <1>4, <1>5 DEF SearchTypeOK, Call
<1>7. Trail /\ LookedAt /\ SettledSound
  BY <1>4, <1>5 DEF Trail, LookedAt, SettledSound
<1> QED BY <1>1, <1>6, <1>7 DEF SearchInv

\* Settled nodes require settled ones, and without open calls that is all.
LEMMA SearchAnswers ==
  ASSUME SearchInv
  PROVE  SearchTypeOK /\ VisitedIsSettled /\ VerdictExact
<1>1. IsDecisionGraph(g) /\ visited \subseteq DecisionId
  BY DEF SearchInv, SearchTypeOK
<1>2. ASSUME NEW x \in Settled PROVE x \notin Requires(g, x) /\ Requires(g, x) \subseteq Settled
  <2>1. Settled \in SUBSET DecisionId /\ \A y \in Settled : DependsOn(g, y) \subseteq Settled
    BY <1>1 DEF SearchInv, Settled, SettledSound
  <2>2. DependsOn(g, x) \subseteq Settled /\ x \notin Requires(g, x)
    BY DEF SearchInv, SettledSound
  <2> QED BY <1>1, <2>1, <2>2, RequiresClosed
<1>3. VisitedIsSettled
  BY <1>2 DEF VisitedIsSettled, Settled
<1>4. ASSUME verdict = "acyclic" PROVE ~Circular(g, start)
  <2>1. OnStack = {}
    BY <1>4 DEF SearchInv, OnStack
  <2>2. start \in Settled
    BY <2>1 DEF SearchInv, Settled
  <2> QED BY <1>2, <2>2 DEF Circular
<1>5. VerdictExact
  BY <1>4 DEF VerdictExact, SearchInv, SearchTypeOK
<1> QED BY <1>3, <1>5 DEF SearchInv

\* For every decision graph, finite or not, every start and every order of the
\* lists: the search answers as the definition of a cycle does, and what it
\* skips as visited could not have changed the answer.
THEOREM SearchAlwaysExact == SearchSpec => [](SearchTypeOK /\ VisitedIsSettled /\ VerdictExact)
<1>1. SearchInit => SearchInv
  BY SearchStart
<1>2. SearchInv /\ [SearchNext]_searchVars => SearchInv'
  <2> SUFFICES ASSUME SearchInv, [SearchNext]_searchVars PROVE SearchInv'
    OBVIOUS
  <2>1. CASE UNCHANGED searchVars
    <3>1. UNCHANGED <<g, start, frames, visited, verdict>>
      BY <2>1 DEF searchVars
    <3>2. \A x : DependsOn(g, x)' = DependsOn(g, x) /\ Requires(g, x)' = Requires(g, x)
      BY <3>1 DEF DependsOn, Requires
    <3>3. OnStack' = OnStack /\ Settled' = Settled
      BY <3>1 DEF OnStack, Settled
    <3>4. Trail' /\ LookedAt' /\ SettledSound'
      BY <3>1, <3>2, <3>3 DEF SearchInv, Trail, LookedAt, SettledSound
    <3>5. Circular(g, start)' <=> Circular(g, start)
      BY <3>1 DEF Circular, Requires, DependsOn
    <3>6. SearchTypeOK'
      BY <3>1, <3>3 DEF SearchInv, SearchTypeOK
    <3> QED BY <3>1, <3>4, <3>5, <3>6 DEF SearchInv
  <2> QED BY <2>1, LookKept, ReturnKept DEF SearchNext
<1>3. SearchInv => SearchTypeOK /\ VisitedIsSettled /\ VerdictExact
  BY SearchAnswers
<1> QED BY <1>1, <1>2, <1>3, PTL DEF SearchSpec
=============================================================================
