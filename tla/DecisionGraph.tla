---------------------------- MODULE DecisionGraph ----------------------------
(***************************************************************************)
(* torc-spec's decision graph as a state machine: one action per public    *)
(* mutator of DecisionGraph, and EditDependencies for the edits clients    *)
(* make through get_decision_mut.  A call that returns an error leaves the *)
(* graph alone (Refuse).  report is what the last call returned: the       *)
(* impact report of a commit, None for anything else.                      *)
(*                                                                         *)
(* The client draws ids as Decision::new does (a fresh UUID) and leaves    *)
(* the state and value of a stored decision to the graph's own methods.    *)
(***************************************************************************)
EXTENDS DecisionOps

CONSTANTS Prepared,    \* states clients give a decision before they add it
          MaxHistory   \* bound: length of the history

VARIABLES dg, report

vars == <<dg, report>>

ASSUME PreparedAssumption == Prepared \subseteq State
ASSUME HistoryBound == MaxHistory \in Nat

Init == dg = NoDecisions /\ report = None

Used(id) == \E i \in DOMAIN dg.history : dg.history[i].decision = id

Add(id, s, deps) ==
    /\ id \notin DOMAIN dg.decisions /\ ~Used(id)
    /\ dg' = [dg EXCEPT !.decisions =
                @ ++ One(id, [state |-> s, value |-> "unresolved",
                              dependsOn |-> deps, trigger |-> None])]
    /\ report' = None

Remove(id) ==
    /\ id \in DOMAIN dg.decisions
    /\ dg' = [dg EXCEPT !.decisions = Without(@, {id})]
    /\ report' = None

EditDependencies(id, deps) ==
    /\ id \in DOMAIN dg.decisions
    /\ dg' = [dg EXCEPT !.decisions[id].dependsOn = deps]
    /\ report' = None

TransitionTo(id, to, v) ==
    /\ Len(dg.history) < MaxHistory
    /\ CanTransition(dg, id, to)
    /\ dg' = Transitioned(dg, id, to, v)
    /\ report' = None

Commit(id, v) ==
    /\ Len(dg.history) < MaxHistory
    /\ CanTransition(dg, id, "Committed")
    /\ ~Circular(dg, id)
    /\ dg' = Transitioned(dg, id, "Committed", v)
    /\ report' = Impact(dg', id)

Defer(id, v, trigger) ==
    /\ Len(dg.history) < MaxHistory
    /\ CanTransition(dg, id, "Deferred")
    /\ dg' = Deferred(dg, id, v, trigger)
    /\ report' = None

\* transition, defer and commit check before they write.
Refuse(id, to) ==
    /\ ~CanTransition(dg, id, to) \/ (to = "Committed" /\ Circular(dg, id))
    /\ report' = None
    /\ UNCHANGED dg

Next ==
    \E id \in DecisionId :
       \/ \E s \in Prepared, deps \in SUBSET DecisionId : Add(id, s, deps)
       \/ Remove(id)
       \/ \E deps \in SUBSET DecisionId : EditDependencies(id, deps)
       \/ \E to \in State, v \in Value : TransitionTo(id, to, v)
       \/ \E v \in Value : Commit(id, v)
       \/ \E to \in State : Refuse(id, to)
       \/ \E v \in {"provisional", "unresolved"}, t \in DecisionId \cup {None} : Defer(id, v, t)

Spec == Init /\ [][Next]_vars

-----------------------------------------------------------------------------
Report == [decision : DecisionId, value : Value, nowDetermined : SUBSET DecisionId,
           stillOpen : SUBSET DecisionId, triggered : SUBSET DecisionId]

TypeOK == IsDecisionGraph(dg) /\ report \in Report \cup {None}

\* The history is the design rationale that history.rs promises: numbered
\* without a gap or a repeat, each entry of a decision starting where its
\* last one ended, and the decision being where its last entry left it,
\* across removals, deferrals and failed calls.
HistoryExplainsState == Explained(dg)

\* decision.rs, Committed: "Human has made a binding decision".  Whatever is
\* called, the next thing that happens to a committed or derived decision is
\* a conflict, so no value is replaced by another behind the client's back.
BindingUntilConflict == Binding(dg)

\* The report of a commit announces every deferral that was waiting for it,
\* puts no decision in two of its lists, and leaves out none that is still
\* unexplored or being explored.
ReportAnnouncesRevisits ==
    report # None =>
       /\ \A d \in DOMAIN dg.decisions :
             (dg.decisions[d].state = "Deferred" /\ dg.decisions[d].trigger = report.decision)
                <=> d \in report.triggered
       /\ report.nowDetermined \cap (report.stillOpen \cup report.triggered) = {}
       /\ report.stillOpen \cap report.triggered = {}
       /\ \A d \in DOMAIN dg.decisions :
             dg.decisions[d].state \in {"Unexplored", "Exploring"}
                => d \in report.nowDetermined \cup report.stillOpen

=============================================================================
