-------------------------- MODULE DependencySearch --------------------------
(***************************************************************************)
(* check_circular_deps (conflict.rs), the depth-first search that guards   *)
(* commit, one step per look at a dependency and per return of dfs.  The   *)
(* recursion is a sequence of frames; the code's stack set is the nodes of *)
(* the frames.  Of the order of a depends_on list nothing is assumed.      *)
(***************************************************************************)
EXTENDS DecisionOps

VARIABLES g,        \* the decision graph that is searched
          start,
          frames,   \* the calls of dfs under way, the innermost last
          visited,
          verdict   \* "searching", then Ok as "acyclic" or Err as "cycle"

searchVars == <<g, start, frames, visited, verdict>>

GraphOf(D) == [NoDecisions EXCEPT !.decisions =
                 [id \in DOMAIN D |-> [state |-> "Unexplored", value |-> "unresolved",
                                       dependsOn |-> D[id], trigger |-> None]]]

Frame(id) == [node |-> id, left |-> DependsOn(g, id)]
OnStack   == {frames[i].node : i \in DOMAIN frames}
Top       == frames[Len(frames)]

SearchInit ==
    /\ \E present \in SUBSET DecisionId :
          \E D \in [present -> SUBSET DecisionId] : g = GraphOf(D)
    /\ start \in DOMAIN g.decisions
    /\ frames = <<Frame(start)>>
    /\ visited = {start}
    /\ verdict = "searching"

\* Faults: visited is asked before the stack; a visited dependency is looked
\* at again.
Look_VisitedFirst(d) ==
    /\ verdict = "searching" /\ frames # <<>> /\ d \in Top.left
    /\ LET rest == [frames EXCEPT ![Len(frames)].left = @ \ {d}]
       IN frames' = IF d \in visited THEN rest ELSE Append(rest, Frame(d))
    /\ visited' = visited \cup {d}
    /\ UNCHANGED <<g, start, verdict>>
Look_Again(d) ==
    /\ verdict = "searching" /\ frames # <<>> /\ d \in Top.left
    /\ IF d \in OnStack THEN verdict' = "cycle" /\ UNCHANGED <<frames, visited>>
       ELSE /\ d \notin visited
            /\ frames' = Append([frames EXCEPT ![Len(frames)].left = @ \ {d}], Frame(d))
            /\ visited' = visited \cup {d}
            /\ UNCHANGED verdict
    /\ UNCHANGED <<g, start>>

\* dfs on the next dependency of the innermost call: an error if it is on the
\* stack, nothing if it was visited, else a call of its own.
Look(d) ==
    LET rest == [frames EXCEPT ![Len(frames)].left = @ \ {d}] IN
    /\ verdict = "searching" /\ frames # <<>> /\ d \in Top.left
    /\ \/ /\ d \in OnStack
          /\ verdict' = "cycle"
          /\ UNCHANGED <<frames, visited>>
       \/ /\ d \notin OnStack /\ d \in visited
          /\ frames' = rest
          /\ UNCHANGED <<visited, verdict>>
       \/ /\ d \notin OnStack /\ d \notin visited
          /\ frames' = Append(rest, Frame(d))
          /\ visited' = visited \cup {d}
          /\ UNCHANGED verdict
    /\ UNCHANGED <<g, start>>

Return ==
    /\ verdict = "searching" /\ frames # <<>> /\ Top.left = {}
    /\ frames' = SubSeq(frames, 1, Len(frames) - 1)
    /\ verdict' = IF Len(frames) = 1 THEN "acyclic" ELSE "searching"
    /\ UNCHANGED <<g, start, visited>>

SearchNext == Return \/ \E d \in DecisionId : Look(d)

SearchSpec == SearchInit /\ [][SearchNext]_searchVars
FairSearch == SearchSpec /\ WF_searchVars(SearchNext)

-----------------------------------------------------------------------------
SearchTypeOK ==
    /\ IsDecisionGraph(g) /\ start \in DOMAIN g.decisions
    /\ frames \in Seq([node : DecisionId, left : SUBSET DecisionId])
    /\ visited \in SUBSET DecisionId /\ OnStack \subseteq visited
    /\ verdict \in {"searching", "acyclic", "cycle"}

\* The answer is the declarative one: an error exactly if a path of
\* dependencies from the start runs into a cycle, anywhere along it, whatever
\* the order of the lists and whatever the search skipped as visited.
VerdictExact == verdict # "searching" => (verdict = "cycle" <=> Circular(g, start))

\* A node that was left behind as visited can be skipped safely: all it
\* requires was searched too or is still to be looked at in an open call, and
\* it lies on no cycle.
VisitedIsSettled ==
    verdict # "cycle" =>
       \A x \in visited \ OnStack :
          /\ x \notin Requires(g, x)
          /\ Requires(g, x) \subseteq visited \ OnStack

\* The search ends on every graph, cyclic ones included.
SearchEnds == <>(verdict # "searching")
=============================================================================
