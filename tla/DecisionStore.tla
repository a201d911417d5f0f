---------------------------- MODULE DecisionStore ----------------------------
(***************************************************************************)
(* The torc command line around spec/decisions.tdg.  Every process reads   *)
(* the file, changes the decision graph in its memory and writes the whole *)
(* file back: load_tdg, one operation of DecisionGraph, save_tdg           *)
(* (cli/torc/src/commands/decision.rs).  Nothing locks the file, and       *)
(* std::fs::write first truncates it, so processes interleave between the  *)
(* three steps, and a crash or a failing call can cut any of them short.   *)
(*                                                                         *)
(* The format itself is abstracted to what from_bytes tells apart: a file  *)
(* is missing, or whole, or torn, when a prefix or a mixture was written   *)
(* and the length, hash and count checks of from_bytes refuse it.          *)
(***************************************************************************)
EXTENDS DecisionOps

CONSTANTS Proc,          \* the processes that users start
          InitialFiles,  \* what may be on disk at first
          MaxHistory,    \* bound: length of a history
          MaxCuts        \* bound: commands that are cut short

Ids(g)      == DOMAIN g.decisions
Recorded(g) == {g.history[i] : i \in DOMAIN g.history}
Drawn(g)    == Ids(g) \cup {t.decision : t \in Recorded(g)}

\* Every deferral waits for a decision that is there.
TriggersResolve(g) == \A id \in Ids(g) : g.decisions[id].trigger \in Ids(g) \cup {None}

\* A file that the library wrote and no client has since removed from.
ASSUME InitialFilesAssumption ==
    \A f \in InitialFiles :
       /\ f \in [status : {"missing", "whole"}, graph : {f.graph}]
       /\ f.status = "missing" => f.graph = NoDecisions
       /\ IsDecisionGraph(f.graph) /\ Explained(f.graph) /\ Lawful(f.graph)
       /\ TriggersResolve(f.graph)
ASSUME StoreBounds == MaxHistory \in Nat /\ MaxCuts \in Nat

VARIABLES file,      \* spec/decisions.tdg, with the graph it last held whole
          pc,        \* where each process is in its command
          memory,    \* the decision graph each process holds
          issued,    \* ids drawn so far, by any process
          acked,     \* the transitions that commands reported as done
          overlapped, \* a command started while another was under way
          unfinished, \* the last save to end was cut short after its open
          cuts       \* bound: commands that were cut short so far

vars == <<file, pc, memory, issued, acked, overlapped, unfinished, cuts>>

Missing  == [status |-> "missing", graph |-> NoDecisions]
Whole(g) == [status |-> "whole", graph |-> g]
Torn     == [file EXCEPT !.status = "torn"]

Init ==
    /\ file \in InitialFiles
    /\ pc = [p \in Proc |-> "idle"]
    /\ memory = [p \in Proc |-> NoDecisions]
    /\ issued = Drawn(file.graph)
    /\ acked = Recorded(file.graph)
    /\ overlapped = FALSE
    /\ unfinished = FALSE /\ cuts = 0

-----------------------------------------------------------------------------
NoteOverlap == overlapped' = (overlapped \/ \E q \in Proc : pc[q] # "idle")

\* Fault: init does not look for a file that is already there.
StartInit_Anyway(p) ==
    /\ pc[p] = "idle"
    /\ pc' = [pc EXCEPT ![p] = "truncate"]
    /\ memory' = [memory EXCEPT ![p] = NoDecisions]
    /\ NoteOverlap
    /\ UNCHANGED <<file, issued, acked, unfinished, cuts>>

\* torc decision init: the check for the file and the write are two steps.
StartInit(p) ==
    /\ pc[p] = "idle"
    /\ file.status = "missing"
    /\ pc' = [pc EXCEPT ![p] = "truncate"]
    /\ memory' = [memory EXCEPT ![p] = NoDecisions]
    /\ NoteOverlap
    /\ UNCHANGED <<file, issued, acked, unfinished, cuts>>

\* load_tdg refuses a missing and a torn file; the operation on the graph in
\* memory follows at once, and its error ends the command without a save.
Loaded(p, g) ==
    /\ pc[p] = "idle"
    /\ file.status = "whole"
    /\ pc' = [pc EXCEPT ![p] = "truncate"]
    /\ memory' = [memory EXCEPT ![p] = g]
    /\ NoteOverlap
    /\ UNCHANGED <<file, acked, unfinished, cuts>>

StartAdd(p, id) ==
    /\ id \notin issued
    /\ issued' = issued \cup {id}
    /\ Loaded(p, [file.graph EXCEPT !.decisions =
                    @ ++ One(id, [state |-> "Unexplored", value |-> "unresolved",
                                  dependsOn |-> {}, trigger |-> None])])

StartCommit(p, id, v) ==
    /\ Len(file.graph.history) < MaxHistory
    /\ CanTransition(file.graph, id, "Committed")
    /\ ~Circular(file.graph, id)
    /\ Loaded(p, Transitioned(file.graph, id, "Committed", v))
    /\ UNCHANGED issued

\* Fault: the trigger is taken as given.
StartDefer_Unresolved(p, id, v, t) ==
    /\ Len(file.graph.history) < MaxHistory
    /\ CanTransition(file.graph, id, "Deferred")
    /\ Loaded(p, Deferred(file.graph, id, v, t))
    /\ UNCHANGED issued

\* the trigger is looked up in the same graph, by find_by_prefix
StartDefer(p, id, v, t) ==
    /\ Len(file.graph.history) < MaxHistory
    /\ CanTransition(file.graph, id, "Deferred")
    /\ t \in Ids(file.graph) \cup {None}
    /\ Loaded(p, Deferred(file.graph, id, v, t))
    /\ UNCHANGED issued

\* std::fs::write opens the file, which empties it, ...
Truncate(p) ==
    /\ pc[p] = "truncate"
    /\ file' = Torn
    /\ pc' = [pc EXCEPT ![p] = "write"]
    /\ UNCHANGED <<memory, issued, acked, overlapped, unfinished, cuts>>

\* ... and then writes from its start.  Bytes of a longer file that another
\* process wrote meanwhile stay behind the end, where from_bytes ignores them.
Write(p) ==
    /\ pc[p] = "write"
    /\ file' = Whole(memory[p])
    /\ pc' = [pc EXCEPT ![p] = "idle"]
    /\ acked' = acked \cup Recorded(memory[p])
    /\ memory' = [memory EXCEPT ![p] = NoDecisions]
    /\ unfinished' = FALSE
    /\ UNCHANGED <<issued, overlapped, cuts>>

\* A process dies, or its open or its write returns an error, a full disk say:
\* the command ends without saying it is done.  An open that fails leaves the
\* file as it is; after the open, the file stays as it was then, or torn.
CutShort(p) ==
    /\ cuts < MaxCuts
    /\ pc[p] # "idle"
    /\ file' \in IF pc[p] = "write" THEN {file, Torn} ELSE {file}
    /\ unfinished' = (unfinished \/ pc[p] = "write")
    /\ pc' = [pc EXCEPT ![p] = "idle"]
    /\ memory' = [memory EXCEPT ![p] = NoDecisions]
    /\ cuts' = cuts + 1
    /\ UNCHANGED <<issued, acked, overlapped>>

\* Fault: the file is opened for the save before it is known that there is
\* something to save.
Refuse_Truncated(p) ==
    /\ pc[p] = "idle"
    /\ file' = Torn
    /\ UNCHANGED <<pc, memory, issued, acked, overlapped, unfinished, cuts>>

\* init finds a file, or load_tdg finds none or cannot read it, or the
\* operation is refused: nothing is saved.
Refuse(p) ==
    /\ pc[p] = "idle"
    /\ UNCHANGED vars

Next ==
    \E p \in Proc :
       \/ StartInit(p) \/ Refuse(p) \/ Truncate(p) \/ Write(p) \/ CutShort(p)
       \/ \E id \in DecisionId :
            \/ StartAdd(p, id)
            \/ \E v \in Chosen : StartCommit(p, id, v)
            \/ \E v \in {"provisional", "unresolved"}, t \in DecisionId \cup {None} :
                  StartDefer(p, id, v, t)

Spec == Init /\ [][Next]_vars

-----------------------------------------------------------------------------
TypeOK ==
    /\ file \in [status : {"missing", "torn", "whole"}, graph : {file.graph}]
    /\ IsDecisionGraph(file.graph)
    /\ pc \in [Proc -> {"idle", "truncate", "write"}]
    /\ \A p \in Proc : IsDecisionGraph(memory[p])
    /\ issued \in SUBSET DecisionId /\ Drawn(file.graph) \subseteq issued
    /\ acked \subseteq Transition /\ unfinished \in BOOLEAN

\* Whatever processes interleave, fail and die, a file that can be read is the
\* result of one line of legal operations: its history explains it, its
\* commitments were broken only by conflicts, and a deferral waits for a
\* decision the file has.  Two histories are never mixed.
FileIsLegal ==
    file.status = "whole" =>
       /\ Explained(file.graph) /\ Binding(file.graph)
       /\ TriggersResolve(file.graph)

\* The file is torn only while a save is under way, or when the last save to
\* end was cut short: a command that is refused never costs the file, and one
\* whole save repairs it, however many were cut short before.
OnlyACutSaveTears ==
    file.status = "torn" => unfinished \/ \E p \in Proc : pc[p] = "write"

\* An acknowledged transition is lost only to commands that overlap: while each
\* command starts after the one before it ended, however it ended, what a command
\* reported as done stays in the history of the file.
LostOnlyToOverlap ==
    file.status = "whole" /\ ~overlapped => acked \subseteq Recorded(file.graph)

\* history.rs: "Records every state change": what a command reported as done
\* is in the history of the file, whenever it can be read.
RecordsEveryStateChange == file.status = "whole" => acked \subseteq Recorded(file.graph)
=============================================================================
