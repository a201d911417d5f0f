------------------------------- MODULE Resolver -------------------------------
(***************************************************************************)
(* torc update, tree and audit: the resolution of a project's dependencies *)
(* against the registry (crates/torc-registry/src/resolution.rs, audit.rs, *)
(* cli/torc/src/commands/registry.rs), while other processes publish.      *)
(*                                                                         *)
(* Dependencies map the name of a module to the set of versions that the   *)
(* requirement admits: empty for one that does not parse, which is the     *)
(* same error as one that nothing matches.  Maps are hash maps in the code *)
(* and are gone through in any order.                                      *)
(***************************************************************************)
EXTENDS Naturals, Sequences, FiniteSets, Maps

CONSTANTS Module,      \* names of modules
          Version,     \* ordered as semantic versions are
          DependsOn,   \* module -> version -> what its manifest depends on
          Licensed,    \* the <<module, version>> that name a license
          Registry,    \* module -> the versions that are there at first
          Upcoming,    \* the <<module, version>> that may be published meanwhile
          Projects,    \* what the [dependencies] of torc.toml may be at first
          Additions,   \* the <<module, requirement>> that torc add may be given
          MaxNesting,  \* how deep dependencies may nest (100 in the code)
          MaxRuns, MaxChanges  \* bounds: resolutions, and edits of torc.toml

Requirement == SUBSET Version

ASSUME ResolverAssumption ==
    /\ Version \subseteq Nat /\ IsFiniteSet(Version)
    /\ MaxNesting \in Nat /\ MaxRuns \in Nat /\ MaxChanges \in Nat
    /\ Upcoming \subseteq Module \X Version
ASSUME ManifestAssumption ==
    /\ Registry \in [Module -> SUBSET Version]
    /\ \A m \in Module, v \in Version : IsMap(DependsOn[m][v], Module, Requirement)
    /\ \A project \in Projects : IsMap(project, Module, Requirement)
    /\ Additions \subseteq Module \X Requirement

VARIABLES deps,    \* torc.toml: the dependencies of the project
          visible, \* module -> the versions that have a directory
          whole,   \* module -> the versions that can be fetched
          stage,  \* "idle", "resolving", "fetching", "auditing", "ok", "failed"
          asked,   \* what is being resolved
          pending, \* the recursion: what each open call has still to resolve
          target,  \* the module and version about to be fetched
          lock,    \* module -> the version it was resolved to
          audited, \* the verdict of the last audit, "no" before
          runs, changes, \* how many resolutions began, and edits were made
          quiet    \* nothing was published since the resolution began

dependencyVars == <<deps, visible, whole, stage, asked, pending, target, lock, audited, runs, changes, quiet>>

Resting == {"idle", "ok", "failed"}
Highest(S) == CHOOSE v \in S : \A w \in S : w <= v

DependencyInit ==
    /\ deps \in Projects
    /\ visible = Registry /\ whole = Registry
    /\ stage = "idle" /\ asked = EmptyMap /\ pending = <<>> /\ target = <<>>
    /\ lock = EmptyMap /\ audited = "no" /\ runs = 0 /\ changes = 0 /\ quiet = TRUE

-----------------------------------------------------------------------------
(* The manifest *)

\* torc add: a requirement that does not parse is refused, one that nothing in
\* the registry meets is not.
Add(m, r) ==
    /\ changes < MaxChanges /\ changes' = changes + 1
    /\ r # {} /\ deps' = deps ++ One(m, r)
    /\ UNCHANGED <<visible, whole, stage, asked, pending, target, lock, audited, runs, quiet>>

\* torc remove
Withdraw(m) ==
    /\ changes < MaxChanges /\ changes' = changes + 1
    /\ m \in DOMAIN deps /\ deps' = Without(deps, {m})
    /\ UNCHANGED <<visible, whole, stage, asked, pending, target, lock, audited, runs, quiet>>

-----------------------------------------------------------------------------
(* The registry *)

\* publish makes the directory of a version before it writes what is in it.
Announce(m, v) ==
    /\ <<m, v>> \in Upcoming /\ v \notin visible[m] /\ \A w \in visible[m] : w < v
    /\ visible' = [visible EXCEPT ![m] = @ \cup {v}]
    /\ quiet' = FALSE
    /\ UNCHANGED <<deps, whole, stage, asked, pending, target, lock, audited, runs, changes>>

Complete(m, v) ==
    /\ v \in visible[m] \ whole[m]
    /\ whole' = [whole EXCEPT ![m] = @ \cup {v}]
    /\ quiet' = FALSE
    /\ UNCHANGED <<deps, visible, stage, asked, pending, target, lock, audited, runs, changes>>

-----------------------------------------------------------------------------
(* The resolution *)

Fail == /\ stage' = "failed" /\ pending' = <<>> /\ target' = <<>>
        /\ UNCHANGED <<deps, visible, whole, asked, lock, audited, runs, changes, quiet>>

\* update and tree take all dependencies, or update the one that is named.
\* Without any there is nothing to do.
Resolve(wanted) ==
    /\ stage \in Resting /\ runs < MaxRuns /\ runs' = runs + 1
    /\ wanted # EmptyMap
    /\ stage' = "resolving" /\ asked' = wanted /\ pending' = <<wanted>>
    /\ lock' = EmptyMap /\ audited' = "no" /\ quiet' = TRUE
    /\ UNCHANGED <<deps, visible, whole, target, changes>>

Top   == pending[Len(pending)]
Callers == SubSeq(pending, 1, Len(pending) - 1)
Begun(m) == Append(Callers, Without(Top, {m}))

\* Fault: a module that is locked is not held against this requirement.
Locate_Unchecked(m) ==
    LET fit == visible[m] \cap Top[m] IN
    /\ stage = "resolving" /\ pending # <<>> /\ m \in DOMAIN Top
    /\ IF Len(pending) > MaxNesting + 1 \/ fit = {} THEN Fail
       ELSE /\ stage' = "fetching" /\ pending' = Begun(m)
            /\ target' = <<m, Highest(fit)>>
            /\ UNCHANGED <<deps, visible, whole, asked, lock, audited, runs, changes, quiet>>

\* Fault: whether a module was locked is asked before its version is compared.
Locate_Locked(m) ==
    LET fit == visible[m] \cap Top[m] IN
    /\ stage = "resolving" /\ pending # <<>> /\ m \in DOMAIN Top
    /\ IF Len(pending) > MaxNesting + 1 \/ fit = {} \/ (m \in DOMAIN lock => lock[m] \notin fit)
         THEN Fail
       ELSE /\ stage' = "fetching" /\ pending' = Begun(m)
            /\ target' = <<m, Highest(fit)>>
            /\ UNCHANGED <<deps, visible, whole, asked, lock, audited, runs, changes, quiet>>

\* resolve_one up to its fetch: the highest version that the requirement
\* admits, and not another one than is locked.
Locate(m) ==
    LET fit == visible[m] \cap Top[m]
        conflict == m \in DOMAIN lock /\ lock[m] # Highest(fit)
    IN /\ stage = "resolving" /\ pending # <<>> /\ m \in DOMAIN Top
       /\ IF Len(pending) > MaxNesting + 1 \/ fit = {} \/ conflict THEN Fail
          ELSE /\ stage' = "fetching" /\ pending' = Begun(m)
               /\ target' = <<m, Highest(fit)>>
               /\ UNCHANGED <<deps, visible, whole, asked, lock, audited, runs, changes, quiet>>

\* The fetch, which finds a version that is being published without its files;
\* the module is locked and what it depends on is resolved next, every time it
\* is met.
Fetch ==
    LET m == target[1]  v == target[2] IN
    /\ stage = "fetching"
    /\ IF v \notin whole[m] THEN Fail
       ELSE /\ stage' = "resolving" /\ target' = <<>>
            /\ lock' = IF m \in DOMAIN lock THEN lock ELSE lock ++ One(m, v)
            /\ pending' = Append(pending, DependsOn[m][v])
            /\ UNCHANGED <<deps, visible, whole, asked, audited, runs, changes, quiet>>

\* A call has resolved all it had to, and returns.
Return ==
    /\ stage = "resolving" /\ pending # <<>> /\ Top = EmptyMap
    /\ pending' = Callers
    /\ stage' = IF Callers = <<>> THEN "ok" ELSE "resolving"
    /\ UNCHANGED <<deps, visible, whole, asked, target, lock, audited, runs, changes, quiet>>

\* torc audit goes on to fetch what was locked; it passes unless a license is
\* missing.
Audit ==
    /\ stage = "ok" /\ audited = "no"
    /\ audited' = IF \A m \in DOMAIN lock : <<m, lock[m]>> \in Licensed THEN "passed" ELSE "issues"
    /\ UNCHANGED <<deps, visible, whole, stage, asked, pending, target, lock, runs, changes, quiet>>

DependencyNext ==
    \/ \E a \in Additions : Add(a[1], a[2])
    \/ \E m \in Module : Withdraw(m) \/ Locate(m) \/ Resolve(Restrict(deps, {m} \cap DOMAIN deps))
    \/ \E u \in Upcoming : Announce(u[1], u[2]) \/ Complete(u[1], u[2])
    \/ Resolve(deps) \/ Fetch \/ Return \/ Audit

DependencySpec == DependencyInit /\ [][DependencyNext]_dependencyVars
-----------------------------------------------------------------------------
(* What holds *)

Meets(locks, wanted) == \A m \in DOMAIN wanted : m \in DOMAIN locks /\ locks[m] \in wanted[m]

\* What a resolution that succeeds has locked meets every requirement of the
\* project and of every module that is locked, and holds nothing that none of
\* them asks for, whatever was published meanwhile (resolution.rs).
LockMeetsAll ==
    stage = "ok" =>
      /\ Meets(lock, asked)
      /\ \A m \in DOMAIN lock :
           /\ lock[m] \in whole[m] /\ Meets(lock, DependsOn[m][lock[m]])
           /\ \/ m \in DOMAIN asked
              \/ \E n \in DOMAIN lock : m \in DOMAIN DependsOn[n][lock[n]]

\* The highest versions everywhere agree, and nesting is bounded by ranks.
Follows(locks, wanted) ==
    \A m \in DOMAIN wanted :
       /\ m \in DOMAIN locks /\ locks[m] \in visible[m] \cap wanted[m] \cap whole[m]
       /\ \A v \in visible[m] \cap wanted[m] : v <= locks[m]
Greedy(locks) ==
    \E rank \in [DOMAIN locks -> 0..MaxNesting] :
       \A m \in DOMAIN locks :
          /\ Follows(locks, DependsOn[m][locks[m]])
          /\ \A n \in DOMAIN DependsOn[m][locks[m]] : rank[n] < rank[m]
Solvable == \E M \in SUBSET Module : \E locks \in [M -> Version] :
               Follows(locks, asked) /\ Greedy(locks)

\* The order in which hash maps are gone through decides nothing: with nothing
\* published meanwhile, a resolution succeeds just when taking the highest
\* version for every requirement gives every module one version, and no cycle
\* and no chain of more than the nesting allowed (resolution.rs).
VerdictOrderFree ==
    quiet /\ stage \in {"ok", "failed"} => (stage = "ok" <=> Solvable)
=============================================================================
