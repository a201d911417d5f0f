-------------------------------- MODULE Bridge --------------------------------
(***************************************************************************)
(* What the decisions of a project ask of its verification and its builds  *)
(* (crates/torc-spec/src/bridge.rs), and how the commands that verify and  *)
(* build look at them (cli/torc/src/commands).                             *)
(*                                                                         *)
(* The decisions are the set of their states, or Unreadable when the file  *)
(* is absent or torn: the commands do not tell the two apart.              *)
(***************************************************************************)
EXTENDS Integers

CONSTANT Unreadable

DecisionState == {"Unexplored", "Exploring", "Tentative", "Deferred",
                  "Committed", "Conflicted", "Derived"}

VerificationMode(state) ==
    CASE state \in {"Committed", "Derived"} -> "Full"
      [] state = "Tentative"                -> "Conditional"
      [] state = "Deferred"                 -> "Universal"
      [] state = "Conflicted"               -> "Halt"
      [] OTHER                              -> "Skip"

\* check_materialization_readiness: unexplored decisions only bring warnings.
Ready(decisions) == \A state \in decisions : VerificationMode(state) # "Halt"

\* decision_aware_profile
DecisionAware(decisions, base) ==
    CASE "Conflicted" \in decisions -> "certification"
      [] "Tentative" \in decisions /\ base = "development" -> "integration"
      [] OTHER -> base

ProfileFor(decisions, base) ==
    IF decisions = Unreadable THEN base ELSE DecisionAware(decisions, base)

\* torc build: a conflict blocks it; decisions nobody can read do not.
MayBuild(decisions) == decisions # Unreadable => Ready(decisions)

Profiles == {"development", "integration", "certification"}

\* torc verify: the profile of the command line, of the manifest, or the
\* least; an error for a name that is no profile.
AskedProfile(flag, manifest) ==
    CASE flag # "none"     -> flag
      [] manifest # "none" -> manifest
      [] OTHER             -> "development"

VerifyProfile(flag, manifest, decisions) ==
    LET asked == AskedProfile(flag, manifest)
    IN IF asked \notin Profiles THEN "unknown"
       ELSE ProfileFor(decisions, asked)
=============================================================================
