--------------------------------- MODULE Engine ---------------------------------
(***************************************************************************)
(* A VerificationEngine of torc-verify (crates/torc-verify/src/engine.rs)  *)
(* that verifies one program after another and keeps the proofs it finds   *)
(* in its cache (cache.rs), as a client of the library may use it; torc    *)
(* verify and torc build make a new one for every program.                 *)
(***************************************************************************)
EXTENDS Verification

CONSTANTS Verifiable,      \* the programs
          SolverBuilt,     \* whether an SMT solver is built in
          MaxVerifications \* bound: runs of the engine

ASSUME EngineAssumption == SolverBuilt \in BOOLEAN /\ MaxVerifications \in Nat

VARIABLES setting,   \* the profile the engine was made with
          proofs,    \* its cache
          tracked,   \* the obligations of the last run
          proven,    \* which of them its report calls verified
          said,      \* what the structural pass found wrong
          verifications

engineVars == <<setting, proofs, tracked, proven, said, verifications>>

EngineInit ==
    /\ setting \in Profile /\ proofs = {}
    /\ tracked = <<>> /\ proven = {} /\ said = {} /\ verifications = 0

\* verify.  A solver answers in time, or it does not.
VerifyProgram(p) ==
    /\ verifications < MaxVerifications /\ verifications' = verifications + 1
    /\ tracked' = Collected(p)
    /\ said' = Diagnosed(p)
    /\ \E answers \in {FALSE, SolverBuilt} :
          /\ proven' = VerifiedIn(tracked', p, setting, proofs, answers)
          /\ proofs' = CacheAfter(tracked', p, setting, proofs, answers)
    /\ UNCHANGED setting

EngineNext == \E p \in Verifiable : VerifyProgram(p)
EngineSpec == EngineInit /\ [][EngineNext]_engineVars
-----------------------------------------------------------------------------
(* What holds *)

ProvenHolds(q) == Faithful(q) => Valid(q)

\* A proof found for one program serves another: although a cached proof is
\* looked up without its program (cache.rs), what the cache holds and what a
\* report calls verified is true of every program, and a proof that was found
\* once is not lost to an answer that comes too late, save under certification,
\* where every proof has to be found anew.
CachedHolds ==
    /\ \A o \in proofs \cup {tracked[i] : i \in proven} : ProvenHolds(o.predicate)
    /\ \A i \in DOMAIN tracked : tracked[i] \in proofs /\ setting # "certification" => i \in proven
=============================================================================
