SPECIFICATION ToolchainSpec
CONSTANTS
  NodeId <- Names
  EdgeId <- Wires
  RegionId = {"r1", "r2", "r3"}
  None = None
  NoName = NoName
  BuilderNode = {"a", "b"}
  BuilderEdge = {"e1"}
  BuilderRegion = {"r1", "r2"}
  Prototype <- Protos
  Variants <- Changes
  Port = {0, 1}
  Arity <- Arities
  RegionKind = {"Sequential"}
  MaxDepth = 2
  Exact = 64
  Word = 100
  Variable <- TheVariable
  Sample <- Samples
  Verifiable <- Checkable
  SolverBuilt = TRUE
  MaxVerifications = 3
  Bridger = {b1, b2}
  Declarations <- Libraries
  Policies <- TrustPolicies
  WordBits = 64
  NodeFor <- DrawnNode
  EdgeFor <- DrawnEdge
  MaxCuts = 1
  Module = {"app", "hal", "math"}
  Version <- Versions3
  DependsOn <- Manifests
  Licensed <- Licenses
  Registry <- Present
  Upcoming <- Coming
  Projects <- Tomls
  Additions <- Adding
  MaxNesting = 2
  MaxRuns = 1
  MaxChanges = 1
INVARIANTS LockMeetsAll VerdictOrderFree GuardsInPlace BridgeSound AcceptedIsWritten CachedHolds
PROPERTY BuilderKeeps
CHECK_DEADLOCK FALSE
