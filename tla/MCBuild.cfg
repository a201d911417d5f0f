SPECIFICATION BuildSpec
CONSTANTS
  NodeId <- Nodes
  EdgeId <- Edges
  RegionId = {"r1", "r2", "r3"}
  None = None
  NoName = NoName
  Unreadable = Unreadable
  LiteralBits = 8
  Exact = 64
  Word = 100
  Variable <- OnlyX
  Sample <- Integers8
  SourceFile <- AllSources
  ProgramOf <- Programs_
  Request <- Requests
  Manifest <- TheManifest
  TargetFiles <- TheFiles
  FirstDecisions <- Decided
  OtherDecisions <- Redecided
  Edits <- EditedInto
  Solver = TRUE
  Reports <- GateReports
  LoweredTo <- LowerNode
  MayReturn <- ReturnsAs
  FrameOf <- FrameBytes
  MaxBuilds = 2
  MaxEdits = 1
INVARIANTS BuildTypeOK DependenciesKept CompiledMeaning VerifiedHolds PeakIsHeaviestChain ArtifactsCurrent ConflictsBlock
PROPERTY BuildEnds
CHECK_DEADLOCK FALSE
