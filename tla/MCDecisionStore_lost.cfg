SPECIFICATION Spec
CONSTANTS
  DecisionId = {d1, d2}
  Chosen = {v1}
  None = None
  Proc = {p1, p2}
  InitialFiles <- NoFile
  MaxHistory = 2
  MaxCuts = 0
INVARIANT RecordsEveryStateChange
