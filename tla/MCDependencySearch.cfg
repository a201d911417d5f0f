SPECIFICATION FairSearch
CONSTANTS
  DecisionId = {d1, d2, d3}
  Chosen = {}
  None = None
INVARIANT VerdictExact
PROPERTY SearchEnds
CHECK_DEADLOCK FALSE
