SPECIFICATION MCFairSpec
CONSTANTS
  Node = {1, 2, 3}
  EdgeId = {1, 2, 3, 4}
INVARIANTS TopologicalOnDags CycleVerdictExact LevelsAreLongestChains
PROPERTIES Terminates ImplementsOrder
CHECK_DEADLOCK FALSE
