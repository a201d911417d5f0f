SPECIFICATION MCSpec
CONSTANTS
  Node = {1, 2, 3}
  EdgeId = {1, 2, 3}
INVARIANT OnlyBackEdgesDisordered
CHECK_DEADLOCK FALSE
