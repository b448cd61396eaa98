SPECIFICATION Spec
CONSTANTS
  CONSUMER = {a, b, c}
  Prios = {1, 2}
  MaxCount <- MCMaxCount
  Uses <- Listening
  Allowed <- Meek
  MaxEntries = 3
  MaxDepth = 2
INVARIANTS
  ListsSorted
CHECK_DEADLOCK FALSE
