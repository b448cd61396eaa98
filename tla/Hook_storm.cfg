SPECIFICATION Spec
CONSTANTS
  CONSUMER = {a, b, c}
  Prios = {1, 2}
  MaxCount <- MCMaxCount
  Uses <- Watched
  Allowed <- Storming
  MaxEntries = 3
  MaxDepth = 2
SYMMETRY Symmetry
INVARIANTS
  TypeOK
  AcceptedSorted
  RegisteredOnce
  RegistrationLasts
  NobodyTwice
  CalledInOrder
  NobodyMissed
PROPERTIES
  CallsStanding
CHECK_DEADLOCK FALSE
