SPECIFICATION SteadySpec
CONSTANTS
  MUD = {a, b}
  RETRIES = 2
  Refusing = {}
  Silent = {a, b}
  Failing = {}
  MaxDelay = 1
  Duplicates = TRUE
  MaxReq = 2
  MaxRestarts = 0
SYMMETRY Symmetry
INVARIANTS
  TypeOK
  ReplyMatches
  FreshOnce
  RepeatIsRepeat
PROPERTIES
  ImplementsRpc
