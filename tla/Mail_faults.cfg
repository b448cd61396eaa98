\* The daemon of b refuses mail; udp_reply() may fail at a; one restart.
SPECIFICATION FairMailSpec
CONSTANTS
  MUD = {a, b}
  RETRIES = 2
  Refusing = {b}
  Silent = {}
  Failing = {a}
  MaxDelay = 0
  Duplicates = FALSE
  MaxReq = 2
  MaxRestarts = 1
  Unknown = {1}
INVARIANTS
  MailTypeOK
  ToldTheTruth
  CopiesBounded
  RetriesSuffice
  OneOutcome
PROPERTIES
  EveryRequestEnds
