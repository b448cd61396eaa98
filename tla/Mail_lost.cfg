\* Nothing fails but the network.
SPECIFICATION MailSpec
CONSTANTS
  MUD = {a, b}
  RETRIES = 2
  Refusing = {}
  Silent = {}
  Failing = {}
  MaxDelay = 0
  Duplicates = FALSE
  MaxReq = 2
  MaxRestarts = 0
  Unknown = {}
INVARIANT MailKept
