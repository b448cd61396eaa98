SPECIFICATION Spec
CONSTANTS
  NAME = {a, b}
  None = None
  Own = {x}
  Tmp = tmp
  Times = {0, 1, 2}
  Soon = 1
  Safety = 1
  MaxSets = 3
  MaxTimers = 5
PROPERTIES
  EndsInTime
