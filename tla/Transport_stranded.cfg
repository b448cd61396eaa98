SPECIFICATION Spec
CONSTANTS
  harbour = harbour
  island = island
  lighthouse = lighthouse
  ROUTE <- LongRoute
  Message = Message
  Ship = Ship
  Away = Away
  PLAYER = {p}
  Traveller = {p}
  None = None
  Capacity = 1
  Shaky = {}
INVARIANT NeverStranded
