SPECIFICATION Spec
CONSTANTS
  harbour = harbour
  island = island
  lighthouse = lighthouse
  ROUTE <- TravelRoute
  Message = Message
  Ship = Ship
  Away = Away
  PLAYER = {p}
  Traveller = {p}
  None = None
  Capacity = 1
  Shaky = {island}
INVARIANTS TypeOK NobodyLeft
PROPERTIES Served JourneyEnds
