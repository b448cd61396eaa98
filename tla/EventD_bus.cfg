SPECIFICATION FairSpec
CONSTANTS
  EID = {e1}
  OBJ = {o1, o2}
  e1 = e1
  o1 = o1
  o2 = o2
  None = None
  MaxPending = 1
  MaxTicks = 1
  MaxEvents = 3
  MaxBoots = 2
INVARIANTS
  IInv
  Woken
PROPERTIES
  CallsRegisteredOnce
  ImplementsBus
  EventsFinish
  UpdateHappens
