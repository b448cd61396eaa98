\* One channel, an object that can be loaded and owns it from the start, and a
\* player who is archwizard; one listener at a time acts while a message is
\* delivered.  MaxInactive is 0: a dormant channel expires at any reset, and a
\* channel that is found active and dormant is deleted when it is given up.
SPECIFICATION Spec
CONSTANTS
  o1 = o1
  o2 = o2
  n1 = n1
  None = None
  CHANNEL = {n1}
  OBJ = {o1, o2}
  Loadable = {o1}
  Players = {o2}
  Arch = {o2}
  Defaults <- MCDefaults
  MaxChannels = 1
  MaxInactive = 0
  MaxIds = 2
  MaxDepth = 1
INVARIANT TypeOK
PROPERTIES NoTakeover ClosedOnlyEmpty
