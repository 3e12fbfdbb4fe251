SPECIFICATION Spec
CONSTANTS
  Sockets = {c1, c2, c3}
  Docs = {d1, d2}
  Instances = {i1, i2}
  Auths = {a1, a2}
  Messages = {m1}
  MaxPeers = 3
  None = None
SYMMETRY Symmetry
INVARIANTS
  OneRoomEach
  
  DeliveredOnce
CHECK_DEADLOCK FALSE
