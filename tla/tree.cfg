\* One move at a time, through either door, among requests of every other kind.
SPECIFICATION FairSpec
CONSTANTS
  Nodes = {n1, n2, n3}
  Top = Top
  Movers = {m1}
  Keepers = {k1}
  LateTargets = FALSE
INVARIANTS
  TypeOK
  Acyclic
  
PROPERTIES
  MoveEnds
