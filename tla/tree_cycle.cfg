\* Two moves at a time.
SPECIFICATION Spec
CONSTANTS
  Nodes = {n1, n2, n3}
  Top = Top
  Movers = {m1, m2}
  Keepers = {k1}
  LateTargets = FALSE
SYMMETRY Symmetry
INVARIANT
  Acyclic
