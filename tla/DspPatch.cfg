SPECIFICATION Spec
CONSTANTS
  m1 = m1
  m2 = m2
  m3 = m3
  Ids = {m1, m2, m3}
  MaxWires = 2
  CountsNew = FALSE
SYMMETRY IdSymmetry
INVARIANTS
  IdsArePositions
PROPERTIES
  ImplementsHostGraph
