SPECIFICATION Spec
CONSTANTS
  outer = outer
  inner = inner
  cable = cable
  tap = tap
  echo = echo
  Nodes = {outer, inner, cable}
  Kind <- MCKind
  Bases = {tap, echo}
  MaxExtra = 1
  MaxLength = 3
  Ends = {"targetPath"}
  Top = top
SYMMETRY Interchangeable
PROPERTIES
  CopiesStayInStep
  ConnectionsFollow
