SPECIFICATION CarefulSpec
CONSTANTS
  outer = outer
  synth = synth
  reverb = reverb
  cable = cable
  cable2 = cable2
  tap = tap
  echo = echo
  amp = amp
  pan = pan
  Nodes = {outer, synth, reverb, cable, cable2}
  Kind <- MCKind
  Bases = {tap, echo, amp, pan}
  MaxExtra = 0
  MaxLength = 2
  Ends = {"sourcePath", "targetPath"}
  Top = top
  Casts <- MCCasts
  MaxKept = 1
  Unfit = {outer}
SYMMETRY Interchangeable
INVARIANTS
  ConnectionsHaveWires
  WiresHaveConnections
