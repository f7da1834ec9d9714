SPECIFICATION FairSpec
CONSTANTS
  none = none
  outer = outer
  inner = inner
  synth = synth
  reverb = reverb
  high = high
  low = low
  Nodes <- MCNodes
  Kind <- MCKind
  Order <- MCOrder
  Parent <- MCParent
  Above <- MCAbove
  Endpoints <- MCEndpoints
  OwnerOf <- MCOwnerOf
  ActiveOf <- MCActiveOf
  None = none
  Allowed <- MCAllowed
  Bangs = {"reset"}
  Hosted = {"synth", "reverb", "pitch", "level", "reset"}
  Settable = {"outer", "inner", "pitch", "reset"}
  Played = {"pitch"}
  Wirings <- MCAllWirings
  MaxFeedback <- MCMaxFeedback
  Beginnings <- MCBeginnings
INVARIANTS
  NoRecursion
  CheckerKnowsStack
  HostAgrees
  SwitchesInSeries
  TargetsFollow
  ActivatedFollow
PROPERTIES
  CommandEnds
