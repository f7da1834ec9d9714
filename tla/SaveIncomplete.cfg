SPECIFICATION Spec
CONSTANTS
  box = box
  play = play
  oldPlay = oldPlay
  synth = synth
  Modules = {box, play, oldPlay, synth}
  Shipped = {box, play}
  BuiltIn = {box, play}
  Origin <- MCOrigin
  NodeIds <- MCNodeIds
  SameFileSystem = TRUE
  OwnFilesGo = TRUE
  Containers = {box}
  Stateless = {box, play, oldPlay}
  Values = {0, 1}
  MaxMade = 2
  MaxNodes = 3
  Received <- MCReceived
  Edited <- MCEdited
PROPERTIES
  OpensAsSaved
