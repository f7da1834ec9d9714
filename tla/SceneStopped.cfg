SPECIFICATION Spec
CONSTANTS
  a = a
  b = b
  one = one
  two = two
  verse = verse
  chorus = chorus
  Players = {1}
  Names = {a}
  Nowhere = Nowhere
  Scenes = {one}
  SceneNames = {verse}
  NoScene = NoScene
  Starts = {}
  Lengths = {}
  Switches = {}
  Ticks = {}
  Sanity = 2
  Leaps = {}
  Projects <- StopProjects
PROPERTIES
  StopsAtEnd
