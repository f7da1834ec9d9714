SPECIFICATION FairSpec
CONSTANTS
  a = a
  b = b
  one = one
  two = two
  verse = verse
  chorus = chorus
  Players = {1, 2}
  Names = {a, b}
  Nowhere = Nowhere
  Scenes = {one, two}
  SceneNames = {verse, chorus}
  NoScene = NoScene
  Starts <- MCStarts
  Lengths = {4}
  Switches = {"play", "active"}
  Ticks = {3}
  Sanity = 2
  Leaps <- MCLeaps
  Projects <- MCProjects
INVARIANTS
  PlayersShowScenes
  StatesFollowNodes
  LoopsWrap
PROPERTIES
  KeepsTime
  EndStops
