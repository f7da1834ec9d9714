SPECIFICATION FairSpec
CONSTANTS
  api1 = api1
  api2 = api2
  ApiThreads = {api1, api2}
  Feedback = feedback
  Dispatcher = dispatcher
  Player = player
  Audio = audio
  Destructor = destructor
  Nobody = nobody
INVARIANTS
  OneThreadInServer
  AlarmIsRight
  DspDeletedAlone
PROPERTIES
  SessionEnds
