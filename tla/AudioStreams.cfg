SPECIFICATION Spec
CONSTANTS
  pc = pc
  card = card
  both = both
  mic = mic
  speaker = speaker
  in = in
  out = out
  Drivers = {pc, card}
  NoDriver = NoDriver
  Devices = {both, mic, speaker, in, out}
  NoDevice = NoDevice
  Available <- MCAvailable
  Usual <- MCUsual
  Twin <- MCTwin
  UsualDriver = pc
  Frames <- MCFrames
  Silence = Silence
  Block = 2
  Lengths = {2, 3}
INVARIANTS OneDriver AlwaysDriven BuffersReady
PROPERTIES ImplementsBoundedFifo
