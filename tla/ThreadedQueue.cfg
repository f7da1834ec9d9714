SPECIFICATION FairSpec
CONSTANTS
  feedback = feedback
  midi = midi
  audio_thread = audio_thread
  midi_thread = midi_thread
  Queues = {feedback, midi}
  Producers = {audio_thread, midi_thread}
  Target <- MCTarget
  DestroyedAfter <- MCDestroyedAfter
  MaxBatch = 2
  MaxPushes = 3
  SharedSemaphore = FALSE
INVARIANTS
  OnceInOrder
  EmptyWhenDestroyed
PROPERTIES
  EventuallyDelivered
  DestructorReturns
  ImplementsFifo
