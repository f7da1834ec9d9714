--------------------------- MODULE MCThreadedQueue ---------------------------
(* The two queues of the server: the audio thread feeds the feedback queue  *)
(* of the dsp engine, the midi engine's thread the midi input dispatcher.   *)
EXTENDS ThreadedQueue, TLC

CONSTANTS feedback, midi, audio_thread, midi_thread

MCTarget == (audio_thread :> feedback) @@ (midi_thread :> midi)
MCDestroyedAfter == (feedback :> {}) @@ (midi :> {feedback})
=============================================================================
