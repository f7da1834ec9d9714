---------------------------- MODULE MCAudioStreams ----------------------------
EXTENDS AudioStreams

CONSTANTS pc, card, both, mic, speaker, in, out

(* The usual driver has a device that serves both sides, one more for each *)
(* side, and defaults.  The other has two devices of one name, and no      *)
(* defaults.                                                               *)
MCAvailable ==
  [d \in {pc, card, NoDriver} |->
     CASE d = pc -> [input |-> {both, mic}, output |-> {both, speaker}]
       [] d = card -> [input |-> {in}, output |-> {out}]
       [] OTHER -> [input |-> {}, output |-> {}]]
MCUsual ==
  [d \in {pc, card} |-> IF d = pc THEN [input |-> both, output |-> speaker]
                        ELSE [input |-> NoDevice, output |-> NoDevice]]
MCTwin ==
  [d \in Devices |-> CASE d = both -> both [] d = in -> out [] d = out -> in [] OTHER -> NoDevice]
MCFrames == {0, 1} \X {1, 2}
=============================================================================
