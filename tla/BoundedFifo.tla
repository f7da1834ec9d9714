------------------------------ MODULE BoundedFifo ------------------------------
(***************************************************************************)
(* What the audio engine relies on between an input and an output stream   *)
(* that run at their own pace: frames come out in the order in which they  *)
(* went in.  What finds no room is dropped, and what is not there yet is   *)
(* heard as silence.  RingBuffer is shown to implement this specification. *)
(***************************************************************************)
EXTENDS Naturals, Sequences

CONSTANTS
  Frames,   (* what one frame of sound may be *)
  Silence,  (* the frame that is heard when there is none *)
  Block,    (* how many frames a stream takes or gives at a time *)
  Lengths   (* for how many frames there may be room *)

VARIABLES
  room,   (* for how many frames there is room now *)
  queue,  (* the frames that are waiting, oldest first *)
  heard   (* the block that was taken last *)

vars == <<room, queue, heard>>

Blocks == [1..Block -> Frames]

Init == room = 0 /\ queue = <<>> /\ heard = [i \in 1..Block |-> Silence]

Reset(n) == room' = n /\ queue' = <<>> /\ UNCHANGED heard

Put(block) ==
  \E n \in 0..Block :
    /\ n = Block \/ Len(queue) + n = room
    /\ Len(queue) + n <= room
    /\ queue' = queue \o [i \in 1..n |-> block[i]]
    /\ UNCHANGED <<room, heard>>

Take ==
  /\ heard' = [i \in 1..Block |-> IF i <= Len(queue) THEN queue[i] ELSE Silence]
  /\ queue' = SubSeq(queue, Block + 1, Len(queue))
  /\ UNCHANGED room

Next ==
  \/ \E n \in Lengths : Reset(n)
  \/ \E block \in Blocks : Put(block)
  \/ Take

Spec == Init /\ [][Next]_vars
=============================================================================
