------------------------------- MODULE RingBuffer -------------------------------
(***************************************************************************)
(* The ring buffer between the callback of an input stream, which writes,  *)
(* and that of an output stream, which reads (ring_buffer.cpp).  Each      *)
(* operation holds the buffer's mutex from its beginning to its end and is *)
(* one step.  A frame holds one sample for each channel.                   *)
(***************************************************************************)
EXTENDS Integers, Sequences

CONSTANTS
  Frames,   (* what one frame of sound may be *)
  Silence,  (* a frame of zeros *)
  Block,    (* CDspEngine::samples_per_buffer *)
  Lengths   (* the lengths that follow from the sample rates there are *)

ASSUME RingAssumption ==
  /\ Block \in Nat \ {0}
  /\ Lengths \subseteq Nat \ {0}

VARIABLES
  length,   (* m_buffer_frames *)
  data,     (* m_buffer, from 0 *)
  readPos,  (* m_read_pos *)
  used,     (* m_frames_used *)
  heard     (* the output stream's buffer, as it was last filled *)

ring == <<length, data, readPos, used, heard>>

Blocks == [1..Block -> Frames]

Least(m, n) == IF m <= n THEN m ELSE n

RingInit ==
  /\ length = 0 /\ readPos = 0 /\ used = 0
  /\ data = [i \in {} |-> Silence]
  /\ heard = [i \in 1..Block |-> Silence]

Recreate(n) ==
  /\ length' = n /\ readPos' = 0 /\ used' = 0
  /\ data' = [i \in 0..(n - 1) |-> Silence]
  /\ UNCHANGED heard

(* A variant: without the call of clear. *)
ResetIfChanged(n) == IF n = length THEN UNCHANGED ring ELSE Recreate(n)

(* set_number_of_channels and set_buffer_length recreate the buffer when   *)
(* something changes, and clear wipes it when nothing does.  They are one  *)
(* step here: a write between them is wiped, and there is no reader yet.   *)
Reset(n) == Recreate(n)

(* Frames that pass the end of the buffer go on at its beginning. *)
WriteFirst(n, block) ==
  LET end == readPos + used
      writePos == IF end >= length THEN end - length ELSE end
      unwrapped == Least(n, length - writePos)
  IN /\ data' = [i \in 0..(length - 1) |->
          IF i \in writePos..(writePos + unwrapped - 1) THEN block[i - writePos + 1]
          ELSE IF i < n - unwrapped THEN block[unwrapped + i + 1]
          ELSE data[i]]
     /\ used' = used + n
     /\ UNCHANGED <<length, readPos, heard>>

(* A variant: frames are written whether there is room or not. *)
WriteAll(block) == WriteFirst(IF length = 0 THEN 0 ELSE Block, block)

(* The frames that find no room are skipped. *)
Write(block) == WriteFirst(Least(Block, length - used), block)

Read ==
  LET given == Least(Block, used)
      unwrapped == Least(given, length - readPos)
      end == readPos + given
  IN /\ heard' = [i \in 1..Block |->
          IF i <= unwrapped THEN data[readPos + i - 1]
          ELSE IF i <= given THEN data[i - unwrapped - 1]
          ELSE Silence]
     /\ used' = used - given
     /\ readPos' = IF end >= length THEN end - length ELSE end
     /\ UNCHANGED <<length, data>>

RingNext ==
  \/ \E n \in Lengths : Reset(n)
  \/ \E block \in Blocks : Write(block)
  \/ Read

RingSpec == RingInit /\ [][RingNext]_ring

-----------------------------------------------------------------------------

(* What the buffer's fields are: its read position is in it, and it does   *)
(* not hold more than it has room for.                                     *)
RingOK ==
  /\ length \in Nat
  /\ readPos \in Nat
  /\ readPos < length \/ (readPos = 0 /\ length = 0)
  /\ used \in 0..length
  /\ data \in [0..(length - 1) -> Frames \cup {Silence}]
  /\ heard \in [1..Block -> Frames \cup {Silence}]

(* Where the frame is that is i places behind the one that is read next. *)
Place(i) == IF readPos + i >= length THEN readPos + i - length ELSE readPos + i

Content == [i \in 1..used |-> data[Place(i - 1)]]

Fifo == INSTANCE BoundedFifo WITH room <- length, queue <- Content

(* The wrapped positions of the ring (ring_buffer.cpp:129 and :172) lose,  *)
(* double or reorder no frame: the ring is a fifo of its length, whenever  *)
(* one side runs ahead of the other and by how much.                       *)
ImplementsBoundedFifo == Fifo!Spec
=============================================================================
