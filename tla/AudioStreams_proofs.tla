-------------------------- MODULE AudioStreams_proofs --------------------------
(***************************************************************************)
(* That the ring buffer is a bounded fifo for any block, lengths and       *)
(* frames, that the audio engine uses it as nothing else, and that the     *)
(* dsp engine is driven, and from one place at a time, for any drivers,    *)
(* devices and defaults, whichever of them can be opened.                  *)
(***************************************************************************)
EXTENDS AudioStreams, FiniteSetTheorems, TLAPS

(* A frame's place is in the buffer, and no two of the buffer's places     *)
(* that are less than its length apart are the same.                       *)
LEMMA PlaceInBuffer ==
  ASSUME RingOK, NEW i \in 0..(length - 1)
  PROVE  Place(i) \in 0..(length - 1)
  BY DEF RingOK, Place

(* The sequence of waiting frames, and what a place of it holds. *)
LEMMA ContentIsSequence ==
  RingOK => /\ Content \in Seq(Frames \cup {Silence})
            /\ Len(Content) = used
            /\ \A i \in 1..used : Content[i] = data[Place(i - 1)]
<1> SUFFICES ASSUME RingOK
             PROVE  /\ Content \in Seq(Frames \cup {Silence})
                    /\ Len(Content) = used
                    /\ \A i \in 1..used : Content[i] = data[Place(i - 1)]
  OBVIOUS
<1>1. \A i \in 1..used : data[Place(i - 1)] \in Frames \cup {Silence}
  <2> SUFFICES ASSUME NEW i \in 1..used
               PROVE  data[Place(i - 1)] \in Frames \cup {Silence}
    OBVIOUS
  <2>1. i - 1 \in 0..(length - 1)
    BY DEF RingOK
  <2> QED
    BY <2>1, PlaceInBuffer DEF RingOK
<1>2. used \in Nat
  BY DEF RingOK
<1>3. Content \in [1..used -> Frames \cup {Silence}]
  BY <1>1 DEF Content
<1> QED
  BY <1>2, <1>3 DEF Content

(* What a write of the first n frames of a block does to the buffer: the   *)
(* places behind those in use take the frames, the others keep theirs.     *)
LEMMA WriteLands ==
  ASSUME RingAssumption, RingOK,
         NEW block \in Blocks, NEW n \in 0..Block, used + n <= length,
         WriteFirst(n, block)
  PROVE  /\ data' \in [0..(length - 1) -> Frames \cup {Silence}]
         /\ \A i \in 0..(length - 1) :
              data'[Place(i)] = IF i >= used /\ i < used + n THEN block[i - used + 1]
                                ELSE data[Place(i)]
<1> DEFINE end == readPos + used
           writePos == IF end >= length THEN end - length ELSE end
           unwrapped == Least(n, length - writePos)
           Put(i) == IF i \in writePos..(writePos + unwrapped - 1) THEN block[i - writePos + 1]
                     ELSE IF i < n - unwrapped THEN block[unwrapped + i + 1]
                     ELSE data[i]
<1>1. data' = [i \in 0..(length - 1) |-> Put(i)]
  BY Zenon DEF WriteFirst
<1>2. /\ writePos \in Nat /\ unwrapped \in 0..n /\ unwrapped <= length - writePos
      /\ unwrapped = n \/ unwrapped = length - writePos
      /\ length > 0 => writePos < length
  BY DEF RingOK, RingAssumption, Least
<1>3. ASSUME NEW i \in 0..(length - 1)
      PROVE  Put(i) \in Frames \cup {Silence}
  <2>1. CASE i \in writePos..(writePos + unwrapped - 1)
    BY <1>2, <2>1 DEF Blocks, RingAssumption
  <2>2. CASE i \notin writePos..(writePos + unwrapped - 1) /\ i < n - unwrapped
    <3>1. unwrapped + i + 1 \in 1..Block
      BY <1>2, <2>2 DEF RingAssumption
    <3> HIDE DEF writePos, unwrapped
    <3> QED
      BY <2>2, <3>1 DEF Blocks
  <2>3. CASE i \notin writePos..(writePos + unwrapped - 1) /\ ~(i < n - unwrapped)
    <3> HIDE DEF writePos, unwrapped
    <3> QED
      BY <2>3 DEF RingOK
  <2> QED
    BY <2>1, <2>2, <2>3
<1>4. data' \in [0..(length - 1) -> Frames \cup {Silence}]
  <2> HIDE DEF Put
  <2> QED
    BY <1>1, <1>3
<1>5. ASSUME NEW i \in 0..(length - 1)
      PROVE  data'[Place(i)] = IF i >= used /\ i < used + n THEN block[i - used + 1]
                               ELSE data[Place(i)]
  <2>1. Place(i) \in 0..(length - 1)
    BY PlaceInBuffer
  <2>2. data'[Place(i)] = Put(Place(i))
    <3> HIDE DEF Put
    <3> QED
      BY <1>1, <2>1
  <2>3. CASE i >= used /\ i < used + n
    <3>1. CASE Place(i) \in writePos..(writePos + unwrapped - 1)
      <4>1. Place(i) - writePos = i - used
        BY <2>3, <3>1, <1>2 DEF Place, RingOK, RingAssumption
      <4> QED
        BY <4>1, <3>1, <2>2, <2>3
    <3>2. CASE Place(i) \notin writePos..(writePos + unwrapped - 1)
      <4>1. readPos + used < length
        <5> SUFFICES ASSUME readPos + used >= length
                     PROVE  FALSE
          BY DEF RingOK
        <5>1. /\ writePos = readPos + used - length
              /\ Place(i) = readPos + i - length
          BY <2>3 DEF Place, RingOK
        <5>2. unwrapped = n
          BY <5>1, <1>2 DEF RingOK
        <5> QED
          BY <5>1, <5>2, <2>3, <3>2 DEF RingOK
      <4>2. writePos = readPos + used
        BY <4>1 DEF RingOK
      <4>3. readPos + i >= length
        BY <4>2, <3>2, <2>3, <1>2 DEF Place, RingOK
      <4>4. Place(i) = readPos + i - length
        BY <4>3 DEF Place
      <4>5. unwrapped = length - writePos
        BY <4>2, <4>3, <2>3, <1>2 DEF RingOK
      <4>6. /\ Place(i) < n - unwrapped
            /\ unwrapped + Place(i) = i - used
        BY <4>2, <4>4, <4>5, <2>3 DEF RingOK
      <4> QED
        BY <4>6, <3>2, <2>2, <2>3
    <3> QED
      BY <3>1, <3>2
  <2>4. CASE ~(i >= used /\ i < used + n)
    <3>1. /\ Place(i) \notin writePos..(writePos + unwrapped - 1)
          /\ ~(Place(i) < n - unwrapped)
      BY <2>4, <1>2 DEF Place, RingOK, RingAssumption
    <3> QED
      BY <3>1, <2>2, <2>4
  <2> QED
    BY <2>3, <2>4
<1> QED
  BY <1>4, <1>5

(* The fields stay what they are. *)
LEMMA RingStarts == RingAssumption /\ RingInit => RingOK
  BY DEF RingAssumption, RingInit, RingOK

LEMMA RingKept ==
  ASSUME RingAssumption, RingOK, [RingNext]_ring
  PROVE  RingOK'
<1>1. ASSUME NEW m \in Lengths, Reset(m) PROVE RingOK'
  <2>1. m \in Nat /\ m > 0
    BY DEF RingAssumption
  <2> QED
    BY <1>1, <2>1 DEF Reset, Recreate, RingOK
<1>2. ASSUME NEW block \in Blocks, Write(block) PROVE RingOK'
  <2> DEFINE n == Least(Block, length - used)
  <2>1. n \in 0..Block /\ used + n <= length
    BY DEF RingOK, RingAssumption, Least
  <2>2. WriteFirst(n, block)
    BY <1>2 DEF Write
  <2>3. length' = length /\ readPos' = readPos /\ heard' = heard /\ used' = used + n
    BY <2>2 DEF WriteFirst
  <2> HIDE DEF n
  <2>4. data' \in [0..(length - 1) -> Frames \cup {Silence}]
    BY <2>1, <2>2, WriteLands
  <2> QED
    BY <2>1, <2>3, <2>4 DEF RingOK
<1>3. ASSUME Read PROVE RingOK'
  <2> DEFINE given == Least(Block, used)
             unwrapped == Least(given, length - readPos)
  <2>1. /\ given \in 0..Block /\ given <= used
        /\ unwrapped \in 0..given /\ unwrapped <= length - readPos
        /\ unwrapped = given \/ unwrapped = length - readPos
    BY DEF RingOK, RingAssumption, Least
  <2>2. ASSUME NEW i \in 1..Block
        PROVE  (IF i <= unwrapped THEN data[readPos + i - 1]
                ELSE IF i <= given THEN data[i - unwrapped - 1]
                ELSE Silence) \in Frames \cup {Silence}
    <3> HIDE DEF given, unwrapped
    <3>1. CASE i <= unwrapped
      BY <2>1, <3>1 DEF RingOK
    <3>2. CASE ~(i <= unwrapped) /\ i <= given
      BY <2>1, <3>2 DEF RingOK
    <3> QED
      BY <3>1, <3>2
  <2>3. heard' \in [1..Block -> Frames \cup {Silence}]
    BY <1>3, <2>2 DEF Read
  <2>4. length' = length /\ data' = data /\ used' = used - given
    BY <1>3 DEF Read
  <2>5. readPos' = IF readPos + given >= length THEN readPos + given - length
                   ELSE readPos + given
    BY <1>3, <2>1 DEF Read, RingOK
  <2> HIDE DEF given, unwrapped
  <2> QED
    BY <2>1, <2>3, <2>4, <2>5 DEF RingOK
<1>4. CASE UNCHANGED ring
  BY <1>4 DEF ring, RingOK
<1> QED
  BY <1>1, <1>2, <1>3, <1>4 DEF RingNext

-----------------------------------------------------------------------------
(* The steps of the ring are those of the fifo. *)

LEMMA ResetIsReset ==
  ASSUME RingAssumption, RingOK, NEW m \in Lengths, Reset(m)
  PROVE  Fifo!Reset(m)
<1>1. used' = 0 /\ length' = m /\ heard' = heard
  BY DEF Reset, Recreate
<1>2. Content' = <<>>
  BY <1>1 DEF Content
<1> QED
  BY <1>1, <1>2 DEF Fifo!Reset

LEMMA WriteIsPut ==
  ASSUME RingAssumption, RingOK, NEW block \in Blocks, Write(block)
  PROVE  Fifo!Put(block)
<1> DEFINE n == Least(Block, length - used)
           Taken == [i \in 1..n |-> block[i]]
<1>1. /\ n \in 0..Block /\ used + n <= length
      /\ n = Block \/ used + n = length
  BY DEF RingOK, RingAssumption, Least
<1>2. WriteFirst(n, block)
  BY DEF Write
<1>3. length' = length /\ readPos' = readPos /\ heard' = heard /\ used' = used + n
  BY <1>2 DEF WriteFirst
<1>4. RingOK'
  BY RingKept DEF RingNext
<1> HIDE DEF n
<1>5. \A i \in 0..(length - 1) :
        data'[Place(i)] = IF i >= used /\ i < used + n THEN block[i - used + 1]
                          ELSE data[Place(i)]
  BY <1>1, <1>2, WriteLands
<1>6. /\ Content' \in Seq(Frames \cup {Silence})
      /\ Len(Content') = used + n
      /\ \A i \in 1..(used + n) : Content'[i] = data'[Place(i - 1)]
  <2>1. (/\ Content \in Seq(Frames \cup {Silence})
         /\ Len(Content) = used
         /\ \A i \in 1..used : Content[i] = data[Place(i - 1)])'
    BY <1>4, ContentIsSequence, PTL
  <2> QED
    BY <2>1, <1>3 DEF Place
<1>7. /\ Content \in Seq(Frames \cup {Silence})
      /\ Len(Content) = used
      /\ \A i \in 1..used : Content[i] = data[Place(i - 1)]
  BY ContentIsSequence
<1>8. Taken \in Seq(Frames \cup {Silence}) /\ Len(Taken) = n
  <2>1. Taken \in [1..n -> Frames \cup {Silence}]
    BY <1>1 DEF Blocks, RingAssumption
  <2> QED
    BY <2>1, <1>1 DEF RingAssumption
<1>9. ASSUME NEW i \in 1..(used + n)
      PROVE  Content'[i] = (Content \o Taken)[i]
  <2>1. i - 1 \in 0..(length - 1) /\ used \in Nat
    BY <1>1 DEF RingOK, RingAssumption
  <2>2. Content'[i] = IF i - 1 >= used /\ i - 1 < used + n THEN block[i - 1 - used + 1]
                      ELSE data[Place(i - 1)]
    BY <2>1, <1>5, <1>6
  <2>3. CASE i <= used
    <3>1. Content'[i] = Content[i]
      BY <2>1, <2>2, <2>3, <1>7
    <3>2. (Content \o Taken)[i] = Content[i]
      BY <1>7, <1>8, <2>3
    <3> QED
      BY <3>1, <3>2
  <2>4. CASE i > used
    <3>1. Content'[i] = block[i - used]
      BY <2>1, <2>2, <2>4, <1>1 DEF RingAssumption
    <3>2. (Content \o Taken)[i] = Taken[i - used]
      BY <1>7, <1>8, <1>1, <2>1, <2>4 DEF RingAssumption
    <3>3. Taken[i - used] = block[i - used]
      BY <1>1, <2>1, <2>4 DEF RingAssumption
    <3> QED
      BY <3>1, <3>2, <3>3
  <2>5. i <= used \/ i > used
    BY <2>1, <1>1 DEF RingAssumption
  <2> QED
    BY <2>3, <2>4, <2>5, Zenon
<1>10. Content' = Content \o Taken
  <2> DEFINE joined == Content \o Taken
  <2>1. joined \in Seq(Frames \cup {Silence}) /\ Len(joined) = used + n
    BY <1>1, <1>7, <1>8
  <2>2. \A i \in 1..(used + n) : Content'[i] = joined[i]
    BY <1>9
  <2> HIDE DEF joined, Taken
  <2>3. Content' = joined
    BY <2>1, <2>2, <1>6
  <2> QED
    BY <2>3 DEF joined
<1> QED
  BY <1>1, <1>3, <1>7, <1>10 DEF Fifo!Put

LEMMA ReadIsTake ==
  ASSUME RingAssumption, RingOK, Read
  PROVE  Fifo!Take
<1> DEFINE given == Least(Block, used)
           unwrapped == Least(given, length - readPos)
           Heard(i) == IF i <= unwrapped THEN data[readPos + i - 1]
                       ELSE IF i <= given THEN data[i - unwrapped - 1]
                       ELSE Silence
<1>1. /\ given \in 0..Block /\ given <= used
      /\ given = Block \/ given = used
      /\ unwrapped \in 0..given /\ unwrapped <= length - readPos
      /\ unwrapped = given \/ unwrapped = length - readPos
  BY DEF RingOK, RingAssumption, Least
<1>2. length' = length /\ data' = data /\ used' = used - given
  BY DEF Read
<1>3. readPos' = IF readPos + given >= length THEN readPos + given - length
                 ELSE readPos + given
  BY <1>1 DEF Read, RingOK
<1>4. heard' = [i \in 1..Block |-> Heard(i)]
  BY DEF Read
<1>5. RingOK'
  BY RingKept DEF RingNext
<1>6. /\ Content \in Seq(Frames \cup {Silence})
      /\ Len(Content) = used
      /\ \A i \in 1..used : Content[i] = data[Place(i - 1)]
  BY ContentIsSequence
<1>7. /\ Content' \in Seq(Frames \cup {Silence})
      /\ Len(Content') = used'
      /\ \A i \in 1..used' : Content'[i] = (data[Place(i - 1)])'
  <2>1. (/\ Content \in Seq(Frames \cup {Silence})
         /\ Len(Content) = used
         /\ \A i \in 1..used : Content[i] = data[Place(i - 1)])'
    BY <1>5, ContentIsSequence, PTL
  <2> QED
    BY <2>1
<1>8. ASSUME NEW i \in 1..Block
      PROVE  Heard(i) = IF i <= used THEN Content[i] ELSE Silence
  <2>1. CASE i <= given
    <3>1. Content[i] = data[Place(i - 1)]
      BY <1>1, <1>6, <2>1 DEF RingOK, RingAssumption
    <3>2. CASE i <= unwrapped
      BY <1>1, <2>1, <3>1, <3>2 DEF Place, RingOK, RingAssumption
    <3>3. CASE i > unwrapped
      <4>1. unwrapped = length - readPos
        BY <1>1, <2>1, <3>3 DEF RingOK, RingAssumption
      <4>2. Place(i - 1) = i - unwrapped - 1
        BY <4>1, <3>3 DEF Place, RingOK, RingAssumption
      <4> HIDE DEF given, unwrapped
      <4> QED
        BY <1>1, <2>1, <3>1, <3>3, <4>2 DEF RingOK, RingAssumption
    <3> HIDE DEF given, unwrapped
    <3> QED
      BY <3>2, <3>3, <1>1 DEF RingAssumption
  <2>2. CASE i > given
    BY <1>1, <2>2 DEF RingOK, RingAssumption
  <2> HIDE DEF given, unwrapped
  <2> QED
    BY <2>1, <2>2, <1>1 DEF RingAssumption
<1>9. heard' = [i \in 1..Block |-> IF i <= Len(Content) THEN Content[i] ELSE Silence]
  <2> HIDE DEF Heard
  <2> QED
    BY <1>4, <1>6, <1>8
<1>10. Content' = SubSeq(Content, Block + 1, Len(Content))
  <2> DEFINE rest == SubSeq(Content, Block + 1, used)
  <2> HIDE DEF given, unwrapped
  <2>1. /\ rest \in Seq(Frames \cup {Silence})
        /\ Len(rest) = used - given
        /\ \A i \in 1..(used - given) : rest[i] = Content[Block + i]
    <3>1. used \in Nat /\ Block \in Nat /\ given \in Nat
      BY <1>1 DEF RingOK, RingAssumption
    <3>2. CASE given = Block
      <4>1. rest = [i \in 1..(used - Block) |-> Content[Block + i]]
        BY <1>1, <1>6, <3>1, <3>2
      <4>2. \A i \in 1..(used - Block) : Content[Block + i] \in Frames \cup {Silence}
        BY <1>6, <3>1
      <4>3. used - Block \in Nat
        BY <1>1, <3>1, <3>2
      <4> HIDE DEF rest
      <4>4. rest \in [1..(used - Block) -> Frames \cup {Silence}]
        BY <4>1, <4>2
      <4>5. rest \in Seq(Frames \cup {Silence}) /\ Len(rest) = used - Block
        BY <4>3, <4>4
      <4> QED
        BY <4>1, <4>5, <3>2
    <3>3. CASE given = used /\ given # Block
      <4>1. Block + 1 > used
        BY <1>1, <3>1, <3>3
      <4>2. rest = <<>>
        BY <4>1, <3>1, <1>6
      <4> HIDE DEF rest
      <4> QED
        BY <4>2, <3>1, <3>3
    <3> QED
      BY <1>1, <3>2, <3>3
  <2>2. ASSUME NEW i \in 1..(used - given)
        PROVE  Content'[i] = rest[i]
    <3>1. given = Block /\ used \in Nat /\ Block \in Nat
      BY <1>1 DEF RingOK, RingAssumption
    <3>2. Content'[i] = (data[Place(i - 1)])'
      BY <1>2, <1>7
    <3>3. (data[Place(i - 1)])' = data[Place(Block + i - 1)]
      BY <1>2, <1>3, <3>1 DEF Place, RingOK
    <3>4. Content[Block + i] = data[Place(Block + i - 1)]
      BY <1>6, <3>1
    <3> QED
      BY <2>1, <3>2, <3>3, <3>4
  <2> HIDE DEF rest
  <2>3. Content' = rest
    BY <1>2, <1>7, <2>1, <2>2
  <2> QED
    BY <2>3, <1>6 DEF rest
<1> QED
  BY <1>2, <1>9, <1>10 DEF Fifo!Take

(* A ring buffer is a fifo, whoever writes and reads it and when. *)
THEOREM RingImplementsFifo == RingSpec => Fifo!Spec
<1>1. RingInit => Fifo!Init
  <2> SUFFICES ASSUME RingInit PROVE Fifo!Init
    OBVIOUS
  <2>1. used = 0
    BY DEF RingInit
  <2>2. Content = <<>>
    BY <2>1 DEF Content
  <2> QED
    BY <2>2 DEF RingInit, Fifo!Init
<1>2. RingOK /\ [RingNext]_ring => RingOK'
  BY RingKept, RingAssumption
<1>3. RingOK /\ [RingNext]_ring => [Fifo!Next]_(Fifo!vars)
  <2> SUFFICES ASSUME RingOK, [RingNext]_ring
               PROVE  [Fifo!Next]_(Fifo!vars)
    OBVIOUS
  <2>1. ASSUME NEW m \in Lengths, Reset(m) PROVE Fifo!Next
    BY <2>1, ResetIsReset, RingAssumption DEF Fifo!Next
  <2>2. ASSUME NEW block \in Blocks, Write(block) PROVE Fifo!Next
    <3>1. block \in Fifo!Blocks
      BY DEF Blocks, Fifo!Blocks
    <3> QED
      BY <2>2, <3>1, WriteIsPut, RingAssumption DEF Fifo!Next
  <2>3. ASSUME Read PROVE Fifo!Next
    BY <2>3, ReadIsTake, RingAssumption DEF Fifo!Next
  <2>4. CASE UNCHANGED ring
    BY <2>4 DEF ring, Fifo!vars, Content, Place
  <2> QED
    BY <2>1, <2>2, <2>3, <2>4 DEF RingNext
<1>4. RingInit => RingOK
  BY RingStarts, RingAssumption
<1> QED
  BY <1>1, <1>2, <1>3, <1>4, PTL DEF RingSpec, Fifo!Spec

-----------------------------------------------------------------------------
(* The engine's steps leave the ring alone, or are its own. *)

Tagged == opening \in {0, 1}

LEMMA EngineUsesRing ==
  ASSUME Tagged, [Next]_vars
  PROVE  Tagged' /\ [RingNext]_ring
<1>1. CASE Control
  <2>1. CASE SetDriver \/ SetDevice \/ SetFormat \/ RestoreDefaults \/ Destroy
    BY <2>1 DEF SetDriver, SetDevice, SetFormat, RestoreDefaults, Destroy, Call, Tagged
  <2>2. ASSUME NEW kind \in Kinds, Close(kind) \/ Forget(kind) \/ OpenStream(kind) \/ Start(kind)
        PROVE  Tagged' /\ [RingNext]_ring
    BY <2>2 DEF Close, Forget, OpenStream, Start, Tagged
  <2>3. ASSUME NEW d \in Drivers \cup {NoDriver}, Choose(d)
        PROVE  Tagged' /\ [RingNext]_ring
    BY <2>3 DEF Choose, Tagged
  <2>4. ASSUME NEW side \in Sides,
               Default(side) \/ \E d \in Devices \cup {NoDevice} : Select(side, d)
        PROVE  Tagged' /\ [RingNext]_ring
    BY <2>4 DEF Default, Select, Tagged
  <2>5. CASE Tell \/ Join \/ Free \/ Open \/ Buffer \/ End
    BY <2>5 DEF Tell, Join, Free, Open, Buffer, End, Tagged
  <2>6. CASE InitializeRing
    BY <2>6 DEF InitializeRing, RingNext, Tagged
  <2>7. CASE Run(<<"Run", "thread">>) \/ Run(<<"RunIfNone", "thread">>)
    BY <2>7 DEF Run, Tagged
  <2> QED
    BY <1>1, <2>1, <2>2, <2>3, <2>4, <2>5, <2>6, <2>7 DEF Control
<1>2. CASE Callbacks
  <2>1. CASE InputCall \/ OutputCall \/ DuplexCall \/ ThreadCycle \/ ThreadEnd
    BY <2>1 DEF InputCall, OutputCall, DuplexCall, ThreadCycle, ThreadEnd, engine, Tagged
  <2>2. CASE InputReturn
    <3>1. Made \in Blocks
      BY EngineAssumption DEF Made, Blocks, Tagged
    <3> QED
      BY <2>2, <3>1 DEF InputReturn, RingNext, engine, Tagged
  <2>3. CASE OutputReads
    BY <2>3 DEF OutputReads, RingNext, engine, Tagged
  <2>4. ASSUME NEW c \in {"output", "duplex", "thread"}, Return(c)
        PROVE  Tagged' /\ [RingNext]_ring
    BY <2>4 DEF Return, engine, Tagged
  <2> QED
    BY <1>2, <2>1, <2>2, <2>3, <2>4 DEF Callbacks
<1>3. CASE Done \/ UNCHANGED vars
  BY <1>3 DEF Done, vars, engine, Tagged
<1> QED
  BY <1>1, <1>2, <1>3 DEF Next

(* What the input stream's callback writes comes out of the output         *)
(* stream's in order, whatever is opened, closed and selected meanwhile    *)
(* (portaudio_engine.cpp:906, :980, :1009).                                *)
THEOREM EngineImplementsFifo == Spec => ImplementsBoundedFifo
<1>1. Init => RingInit /\ Tagged
  BY DEF Init, Tagged
<1>2. Tagged /\ [Next]_vars => Tagged' /\ [RingNext]_ring
  BY EngineUsesRing
<1>3. Spec => RingSpec
  BY <1>1, <1>2, PTL DEF Spec, RingSpec
<1> QED
  BY <1>3, RingImplementsFifo DEF ImplementsBoundedFifo

-----------------------------------------------------------------------------
(* Who drives the dsp engine.  The steps that are left of a call are       *)
(* reasoned about as the statements of a program: what holds before the    *)
(* next one (Ready), and which may stand behind which (Chained).           *)

Gone(kinds) == \A kind \in kinds : stream[kind] = "closed" /\ ~pointer[kind]

Quiet == Gone(Kinds) /\ ~thread

(* The thread runs unless there is a stream, or nothing was asked for.     *)
Settled == asked => (thread <=> \A kind \in Kinds : ~pointer[kind])

Fresh == \A i \in 1..used : Content[i][1] = opening

OutputReady == "process" \in buffers /\ length > 0 /\ Fresh

RunStep == <<"Run", "thread">>

(* "none" has been chosen, and the thread is about to be run. *)
Awaited ==
  \E i \in 2..3 : i \in DOMAIN todo /\ todo[i] = RunStep

(* What holds when a step is the next. *)
Ready(step) ==
  /\ step[1] \in {"Close", "Forget"} =>
       /\ step[2] # "input" => Gone({"input"})
       /\ step[2] = "duplex" => Gone({"output"})
  /\ step[1] = "Forget" => stream[step[2]] = "closed"
  /\ step[1] \in {"Tell", "Join"} => Gone(Kinds)
  /\ step[1] \in {"Free", "Choose", "Select", "Open"} => Quiet
  /\ step[1] = "OpenStream" =>
       /\ Gone({step[2], "output", "duplex"}) /\ ~thread
       /\ IF step[2] = "output" THEN OutputReady ELSE Quiet
  /\ step[1] = "Start" =>
       /\ stream[step[2]] = "open"
       /\ step[2] = "input" => Gone({"output", "duplex"})
  /\ step[1] \in {"Buffer", "Ring"} => Gone({"output", "duplex"}) /\ ~thread
  /\ step[1] = "Ring" => "process" \in buffers
  /\ step[1] = "Default" => Settled \/ Awaited

Settles(step) == step[1] = "Default" \/ step = <<"Close", "input">>

(* Which step may stand behind which. *)
Then(step, next) ==
  /\ step[1] = "Close" => next = <<"Forget", step[2]>>
  /\ step = <<"Forget", "input">> => next = <<"Close", "output">>
  /\ step = <<"Forget", "output">> => next = <<"Close", "duplex">>
  /\ step = <<"Forget", "duplex">> => next = <<"Tell", "thread">>
  /\ step[1] = "Tell" => next = <<"Join", "thread">>
  /\ step[1] = "Join" => next = <<"Free", "buffers">>
  /\ step[1] = "Free" => next[1] \in {"Choose", "Select", "Open", "End"}
  /\ step[1] = "Choose" => next[1] = "Default"
  /\ step[1] = "Select" => next[1] = "Open"
  /\ step[1] \in {"Open", "RunIfNone", "Run"} => Settles(next)
  /\ step[1] = "Default" => Settles(next) \/ next = RunStep
  /\ step[1] = "OpenStream" => next = <<"Start", step[2]>>
  /\ step = <<"Start", "input">> => next[1] \in {"Buffer", "RunIfNone"}
  /\ step[1] = "Start" /\ step[2] # "input" => next[1] = "RunIfNone"
  /\ step[1] \in {"Buffer", "Ring"} => next = <<"OpenStream", "output">>
  /\ step[1] # "End"

MayEnd(step) == step[1] \in {"Open", "RunIfNone", "Run", "Default", "End"}

Chained(steps) ==
  \A i \in DOMAIN steps :
    IF i = Len(steps) THEN MayEnd(steps[i]) ELSE Then(steps[i], steps[i + 1])

ChooseNone == <<"Choose", NoDriver>>

(* The thread is run as the last step of choosing "none". *)
RunsForNone ==
  /\ \A i \in DOMAIN todo : todo[i] = RunStep =>
       \/ /\ i <= 3 /\ driver = NoDriver /\ Quiet
          /\ \A j \in 1..(i - 1) : todo[j][1] = "Default"
       \/ /\ i > 3 /\ todo[i - 3] = ChooseNone
          /\ todo[i - 2][1] = "Default" /\ todo[i - 1][1] = "Default"
  /\ \A i \in DOMAIN todo : todo[i] = ChooseNone =>
       i + 3 \in DOMAIN todo /\ todo[i + 3] = RunStep

(* What is always so of the streams ...                                    *)
StreamsInv ==
  /\ \A kind \in Kinds : stream[kind] # "closed" => pointer[kind]
  /\ pointer["duplex"] => ~pointer["input"] /\ ~pointer["output"]
  /\ thread => \A kind \in Kinds : ~pointer[kind]
  /\ stream["output"] # "closed" => OutputReady

(* ... and of those who call.                                              *)
CallsInv ==
  /\ \A kind \in Kinds : doing[kind] # "nothing" => stream[kind] = "running"
  /\ doing["output"] # "nothing" => ~pointer["input"] /\ "dummy" \in buffers
  /\ doing["input"] = "mixing" => "process" \in buffers
  /\ doing["thread"] # "nothing" => thread

StreamTypes ==
  /\ stream \in [Kinds -> {"closed", "open", "running"}]
  /\ pointer \in [Kinds -> BOOLEAN]
  /\ thread \in BOOLEAN
  /\ doing \in [Kinds \cup {"thread"} -> {"nothing", "mixing", "pumping", "ended"}]
  /\ \E S : todo \in Seq(S)

TodoInv ==
  /\ Chained(todo)
  /\ todo # <<>> => Ready(Head(todo))
  /\ RunsForNone
  /\ life = "up" /\ todo = <<>> => Settled

EngineInv ==
  /\ Tagged /\ RingOK
  /\ StreamTypes /\ StreamsInv /\ CallsInv /\ TodoInv

-----------------------------------------------------------------------------
(* The steps of a call *)

SeqTodo == \E S : todo \in Seq(S)

(* A step that is done, and puts nothing in its place.                     *)
LEMMA Advance ==
  ASSUME SeqTodo, Chained(todo), NEW step, Take(step, <<>>)
  PROVE  /\ SeqTodo' /\ Chained(todo')
         /\ DOMAIN todo' = 1..(Len(todo) - 1) /\ DOMAIN todo = 1..Len(todo) /\ Len(todo) \in Nat \ {0}
         /\ \A i \in DOMAIN todo' : todo'[i] = todo[i + 1]
         /\ todo[1] = step
         /\ todo' = <<>> => MayEnd(step)
         /\ todo' # <<>> => Then(step, Head(todo'))
<1>1. PICK S : todo \in Seq(S)
  BY DEF SeqTodo
<1>2. todo # <<>> /\ Head(todo) = step /\ todo' = Tail(todo)
  <2>1. Tail(todo) \in Seq(S)
    BY <1>1 DEF Take
  <2> QED
    BY <2>1 DEF Take
<1>3. /\ DOMAIN todo' = 1..(Len(todo) - 1) /\ DOMAIN todo = 1..Len(todo) /\ Len(todo) \in Nat \ {0}
      /\ Len(todo') = Len(todo) - 1
      /\ todo' \in Seq(S) /\ todo[1] = step
      /\ \A i \in DOMAIN todo' : todo'[i] = todo[i + 1]
  BY <1>1, <1>2
<1>4. Chained(todo')
  BY <1>3 DEF Chained
<1>5. todo' = <<>> => MayEnd(step)
  BY <1>3 DEF Chained
<1>6. ASSUME todo' # <<>> PROVE Then(step, Head(todo'))
  <2>1. Len(todo) > 1 /\ Head(todo') = todo[2]
    BY <1>3, <1>6
  <2> QED
    BY <1>3, <2>1 DEF Chained
<1> QED
  BY <1>3, <1>4, <1>5, <1>6 DEF SeqTodo

(* A step that puts others in its place.                                   *)
LEMMA Expand ==
  ASSUME SeqTodo, Chained(todo), NEW step, NEW more, Take(step, more),
         NEW S, more \in Seq(S), more # <<>>,
         \A i \in 1..(Len(more) - 1) : Then(more[i], more[i + 1]),
         MayEnd(step) => MayEnd(more[Len(more)]),
         1 < Len(todo) => Then(more[Len(more)], todo[2])
  PROVE  /\ SeqTodo' /\ Chained(todo')
         /\ DOMAIN todo' = 1..(Len(more) + Len(todo) - 1)
         /\ DOMAIN todo = 1..Len(todo) /\ Len(todo) \in Nat \ {0}
         /\ \A i \in DOMAIN todo' :
              todo'[i] = IF i <= Len(more) THEN more[i] ELSE todo[i - Len(more) + 1]
         /\ todo[1] = step
         /\ todo' # <<>> /\ Head(todo') = more[1]
<1>1. PICK T : todo \in Seq(T)
  BY DEF SeqTodo
<1>2. todo # <<>> /\ Head(todo) = step /\ todo' = more \o Tail(todo)
  BY DEF Take
<1>3. /\ more \in Seq(S \cup T) /\ todo \in Seq(S \cup T)
      /\ Len(more) \in Nat \ {0} /\ DOMAIN more = 1..Len(more)
  BY <1>1
<1>4. /\ DOMAIN todo = 1..Len(todo) /\ Len(todo) \in Nat \ {0} /\ todo[1] = step
      /\ Tail(todo) \in Seq(S \cup T) /\ Len(Tail(todo)) = Len(todo) - 1
      /\ \A i \in 1..(Len(todo) - 1) : Tail(todo)[i] = todo[i + 1]
  BY <1>2, <1>3
<1>5. /\ todo' \in Seq(S \cup T) /\ Len(todo') = Len(more) + Len(todo) - 1
      /\ DOMAIN todo' = 1..(Len(more) + Len(todo) - 1)
      /\ \A i \in 1..Len(todo') : todo'[i] = IF i <= Len(more) THEN more[i] ELSE Tail(todo)[i - Len(more)]
  BY <1>2, <1>3, <1>4
<1>6. \A i \in DOMAIN todo' :
        todo'[i] = IF i <= Len(more) THEN more[i] ELSE todo[i - Len(more) + 1]
  BY <1>3, <1>4, <1>5
<1>7. Chained(todo')
  <2> SUFFICES ASSUME NEW i \in 1..Len(todo')
               PROVE  IF i = Len(todo') THEN MayEnd(todo'[i]) ELSE Then(todo'[i], todo'[i + 1])
    BY <1>5 DEF Chained
  <2>1. CASE i < Len(more)
    BY <1>3, <1>4, <1>5, <1>6, <2>1
  <2>2. CASE i = Len(more)
    <3>1. Len(todo) = 1 \/ 1 < Len(todo)
      BY <1>4
    <3>2. CASE Len(todo) = 1
      BY <1>3, <1>4, <1>5, <1>6, <2>2, <3>2 DEF Chained
    <3>3. CASE 1 < Len(todo)
      BY <1>3, <1>4, <1>5, <1>6, <2>2, <3>3
    <3> QED
      BY <3>1, <3>2, <3>3
  <2>4. CASE i > Len(more)
    <3> DEFINE j == i - Len(more) + 1
    <3>1. j \in 2..Len(todo) /\ todo'[i] = todo[j]
      BY <1>3, <1>4, <1>5, <1>6, <2>4
    <3>2. i = Len(todo') <=> j = Len(todo)
      BY <1>3, <1>4, <1>5
    <3>3. i # Len(todo') => todo'[i + 1] = todo[j + 1]
      <4>1. i # Len(todo') => /\ i + 1 \in DOMAIN todo' /\ ~(i + 1 <= Len(more))
                              /\ (i + 1) - Len(more) + 1 = j + 1
        <5>1. /\ Len(more) \in Nat /\ Len(todo) \in Nat /\ i \in Nat /\ i <= Len(todo')
              /\ Len(todo') = Len(more) + Len(todo) - 1 /\ DOMAIN todo' = 1..Len(todo')
          BY <1>3, <1>4, <1>5
        <5> HIDE DEF j
        <5>2. j = i - Len(more) + 1
          BY DEF j
        <5>3. i # Len(todo') => i + 1 \in 1..Len(todo')
          BY <5>1
        <5>4. ~(i + 1 <= Len(more)) /\ (i + 1) - Len(more) + 1 = j + 1
          BY <5>1, <5>2, <2>4
        <5> QED
          BY <5>1, <5>3, <5>4
      <4> QED
        BY <1>6, <4>1
    <3> QED
      BY <1>4, <3>1, <3>2, <3>3 DEF Chained
  <2>5. Len(more) \in Nat /\ i \in Nat
    BY <1>3, <1>4, <1>5
  <2> QED
    BY <2>1, <2>2, <2>4, <2>5
<1> QED
  BY <1>3, <1>4, <1>5, <1>6, <1>7 DEF SeqTodo

(* What is said of the run of the thread stays so when a step is done ...  *)
LEMMA RunsAdvance ==
  ASSUME SeqTodo, Chained(todo), RunsForNone, NEW step, Take(step, <<>>),
         step = ChooseNone => driver' = NoDriver /\ Quiet',
         step[1] = "Default" /\ driver = NoDriver /\ Quiet => driver' = NoDriver /\ Quiet'
  PROVE  RunsForNone'
<1>1. /\ DOMAIN todo' = 1..(Len(todo) - 1) /\ DOMAIN todo = 1..Len(todo)
      /\ Len(todo) \in Nat \ {0} /\ todo[1] = step
      /\ \A i \in DOMAIN todo' : todo'[i] = todo[i + 1]
  BY Advance
<1>2. ASSUME NEW i \in DOMAIN todo', todo'[i] = RunStep
      PROVE  \/ /\ i <= 3 /\ driver' = NoDriver /\ Quiet'
                /\ \A j \in 1..(i - 1) : todo'[j][1] = "Default"
             \/ /\ i > 3 /\ todo'[i - 3] = ChooseNone
                /\ todo'[i - 2][1] = "Default" /\ todo'[i - 1][1] = "Default"
  <2>1. i \in Nat /\ i >= 1 /\ i + 1 \in DOMAIN todo /\ todo[i + 1] = RunStep
    BY <1>1, <1>2
  <2>2. CASE i + 1 <= 3
    <3>1. driver = NoDriver /\ Quiet /\ \A j \in 1..i : todo[j][1] = "Default"
      BY <2>1, <2>2 DEF RunsForNone
    <3>2. step[1] = "Default"
      BY <1>1, <2>1, <3>1
    <3>3. \A j \in 1..(i - 1) : todo'[j][1] = "Default"
      <4> SUFFICES ASSUME NEW j \in 1..(i - 1) PROVE todo'[j][1] = "Default"
        OBVIOUS
      <4>1. j + 1 \in 1..i /\ j \in DOMAIN todo'
        BY <1>1, <2>1
      <4> QED
        BY <1>1, <3>1, <4>1
    <3> QED
      BY <2>1, <2>2, <3>1, <3>2, <3>3
  <2>3. CASE i + 1 > 3
    <3>1. /\ todo[i - 2] = ChooseNone
          /\ todo[i - 1][1] = "Default" /\ todo[i][1] = "Default"
      BY <2>1, <2>3 DEF RunsForNone
    <3>2. CASE i = 3
      <4>1. step = ChooseNone
        BY <1>1, <3>1, <3>2
      <4>2. todo'[1] = todo[2] /\ todo'[2] = todo[3]
        BY <1>1, <1>2, <3>2
      <4>3. \A j \in 1..(i - 1) : todo'[j][1] = "Default"
        BY <3>1, <3>2, <4>2
      <4> QED
        BY <3>2, <4>1, <4>3
    <3>3. CASE i > 3
      <4>1. /\ i - 3 \in DOMAIN todo' /\ i - 2 \in DOMAIN todo' /\ i - 1 \in DOMAIN todo'
            /\ (i - 3) + 1 = i - 2 /\ (i - 2) + 1 = i - 1 /\ (i - 1) + 1 = i
        BY <1>1, <2>1, <3>3
      <4> QED
        BY <1>1, <3>1, <3>3, <4>1
    <3> QED
      BY <2>1, <2>3, <3>2, <3>3
  <2> QED
    BY <2>1, <2>2, <2>3
<1>3. ASSUME NEW i \in DOMAIN todo', todo'[i] = ChooseNone
      PROVE  i + 3 \in DOMAIN todo' /\ todo'[i + 3] = RunStep
  <2>1. i \in Nat /\ i + 1 \in DOMAIN todo /\ todo[i + 1] = ChooseNone
    BY <1>1, <1>3
  <2>2. (i + 1) + 3 \in DOMAIN todo /\ todo[(i + 1) + 3] = RunStep
    BY <2>1 DEF RunsForNone
  <2>3. i + 3 \in DOMAIN todo' /\ (i + 3) + 1 = (i + 1) + 3
    BY <1>1, <2>1, <2>2
  <2> QED
    BY <1>1, <2>2, <2>3
<1> QED
  BY <1>2, <1>3 DEF RunsForNone

NoRun(steps) == \A i \in DOMAIN steps : steps[i] # RunStep /\ steps[i] # ChooseNone

(* ... and when others take its place, unless it is awaited now.           *)
LEMMA RunsExpand ==
  ASSUME RunsForNone, NEW step, NEW more, NoRun(more), NEW n \in Nat \ {0},
         DOMAIN more = 1..n, Len(todo) \in Nat \ {0}, DOMAIN todo = 1..Len(todo),
         DOMAIN todo' = 1..(n + Len(todo) - 1), todo[1] = step,
         \A i \in DOMAIN todo' : todo'[i] = IF i <= n THEN more[i] ELSE todo[i - n + 1],
         step # RunStep, step # ChooseNone,
         step[1] = "Default" => driver # NoDriver
  PROVE  RunsForNone'
<1>1. ASSUME NEW i \in DOMAIN todo', todo'[i] = RunStep
      PROVE  /\ i > 3 /\ todo'[i - 3] = ChooseNone
             /\ todo'[i - 2][1] = "Default" /\ todo'[i - 1][1] = "Default"
  <2> DEFINE k == i - n + 1
  <2>1. i > n /\ k \in DOMAIN todo /\ todo[k] = RunStep /\ k # 1
    BY <1>1 DEF NoRun
  <2>2. k > 3 /\ todo[k - 3] = ChooseNone /\ todo[k - 2][1] = "Default" /\ todo[k - 1][1] = "Default"
    <3>1. ~(k <= 3 /\ driver = NoDriver /\ \A j \in 1..(k - 1) : todo[j][1] = "Default")
      BY <2>1
    <3> QED
      BY <2>1, <3>1 DEF RunsForNone
  <2>3. k - 3 # 1
    BY <2>2
  <2>4. /\ i - 3 \in DOMAIN todo' /\ i - 3 > n /\ (i - 3) - n + 1 = k - 3
        /\ i - 2 \in DOMAIN todo' /\ i - 2 > n /\ (i - 2) - n + 1 = k - 2
        /\ i - 1 \in DOMAIN todo' /\ i - 1 > n /\ (i - 1) - n + 1 = k - 1
    <3>1. i \in Nat /\ k \in Int /\ k = i - n + 1 /\ k > 3 /\ k - 3 # 1 /\ i <= n + Len(todo) - 1
      BY <2>1, <2>2, <2>3
    <3> HIDE DEF k
    <3>2. i > n + 3 /\ i - 3 \in DOMAIN todo' /\ i - 2 \in DOMAIN todo' /\ i - 1 \in DOMAIN todo'
      BY <3>1
    <3>3. i - 3 > n /\ i - 2 > n /\ i - 1 > n
      BY <3>1, <3>2
    <3>4. (i - 3) - n + 1 = k - 3 /\ (i - 2) - n + 1 = k - 2 /\ (i - 1) - n + 1 = k - 1
      BY <3>1
    <3> QED
      BY <3>2, <3>3, <3>4
  <2> HIDE DEF k
  <2>5. todo'[i - 3] = todo[k - 3] /\ todo'[i - 2] = todo[k - 2] /\ todo'[i - 1] = todo[k - 1]
    <3>1. \A j \in DOMAIN todo' : j > n => todo'[j] = todo[j - n + 1]
      OBVIOUS
    <3> QED
      BY <2>4, <3>1
  <2>6. i > 3
    BY <2>4
  <2> QED
    BY <2>2, <2>5, <2>6
<1>2. ASSUME NEW i \in DOMAIN todo', todo'[i] = ChooseNone
      PROVE  i + 3 \in DOMAIN todo' /\ todo'[i + 3] = RunStep
  <2> DEFINE k == i - n + 1
  <2>1. i > n /\ k \in DOMAIN todo /\ todo[k] = ChooseNone
    BY <1>2 DEF NoRun
  <2>2. k + 3 \in DOMAIN todo /\ todo[k + 3] = RunStep
    BY <2>1 DEF RunsForNone
  <2>3. i + 3 \in DOMAIN todo' /\ i + 3 > n /\ (i + 3) - n + 1 = k + 3
    BY <2>1, <2>2
  <2> HIDE DEF k
  <2> QED
    BY <2>2, <2>3
<1> QED
  BY <1>1, <1>2 DEF RunsForNone

-----------------------------------------------------------------------------
(* The callbacks *)

LEMMA FreshKept ==
  ASSUME RingOK, Tagged, Fresh, opening' = opening,
         Write(Made) \/ Read \/ UNCHANGED ring
  PROVE  Fresh' /\ length' = length
<1>0. /\ Content \in Seq(Frames \cup {Silence}) /\ Len(Content) = used
      /\ RingAssumption /\ used \in Nat
  BY ContentIsSequence, RingAssumption DEF RingOK
<1>1. CASE Write(Made)
  <2>1. Made \in Blocks
    BY EngineAssumption DEF Made, Blocks, Tagged
  <2>2. RingOK'
    BY <1>0, <1>1, <2>1, RingKept DEF RingNext
  <2>3. (/\ Content \in Seq(Frames \cup {Silence})
         /\ Len(Content) = used
         /\ \A i \in 1..used : Content[i] = data[Place(i - 1)])'
    BY <2>2, ContentIsSequence, PTL
  <2>4. PICK n \in 0..Block : Content' = Content \o [i \in 1..n |-> Made[i]]
    BY <1>0, <1>1, <2>1, WriteIsPut DEF Fifo!Put
  <2> DEFINE part == [i \in 1..n |-> Made[i]]
  <2>5. part \in Seq(Frames \cup {Silence}) /\ Len(part) = n
    BY <1>0, <2>1 DEF Blocks, RingAssumption
  <2>6. \A i \in 1..n : part[i][1] = opening
    BY <1>0 DEF Made, RingAssumption
  <2> HIDE DEF part
  <2>7. used' = used + n
    BY <1>0, <2>3, <2>4, <2>5 DEF part
  <2>8. ASSUME NEW i \in 1..used' PROVE Content'[i][1] = opening
    <3>1. Content'[i] = IF i <= used THEN Content[i] ELSE part[i - used]
      BY <1>0, <2>4, <2>5, <2>7 DEF part
    <3>2. i <= used => Content[i][1] = opening
      BY <1>0 DEF Fresh
    <3>3. ~(i <= used) => i - used \in 1..n
      BY <1>0, <2>7
    <3> QED
      BY <2>6, <3>1, <3>2, <3>3
  <2>9. length' = length
    BY <1>1 DEF Write, WriteFirst
  <2> QED
    BY <2>8, <2>9 DEF Fresh
<1>2. CASE Read
  <2>1. RingOK'
    BY <1>0, <1>2, RingKept DEF RingNext
  <2>2. (/\ Content \in Seq(Frames \cup {Silence})
         /\ Len(Content) = used
         /\ \A i \in 1..used : Content[i] = data[Place(i - 1)])'
    BY <2>1, ContentIsSequence, PTL
  <2>3. Content' = SubSeq(Content, Block + 1, Len(Content))
    BY <1>0, <1>2, ReadIsTake DEF Fifo!Take
  <2>4. ASSUME NEW i \in 1..used' PROVE Content'[i][1] = opening
    <3>1. Block \in Nat /\ used' \in Nat
      BY <1>0, <2>1 DEF RingAssumption, RingOK
    <3>2. i + Block \in 1..used /\ Content'[i] = Content[i + Block]
      BY <1>0, <2>2, <2>3, <3>1
    <3> QED
      BY <3>2 DEF Fresh
  <2>5. length' = length
    BY <1>2 DEF Read
  <2> QED
    BY <2>4, <2>5 DEF Fresh
<1>3. CASE UNCHANGED ring
  BY <1>3 DEF ring, Fresh, Content, Place
<1> QED
  BY <1>1, <1>2, <1>3

(* No callback disturbs what the rest of a call rests on. *)
LEMMA TodoUntouched ==
  ASSUME TodoInv, UNCHANGED <<todo, stream, pointer, thread, driver, asked, life>>,
         buffers \subseteq buffers', length' = length, Fresh => Fresh'
  PROVE  TodoInv'
<1>1. OutputReady => OutputReady'
  BY DEF OutputReady
<1>2. (Settled <=> Settled') /\ (Quiet <=> Quiet') /\ (Awaited <=> Awaited')
  BY DEF Settled, Quiet, Gone, Awaited
<1>3. \A kinds : Gone(kinds) <=> Gone(kinds)'
  BY DEF Gone
<1>4. ASSUME NEW step, Ready(step) PROVE Ready(step)'
  BY <1>1, <1>2, <1>3, <1>4 DEF Ready
<1>5. Ready(Head(todo)) => Ready(Head(todo))'
  BY <1>4
<1> QED
  BY <1>2, <1>5 DEF TodoInv, Chained, RunsForNone

LEMMA RingStays ==
  ASSUME Tagged, RingOK, [Next]_vars
  PROVE  Tagged' /\ RingOK'
BY EngineUsesRing, RingKept, RingAssumption

Callers == Kinds \cup {"thread"}

LEMMA DoingBecomes ==
  ASSUME StreamTypes, NEW c \in Callers, NEW what, doing' = [doing EXCEPT ![c] = what]
  PROVE  doing'[c] = what /\ \A other \in Callers \ {c} : doing'[other] = doing[other]
BY DEF StreamTypes, Callers

LEMMA CallbackStep ==
  ASSUME EngineInv, Callbacks
  PROVE  EngineInv'
<1> USE DEF EngineInv
<1>1. Tagged' /\ RingOK'
  BY RingStays DEF Next
<1>2. /\ UNCHANGED <<driver, device, stream, pointer, thread, todo, life, opening, asked>>
      /\ buffers \subseteq buffers'
      /\ Write(Made) \/ Read \/ UNCHANGED ring
  BY DEF Callbacks, InputCall, InputReturn, OutputReads, OutputCall, DuplexCall, ThreadCycle,
         ThreadEnd, Return, Begin, engine, ring
<1>3. length' = length /\ (Fresh => Fresh')
  <2>1. length' = length
    BY <1>2 DEF Write, WriteFirst, Read, ring
  <2> QED
    BY <1>2, <2>1, FreshKept
<1>4. TodoInv'
  BY <1>2, <1>3, TodoUntouched
<1>5. StreamsInv'
  BY <1>2, <1>3 DEF StreamsInv, OutputReady
<1>6. StreamTypes' /\ CallsInv'
  <2>1. CASE InputCall
    <3> DEFINE what == IF "process" \in buffers THEN "mixing" ELSE "pumping"
    <3>1. doing' = [doing EXCEPT !["input"] = what] /\ stream["input"] = "running" /\ buffers' = buffers
      BY <2>1 DEF InputCall, Begin, engine
    <3>2. what \in {"mixing", "pumping"} /\ (what = "mixing" => "process" \in buffers)
      OBVIOUS
    <3> HIDE DEF what
    <3>3. doing'["input"] = what /\ \A other \in Callers \ {"input"} : doing'[other] = doing[other]
      BY <3>1, DoingBecomes DEF Callers, Kinds, Sides
    <3> QED
      BY <1>2, <3>1, <3>2, <3>3 DEF StreamTypes, CallsInv, Callers, Kinds, Sides
  <2>2. CASE InputReturn
    <3>1. doing' = [doing EXCEPT !["input"] = "nothing"] /\ buffers' = buffers
      BY <2>2 DEF InputReturn, engine
    <3>2. doing'["input"] = "nothing" /\ \A other \in Callers \ {"input"} : doing'[other] = doing[other]
      BY <3>1, DoingBecomes DEF Callers, Kinds, Sides
    <3> QED
      BY <1>2, <3>1, <3>2 DEF StreamTypes, CallsInv, Callers, Kinds, Sides
  <2>3. CASE OutputReads
    BY <1>2, <2>3 DEF OutputReads, engine, StreamTypes, CallsInv
  <2>4. CASE OutputCall
    <3>1. /\ doing' = [doing EXCEPT !["output"] = "pumping"] /\ buffers' = buffers \cup {"dummy"}
          /\ stream["output"] = "running" /\ ~pointer["input"]
      BY <2>4 DEF OutputCall, Begin
    <3>2. doing'["output"] = "pumping" /\ \A other \in Callers \ {"output"} : doing'[other] = doing[other]
      BY <3>1, DoingBecomes DEF Callers, Kinds, Sides
    <3> QED
      BY <1>2, <3>1, <3>2 DEF StreamTypes, CallsInv, Callers, Kinds, Sides
  <2>5. CASE DuplexCall
    <3>1. /\ doing' = [doing EXCEPT !["duplex"] = "pumping"] /\ buffers' = buffers
          /\ stream["duplex"] = "running"
      BY <2>5 DEF DuplexCall, Begin, engine
    <3>2. doing'["duplex"] = "pumping" /\ \A other \in Callers \ {"duplex"} : doing'[other] = doing[other]
      BY <3>1, DoingBecomes DEF Callers, Kinds, Sides
    <3> QED
      BY <1>2, <3>1, <3>2 DEF StreamTypes, CallsInv, Callers, Kinds, Sides
  <2>6. CASE ThreadCycle \/ ThreadEnd
    <3>1. PICK what \in {"pumping", "ended"} : doing' = [doing EXCEPT !["thread"] = what]
      BY <2>6 DEF ThreadCycle, ThreadEnd, Begin
    <3>2. thread' = TRUE /\ buffers' = buffers
      <4>1. thread /\ thread \in BOOLEAN
        BY <2>6 DEF ThreadCycle, ThreadEnd, StreamTypes
      <4>2. thread' = thread
        BY <1>2
      <4> QED
        BY <2>6, <4>1, <4>2 DEF ThreadCycle, ThreadEnd, engine
    <3>3. doing'["thread"] = what /\ \A other \in Callers \ {"thread"} : doing'[other] = doing[other]
      BY <3>1, DoingBecomes DEF Callers
    <3>4. StreamTypes'
      BY <1>2, <3>1, <3>2 DEF StreamTypes
    <3>5. CallsInv'
      BY <1>2, <3>2, <3>3 DEF CallsInv, Callers, Kinds, Sides
    <3> QED
      BY <3>4, <3>5
  <2>7. ASSUME NEW c \in {"output", "duplex", "thread"}, Return(c)
        PROVE  StreamTypes' /\ CallsInv'
    <3>1. doing' = [doing EXCEPT ![c] = "nothing"] /\ buffers' = buffers
      BY <2>7 DEF Return, engine
    <3>2. doing'[c] = "nothing" /\ \A other \in Callers \ {c} : doing'[other] = doing[other]
      BY <3>1, DoingBecomes DEF Callers, Kinds, Sides
    <3> QED
      BY <1>2, <3>1, <3>2 DEF StreamTypes, CallsInv, Callers, Kinds, Sides
  <2> QED
    BY <2>1, <2>2, <2>3, <2>4, <2>5, <2>6, <2>7 DEF Callbacks
<1> QED
  BY <1>1, <1>4, <1>5, <1>6

-----------------------------------------------------------------------------
(* The scripts of the calls *)

(* Choosing "none" and running the thread go together.                     *)
RunsBehindChoice(steps) ==
  /\ \A i \in DOMAIN steps : steps[i] = RunStep =>
       /\ i > 3 /\ steps[i - 3] = ChooseNone
       /\ steps[i - 2][1] = "Default" /\ steps[i - 1][1] = "Default"
  /\ \A i \in DOMAIN steps : steps[i] = ChooseNone =>
       i + 3 \in DOMAIN steps /\ steps[i + 3] = RunStep

Script(steps) ==
  /\ (\E S : steps \in Seq(S)) /\ steps # <<>>
  /\ \A i \in 1..(Len(steps) - 1) : Then(steps[i], steps[i + 1])
  /\ RunsBehindChoice(steps)

LEMMA Joined ==
  ASSUME NEW a, NEW b, Script(a), Script(b), Then(a[Len(a)], b[1])
  PROVE  /\ Script(a \o b)
         /\ (a \o b)[1] = a[1] /\ (a \o b)[Len(a \o b)] = b[Len(b)]
<1>1. PICK S : a \in Seq(S)
  BY DEF Script
<1>2. PICK T : b \in Seq(T)
  BY DEF Script
<1> DEFINE c == a \o b
           n == Len(a)
           m == Len(b)
<1>3. /\ a \in Seq(S \cup T) /\ b \in Seq(S \cup T)
      /\ n \in Nat \ {0} /\ DOMAIN a = 1..n
      /\ m \in Nat \ {0} /\ DOMAIN b = 1..m
  BY <1>1, <1>2 DEF Script
<1>4. /\ c \in Seq(S \cup T) /\ Len(c) = n + m /\ DOMAIN c = 1..(n + m) /\ c # <<>>
      /\ \A i \in 1..(n + m) : c[i] = IF i <= n THEN a[i] ELSE b[i - n]
  BY <1>3
<1> HIDE DEF c
<1>5. (\A i \in 1..n : c[i] = a[i]) /\ (\A i \in 1..m : n + i \in 1..(n + m) /\ c[n + i] = b[i])
  <2>1. ASSUME NEW i \in 1..m PROVE n + i \in 1..(n + m) /\ c[n + i] = b[i]
    <3>1. n + i \in 1..(n + m) /\ ~(n + i <= n) /\ (n + i) - n = i
      BY <1>3
    <3> QED
      BY <1>4, <3>1
  <2>2. ASSUME NEW i \in 1..n PROVE c[i] = a[i]
    BY <1>3, <1>4
  <2> QED
    BY <2>1, <2>2
<1>6. ASSUME NEW i \in 1..(n + m)
      PROVE  i \in 1..n \/ \E j \in 1..m : i = n + j
  <2>1. i > n => i - n \in 1..m /\ i = n + (i - n)
    BY <1>3
  <2>2. ~(i > n) => i \in 1..n
    BY <1>3
  <2> QED
    BY <2>1, <2>2
<1> HIDE DEF n, m
<1>7. ASSUME NEW i \in 1..(Len(c) - 1) PROVE Then(c[i], c[i + 1])
  <2>1. CASE i < n
    <3>1. i \in 1..(n - 1) /\ i \in 1..n /\ i + 1 \in 1..n
      BY <1>3, <2>1
    <3> QED
      BY <1>5, <3>1 DEF Script, n
  <2>2. CASE i = n
    <3>1. i \in 1..n /\ 1 \in 1..m
      BY <1>3, <2>2
    <3> QED
      BY <1>5, <2>2, <3>1 DEF n
  <2>3. CASE i > n
    <3> DEFINE j == i - n
    <3>1. j \in 1..(m - 1) /\ j \in 1..m /\ j + 1 \in 1..m /\ i = n + j /\ i + 1 = n + (j + 1)
      BY <1>3, <1>4, <2>3
    <3> HIDE DEF j
    <3> QED
      BY <1>5, <3>1 DEF Script, m
  <2>4. i < n \/ i = n \/ i > n
    BY <1>3, <1>4
  <2> QED
    BY <2>1, <2>2, <2>3, <2>4
<1>8. ASSUME NEW i \in 1..(n + m), c[i] = RunStep
      PROVE  /\ i > 3 /\ c[i - 3] = ChooseNone
             /\ c[i - 2][1] = "Default" /\ c[i - 1][1] = "Default"
  <2>1. CASE i \in 1..n
    <3>1. i > 3 /\ a[i - 3] = ChooseNone /\ a[i - 2][1] = "Default" /\ a[i - 1][1] = "Default"
      BY <1>3, <1>5, <1>8, <2>1 DEF Script, RunsBehindChoice
    <3>2. i - 3 \in 1..n /\ i - 2 \in 1..n /\ i - 1 \in 1..n
      BY <1>3, <2>1, <3>1
    <3> QED
      BY <1>5, <3>1, <3>2
  <2>2. ASSUME NEW j \in 1..m, i = n + j
        PROVE  /\ i > 3 /\ c[i - 3] = ChooseNone
               /\ c[i - 2][1] = "Default" /\ c[i - 1][1] = "Default"
    <3>0. b[j] = RunStep
      BY <1>5, <1>8, <2>2
    <3>1. j > 3 /\ b[j - 3] = ChooseNone /\ b[j - 2][1] = "Default" /\ b[j - 1][1] = "Default"
      BY <1>3, <3>0 DEF Script, RunsBehindChoice
    <3>2. /\ j - 3 \in 1..m /\ j - 2 \in 1..m /\ j - 1 \in 1..m
          /\ i - 3 = n + (j - 3) /\ i - 2 = n + (j - 2) /\ i - 1 = n + (j - 1)
      <4>1. j \in 1..m /\ j > 3 /\ m \in Nat /\ n \in Nat /\ i = n + j
        BY <1>3, <2>2, <3>1
      <4>2. j - 3 \in 1..m /\ j - 2 \in 1..m /\ j - 1 \in 1..m
        BY <4>1
      <4>3. i - 3 = n + (j - 3) /\ i - 2 = n + (j - 2) /\ i - 1 = n + (j - 1)
        BY <4>1
      <4> QED
        BY <4>2, <4>3
    <3>3. i > 3
      BY <1>3, <2>2, <3>1
    <3>4. c[i - 3] = b[j - 3] /\ c[i - 2] = b[j - 2] /\ c[i - 1] = b[j - 1]
      BY <1>5, <3>2
    <3> QED
      BY <3>1, <3>3, <3>4
  <2> QED
    BY <1>6, <2>1, <2>2
<1>9. ASSUME NEW i \in 1..(n + m), c[i] = ChooseNone
      PROVE  i + 3 \in 1..(n + m) /\ c[i + 3] = RunStep
  <2>1. CASE i \in 1..n
    <3>1. i + 3 \in 1..n /\ a[i + 3] = RunStep
      BY <1>3, <1>5, <1>9, <2>1 DEF Script, RunsBehindChoice
    <3>2. i + 3 \in 1..(n + m)
      BY <1>3, <3>1
    <3> QED
      BY <1>5, <3>1, <3>2
  <2>2. ASSUME NEW j \in 1..m, i = n + j
        PROVE  i + 3 \in 1..(n + m) /\ c[i + 3] = RunStep
    <3>0. b[j] = ChooseNone
      BY <1>5, <1>9, <2>2
    <3>1. j + 3 \in 1..m /\ b[j + 3] = RunStep
      BY <1>3, <3>0 DEF Script, RunsBehindChoice
    <3>2. i + 3 = n + (j + 3)
      BY <1>3, <2>2
    <3> QED
      BY <1>5, <3>1, <3>2
  <2> QED
    BY <1>6, <2>1, <2>2
<1>10. Script(c)
  BY <1>4, <1>7, <1>8, <1>9 DEF Script, RunsBehindChoice
<1>11. 1 \in 1..n /\ m \in 1..m
  BY <1>3
<1>12. c[1] = a[1] /\ c[Len(c)] = b[m]
  BY <1>4, <1>5, <1>11
<1> QED
  BY <1>10, <1>12 DEF c, m

LEMMA Closing ==
  /\ Script(CloseStreams) /\ NoRun(CloseStreams)
  /\ Len(CloseStreams) = 9
  /\ CloseStreams[1] = <<"Close", "input">> /\ CloseStreams[9] = <<"Free", "buffers">>
<1> DEFINE S == Kinds \cup {"thread", "buffers"}
           T == {"Close", "Forget", "Tell", "Join", "Free"}
           c == CloseStreams
<1>1. c \in Seq(T \X S) /\ Len(c) = 9 /\ c # <<>> /\ DOMAIN c = 1..9
  BY DEF CloseStreams, Kinds, Sides
<1>2. /\ c[1] = <<"Close", "input">> /\ c[2] = <<"Forget", "input">>
      /\ c[3] = <<"Close", "output">> /\ c[4] = <<"Forget", "output">>
      /\ c[5] = <<"Close", "duplex">> /\ c[6] = <<"Forget", "duplex">>
      /\ c[7] = <<"Tell", "thread">> /\ c[8] = <<"Join", "thread">> /\ c[9] = <<"Free", "buffers">>
  BY DEF CloseStreams
<1>3. NoRun(c)
  <2> SUFFICES ASSUME NEW i \in 1..9 PROVE c[i] # RunStep /\ c[i] # ChooseNone
    BY <1>1 DEF NoRun
  <2>1. i = 1 \/ i = 2 \/ i = 3 \/ i = 4 \/ i = 5 \/ i = 6 \/ i = 7 \/ i = 8 \/ i = 9
    OBVIOUS
  <2>2. c[i][1] # "Run" /\ c[i][1] # "Choose"
    <3> HIDE DEF c
    <3> QED
      BY <1>2, <2>1
  <2> QED
    BY <2>2 DEF RunStep, ChooseNone
<1> HIDE DEF c
<1>4. ASSUME NEW i \in 1..8 PROVE Then(c[i], c[i + 1])
  <2>1. Then(c[1], c[2]) /\ Then(c[2], c[3]) /\ Then(c[3], c[4])
    BY <1>2 DEF Then
  <2>2. Then(c[4], c[5]) /\ Then(c[5], c[6]) /\ Then(c[6], c[7])
    BY <1>2 DEF Then
  <2>3. Then(c[7], c[8]) /\ Then(c[8], c[9])
    BY <1>2 DEF Then
  <2>4. i = 1 \/ i = 2 \/ i = 3 \/ i = 4 \/ i = 5 \/ i = 6 \/ i = 7 \/ i = 8
    OBVIOUS
  <2> QED
    BY <2>1, <2>2, <2>3, <2>4
<1>5. Script(c)
  BY <1>1, <1>3, <1>4 DEF Script, RunsBehindChoice, NoRun
<1> QED
  BY <1>1, <1>2, <1>3, <1>5 DEF c

LEMMA PlainScript ==
  ASSUME NEW steps, \E S : steps \in Seq(S), Len(steps) > 0,
         \A i \in 1..(Len(steps) - 1) : Then(steps[i], steps[i + 1]),
         \/ \A i \in 1..Len(steps) : steps[i] # RunStep /\ steps[i] # ChooseNone
         \/ RunsBehindChoice(steps)
  PROVE  Script(steps)
<1>1. PICK S : steps \in Seq(S)
  OBVIOUS
<1>2. steps # <<>> /\ DOMAIN steps = 1..Len(steps)
  BY <1>1
<1>3. RunsBehindChoice(steps)
  BY <1>2 DEF RunsBehindChoice
<1> QED
  BY <1>1, <1>2, <1>3 DEF Script

(* The scripts that follow the closing of the streams. *)
LEMMA Opening ==
  /\ Script(<<<<"Open", "streams">>>>)
  /\ Script(<<<<"End", "engine">>>>)
  /\ \A side, d : Script(<<<<"Select", side, d>>, <<"Open", "streams">>>>)
<1>1. Script(<<<<"Open", "streams">>>>)
  <2> DEFINE steps == <<<<"Open", "streams">>>>
  <2>1. steps \in Seq({<<"Open", "streams">>}) /\ Len(steps) = 1 /\ DOMAIN steps = 1..1
    OBVIOUS
  <2>2. steps[1][1] = "Open"
    OBVIOUS
  <2> HIDE DEF steps
  <2>3. Script(steps)
    BY <2>1, <2>2 DEF Script, RunsBehindChoice, RunStep, ChooseNone
  <2> QED
    BY <2>3 DEF steps
<1>2. Script(<<<<"End", "engine">>>>)
  <2> DEFINE steps == <<<<"End", "engine">>>>
  <2>1. steps \in Seq({<<"End", "engine">>}) /\ Len(steps) = 1 /\ DOMAIN steps = 1..1
    OBVIOUS
  <2>2. steps[1][1] = "End"
    OBVIOUS
  <2> HIDE DEF steps
  <2>3. Script(steps)
    BY <2>1, <2>2 DEF Script, RunsBehindChoice, RunStep, ChooseNone
  <2> QED
    BY <2>3 DEF steps
<1>3. ASSUME NEW side, NEW d
      PROVE  Script(<<<<"Select", side, d>>, <<"Open", "streams">>>>)
  <2> DEFINE steps == <<<<"Select", side, d>>, <<"Open", "streams">>>>
  <2>1. /\ steps \in Seq({<<"Select", side, d>>, <<"Open", "streams">>})
        /\ Len(steps) = 2 /\ DOMAIN steps = 1..2
    OBVIOUS
  <2>2. steps[1][1] = "Select" /\ steps[2][1] = "Open"
    OBVIOUS
  <2> HIDE DEF steps
  <2>3. Then(steps[1], steps[2])
    BY <2>2 DEF Then
  <2>4. ASSUME NEW i \in 1..2 PROVE steps[i] # RunStep /\ steps[i] # ChooseNone
    BY <2>2 DEF RunStep, ChooseNone
  <2>5. \A i \in 1..(Len(steps) - 1) : i = 1
    BY <2>1
  <2>6. \A i \in 1..(Len(steps) - 1) : Then(steps[i], steps[i + 1])
    BY <2>3, <2>5
  <2>7. \A i \in 1..Len(steps) : steps[i] # RunStep /\ steps[i] # ChooseNone
    BY <2>1, <2>4
  <2>8. Script(steps)
    BY <2>1, <2>6, <2>7, PlainScript
  <2> QED
    BY <2>8 DEF steps
<1> QED
  BY <1>1, <1>2, <1>3

LEMMA Choosing ==
  ASSUME NEW d, d # NoDriver
  PROVE  Script(<<<<"Choose", d>>, <<"Default", "input">>, <<"Default", "output">>>>)
<1> DEFINE steps == <<<<"Choose", d>>, <<"Default", "input">>, <<"Default", "output">>>>
<1>1. /\ steps \in Seq({<<"Choose", d>>, <<"Default", "input">>, <<"Default", "output">>})
      /\ Len(steps) = 3 /\ DOMAIN steps = 1..3
  OBVIOUS
<1>2. /\ steps[1] = <<"Choose", d>> /\ steps[2] = <<"Default", "input">>
      /\ steps[3] = <<"Default", "output">>
  OBVIOUS
<1> HIDE DEF steps
<1>3. Then(steps[1], steps[2]) /\ Then(steps[2], steps[3])
  BY <1>2 DEF Then, Settles
<1>4. ASSUME NEW i \in 1..3 PROVE steps[i] # RunStep /\ steps[i] # ChooseNone
  <2>1. steps[1] # RunStep /\ steps[2] # RunStep /\ steps[3] # RunStep
    BY <1>2 DEF RunStep
  <2>2. steps[1] # ChooseNone /\ steps[2] # ChooseNone /\ steps[3] # ChooseNone
    BY <1>2 DEF ChooseNone
  <2>3. i = 1 \/ i = 2 \/ i = 3
    OBVIOUS
  <2> QED
    BY <2>1, <2>2, <2>3
<1>5. \A i \in 1..(Len(steps) - 1) : i = 1 \/ i = 2
  BY <1>1
<1>6. \A i \in 1..(Len(steps) - 1) : Then(steps[i], steps[i + 1])
  BY <1>3, <1>5
<1>7. \A i \in 1..Len(steps) : steps[i] # RunStep /\ steps[i] # ChooseNone
  BY <1>1, <1>4
<1>8. Script(steps)
  <2>1. Len(steps) > 0
    BY <1>1
  <2>2. \E S : steps \in Seq(S)
    BY <1>1, Zenon
  <2> QED
    BY <2>1, <2>2, <1>6, <1>7, PlainScript
<1> QED
  BY <1>8 DEF steps

LEMMA ChoosingNone ==
  Script(<<ChooseNone, <<"Default", "input">>, <<"Default", "output">>, RunStep>>)
<1> DEFINE steps == <<ChooseNone, <<"Default", "input">>, <<"Default", "output">>, RunStep>>
<1>1. /\ steps \in Seq({ChooseNone, <<"Default", "input">>, <<"Default", "output">>, RunStep})
      /\ Len(steps) = 4 /\ DOMAIN steps = 1..4
  OBVIOUS
<1>2. /\ steps[1] = ChooseNone /\ steps[2] = <<"Default", "input">>
      /\ steps[3] = <<"Default", "output">> /\ steps[4] = RunStep
  OBVIOUS
<1> HIDE DEF steps
<1>3. Then(steps[1], steps[2]) /\ Then(steps[2], steps[3]) /\ Then(steps[3], steps[4])
  BY <1>2 DEF Then, Settles, ChooseNone, RunStep
<1>4. steps[1] # RunStep /\ steps[2] # RunStep /\ steps[3] # RunStep
  BY <1>2 DEF RunStep, ChooseNone
<1>5. steps[2] # ChooseNone /\ steps[3] # ChooseNone /\ steps[4] # ChooseNone
  BY <1>2 DEF RunStep, ChooseNone
<1>6. steps[2][1] = "Default" /\ steps[3][1] = "Default"
  BY <1>2
<1>7. ASSUME NEW i \in 1..4, steps[i] = RunStep
      PROVE  i = 4
  BY <1>4, <1>7
<1>8. ASSUME NEW i \in 1..4, steps[i] = ChooseNone
      PROVE  i = 1
  BY <1>5, <1>8
<1>9. RunsBehindChoice(steps)
  <2>1. ASSUME NEW i \in 1..4, steps[i] = RunStep
        PROVE  /\ i > 3 /\ steps[i - 3] = ChooseNone
               /\ steps[i - 2][1] = "Default" /\ steps[i - 1][1] = "Default"
    <3>1. i = 4 /\ i - 3 = 1 /\ i - 2 = 2 /\ i - 1 = 3
      BY <1>7, <2>1
    <3> QED
      BY <1>2, <1>6, <3>1
  <2>2. ASSUME NEW i \in 1..4, steps[i] = ChooseNone
        PROVE  i + 3 \in 1..4 /\ steps[i + 3] = RunStep
    <3>1. i = 1 /\ i + 3 = 4
      BY <1>8, <2>2
    <3> QED
      BY <1>2, <3>1
  <2> QED
    BY <1>1, <2>1, <2>2 DEF RunsBehindChoice
<1>10. \A i \in 1..(Len(steps) - 1) : i = 1 \/ i = 2 \/ i = 3
  BY <1>1
<1>11. \A i \in 1..(Len(steps) - 1) : Then(steps[i], steps[i + 1])
  BY <1>3, <1>10
<1>12. Script(steps)
  <2>1. Len(steps) > 0
    BY <1>1
  <2>2. \E S : steps \in Seq(S)
    BY <1>1, Zenon
  <2> QED
    BY <2>1, <2>2, <1>9, <1>11, PlainScript
<1> QED
  BY <1>12 DEF steps

LEMMA Defaulting ==
  Script(<<<<"Default", "input">>, <<"Default", "output">>>>)
<1> DEFINE steps == <<<<"Default", "input">>, <<"Default", "output">>>>
<1>1. /\ steps \in Seq({<<"Default", "input">>, <<"Default", "output">>})
      /\ Len(steps) = 2 /\ DOMAIN steps = 1..2
  OBVIOUS
<1>2. steps[1] = <<"Default", "input">> /\ steps[2] = <<"Default", "output">>
  OBVIOUS
<1> HIDE DEF steps
<1>3. Then(steps[1], steps[2])
  BY <1>2 DEF Then, Settles
<1>4. ASSUME NEW i \in 1..2 PROVE steps[i] # RunStep /\ steps[i] # ChooseNone
  BY <1>2 DEF RunStep, ChooseNone
<1>5. \A i \in 1..(Len(steps) - 1) : i = 1
  BY <1>1
<1>6. \A i \in 1..(Len(steps) - 1) : Then(steps[i], steps[i + 1])
  BY <1>3, <1>5
<1>7. \A i \in 1..Len(steps) : steps[i] # RunStep /\ steps[i] # ChooseNone
  BY <1>1, <1>4
<1>8. Script(steps)
  <2>1. Len(steps) > 0
    BY <1>1
  <2>2. \E S : steps \in Seq(S)
    BY <1>1, Zenon
  <2> QED
    BY <2>1, <2>2, <1>6, <1>7, PlainScript
<1> QED
  BY <1>8 DEF steps

LEMMA Called ==
  ASSUME EngineInv, NEW steps, Script(steps), MayEnd(steps[Len(steps)]),
         steps[1] = <<"Close", "input">> \/ steps[1] = <<"Default", "input">>,
         Call(steps)
  PROVE  EngineInv'
<1> USE DEF EngineInv
<1>1. /\ life = "up" /\ todo = <<>> /\ todo' = steps
      /\ UNCHANGED <<ring, driver, device, stream, pointer, buffers, thread, told, doing, life, opening, asked>>
  BY DEF Call
<1>2. PICK S : steps \in Seq(S)
  BY DEF Script
<1>3. steps # <<>> /\ Len(steps) \in Nat \ {0} /\ DOMAIN steps = 1..Len(steps) /\ Head(steps) = steps[1]
  BY <1>2 DEF Script
<1>4. Chained(todo')
  BY <1>1, <1>3 DEF Script, Chained
<1>5. RunsForNone'
  BY <1>1 DEF Script, RunsBehindChoice, RunsForNone
<1>6. Ready(Head(todo))'
  <2>1. Settled'
    BY <1>1 DEF TodoInv, Settled
  <2> QED
    BY <1>1, <1>3, <2>1 DEF Ready
<1>7. TodoInv'
  BY <1>1, <1>3, <1>4, <1>5, <1>6 DEF TodoInv
<1>8. StreamTypes' /\ CallsInv'
  BY <1>1, <1>2 DEF StreamTypes, CallsInv
<1>9. StreamsInv'
  BY <1>1 DEF StreamsInv, OutputReady, Fresh, Content, Place, ring
<1>10. Tagged' /\ RingOK'
  BY <1>1 DEF Tagged, RingOK, ring
<1> QED
  BY <1>7, <1>8, <1>9, <1>10

LEMMA SettingDriverScript ==
  ASSUME NEW d, d # driver
  PROVE  /\ Script(SettingDriver(d))
         /\ SettingDriver(d)[1] = <<"Close", "input">>
         /\ LET last == SettingDriver(d)[Len(SettingDriver(d))]
            IN  last = RunStep \/ last = <<"Default", "output">>
<1> DEFINE plain == <<<<"Choose", d>>, <<"Default", "input">>, <<"Default", "output">>>>
           none == <<ChooseNone, <<"Default", "input">>, <<"Default", "output">>, RunStep>>
<1>1. ASSUME NEW tail, Script(tail), tail[1] = <<"Choose", d>>
      PROVE  /\ Script(CloseStreams \o tail)
             /\ (CloseStreams \o tail)[1] = <<"Close", "input">>
             /\ (CloseStreams \o tail)[Len(CloseStreams \o tail)] = tail[Len(tail)]
  <2>1. Then(CloseStreams[Len(CloseStreams)], tail[1])
    <3>1. CloseStreams[Len(CloseStreams)] = <<"Free", "buffers">>
      BY Closing
    <3>2. \A step, next : step = <<"Free", "buffers">> /\ next = <<"Choose", d>> => Then(step, next)
      BY DEF Then
    <3> QED
      BY <1>1, <3>1, <3>2
  <2> QED
    BY <1>1, <2>1, Closing, Joined
<1>2. CASE d = NoDriver
  <2>1. SettingDriver(d) = CloseStreams \o none
    <3>1. SettingDriver(d) = (CloseStreams \o plain) \o <<<<"Run", "thread">>>>
      BY <1>2 DEF SettingDriver
    <3>2. plain \o <<<<"Run", "thread">>>> = none
      <4>1. ASSUME NEW a, NEW b, NEW c, NEW e PROVE <<a, b, c>> \o <<e>> = <<a, b, c, e>>
        <5> DEFINE S == {a, b, c, e}
                   x == <<a, b, c>>
                   y == <<e>>
                   z == <<a, b, c, e>>
        <5>1. /\ x \in Seq(S) /\ Len(x) = 3 /\ x[1] = a /\ x[2] = b /\ x[3] = c
              /\ y \in Seq(S) /\ Len(y) = 1 /\ y[1] = e
              /\ z \in Seq(S) /\ Len(z) = 4 /\ z[1] = a /\ z[2] = b /\ z[3] = c /\ z[4] = e
          OBVIOUS
        <5> HIDE DEF x, y, z, S
        <5>0. x \in Seq(S) /\ y \in Seq(S) /\ Len(x) = 3 /\ Len(y) = 1
          BY <5>1
        <5>2. /\ x \o y \in Seq(S) /\ Len(x \o y) = 4
              /\ \A i \in 1..4 : (x \o y)[i] = IF i <= 3 THEN x[i] ELSE y[i - 3]
          <6>1. \A T : \A p, q \in Seq(T) :
                  /\ p \o q \in Seq(T) /\ Len(p \o q) = Len(p) + Len(q)
                  /\ \A i \in 1..(Len(p) + Len(q)) :
                       (p \o q)[i] = IF i <= Len(p) THEN p[i] ELSE q[i - Len(p)]
            OBVIOUS
          <6>2. /\ x \o y \in Seq(S) /\ Len(x \o y) = Len(x) + Len(y)
                /\ \A i \in 1..(Len(x) + Len(y)) :
                     (x \o y)[i] = IF i <= Len(x) THEN x[i] ELSE y[i - Len(x)]
            BY <5>0, <6>1
          <6> QED
            BY <5>0, <6>2
        <5>3. /\ (x \o y)[1] = a /\ (x \o y)[2] = b /\ (x \o y)[3] = c /\ (x \o y)[4] = e
          BY <5>1, <5>2
        <5>4. \A i \in 1..4 : (x \o y)[i] = z[i]
          <6>1. \A i \in 1..4 : i = 1 \/ i = 2 \/ i = 3 \/ i = 4
            OBVIOUS
          <6> QED
            BY <5>1, <5>3, <6>1
        <5>5. x \o y = z
          BY <5>1, <5>2, <5>4
        <5> QED
          BY <5>5 DEF x, y, z
      <4>2. plain = <<ChooseNone, <<"Default", "input">>, <<"Default", "output">>>>
        BY <1>2 DEF ChooseNone
      <4> HIDE DEF plain
      <4> QED
        BY <4>1, <4>2, Zenon DEF RunStep
    <3>3. PICK S : /\ CloseStreams \in Seq(S) /\ plain \in Seq(S)
                   /\ <<<<"Run", "thread">>>> \in Seq(S)
      <4>1. PICK T : CloseStreams \in Seq(T)
        BY Closing DEF Script
      <4> DEFINE U == T \cup {<<"Choose", d>>, <<"Default", "input">>, <<"Default", "output">>,
                              <<"Run", "thread">>}
      <4>2. CloseStreams \in Seq(U) /\ plain \in Seq(U) /\ <<<<"Run", "thread">>>> \in Seq(U)
        BY <4>1
      <4> QED
        BY <4>2
    <3> HIDE DEF plain, none
    <3>4. \A x, y, z \in Seq(S) : (x \o y) \o z = x \o (y \o z)
      OBVIOUS
    <3> QED
      BY <3>1, <3>2, <3>3, <3>4
  <2>2. Script(none) /\ none[1] = <<"Choose", d>> /\ none[Len(none)] = RunStep
    BY <1>2, ChoosingNone DEF ChooseNone
  <2> HIDE DEF none
  <2> QED
    BY <1>1, <2>1, <2>2
<1>3. CASE d # NoDriver
  <2>1. SettingDriver(d) = CloseStreams \o plain
    <3>1. SettingDriver(d) = (CloseStreams \o plain) \o <<>>
      BY <1>3 DEF SettingDriver
    <3>2. PICK S : CloseStreams \o plain \in Seq(S)
      <4>1. PICK T : CloseStreams \in Seq(T)
        BY Closing DEF Script
      <4> DEFINE U == T \cup {<<"Choose", d>>, <<"Default", "input">>, <<"Default", "output">>}
      <4>2. CloseStreams \in Seq(U) /\ plain \in Seq(U)
        BY <4>1
      <4> HIDE DEF plain, U
      <4>3. CloseStreams \o plain \in Seq(U)
        BY <4>2
      <4> QED
        BY <4>3
    <3> HIDE DEF plain
    <3>3. \A x \in Seq(S) : x \o <<>> = x
      OBVIOUS
    <3> QED
      BY <3>1, <3>2, <3>3
  <2>2. Script(plain) /\ plain[1] = <<"Choose", d>> /\ plain[Len(plain)] = <<"Default", "output">>
    BY <1>3, Choosing
  <2> HIDE DEF plain
  <2> QED
    BY <1>1, <2>1, <2>2
<1> QED
  BY <1>2, <1>3

LEMMA Following ==
  ASSUME NEW tail, Script(tail), tail[1][1] \in {"Select", "Open", "End"}
  PROVE  /\ Script(CloseStreams \o tail)
         /\ (CloseStreams \o tail)[1] = <<"Close", "input">>
         /\ (CloseStreams \o tail)[Len(CloseStreams \o tail)] = tail[Len(tail)]
<1>1. Then(CloseStreams[Len(CloseStreams)], tail[1])
  <2>1. CloseStreams[Len(CloseStreams)] = <<"Free", "buffers">>
    BY Closing
  <2>2. \A step, next : step = <<"Free", "buffers">> /\ next[1] \in {"Choose", "Select", "Open", "End"}
                        => Then(step, next)
    BY DEF Then
  <2> QED
    BY <2>1, <2>2
<1> QED
  BY <1>1, Closing, Joined

LEMMA Reopening ==
  /\ Script(OpenAgain) /\ OpenAgain[1] = <<"Close", "input">>
  /\ OpenAgain[Len(OpenAgain)] = <<"Open", "streams">>
<1> DEFINE tail == <<<<"Open", "streams">>>>
<1>1. Script(tail) /\ tail[1] = <<"Open", "streams">> /\ tail[Len(tail)] = <<"Open", "streams">>
  BY Opening
<1>2. tail[1][1] = "Open"
  BY <1>1
<1>3. OpenAgain = CloseStreams \o tail
  BY DEF OpenAgain
<1> HIDE DEF tail
<1> QED
  BY <1>1, <1>2, <1>3, Following

LEMMA CallStep ==
  ASSUME EngineInv, SetDriver \/ SetDevice \/ SetFormat \/ RestoreDefaults \/ Destroy
  PROVE  EngineInv'
<1>1. CASE SetDriver
  <2>1. PICK d \in Drivers \cup {NoDriver} : Call(SettingDriver(d))
    BY <1>1 DEF SetDriver
  <2>2. d # driver
    BY <2>1 DEF Call, SettingDriver
  <2> DEFINE steps == SettingDriver(d)
  <2>3. /\ Script(steps) /\ steps[1] = <<"Close", "input">>
        /\ steps[Len(steps)] = RunStep \/ steps[Len(steps)] = <<"Default", "output">>
    BY <2>2, SettingDriverScript
  <2>4. MayEnd(steps[Len(steps)])
    BY <2>3 DEF MayEnd, RunStep
  <2> HIDE DEF steps
  <2>5. Call(steps)
    BY <2>1 DEF steps
  <2> QED
    BY <2>3, <2>4, <2>5, Called
<1>2. CASE SetDevice
  <2>0. PICK side \in Sides : \E d : Call(SettingDevice(side, d))
    BY <1>2 DEF SetDevice
  <2>1. PICK d : Call(SettingDevice(side, d))
    BY <2>0
  <2> DEFINE tail == <<<<"Select", side, d>>, <<"Open", "streams">>>>
             steps == CloseStreams \o tail
  <2>2. SettingDevice(side, d) = steps
    BY <2>1 DEF Call, SettingDevice
  <2>3. Script(tail) /\ tail[1][1] = "Select" /\ tail[Len(tail)][1] = "Open"
    BY Opening
  <2> HIDE DEF tail
  <2>4. Script(steps) /\ steps[1] = <<"Close", "input">> /\ steps[Len(steps)][1] = "Open"
    BY <2>3, Following
  <2> HIDE DEF steps
  <2>5. Call(steps) /\ MayEnd(steps[Len(steps)])
    BY <2>1, <2>2, <2>4 DEF MayEnd
  <2> QED
    BY <2>4, <2>5, Called
<1>3. CASE SetFormat
  <2>1. Call(OpenAgain)
    BY <1>3 DEF SetFormat
  <2>2. MayEnd(OpenAgain[Len(OpenAgain)])
    BY Reopening DEF MayEnd
  <2> QED
    BY <2>1, <2>2, Reopening, Called
<1>4. CASE RestoreDefaults
  <2> DEFINE defaults == <<<<"Default", "input">>, <<"Default", "output">>>>
             first == SettingDriver(UsualDriver) \o defaults
             steps == first \o OpenAgain
  <2>1. Call(steps)
    BY <1>4 DEF RestoreDefaults
  <2>2. /\ Script(defaults) /\ defaults[1] = <<"Default", "input">>
        /\ defaults[Len(defaults)] = <<"Default", "output">>
    BY Defaulting
  <2> HIDE DEF defaults
  <2>3. /\ Script(first) /\ first[Len(first)] = <<"Default", "output">>
        /\ first[1] = <<"Close", "input">> \/ first[1] = <<"Default", "input">>
    <3>1. CASE UsualDriver = driver
      <4>1. SettingDriver(UsualDriver) = <<>>
        BY <3>1 DEF SettingDriver
      <4>2. PICK S : defaults \in Seq(S)
        BY <2>2 DEF Script
      <4>3. \A x \in Seq(S) : <<>> \o x = x
        OBVIOUS
      <4>4. first = defaults
        BY <4>1, <4>2, <4>3
      <4> HIDE DEF first
      <4> QED
        BY <2>2, <4>4
    <3>2. CASE UsualDriver # driver
      <4> DEFINE setting == SettingDriver(UsualDriver)
      <4>1. /\ Script(setting) /\ setting[1] = <<"Close", "input">>
            /\ setting[Len(setting)] = RunStep \/ setting[Len(setting)] = <<"Default", "output">>
        BY <3>2, SettingDriverScript
      <4> HIDE DEF setting
      <4>2. Then(setting[Len(setting)], defaults[1])
        BY <2>2, <4>1 DEF Then, Settles, RunStep
      <4>3. Script(setting \o defaults) /\ (setting \o defaults)[1] = setting[1]
            /\ (setting \o defaults)[Len(setting \o defaults)] = defaults[Len(defaults)]
        BY <2>2, <4>1, <4>2, Joined
      <4>4. first = setting \o defaults
        BY DEF setting
      <4> HIDE DEF first
      <4> QED
        BY <2>2, <4>1, <4>3, <4>4
    <3> QED
      BY <3>1, <3>2
  <2> HIDE DEF first
  <2>4. Then(first[Len(first)], OpenAgain[1])
    BY <2>3, Reopening DEF Then, Settles
  <2>5. /\ Script(steps) /\ steps[1] = first[1]
        /\ steps[Len(steps)] = <<"Open", "streams">>
    BY <2>3, <2>4, Reopening, Joined
  <2>6. MayEnd(steps[Len(steps)])
    BY <2>5 DEF MayEnd
  <2> HIDE DEF steps
  <2> QED
    BY <2>1, <2>3, <2>5, <2>6, Called
<1>5. CASE Destroy
  <2> DEFINE tail == <<<<"End", "engine">>>>
             steps == CloseStreams \o tail
  <2>1. Call(steps)
    BY <1>5 DEF Destroy
  <2>2. Script(tail) /\ tail[1] = <<"End", "engine">> /\ tail[Len(tail)] = <<"End", "engine">>
    BY Opening
  <2> HIDE DEF tail
  <2>3. tail[1][1] = "End"
    BY <2>2
  <2>4. Script(steps) /\ steps[1] = <<"Close", "input">> /\ steps[Len(steps)] = <<"End", "engine">>
    BY <2>2, <2>3, Following
  <2>5. MayEnd(steps[Len(steps)])
    BY <2>4 DEF MayEnd
  <2> HIDE DEF steps
  <2> QED
    BY <2>1, <2>4, <2>5, Called
<1> QED
  BY <1>1, <1>2, <1>3, <1>4, <1>5

-----------------------------------------------------------------------------
(* The steps that close *)

LEMMA Taken ==
  ASSUME EngineInv, NEW step, Take(step, <<>>), step[1] \notin {"Choose", "Default"},
         todo' # <<>> /\ Then(step, Head(todo')) => Ready(Head(todo))',
         MayEnd(step) => Settled' \/ life' # "up"
  PROVE  TodoInv' /\ SeqTodo'
<1>1. SeqTodo /\ Chained(todo) /\ RunsForNone
  BY DEF EngineInv, TodoInv, StreamTypes, SeqTodo
<1>2. step # ChooseNone /\ step[1] # "Default"
  BY DEF ChooseNone
<1>3. /\ SeqTodo' /\ Chained(todo')
      /\ todo' = <<>> => MayEnd(step)
      /\ todo' # <<>> => Then(step, Head(todo'))
  BY <1>1, Advance
<1>4. RunsForNone'
  BY <1>1, <1>2, RunsAdvance
<1> QED
  BY <1>3, <1>4 DEF TodoInv

LEMMA ReadyNow ==
  ASSUME EngineInv, NEW step, todo # <<>>, Head(todo) = step
  PROVE  Ready(step)
BY DEF EngineInv, TodoInv

(* A step that touches neither the ring nor what its contents rest on. *)
LEMMA RingAside ==
  ASSUME EngineInv, UNCHANGED <<ring, opening>>
  PROVE  /\ Tagged' /\ RingOK'
         /\ Fresh' <=> Fresh
         /\ length' = length
BY DEF EngineInv, Tagged, RingOK, ring, Fresh, Content, Place

LEMMA CloseStep ==
  ASSUME EngineInv, NEW kind \in Kinds, Close(kind)
  PROVE  EngineInv'
<1> DEFINE step == <<"Close", kind>>
<1>1. /\ Take(step, <<>>) /\ doing[kind] = "nothing"
      /\ stream' = [stream EXCEPT ![kind] = "closed"]
      /\ UNCHANGED <<ring, driver, device, pointer, buffers, thread, told, doing, opening, asked>>
  BY DEF Close
<1>2. stream'[kind] = "closed" /\ \A other \in Kinds \ {kind} : stream'[other] = stream[other]
  BY <1>1 DEF EngineInv, StreamTypes
<1>3. stream' \in [Kinds -> {"closed", "open", "running"}]
  BY <1>1 DEF EngineInv, StreamTypes
<1>4. Ready(step)
  BY <1>1, ReadyNow DEF Take
<1>5. ASSUME Then(step, Head(todo')) PROVE Ready(Head(todo))'
  <2>1. Head(todo') = <<"Forget", kind>>
    BY <1>5 DEF Then
  <2>2. (kind # "input" => Gone({"input"})) /\ (kind = "duplex" => Gone({"output"}))
    BY <1>4 DEF Ready
  <2>3. (kind # "input" => Gone({"input"})') /\ (kind = "duplex" => Gone({"output"})')
    BY <1>1, <1>2, <2>2 DEF Gone, Kinds, Sides
  <2> QED
    BY <1>2, <2>1, <2>3 DEF Ready
<1>6. step[1] = "Close" /\ ~MayEnd(step)
  BY DEF MayEnd
<1> HIDE DEF step
<1>7. TodoInv' /\ SeqTodo'
  BY <1>1, <1>5, <1>6, Taken
<1>8. StreamTypes'
  BY <1>1, <1>3, <1>7 DEF EngineInv, StreamTypes, SeqTodo
<1>9. Tagged' /\ RingOK' /\ (Fresh' <=> Fresh) /\ length' = length
  BY <1>1, RingAside
<1>10. StreamsInv'
  BY <1>1, <1>2, <1>9 DEF EngineInv, StreamsInv, OutputReady, Kinds, Sides
<1>11. CallsInv'
  BY <1>1, <1>2 DEF EngineInv, CallsInv, Kinds, Sides
<1> QED
  BY <1>7, <1>8, <1>9, <1>10, <1>11 DEF EngineInv

LEMMA ForgetStep ==
  ASSUME EngineInv, NEW kind \in Kinds, Forget(kind)
  PROVE  EngineInv'
<1> DEFINE step == <<"Forget", kind>>
<1>1. /\ Take(step, <<>>)
      /\ pointer' = [pointer EXCEPT ![kind] = FALSE]
      /\ UNCHANGED <<ring, driver, device, stream, buffers, thread, told, doing, life, opening, asked>>
  BY DEF Forget
<1>2. pointer'[kind] = FALSE /\ \A other \in Kinds \ {kind} : pointer'[other] = pointer[other]
  BY <1>1 DEF EngineInv, StreamTypes
<1>3. pointer' \in [Kinds -> BOOLEAN]
  BY <1>1 DEF EngineInv, StreamTypes
<1>4. Ready(step)
  BY <1>1, ReadyNow DEF Take
<1>5. /\ stream[kind] = "closed"
      /\ kind # "input" => Gone({"input"})
      /\ kind = "duplex" => Gone({"output"})
  BY <1>4 DEF Ready
<1>6. Gone({kind})' /\ (kind # "input" => Gone({"input"})') /\ (kind = "duplex" => Gone({"output"})')
  BY <1>1, <1>2, <1>5 DEF Gone, Kinds, Sides
<1>7. ASSUME Then(step, Head(todo')) PROVE Ready(Head(todo))'
  <2>1. CASE kind = "input"
    <3>1. Head(todo') = <<"Close", "output">>
      BY <1>7, <2>1 DEF Then
    <3> QED
      BY <1>6, <2>1, <3>1 DEF Ready
  <2>2. CASE kind = "output"
    <3>1. Head(todo') = <<"Close", "duplex">>
      BY <1>7, <2>2 DEF Then
    <3> QED
      BY <1>6, <2>2, <3>1 DEF Ready
  <2>3. CASE kind = "duplex"
    <3>1. Head(todo') = <<"Tell", "thread">>
      BY <1>7, <2>3 DEF Then
    <3>2. Gone(Kinds)'
      BY <1>6, <2>3 DEF Gone, Kinds, Sides
    <3> QED
      BY <3>1, <3>2 DEF Ready
  <2> QED
    BY <2>1, <2>2, <2>3 DEF Kinds, Sides
<1>8. step[1] = "Forget" /\ ~MayEnd(step)
  BY DEF MayEnd
<1> HIDE DEF step
<1>9. TodoInv' /\ SeqTodo'
  BY <1>1, <1>7, <1>8, Taken
<1>10. StreamTypes'
  BY <1>1, <1>3, <1>9 DEF EngineInv, StreamTypes, SeqTodo
<1>11. Tagged' /\ RingOK' /\ (Fresh' <=> Fresh) /\ length' = length
  BY <1>1, RingAside
<1>12. StreamsInv'
  BY <1>1, <1>2, <1>5, <1>11 DEF EngineInv, StreamsInv, OutputReady, Kinds, Sides
<1>13. CallsInv'
  BY <1>1, <1>2 DEF EngineInv, CallsInv, Kinds, Sides
<1> QED
  BY <1>9, <1>10, <1>11, <1>12, <1>13 DEF EngineInv

LEMMA TellStep ==
  ASSUME EngineInv, Tell
  PROVE  EngineInv'
<1> DEFINE step == <<"Tell", "thread">>
<1>1. /\ Take(step, <<>>)
      /\ UNCHANGED <<ring, driver, device, stream, pointer, buffers, thread, doing, life, opening, asked>>
  BY DEF Tell
<1>2. Ready(step)
  BY <1>1, ReadyNow DEF Take
<1>3. ASSUME Then(step, Head(todo')) PROVE Ready(Head(todo))'
  <2>1. Head(todo') = <<"Join", "thread">>
    BY <1>3 DEF Then
  <2>2. Gone(Kinds)'
    BY <1>1, <1>2 DEF Ready, Gone
  <2> QED
    BY <2>1, <2>2 DEF Ready
<1>4. step[1] = "Tell" /\ ~MayEnd(step)
  BY DEF MayEnd
<1> HIDE DEF step
<1>5. TodoInv' /\ SeqTodo'
  BY <1>1, <1>3, <1>4, Taken
<1>6. Tagged' /\ RingOK' /\ (Fresh' <=> Fresh) /\ length' = length
  BY <1>1, RingAside
<1>7. StreamTypes' /\ StreamsInv' /\ CallsInv'
  BY <1>1, <1>5, <1>6 DEF EngineInv, StreamTypes, SeqTodo, StreamsInv, OutputReady, CallsInv
<1> QED
  BY <1>5, <1>6, <1>7 DEF EngineInv

LEMMA JoinStep ==
  ASSUME EngineInv, Join
  PROVE  EngineInv'
<1> DEFINE step == <<"Join", "thread">>
<1>1. /\ Take(step, <<>>) /\ thread' = FALSE
      /\ doing' = [doing EXCEPT !["thread"] = "nothing"]
      /\ UNCHANGED <<ring, driver, device, stream, pointer, buffers, told, life, opening, asked>>
  BY DEF Join
<1>2. doing'["thread"] = "nothing" /\ \A other \in Callers \ {"thread"} : doing'[other] = doing[other]
  BY <1>1, DoingBecomes DEF EngineInv, Callers
<1>3. doing' \in [Kinds \cup {"thread"} -> {"nothing", "mixing", "pumping", "ended"}]
  BY <1>1 DEF EngineInv, StreamTypes
<1>4. Ready(step)
  BY <1>1, ReadyNow DEF Take
<1>5. Quiet'
  BY <1>1, <1>4 DEF Ready, Quiet, Gone
<1>6. ASSUME Then(step, Head(todo')) PROVE Ready(Head(todo))'
  <2>1. Head(todo') = <<"Free", "buffers">>
    BY <1>6 DEF Then
  <2> QED
    BY <1>5, <2>1 DEF Ready
<1>7. step[1] = "Join" /\ ~MayEnd(step)
  BY DEF MayEnd
<1> HIDE DEF step
<1>8. TodoInv' /\ SeqTodo'
  BY <1>1, <1>6, <1>7, Taken
<1>9. Tagged' /\ RingOK' /\ (Fresh' <=> Fresh) /\ length' = length
  BY <1>1, RingAside
<1>10. StreamTypes' /\ StreamsInv'
  BY <1>1, <1>3, <1>8, <1>9 DEF EngineInv, StreamTypes, SeqTodo, StreamsInv, OutputReady
<1>11. CallsInv'
  BY <1>1, <1>2 DEF EngineInv, CallsInv, Callers, Kinds, Sides
<1> QED
  BY <1>8, <1>9, <1>10, <1>11 DEF EngineInv

LEMMA FreeStep ==
  ASSUME EngineInv, Free
  PROVE  EngineInv'
<1> DEFINE step == <<"Free", "buffers">>
<1>1. /\ Take(step, <<>>)
      /\ UNCHANGED <<ring, driver, device, stream, pointer, thread, told, doing, life, opening, asked>>
  BY DEF Free
<1>2. Ready(step)
  BY <1>1, ReadyNow DEF Take
<1>3. Quiet /\ Quiet'
  BY <1>1, <1>2 DEF Ready, Quiet, Gone
<1>4. ASSUME Then(step, Head(todo')) PROVE Ready(Head(todo))'
  <2>1. Head(todo')[1] \in {"Choose", "Select", "Open", "End"}
    BY <1>4 DEF Then
  <2> QED
    BY <1>3, <2>1 DEF Ready
<1>5. step[1] = "Free" /\ ~MayEnd(step)
  BY DEF MayEnd
<1> HIDE DEF step
<1>6. TodoInv' /\ SeqTodo'
  BY <1>1, <1>4, <1>5, Taken
<1>7. Tagged' /\ RingOK' /\ (Fresh' <=> Fresh) /\ length' = length
  BY <1>1, RingAside
<1>8. \A kind \in Kinds : stream[kind] = "closed" /\ doing[kind] = "nothing"
  BY <1>3 DEF Quiet, Gone, EngineInv, CallsInv
<1>9. StreamTypes' /\ StreamsInv' /\ CallsInv'
  BY <1>1, <1>6, <1>7, <1>8 DEF EngineInv, StreamTypes, SeqTodo, StreamsInv, OutputReady, CallsInv, Kinds, Sides
<1> QED
  BY <1>6, <1>7, <1>9 DEF EngineInv

LEMMA EndStep ==
  ASSUME EngineInv, End
  PROVE  EngineInv'
<1> DEFINE step == <<"End", "engine">>
<1>1. /\ Take(step, <<>>) /\ life' = "ended"
      /\ UNCHANGED <<ring, driver, device, stream, pointer, buffers, thread, told, doing, opening, asked>>
  BY DEF End
<1>2. ~Then(step, Head(todo')) /\ step[1] = "End"
  BY DEF Then
<1> HIDE DEF step
<1>3. TodoInv' /\ SeqTodo'
  BY <1>1, <1>2, Taken
<1>4. Tagged' /\ RingOK' /\ (Fresh' <=> Fresh) /\ length' = length
  BY <1>1, RingAside
<1>5. StreamTypes' /\ StreamsInv' /\ CallsInv'
  BY <1>1, <1>3, <1>4 DEF EngineInv, StreamTypes, SeqTodo, StreamsInv, OutputReady, CallsInv
<1> QED
  BY <1>3, <1>4, <1>5 DEF EngineInv

-----------------------------------------------------------------------------
(* The steps that put others in their place *)

Plain(steps) == Script(steps) /\ NoRun(steps)

LEMMA JoinedPlain ==
  ASSUME NEW a, NEW b, Plain(a), Plain(b), Then(a[Len(a)], b[1])
  PROVE  /\ Plain(a \o b)
         /\ (a \o b)[1] = a[1] /\ (a \o b)[Len(a \o b)] = b[Len(b)]
<1>1. PICK S : a \in Seq(S)
  BY DEF Plain, Script
<1>2. PICK T : b \in Seq(T)
  BY DEF Plain, Script
<1> DEFINE U == S \cup T
<1>3. a \in Seq(U) /\ b \in Seq(U)
  BY <1>1, <1>2
<1> HIDE DEF U
<1>4. /\ DOMAIN (a \o b) = 1..(Len(a) + Len(b))
      /\ \A i \in 1..(Len(a) + Len(b)) :
           (a \o b)[i] = IF i <= Len(a) THEN a[i] ELSE b[i - Len(a)]
  BY <1>3
<1>5. /\ DOMAIN a = 1..Len(a) /\ DOMAIN b = 1..Len(b)
      /\ Len(a) \in Nat /\ Len(b) \in Nat
  BY <1>3
<1>6. \A i \in 1..(Len(a) + Len(b)) : i \in DOMAIN a \/ (~(i <= Len(a)) /\ i - Len(a) \in DOMAIN b)
  BY <1>5
<1>7. \A i \in DOMAIN a : i <= Len(a)
  BY <1>5
<1>8. NoRun(a \o b)
  BY <1>4, <1>6, <1>7 DEF NoRun, Plain
<1> QED
  BY <1>8, Joined DEF Plain

LEMMA Replaced ==
  ASSUME EngineInv, NEW step, NEW more, Take(step, more), Plain(more),
         step # RunStep, step # ChooseNone,
         step[1] = "Default" => driver # NoDriver,
         MayEnd(step) => MayEnd(more[Len(more)]),
         \A next : Then(step, next) /\ next # RunStep => Then(more[Len(more)], next),
         NEW first, more[1] = first, Ready(first)'
  PROVE  TodoInv' /\ SeqTodo'
<1>1. SeqTodo /\ Chained(todo) /\ RunsForNone
  BY DEF EngineInv, TodoInv, StreamTypes, SeqTodo
<1>2. PICK S : more \in Seq(S)
  BY DEF Plain, Script
<1>3. /\ \A i \in 1..(Len(more) - 1) : Then(more[i], more[i + 1])
      /\ more # <<>>
  BY DEF Plain, Script
<1>4. DOMAIN todo = 1..Len(todo) /\ todo[1] = step /\ Len(todo) \in Nat \ {0}
  <2>1. PICK T : todo \in Seq(T)
    BY <1>1 DEF SeqTodo
  <2> QED
    BY <2>1 DEF Take
<1>5. ASSUME 1 < Len(todo) PROVE Then(more[Len(more)], todo[2])
  <2>1. Then(step, todo[2])
    BY <1>1, <1>4, <1>5 DEF Chained
  <2>2. todo[2] # RunStep
    <3> SUFFICES ASSUME todo[2] = RunStep PROVE FALSE
      OBVIOUS
    <3>1. 2 \in DOMAIN todo /\ ~(2 > 3) /\ 1 \in 1..(2 - 1)
      BY <1>4, <1>5
    <3>2. driver = NoDriver /\ \A j \in 1..(2 - 1) : todo[j][1] = "Default"
      BY <1>1, <3>1 DEF RunsForNone
    <3> QED
      BY <1>4, <3>1, <3>2
  <2> QED
    BY <2>1, <2>2
<1>6. /\ SeqTodo' /\ Chained(todo')
      /\ DOMAIN todo' = 1..(Len(more) + Len(todo) - 1)
      /\ \A i \in DOMAIN todo' :
           todo'[i] = IF i <= Len(more) THEN more[i] ELSE todo[i - Len(more) + 1]
      /\ todo' # <<>> /\ Head(todo') = more[1]
  BY <1>1, <1>2, <1>3, <1>5, Expand
<1>7. Len(more) \in Nat \ {0} /\ DOMAIN more = 1..Len(more)
  BY <1>2, <1>3
<1>8. RunsForNone'
  BY <1>1, <1>4, <1>6, <1>7, RunsExpand DEF Plain
<1>9. Ready(Head(todo))'
  <2>1. Head(todo') = first
    BY <1>6
  <2> QED
    BY <2>1 DEF Ready
<1> QED
  BY <1>6, <1>8, <1>9 DEF TodoInv

-----------------------------------------------------------------------------
(* The steps that select *)

LEMMA ChooseStep ==
  ASSUME EngineInv, NEW d, Choose(d)
  PROVE  EngineInv'
<1> DEFINE step == <<"Choose", d>>
<1>1. /\ Take(step, <<>>) /\ driver' = d /\ asked' = (d = NoDriver)
      /\ UNCHANGED <<ring, stream, pointer, buffers, thread, told, doing, life, opening>>
  BY DEF Choose
<1>2. Ready(step)
  BY <1>1, ReadyNow DEF Take
<1>3. Quiet /\ Quiet'
  BY <1>1, <1>2 DEF Ready, Quiet, Gone
<1>4. SeqTodo /\ Chained(todo) /\ RunsForNone
  BY DEF EngineInv, TodoInv, StreamTypes, SeqTodo
<1>5. /\ step = ChooseNone => driver' = NoDriver
      /\ step[1] # "Default" /\ ~MayEnd(step)
  BY <1>1 DEF ChooseNone, MayEnd
<1>6. Then(step, Head(todo')) => Head(todo')[1] = "Default"
  BY DEF Then
<1>7. d = NoDriver => step = ChooseNone
  BY DEF ChooseNone
<1> HIDE DEF step
<1>8. /\ SeqTodo' /\ Chained(todo') /\ RunsForNone'
      /\ DOMAIN todo' = 1..(Len(todo) - 1) /\ DOMAIN todo = 1..Len(todo) /\ Len(todo) \in Nat \ {0}
      /\ \A i \in DOMAIN todo' : todo'[i] = todo[i + 1]
      /\ todo[1] = step
      /\ todo' # <<>> /\ Head(todo')[1] = "Default"
  BY <1>1, <1>3, <1>4, <1>5, <1>6, Advance, RunsAdvance
<1>9. Settled' \/ Awaited'
  <2>1. CASE d = NoDriver
    <3>0. 1 \in DOMAIN todo /\ todo[1] = ChooseNone
      BY <1>7, <1>8, <2>1
    <3>1. 1 + 3 \in DOMAIN todo /\ todo[1 + 3] = RunStep
      <4>1. \A i \in DOMAIN todo : todo[i] = ChooseNone =>
              i + 3 \in DOMAIN todo /\ todo[i + 3] = RunStep
        BY <1>4 DEF RunsForNone
      <4> QED
        BY <3>0, <4>1
    <3>2. 3 \in DOMAIN todo' /\ todo'[3] = RunStep
      BY <1>8, <3>1
    <3> QED
      BY <3>2 DEF Awaited
  <2>2. CASE d # NoDriver
    BY <1>1, <2>2 DEF Settled
  <2> QED
    BY <2>1, <2>2
<1>10. Ready(Head(todo))'
  BY <1>8, <1>9 DEF Ready
<1>11. TodoInv'
  BY <1>8, <1>10 DEF TodoInv
<1>12. Tagged' /\ RingOK' /\ (Fresh' <=> Fresh) /\ length' = length
  BY <1>1, RingAside
<1>13. StreamTypes' /\ StreamsInv' /\ CallsInv'
  BY <1>1, <1>8, <1>12 DEF EngineInv, StreamTypes, SeqTodo, StreamsInv, OutputReady, CallsInv
<1> QED
  BY <1>11, <1>12, <1>13 DEF EngineInv

LEMMA SelectStep ==
  ASSUME EngineInv, NEW side, NEW d, Select(side, d)
  PROVE  EngineInv'
<1> DEFINE step == <<"Select", side, d>>
<1>1. /\ Take(step, <<>>)
      /\ UNCHANGED <<ring, driver, stream, pointer, buffers, thread, told, doing, life, opening, asked>>
  BY DEF Select
<1>2. Ready(step)
  BY <1>1, ReadyNow DEF Take
<1>3. Quiet'
  <2>1. step[1] = "Select"
    OBVIOUS
  <2> HIDE DEF step
  <2>2. Quiet
    BY <1>2, <2>1 DEF Ready
  <2> QED
    BY <1>1, <2>2 DEF Quiet, Gone
<1>4. step[1] = "Select" /\ ~MayEnd(step)
  BY DEF MayEnd
<1> HIDE DEF step
<1>5. ASSUME Then(step, Head(todo')) PROVE Ready(Head(todo))'
  <2>1. Head(todo')[1] = "Open"
    BY <1>4, <1>5 DEF Then
  <2> QED
    BY <1>3, <2>1 DEF Ready
<1>6. TodoInv' /\ SeqTodo'
  BY <1>1, <1>4, <1>5, Taken
<1>7. Tagged' /\ RingOK' /\ (Fresh' <=> Fresh) /\ length' = length
  BY <1>1, RingAside
<1>8. StreamTypes' /\ StreamsInv' /\ CallsInv'
  BY <1>1, <1>6, <1>7 DEF EngineInv, StreamTypes, SeqTodo, StreamsInv, OutputReady, CallsInv
<1> QED
  BY <1>6, <1>7, <1>8 DEF EngineInv

LEMMA DefaultStep ==
  ASSUME EngineInv, NEW side, Default(side)
  PROVE  EngineInv'
<1> DEFINE step == <<"Default", side>>
           d == Usual[driver][side]
           tail == <<<<"Select", side, d>>, <<"Open", "streams">>>>
           steps == CloseStreams \o tail
<1>1. /\ Take(step, IF driver = NoDriver THEN <<>> ELSE SettingDevice(side, d))
      /\ UNCHANGED <<ring, driver, device, stream, pointer, buffers, thread, told, doing, life, opening, asked>>
  BY DEF Default
<1>2. Ready(step)
  BY <1>1, ReadyNow DEF Take
<1>3. SeqTodo /\ Chained(todo) /\ RunsForNone
  BY DEF EngineInv, TodoInv, StreamTypes, SeqTodo
<1>4. step[1] = "Default" /\ step # ChooseNone /\ step # RunStep
  BY DEF ChooseNone, RunStep
<1>5. (Settled' <=> Settled) /\ (Quiet' <=> Quiet)
  BY <1>1 DEF Settled, Quiet, Gone
<1>6. Tagged' /\ RingOK' /\ (Fresh' <=> Fresh) /\ length' = length
  BY <1>1, RingAside
<1>7. StreamsInv' /\ CallsInv'
  BY <1>1, <1>6 DEF EngineInv, StreamsInv, OutputReady, CallsInv
<1>8. Script(tail) /\ tail[1][1] = "Select" /\ tail[Len(tail)][1] = "Open" /\ NoRun(tail)
  <2>1. /\ tail[1][1] = "Select" /\ tail[2][1] = "Open" /\ DOMAIN tail = 1..2 /\ Len(tail) = 2
    OBVIOUS
  <2>2. Script(tail)
    BY Opening
  <2> HIDE DEF tail
  <2>3. \A i \in 1..2 : tail[i] # RunStep /\ tail[i] # ChooseNone
    BY <2>1 DEF RunStep, ChooseNone
  <2> QED
    BY <2>1, <2>2, <2>3 DEF NoRun
<1> HIDE DEF step, tail
<1>9. Settled \/ Awaited
  BY <1>2, <1>4 DEF Ready
<1>10. ASSUME Take(step, <<>>)
       PROVE  TodoInv' /\ SeqTodo'
  <2>1. RunsForNone'
    BY <1>1, <1>3, <1>4, <1>5, <1>10, RunsAdvance
  <2>2. /\ SeqTodo' /\ Chained(todo')
        /\ DOMAIN todo' = 1..(Len(todo) - 1) /\ DOMAIN todo = 1..Len(todo) /\ Len(todo) \in Nat \ {0}
        /\ \A i \in DOMAIN todo' : todo'[i] = todo[i + 1]
        /\ todo[1] = step
        /\ todo' # <<>> => Then(step, Head(todo'))
    BY <1>3, <1>10, Advance
  <2>3. PICK S : todo' \in Seq(S)
    BY <2>2 DEF SeqTodo
  <2>4. todo' # <<>> => 1 \in DOMAIN todo' /\ Head(todo') = todo'[1]
    BY <2>3
  <2>5. ASSUME Awaited, ~Settled
        PROVE  todo' # <<>> /\ (Head(todo') = RunStep \/ Awaited')
    <3>1. PICK i \in 2..3 : i \in DOMAIN todo /\ todo[i] = RunStep
      BY <2>5 DEF Awaited
    <3>2. CASE i = 2
      <4>1. 1 \in DOMAIN todo' /\ todo'[1] = RunStep
        BY <2>2, <3>1, <3>2
      <4>2. todo' # <<>>
        BY <4>1, <2>3
      <4> QED
        BY <4>1, <4>2, <2>4
    <3>3. CASE i = 3
      <4>1. 2 \in DOMAIN todo' /\ todo'[2] = RunStep
        BY <2>2, <3>1, <3>3
      <4>2. todo' # <<>>
        BY <4>1, <2>3
      <4> QED
        BY <4>1, <4>2 DEF Awaited
    <3> QED
      BY <3>1, <3>2, <3>3
  <2>6. todo' = <<>> => Settled'
    BY <1>5, <1>9, <2>5
  <2>7. ASSUME todo' # <<>> PROVE Ready(Head(todo))'
    <3>1. Settles(Head(todo')) \/ Head(todo') = RunStep
      BY <1>4, <2>2, <2>7 DEF Then
    <3>2. CASE Head(todo') = RunStep
      BY <3>2 DEF Ready, RunStep
    <3>3. CASE Head(todo') # RunStep
      <4>1. Settled' \/ Awaited'
        BY <1>5, <1>9, <2>5, <3>3
      <4>2. Head(todo')[1] = "Default" \/ Head(todo') = <<"Close", "input">>
        BY <3>1, <3>3 DEF Settles
      <4> QED
        BY <4>1, <4>2 DEF Ready
    <3> QED
      BY <3>2, <3>3
  <2> QED
    BY <2>1, <2>2, <2>6, <2>7 DEF TodoInv
<1>11. ASSUME driver # NoDriver, Take(step, steps)
       PROVE  TodoInv' /\ SeqTodo'
  <2>1. /\ Script(steps) /\ steps[1] = <<"Close", "input">>
        /\ steps[Len(steps)] = tail[Len(tail)]
    BY <1>8, Following
  <2>2. Then(CloseStreams[Len(CloseStreams)], tail[1])
    <3>1. CloseStreams[Len(CloseStreams)] = <<"Free", "buffers">>
      BY Closing
    <3>2. \A first, next : first = <<"Free", "buffers">> /\ next[1] = "Select" => Then(first, next)
      BY DEF Then
    <3> QED
      BY <1>8, <3>1, <3>2
  <2>3. Plain(steps)
    BY <1>8, <2>2, Closing, JoinedPlain DEF Plain
  <2>4. steps[Len(steps)][1] = "Open"
    BY <1>8, <2>1
  <2> HIDE DEF steps
  <2>5. MayEnd(steps[Len(steps)])
    BY <2>4 DEF MayEnd
  <2>6. \A next : Then(step, next) /\ next # RunStep => Then(steps[Len(steps)], next)
    BY <1>4, <2>4 DEF Then
  <2>7. Ready(<<"Close", "input">>)'
    BY DEF Ready
  <2> QED
    BY <1>4, <1>11, <2>1, <2>3, <2>5, <2>6, <2>7, Replaced
<1>12. Take(step, <<>>) \/ (driver # NoDriver /\ Take(step, steps))
  BY <1>1 DEF SettingDevice, tail
<1>13. TodoInv' /\ SeqTodo'
  BY <1>10, <1>11, <1>12
<1>14. StreamTypes'
  BY <1>1, <1>13 DEF EngineInv, StreamTypes, SeqTodo
<1> QED
  BY <1>6, <1>7, <1>13, <1>14 DEF EngineInv

-----------------------------------------------------------------------------
(* The steps that open *)

(* What is to be done for a stream, and what is put behind it.             *)
LEMMA Pieces ==
  /\ Plain(<<<<"RunIfNone", "thread">>>>)
  /\ Plain(<<<<"Buffer", "output">>>>)
  /\ Plain(<<<<"Ring", "output">>>>)
  /\ \A kind : /\ Plain(Opened(kind))
               /\ Opened(kind)[1] = <<"OpenStream", kind>>
               /\ Opened(kind)[Len(Opened(kind))] = <<"Start", kind>>
<1>1. ASSUME NEW step, step # RunStep, step # ChooseNone
      PROVE  Plain(<<step>>)
  <2> DEFINE steps == <<step>>
  <2>1. steps \in Seq({step}) /\ Len(steps) = 1 /\ DOMAIN steps = 1..1 /\ steps[1] = step
    OBVIOUS
  <2> HIDE DEF steps
  <2>2. /\ \E S : steps \in Seq(S)
        /\ Len(steps) > 0
    BY <2>1
  <2>3. \A i \in 1..(Len(steps) - 1) : Then(steps[i], steps[i + 1])
    BY <2>1
  <2>4. \A i \in 1..Len(steps) : steps[i] # RunStep /\ steps[i] # ChooseNone
    BY <1>1, <2>1
  <2>5. Script(steps)
    BY <2>2, <2>3, <2>4, PlainScript
  <2>6. Plain(steps)
    BY <1>1, <2>1, <2>5 DEF Plain, NoRun
  <2> QED
    BY <2>6 DEF steps
<1>2. /\ <<"RunIfNone", "thread">> # RunStep /\ <<"RunIfNone", "thread">> # ChooseNone
      /\ <<"Buffer", "output">> # RunStep /\ <<"Buffer", "output">> # ChooseNone
      /\ <<"Ring", "output">> # RunStep /\ <<"Ring", "output">> # ChooseNone
  BY DEF RunStep, ChooseNone
<1>3. ASSUME NEW kind
      PROVE  /\ Plain(Opened(kind))
             /\ Opened(kind)[1] = <<"OpenStream", kind>>
             /\ Opened(kind)[Len(Opened(kind))] = <<"Start", kind>>
  <2> DEFINE a == <<"OpenStream", kind>>
             b == <<"Start", kind>>
             steps == Opened(kind)
  <2>1. steps = <<a, b>>
    BY DEF Opened
  <2>2. a[1] = "OpenStream" /\ a[2] = kind /\ b = <<"Start", kind>> /\ b[1] = "Start"
    OBVIOUS
  <2>3. Then(a, b)
    BY DEF Then
  <2>4. a # RunStep /\ a # ChooseNone /\ b # RunStep /\ b # ChooseNone
    BY DEF RunStep, ChooseNone
  <2> HIDE DEF a, b, steps
  <2>5. /\ steps \in Seq({a, b}) /\ Len(steps) = 2 /\ DOMAIN steps = 1..2
        /\ steps[1] = a /\ steps[2] = b
    BY <2>1
  <2>6. \A i \in 1..2 : steps[i] # RunStep /\ steps[i] # ChooseNone
    BY <2>4, <2>5
  <2>7. \A i \in 1..(Len(steps) - 1) : Then(steps[i], steps[i + 1])
    <3>1. \A i \in 1..(Len(steps) - 1) : i = 1
      BY <2>5
    <3> QED
      BY <2>3, <2>5, <3>1
  <2>8. Len(steps) > 0 /\ \E S : steps \in Seq(S)
    BY <2>5
  <2>9. Script(steps)
    BY <2>5, <2>6, <2>7, <2>8, PlainScript
  <2>10. Plain(steps)
    BY <2>5, <2>6, <2>9 DEF Plain, NoRun
  <2> QED
    BY <2>5, <2>10 DEF a, b, steps
<1> QED
  BY <1>1, <1>2, <1>3

LEMMA NothingJoined ==
  ASSUME NEW a, Plain(a)
  PROVE  <<>> \o a = a /\ a \o <<>> = a
<1>1. PICK S : a \in Seq(S)
  BY DEF Plain, Script
<1>2. \A x \in Seq(S) : <<>> \o x = x /\ x \o <<>> = x
  OBVIOUS
<1> QED
  BY <1>1, <1>2

(* What opening puts in its place. *)
LEMMA OpeningScript ==
  ASSUME Take(<<"Open", "streams">>,
           (IF device["input"] = device["output"] /\ device["input"] # NoDevice THEN Opened("duplex")
            ELSE (IF device["input"] # NoDevice THEN Opened("input") ELSE <<>>)
                 \o (IF device["output"] # NoDevice THEN <<<<"Buffer", "output">>>> \o Opened("output")
                     ELSE <<>>))
           \o <<<<"RunIfNone", "thread">>>>)
  PROVE  \E more :
           /\ Take(<<"Open", "streams">>, more)
           /\ Plain(more) /\ more[Len(more)] = <<"RunIfNone", "thread">>
           /\ more[1] \in {<<"OpenStream", "duplex">>, <<"OpenStream", "input">>,
                           <<"Buffer", "output">>, <<"RunIfNone", "thread">>}
<1> DEFINE rest == <<<<"RunIfNone", "thread">>>>
           buffer == <<<<"Buffer", "output">>>>
           duplex == Opened("duplex")
           in == Opened("input")
           out == Opened("output")
           behind == buffer \o out
<1>1. /\ Plain(rest) /\ Plain(buffer) /\ Plain(duplex) /\ Plain(in) /\ Plain(out)
      /\ duplex[1] = <<"OpenStream", "duplex">> /\ in[1] = <<"OpenStream", "input">>
      /\ out[1] = <<"OpenStream", "output">>
      /\ duplex[Len(duplex)] = <<"Start", "duplex">> /\ in[Len(in)] = <<"Start", "input">>
      /\ out[Len(out)] = <<"Start", "output">>
  BY Pieces
<1>2. /\ rest[1] = <<"RunIfNone", "thread">> /\ rest[Len(rest)] = <<"RunIfNone", "thread">>
      /\ buffer[1] = <<"Buffer", "output">> /\ buffer[Len(buffer)] = <<"Buffer", "output">>
  OBVIOUS
<1>3. \E more \in {duplex \o rest, (in \o behind) \o rest, (in \o <<>>) \o rest,
                   (<<>> \o behind) \o rest, (<<>> \o <<>>) \o rest} :
        Take(<<"Open", "streams">>, more)
  <2>1. CASE device["input"] = device["output"] /\ device["input"] # NoDevice
    BY <2>1
  <2>2. CASE ~(device["input"] = device["output"] /\ device["input"] # NoDevice)
    <3>1. CASE device["input"] # NoDevice /\ device["output"] # NoDevice
      BY <2>2, <3>1
    <3>2. CASE device["input"] # NoDevice /\ device["output"] = NoDevice
      BY <2>2, <3>2
    <3>3. CASE device["input"] = NoDevice /\ device["output"] # NoDevice
      BY <2>2, <3>3
    <3>4. CASE device["input"] = NoDevice /\ device["output"] = NoDevice
      BY <2>2, <3>4
    <3> QED
      BY <3>1, <3>2, <3>3, <3>4
  <2> QED
    BY <2>1, <2>2
<1> HIDE DEF rest, buffer, duplex, in, out
<1>4. /\ Plain(behind) /\ behind[1] = <<"Buffer", "output">>
      /\ behind[Len(behind)] = <<"Start", "output">>
  <2>1. Then(buffer[Len(buffer)], out[1])
    BY <1>1, <1>2 DEF Then
  <2> QED
    BY <1>1, <1>2, <2>1, JoinedPlain
<1> HIDE DEF behind
<1>5. ASSUME NEW first, Plain(first), NEW kind, first[Len(first)] = <<"Start", kind>>
      PROVE  /\ Plain(first \o rest) /\ (first \o rest)[1] = first[1]
             /\ (first \o rest)[Len(first \o rest)] = <<"RunIfNone", "thread">>
  <2>1. \A step, next : step = <<"Start", kind>> /\ next = <<"RunIfNone", "thread">> => Then(step, next)
    BY DEF Then
  <2>2. Then(first[Len(first)], rest[1])
    BY <1>2, <1>5, <2>1
  <2> QED
    BY <1>1, <1>2, <1>5, <2>2, JoinedPlain
<1>6. /\ Plain(in \o behind) /\ (in \o behind)[1] = <<"OpenStream", "input">>
      /\ (in \o behind)[Len(in \o behind)] = <<"Start", "output">>
  <2>1. Then(in[Len(in)], behind[1])
    BY <1>1, <1>4 DEF Then
  <2> QED
    BY <1>1, <1>4, <2>1, JoinedPlain
<1>7. in \o <<>> = in /\ <<>> \o behind = behind /\ (<<>> \o <<>>) \o rest = rest
  <2>1. \A S : \A x \in Seq(S) : (<<>> \o <<>>) \o x = x
    OBVIOUS
  <2>2. \E S : rest \in Seq(S)
    BY <1>1 DEF Plain, Script
  <2> QED
    BY <1>1, <1>4, <2>1, <2>2, NothingJoined
<1>8. /\ Plain(duplex \o rest) /\ (duplex \o rest)[1] = <<"OpenStream", "duplex">>
      /\ (duplex \o rest)[Len(duplex \o rest)] = <<"RunIfNone", "thread">>
  BY <1>1, <1>5
<1>9. /\ Plain((in \o behind) \o rest) /\ ((in \o behind) \o rest)[1] = <<"OpenStream", "input">>
      /\ ((in \o behind) \o rest)[Len((in \o behind) \o rest)] = <<"RunIfNone", "thread">>
  BY <1>5, <1>6
<1>10. /\ Plain(in \o rest) /\ (in \o rest)[1] = <<"OpenStream", "input">>
       /\ (in \o rest)[Len(in \o rest)] = <<"RunIfNone", "thread">>
  BY <1>1, <1>5
<1>11. /\ Plain(behind \o rest) /\ (behind \o rest)[1] = <<"Buffer", "output">>
       /\ (behind \o rest)[Len(behind \o rest)] = <<"RunIfNone", "thread">>
  BY <1>4, <1>5
<1>12. \A more \in {duplex \o rest, (in \o behind) \o rest, in \o rest, behind \o rest, rest} :
         /\ Plain(more) /\ more[Len(more)] = <<"RunIfNone", "thread">>
         /\ more[1] \in {<<"OpenStream", "duplex">>, <<"OpenStream", "input">>,
                         <<"Buffer", "output">>, <<"RunIfNone", "thread">>}
  BY <1>1, <1>2, <1>8, <1>9, <1>10, <1>11
<1> QED
  BY <1>3, <1>7, <1>12

LEMMA OpenStep ==
  ASSUME EngineInv, Open
  PROVE  EngineInv'
<1> DEFINE step == <<"Open", "streams">>
<1>1. /\ opening' = 1 - opening
      /\ UNCHANGED <<ring, driver, device, stream, pointer, buffers, thread, told, doing, life>>
  BY DEF Open
<1>2. PICK more :
        /\ Take(step, more)
        /\ Plain(more) /\ more[Len(more)] = <<"RunIfNone", "thread">>
        /\ more[1] \in {<<"OpenStream", "duplex">>, <<"OpenStream", "input">>,
                        <<"Buffer", "output">>, <<"RunIfNone", "thread">>}
  BY OpeningScript DEF Open
<1>3. Ready(step)
  BY <1>2, ReadyNow DEF Take
<1>4. Quiet /\ Quiet'
  BY <1>1, <1>3 DEF Ready, Quiet, Gone
<1>5. Ready(<<"OpenStream", "duplex">>)' /\ Ready(<<"OpenStream", "input">>)'
  BY <1>4 DEF Ready, Quiet, Gone, Kinds, Sides
<1>6. Ready(<<"Buffer", "output">>)' /\ Ready(<<"RunIfNone", "thread">>)'
  BY <1>4 DEF Ready, Quiet, Gone, Kinds, Sides
<1>7. /\ step # RunStep /\ step # ChooseNone /\ step[1] # "Default"
      /\ MayEnd(step) => MayEnd(more[Len(more)])
  BY <1>2 DEF RunStep, ChooseNone, MayEnd
<1>8. \A next : Then(step, next) => Then(more[Len(more)], next)
  BY <1>2 DEF Then
<1> HIDE DEF step
<1>9. TodoInv' /\ SeqTodo'
  BY <1>2, <1>5, <1>6, <1>7, <1>8, Replaced
<1>10. Tagged' /\ RingOK'
  <2>1. Tagged'
    BY <1>1 DEF EngineInv, Tagged
  <2> QED
    BY <1>1, <2>1 DEF EngineInv, RingOK, ring
<1>11. \A kind \in Kinds : stream[kind] = "closed"
  BY <1>4 DEF Quiet, Gone
<1>12. StreamTypes' /\ StreamsInv' /\ CallsInv'
  BY <1>1, <1>9, <1>11 DEF EngineInv, StreamTypes, SeqTodo, StreamsInv, CallsInv, Kinds, Sides
<1> QED
  BY <1>9, <1>10, <1>12 DEF EngineInv

LEMMA BufferStep ==
  ASSUME EngineInv, Buffer
  PROVE  EngineInv'
<1> DEFINE step == <<"Buffer", "output">>
           more == <<<<"Ring", "output">>>>
<1>1. /\ Take(step, more) /\ buffers' = buffers \cup {"process"}
      /\ UNCHANGED <<ring, driver, device, stream, pointer, thread, told, doing, life, opening, asked>>
  BY DEF Buffer
<1>2. Ready(step)
  BY <1>1, ReadyNow DEF Take
<1>3. Ready(<<"Ring", "output">>)'
  BY <1>1, <1>2 DEF Ready, Gone
<1>4. /\ step # RunStep /\ step # ChooseNone /\ step[1] # "Default" /\ ~MayEnd(step)
      /\ more[1] = <<"Ring", "output">> /\ more[Len(more)] = <<"Ring", "output">>
  BY DEF RunStep, ChooseNone, MayEnd
<1>5. Plain(more)
  BY Pieces
<1>6. \A next : Then(step, next) => Then(<<"Ring", "output">>, next)
  BY DEF Then
<1> HIDE DEF step, more
<1>7. TodoInv' /\ SeqTodo'
  BY <1>1, <1>3, <1>4, <1>5, <1>6, Replaced
<1>8. Tagged' /\ RingOK' /\ (Fresh' <=> Fresh) /\ length' = length
  BY <1>1, RingAside
<1>9. StreamTypes' /\ StreamsInv' /\ CallsInv'
  BY <1>1, <1>7, <1>8 DEF EngineInv, StreamTypes, SeqTodo, StreamsInv, OutputReady, CallsInv
<1> QED
  BY <1>7, <1>8, <1>9 DEF EngineInv

LEMMA RingStep ==
  ASSUME EngineInv, InitializeRing
  PROVE  EngineInv'
<1> DEFINE step == <<"Ring", "output">>
<1>1. /\ Take(step, <<>>)
      /\ UNCHANGED <<driver, device, stream, pointer, buffers, thread, told, doing, life, opening, asked>>
  BY DEF InitializeRing
<1>2. PICK n \in Lengths : Reset(n)
  BY DEF InitializeRing
<1>3. used' = 0 /\ length' = n /\ n > 0 /\ n \in Nat
  BY <1>2, RingAssumption DEF Reset, Recreate, RingAssumption
<1>4. Ready(step)
  BY <1>1, ReadyNow DEF Take
<1>5. Gone({"output", "duplex"}) /\ ~thread /\ "process" \in buffers
  BY <1>4 DEF Ready
<1>6. OutputReady'
  BY <1>1, <1>3, <1>5 DEF OutputReady, Fresh
<1>7. ASSUME Then(step, Head(todo')) PROVE Ready(Head(todo))'
  <2>1. Head(todo') = <<"OpenStream", "output">>
    BY <1>7 DEF Then
  <2>2. Gone({"output", "duplex"})' /\ ~thread'
    BY <1>1, <1>5 DEF Gone
  <2>3. Gone({"output", "output", "duplex"})'
    BY <2>2 DEF Gone
  <2> QED
    BY <1>6, <2>1, <2>2, <2>3 DEF Ready
<1>8. step[1] = "Ring" /\ ~MayEnd(step)
  BY DEF MayEnd
<1> HIDE DEF step
<1>9. TodoInv' /\ SeqTodo'
  BY <1>1, <1>7, <1>8, Taken
<1>10. Tagged' /\ RingOK'
  BY RingStays DEF EngineInv, Next, Control
<1>11. StreamTypes' /\ StreamsInv' /\ CallsInv'
  BY <1>1, <1>5, <1>6, <1>9 DEF EngineInv, StreamTypes, SeqTodo, StreamsInv, CallsInv, Gone
<1> QED
  BY <1>9, <1>10, <1>11 DEF EngineInv

LEMMA StartStep ==
  ASSUME EngineInv, NEW kind \in Kinds, Start(kind)
  PROVE  EngineInv'
<1> DEFINE step == <<"Start", kind>>
<1>1. PICK what \in {"running", "closed"} : stream' = [stream EXCEPT ![kind] = what]
  BY DEF Start
<1>2. /\ Take(step, <<>>)
      /\ UNCHANGED <<ring, driver, pointer, buffers, thread, told, doing, life, opening, asked>>
  BY DEF Start
<1>3. stream'[kind] = what /\ \A other \in Kinds \ {kind} : stream'[other] = stream[other]
  BY <1>1 DEF EngineInv, StreamTypes
<1>4. stream' \in [Kinds -> {"closed", "open", "running"}]
  BY <1>1 DEF EngineInv, StreamTypes
<1>5. Ready(step)
  BY <1>2, ReadyNow DEF Take
<1>6. stream[kind] = "open" /\ (kind = "input" => Gone({"output", "duplex"}))
  BY <1>5 DEF Ready
<1>7. pointer[kind] /\ ~thread /\ ~thread'
  BY <1>2, <1>6 DEF EngineInv, StreamsInv
<1>8. ASSUME Then(step, Head(todo')) PROVE Ready(Head(todo))'
  <2>1. CASE kind = "input"
    <3>1. Head(todo')[1] \in {"Buffer", "RunIfNone"}
      BY <1>8, <2>1 DEF Then
    <3>2. Gone({"output", "duplex"})'
      BY <1>2, <1>3, <1>6, <2>1 DEF Gone, Kinds, Sides
    <3> QED
      BY <1>7, <3>1, <3>2 DEF Ready
  <2>2. CASE kind # "input"
    <3>1. Head(todo')[1] = "RunIfNone"
      BY <1>8, <2>2 DEF Then
    <3> QED
      BY <3>1 DEF Ready
  <2> QED
    BY <2>1, <2>2
<1>9. step[1] = "Start" /\ ~MayEnd(step)
  BY DEF MayEnd
<1> HIDE DEF step
<1>10. TodoInv' /\ SeqTodo'
  BY <1>2, <1>8, <1>9, Taken
<1>11. Tagged' /\ RingOK' /\ (Fresh' <=> Fresh) /\ length' = length
  BY <1>2, RingAside
<1>12. StreamTypes'
  BY <1>2, <1>4, <1>10 DEF EngineInv, StreamTypes, SeqTodo
<1>13. StreamsInv'
  BY <1>2, <1>3, <1>6, <1>7, <1>11 DEF EngineInv, StreamsInv, OutputReady, Kinds, Sides
<1>14. CallsInv'
  <2>1. \A other \in Kinds : doing[other] # "nothing" => other # kind /\ stream'[other] = "running"
    BY <1>3, <1>6 DEF EngineInv, CallsInv
  <2> QED
    BY <1>2, <2>1 DEF EngineInv, CallsInv
<1> QED
  BY <1>10, <1>11, <1>12, <1>13, <1>14 DEF EngineInv

LEMMA RunStepStep ==
  ASSUME EngineInv, NEW step \in {RunStep, <<"RunIfNone", "thread">>}, Run(step)
  PROVE  EngineInv'
<1>1. /\ Take(step, <<>>)
      /\ thread' = (thread \/ step = RunStep \/ \A kind \in Kinds : ~pointer[kind])
      /\ UNCHANGED <<ring, driver, device, stream, pointer, buffers, told, doing, life, opening, asked>>
  BY DEF Run, RunStep
<1>2. SeqTodo /\ Chained(todo) /\ RunsForNone
  BY DEF EngineInv, TodoInv, StreamTypes, SeqTodo
<1>3. step = RunStep => \A kind \in Kinds : ~pointer[kind]
  <2>1. todo[1] = step /\ 1 \in DOMAIN todo
    <3>1. PICK T : todo \in Seq(T)
      BY <1>2 DEF SeqTodo
    <3> QED
      BY <1>1, <3>1 DEF Take
  <2>2. step = RunStep => Quiet
    BY <1>2, <2>1 DEF RunsForNone
  <2> QED
    BY <2>2 DEF Quiet, Gone
<1>4. thread => \A kind \in Kinds : ~pointer[kind]
  BY DEF EngineInv, StreamsInv
<1>5. thread' <=> \A kind \in Kinds : ~pointer[kind]
  BY <1>1, <1>3, <1>4
<1>6. Settled'
  BY <1>1, <1>5 DEF Settled
<1>7. step[1] \in {"Run", "RunIfNone"}
  BY DEF RunStep
<1>8. ASSUME Then(step, Head(todo')) PROVE Ready(Head(todo))'
  <2>1. Head(todo')[1] = "Default" \/ Head(todo') = <<"Close", "input">>
    BY <1>7, <1>8 DEF Then, Settles
  <2> QED
    BY <1>6, <2>1 DEF Ready
<1>9. TodoInv' /\ SeqTodo'
  BY <1>1, <1>6, <1>7, <1>8, Taken
<1>10. Tagged' /\ RingOK' /\ (Fresh' <=> Fresh) /\ length' = length
  BY <1>1, RingAside
<1>11. thread' \in BOOLEAN
  BY <1>1
<1>12. StreamTypes'
  BY <1>1, <1>9, <1>11 DEF EngineInv, StreamTypes, SeqTodo
<1>13. StreamsInv'
  BY <1>1, <1>5, <1>10 DEF EngineInv, StreamsInv, OutputReady
<1>14. CallsInv'
  BY <1>1 DEF EngineInv, CallsInv
<1> QED
  BY <1>9, <1>10, <1>12, <1>13, <1>14 DEF EngineInv

(* A stream that does not open is not started either. *)
LEMMA Skipped ==
  ASSUME EngineInv, NEW kind, todo # <<>>, Head(todo) = <<"OpenStream", kind>>,
         todo' = Tail(Tail(todo)), UNCHANGED <<driver, stream, pointer, thread>>
  PROVE  /\ SeqTodo' /\ Chained(todo') /\ RunsForNone'
         /\ todo' # <<>> /\ Then(<<"Start", kind>>, Head(todo'))
<1> DEFINE step == <<"OpenStream", kind>>
           start == <<"Start", kind>>
<1>1. Chained(todo) /\ RunsForNone
  BY DEF EngineInv, TodoInv
<1>2. PICK S : todo \in Seq(S)
  BY DEF EngineInv, StreamTypes
<1>3. ~MayEnd(step) /\ ~MayEnd(start) /\ step # ChooseNone /\ start # ChooseNone
  BY DEF MayEnd, ChooseNone
<1>4. step[1] # "Default" /\ start[1] # "Default" /\ step # RunStep /\ start # RunStep
  BY DEF RunStep
<1>5. \A next : Then(step, next) => next = start
  BY DEF Then
<1> HIDE DEF step, start
<1>6. DOMAIN todo = 1..Len(todo) /\ Len(todo) \in Nat \ {0} /\ todo[1] = step
  BY <1>2 DEF step
<1>7. Len(todo) > 1 /\ todo[2] = start
  <2>1. Len(todo) # 1
    BY <1>1, <1>3, <1>6 DEF Chained
  <2>2. Then(todo[1], todo[2])
    BY <1>1, <1>6, <2>1 DEF Chained
  <2> QED
    BY <1>5, <1>6, <2>1, <2>2
<1>8. Len(todo) > 2 /\ Then(start, todo[3])
  <2>1. Len(todo) # 2
    BY <1>1, <1>3, <1>6, <1>7 DEF Chained
  <2>2. Then(todo[2], todo[3])
    BY <1>1, <1>6, <1>7, <2>1 DEF Chained
  <2> QED
    BY <1>6, <1>7, <2>1, <2>2
<1>9. /\ todo' \in Seq(S) /\ Len(todo') = Len(todo) - 2
      /\ \A i \in 1..(Len(todo) - 2) : todo'[i] = todo[i + 2]
  <2> DEFINE mid == Tail(todo)
  <2>1. /\ mid \in Seq(S) /\ Len(mid) = Len(todo) - 1
        /\ \A i \in 1..(Len(todo) - 1) : mid[i] = todo[i + 1]
    BY <1>2, <1>6
  <2>2. todo' = Tail(mid) /\ Len(todo) \in Nat
    BY <1>6
  <2> HIDE DEF mid
  <2>3. mid # <<>> /\ Len(mid) \in Nat
    <3>1. Len(mid) \in Nat /\ Len(mid) > 0
      BY <1>7, <2>1, <2>2
    <3> QED
      BY <3>1
  <2>5. \A x \in Seq(S) : x # <<>> =>
          /\ Tail(x) \in Seq(S) /\ Len(Tail(x)) = Len(x) - 1
          /\ \A i \in 1..(Len(x) - 1) : Tail(x)[i] = x[i + 1]
    OBVIOUS
  <2>6. /\ todo' \in Seq(S) /\ Len(todo') = Len(mid) - 1
        /\ \A i \in 1..(Len(mid) - 1) : todo'[i] = mid[i + 1]
    BY <2>1, <2>2, <2>3, <2>5
  <2>4. ASSUME NEW i \in 1..(Len(todo) - 2) PROVE todo'[i] = todo[i + 2]
    <3>1. i \in 1..(Len(mid) - 1) /\ i + 1 \in 1..(Len(todo) - 1) /\ (i + 1) + 1 = i + 2
      BY <1>6, <2>1
    <3>2. todo'[i] = mid[i + 1] /\ mid[i + 1] = todo[(i + 1) + 1]
      BY <2>1, <2>6, <3>1
    <3> QED
      BY <3>1, <3>2
  <2> QED
    BY <1>6, <2>1, <2>6, <2>4
<1>10. DOMAIN todo' = 1..(Len(todo) - 2) /\ Len(todo) \in Nat
  BY <1>6, <1>9
<1>11. todo' # <<>> /\ Head(todo') = todo[3]
  <2>1. Len(todo') \in Nat /\ Len(todo') > 0 /\ 1 \in 1..(Len(todo) - 2)
    BY <1>6, <1>8, <1>9
  <2>2. todo'[1] = todo[1 + 2] /\ 1 + 2 = 3
    BY <1>9, <2>1
  <2>3. todo' # <<>> /\ Head(todo') = todo'[1]
    <3>1. \A x \in Seq(S) : Len(x) > 0 => x # <<>> /\ Head(x) = x[1]
      OBVIOUS
    <3> QED
      BY <1>9, <2>1, <3>1
  <2> QED
    BY <2>2, <2>3
<1>12. Chained(todo')
  <2> SUFFICES ASSUME NEW i \in 1..(Len(todo) - 2)
               PROVE  IF i = Len(todo') THEN MayEnd(todo'[i]) ELSE Then(todo'[i], todo'[i + 1])
    BY <1>10 DEF Chained
  <2>1. i + 2 \in DOMAIN todo /\ todo'[i] = todo[i + 2]
    BY <1>6, <1>9
  <2>2. CASE i = Len(todo) - 2
    <3>1. i + 2 = Len(todo) /\ i = Len(todo')
      BY <1>6, <1>9, <2>2
    <3> QED
      BY <1>1, <2>1, <3>1 DEF Chained
  <2>3. CASE i # Len(todo) - 2
    <3>1. i + 2 # Len(todo) /\ i # Len(todo') /\ i + 1 \in 1..(Len(todo) - 2) /\ (i + 2) + 1 = (i + 1) + 2
      <4>1. i \in 1..(Len(todo) - 2) /\ Len(todo) \in Nat /\ Len(todo') = Len(todo) - 2
        BY <1>6, <1>9
      <4>2. i + 2 # Len(todo) /\ i # Len(todo')
        BY <2>3, <4>1
      <4>3. i + 1 \in 1..(Len(todo) - 2)
        BY <2>3, <4>1
      <4>4. (i + 2) + 1 = (i + 1) + 2
        BY <4>1
      <4> QED
        BY <4>2, <4>3, <4>4
    <3>2. todo'[i + 1] = todo[(i + 2) + 1]
      BY <1>9, <3>1
    <3> QED
      BY <1>1, <2>1, <3>1, <3>2 DEF Chained
  <2> QED
    BY <2>2, <2>3
<1>13. ASSUME NEW i \in DOMAIN todo', todo'[i] = RunStep
       PROVE  /\ i > 3 /\ todo'[i - 3] = ChooseNone
              /\ todo'[i - 2][1] = "Default" /\ todo'[i - 1][1] = "Default"
  <2>1. i \in 1..(Len(todo) - 2) /\ i + 2 \in DOMAIN todo /\ todo[i + 2] = RunStep
    BY <1>6, <1>9, <1>10, <1>13
  <2>2. ~(\A j \in 1..((i + 2) - 1) : todo[j][1] = "Default")
    <3>1. 1 \in 1..((i + 2) - 1)
      BY <2>1, <1>6
    <3> QED
      BY <1>4, <1>6, <3>1
  <2>3. /\ i + 2 > 3 /\ todo[(i + 2) - 3] = ChooseNone
        /\ todo[(i + 2) - 2][1] = "Default" /\ todo[(i + 2) - 1][1] = "Default"
    BY <1>1, <2>1, <2>2 DEF RunsForNone
  <2>4. (i + 2) - 3 = i - 1 /\ (i + 2) - 2 = i /\ (i + 2) - 1 = i + 1 /\ i \in Nat
    BY <2>1, <1>6
  <2>5. i - 1 # 1 /\ i - 1 # 2
    BY <1>3, <1>6, <1>7, <2>3, <2>4
  <2>6. i > 3
    BY <2>3, <2>4, <2>5
  <2>7. /\ i - 3 \in 1..(Len(todo) - 2) /\ i - 2 \in 1..(Len(todo) - 2) /\ i - 1 \in 1..(Len(todo) - 2)
        /\ (i - 3) + 2 = i - 1 /\ (i - 2) + 2 = i /\ (i - 1) + 2 = i + 1
    BY <1>6, <2>1, <2>4, <2>6
  <2>8. todo'[i - 3] = todo[i - 1] /\ todo'[i - 2] = todo[i] /\ todo'[i - 1] = todo[i + 1]
    BY <1>9, <2>7
  <2> QED
    BY <2>3, <2>4, <2>6, <2>8
<1>14. ASSUME NEW i \in DOMAIN todo', todo'[i] = ChooseNone
       PROVE  i + 3 \in DOMAIN todo' /\ todo'[i + 3] = RunStep
  <2>1. i \in 1..(Len(todo) - 2) /\ i + 2 \in DOMAIN todo /\ todo[i + 2] = ChooseNone
    BY <1>6, <1>9, <1>10, <1>14
  <2>2. (i + 2) + 3 \in DOMAIN todo /\ todo[(i + 2) + 3] = RunStep
    BY <1>1, <2>1 DEF RunsForNone
  <2>3. (i + 2) + 3 = (i + 3) + 2 /\ i + 3 \in 1..(Len(todo) - 2)
    BY <1>6, <2>1, <2>2
  <2> QED
    BY <1>9, <1>10, <2>2, <2>3
<1>15. RunsForNone'
  BY <1>13, <1>14 DEF RunsForNone
<1>16. SeqTodo'
  BY <1>9 DEF SeqTodo
<1>17. Then(start, Head(todo'))
  BY <1>8, <1>11
<1> QED
  BY <1>11, <1>12, <1>15, <1>16, <1>17 DEF start

LEMMA OpenStreamStep ==
  ASSUME EngineInv, NEW kind \in Kinds, OpenStream(kind)
  PROVE  EngineInv'
<1> DEFINE step == <<"OpenStream", kind>>
<1>1. /\ todo # <<>> /\ Head(todo) = step
      /\ UNCHANGED <<ring, driver, buffers, thread, told, doing, life, opening, asked>>
  BY DEF OpenStream, Take
<1>2. Ready(step)
  BY <1>1, ReadyNow
<1>3. /\ Gone({kind, "output", "duplex"}) /\ ~thread
      /\ kind = "output" => OutputReady
      /\ kind # "output" => Quiet
  BY <1>2 DEF Ready
<1>4. Tagged' /\ RingOK' /\ (Fresh' <=> Fresh) /\ length' = length
  BY <1>1, RingAside
<1>5. step[1] = "OpenStream" /\ ~MayEnd(step)
  BY DEF MayEnd
<1>6. Then(step, Head(todo')) => Head(todo') = <<"Start", kind>>
  BY DEF Then
<1> HIDE DEF step
<1>7. ASSUME Take(step, <<>>),
             stream' = [stream EXCEPT ![kind] = "open"],
             pointer' = [pointer EXCEPT ![kind] = TRUE]
      PROVE  EngineInv'
  <2>1. stream'[kind] = "open" /\ \A other \in Kinds \ {kind} : stream'[other] = stream[other]
    BY <1>7 DEF EngineInv, StreamTypes
  <2>2. pointer'[kind] = TRUE /\ \A other \in Kinds \ {kind} : pointer'[other] = pointer[other]
    BY <1>7 DEF EngineInv, StreamTypes
  <2>3. stream' \in [Kinds -> {"closed", "open", "running"}] /\ pointer' \in [Kinds -> BOOLEAN]
    BY <1>7 DEF EngineInv, StreamTypes
  <2>4. kind = "input" => Gone({"output", "duplex"})'
    BY <1>3, <2>1, <2>2 DEF Quiet, Gone, Kinds, Sides
  <2>5. ASSUME Then(step, Head(todo')) PROVE Ready(Head(todo))'
    <3>1. Head(todo') = <<"Start", kind>>
      BY <1>6, <2>5
    <3> QED
      BY <2>1, <2>4, <3>1 DEF Ready
  <2>6. TodoInv' /\ SeqTodo'
    BY <1>5, <1>7, <2>5, Taken
  <2>7. StreamTypes'
    BY <1>1, <2>3, <2>6 DEF EngineInv, StreamTypes, SeqTodo
  <2>8. StreamsInv'
    <3>1. \A other \in Kinds : stream'[other] # "closed" => pointer'[other]
      BY <2>1, <2>2 DEF EngineInv, StreamsInv
    <3>2. pointer'["duplex"] => ~pointer'["input"] /\ ~pointer'["output"]
      BY <1>3, <2>2 DEF EngineInv, StreamsInv, Quiet, Gone, Kinds, Sides
    <3>3. ~thread'
      BY <1>1, <1>3
    <3>4. stream'["output"] # "closed" => OutputReady'
      <4>1. OutputReady' <=> OutputReady
        BY <1>1, <1>4 DEF OutputReady
      <4>2. kind # "output" => stream'["output"] = stream["output"]
        BY <2>1 DEF Kinds, Sides
      <4> QED
        BY <1>3, <4>1, <4>2 DEF EngineInv, StreamsInv
    <3> QED
      BY <3>1, <3>2, <3>3, <3>4 DEF StreamsInv
  <2>9. CallsInv'
    <3>1. \A other \in Kinds : doing[other] # "nothing" => other # kind /\ stream'[other] = "running"
      BY <1>3, <2>1 DEF EngineInv, CallsInv, Gone
    <3>2. doing["output"] # "nothing" => ~pointer'["input"]
      BY <1>3, <2>2, <3>1 DEF EngineInv, CallsInv, Quiet, Gone, Kinds, Sides
    <3> QED
      BY <1>1, <3>1, <3>2 DEF EngineInv, CallsInv
  <2> QED
    BY <1>4, <2>6, <2>7, <2>8, <2>9 DEF EngineInv
<1>8. ASSUME todo' = Tail(Tail(todo)), UNCHANGED <<stream, pointer>>
      PROVE  EngineInv'
  <2>1. /\ SeqTodo' /\ Chained(todo') /\ RunsForNone'
        /\ todo' # <<>> /\ Then(<<"Start", kind>>, Head(todo'))
    BY <1>1, <1>8, Skipped DEF step
  <2>2. Ready(Head(todo))'
    <3>1. CASE kind = "input"
      <4>1. Head(todo')[1] \in {"Buffer", "RunIfNone"}
        BY <2>1, <3>1 DEF Then
      <4>2. Gone({"output", "duplex"})' /\ ~thread'
        BY <1>1, <1>3, <1>8 DEF Gone
      <4> QED
        BY <4>1, <4>2 DEF Ready
    <3>2. CASE kind # "input"
      <4>1. Head(todo')[1] = "RunIfNone"
        BY <2>1, <3>2 DEF Then
      <4> QED
        BY <4>1 DEF Ready
    <3> QED
      BY <3>1, <3>2
  <2>3. TodoInv'
    BY <2>1, <2>2 DEF TodoInv
  <2>4. StreamTypes' /\ StreamsInv' /\ CallsInv'
    BY <1>1, <1>4, <1>8, <2>1 DEF EngineInv, StreamTypes, SeqTodo, StreamsInv, OutputReady, CallsInv
  <2> QED
    BY <1>4, <2>3, <2>4 DEF EngineInv
<1> QED
  BY <1>7, <1>8 DEF OpenStream, step

-----------------------------------------------------------------------------
(* The invariant of the engine and what follows from it *)

LEMMA EngineStarts == Init => EngineInv
<1> SUFFICES ASSUME Init PROVE EngineInv
  OBVIOUS
<1>1. Tagged /\ RingOK
  BY RingStarts, RingAssumption DEF Init, Tagged
<1>2. todo = <<>> /\ DOMAIN todo = {} /\ \E S : todo \in Seq(S)
  <2>1. todo = <<>>
    BY DEF Init
  <2>2. <<>> \in Seq({}) /\ DOMAIN <<>> = {}
    OBVIOUS
  <2> QED
    BY <2>1, <2>2
<1>3. StreamTypes
  BY <1>2 DEF Init, StreamTypes
<1>4. StreamsInv /\ CallsInv
  BY DEF Init, StreamsInv, CallsInv, Kinds, Sides
<1>5. TodoInv
  BY <1>2 DEF Init, TodoInv, Chained, RunsForNone, Settled
<1> QED
  BY <1>1, <1>3, <1>4, <1>5 DEF EngineInv

LEMMA EngineKept ==
  ASSUME EngineInv, [Next]_vars
  PROVE  EngineInv'
<1>1. CASE Control
  <2>1. CASE SetDriver \/ SetDevice \/ SetFormat \/ RestoreDefaults \/ Destroy
    BY <2>1, CallStep
  <2>2. ASSUME NEW kind \in Kinds, Close(kind) \/ Forget(kind) \/ OpenStream(kind) \/ Start(kind)
        PROVE  EngineInv'
    BY <2>2, CloseStep, ForgetStep, OpenStreamStep, StartStep
  <2>3. ASSUME NEW d \in Drivers \cup {NoDriver}, Choose(d)
        PROVE  EngineInv'
    BY <2>3, ChooseStep
  <2>4. ASSUME NEW side \in Sides,
               Default(side) \/ \E d \in Devices \cup {NoDevice} : Select(side, d)
        PROVE  EngineInv'
    BY <2>4, DefaultStep, SelectStep
  <2>5. CASE Tell \/ Join \/ Free \/ Open \/ Buffer \/ InitializeRing \/ End
    BY <2>5, TellStep, JoinStep, FreeStep, OpenStep, BufferStep, RingStep, EndStep
  <2>6. CASE Run(<<"Run", "thread">>) \/ Run(<<"RunIfNone", "thread">>)
    BY <2>6, RunStepStep DEF RunStep
  <2> QED
    BY <1>1, <2>1, <2>2, <2>3, <2>4, <2>5, <2>6 DEF Control
<1>2. CASE Callbacks
  BY <1>2, CallbackStep
<1>3. CASE UNCHANGED vars
  <2>1. /\ UNCHANGED <<ring, driver, device, stream, pointer, buffers, thread, told, todo, doing>>
        /\ UNCHANGED <<life, opening, asked>>
    BY <1>3 DEF vars, engine
  <2>2. Tagged' /\ RingOK' /\ (Fresh' <=> Fresh) /\ length' = length
    BY <2>1, RingAside
  <2>3. StreamTypes' /\ StreamsInv' /\ CallsInv'
    BY <2>1, <2>2 DEF EngineInv, StreamTypes, StreamsInv, OutputReady, CallsInv
  <2>4. TodoInv'
    BY <2>1, <2>2, TodoUntouched DEF EngineInv
  <2> QED
    BY <2>2, <2>3, <2>4 DEF EngineInv
<1> QED
  BY <1>1, <1>2, <1>3 DEF Next, Done

LEMMA EngineInvariant == Spec => []EngineInv
  BY EngineStarts, EngineKept, PTL DEF Spec

LEMMA NoneOrOne ==
  ASSUME NEW S, \A a, b \in S : a = b
  PROVE  Cardinality(S) <= 1 /\ (S # {} => Cardinality(S) = 1)
<1>1. CASE S = {}
  BY <1>1, FS_EmptySet
<1>2. CASE S # {}
  <2>1. PICK a : S = {a}
    BY <1>2
  <2>2. Cardinality({a}) = 1
    BY FS_Singleton
  <2> QED
    BY <2>1, <2>2
<1> QED
  BY <1>1, <1>2

(* The dsp engine is driven from one place at a time, whatever is opened   *)
(* and closed and while it is (portaudio_engine.cpp:872, :1007).           *)
THEOREM DrivenOnce == Spec => []OneDriver
<1>1. ASSUME EngineInv PROVE OneDriver
  <2> DEFINE S == {c \in DOMAIN doing : doing[c] \in {"mixing", "pumping"}}
  <2>1. ASSUME NEW a \in S, NEW b \in S PROVE a = b
    <3>1. /\ a \in Callers /\ doing[a] # "nothing"
          /\ b \in Callers /\ doing[b] # "nothing"
      BY <1>1 DEF EngineInv, StreamTypes, Callers
    <3>2. \A c \in Kinds : doing[c] # "nothing" => pointer[c]
      BY <1>1 DEF EngineInv, StreamsInv, CallsInv
    <3> QED
      BY <1>1, <3>1, <3>2 DEF EngineInv, StreamsInv, CallsInv, Callers, Kinds, Sides
  <2> HIDE DEF S
  <2>2. Cardinality(S) <= 1
    BY <2>1, NoneOrOne
  <2> QED
    BY <2>2 DEF OneDriver, S
<1> QED
  BY <1>1, EngineInvariant, PTL

(* Between two calls it is driven from exactly one place, whichever        *)
(* devices could be opened (portaudio_engine.cpp:850).                     *)
THEOREM DrivenAlways == Spec => []AlwaysDriven
<1>1. ASSUME EngineInv PROVE AlwaysDriven
  <2> SUFFICES ASSUME life = "up", todo = <<>>, asked,
                      \A kind \in Kinds : pointer[kind] => stream[kind] = "running"
               PROVE  Cardinality({c \in DOMAIN doing : Driving(c)}) = 1
    BY DEF AlwaysDriven
  <2> DEFINE S == {c \in DOMAIN doing : Driving(c)}
  <2>1. thread <=> \A kind \in Kinds : ~pointer[kind]
    BY <1>1 DEF EngineInv, TodoInv, Settled
  <2>2. \A kind \in Kinds : pointer[kind] <=> stream[kind] = "running"
    BY <1>1 DEF EngineInv, StreamsInv
  <2>3. DOMAIN doing = Callers
    BY <1>1 DEF EngineInv, StreamTypes, Callers
  <2>4. /\ Driving("thread") <=> thread
        /\ Driving("output") <=> pointer["output"] /\ ~pointer["input"]
        /\ Driving("input") <=> pointer["input"]
        /\ Driving("duplex") <=> pointer["duplex"]
    BY <2>2 DEF Driving, Kinds, Sides
  <2>5. ASSUME NEW a \in S, NEW b \in S PROVE a = b
    <3>1. a \in Callers /\ Driving(a) /\ b \in Callers /\ Driving(b)
      BY <2>3
    <3> QED
      BY <1>1, <2>1, <2>4, <3>1 DEF EngineInv, StreamsInv, Callers, Kinds, Sides
  <2>6. S # {}
    BY <1>1, <2>1, <2>3, <2>4 DEF EngineInv, StreamsInv, Callers, Kinds, Sides
  <2> HIDE DEF S
  <2>7. Cardinality(S) = 1
    BY <2>5, <2>6, NoneOrOne
  <2> QED
    BY <2>7 DEF S
<1> QED
  BY <1>1, EngineInvariant, PTL

(* A callback finds its buffers, and in the ring nothing from before the   *)
(* streams were opened (the assertion portaudio_engine.cpp:1005).          *)
THEOREM CallbacksFindBuffers == Spec => []BuffersReady
<1>1. ASSUME EngineInv PROVE BuffersReady
  BY <1>1 DEF EngineInv, StreamsInv, CallsInv, OutputReady, Fresh, BuffersReady
<1> QED
  BY <1>1, EngineInvariant, PTL
=============================================================================
