------------------------ MODULE ThreadedQueue_proofs ------------------------
(***************************************************************************)
(* Proofs about CThreadedQueue, for any number of queues and producers and *)
(* any bounds: nothing is lost or reordered, a destroyed queue is empty,   *)
(* and with private semaphores no wakeup is lost.                          *)
(***************************************************************************)
EXTENDS ThreadedQueue, SequenceTheorems, TLAPS

(* NewItems(p, n) is a list of n items of producer p.                      *)
LEMMA NewItemsType ==
  ASSUME TypeOK, NEW p \in Producers, NEW n \in 1..MaxBatch,
         count[p] + n <= MaxPushes
  PROVE  /\ NewItems(p, n) \in Seq(Items)
         /\ NewItems(p, n) \in [1..n -> Items]
<1>1. n \in Nat /\ count[p] \in Nat /\ MaxPushes \in Nat
  BY BoundsAssumption DEF TypeOK
<1>2. \A i \in 1..n : <<p, count[p] + i>> \in Items
  BY <1>1 DEF Items
<1>3. NewItems(p, n) \in [1..n -> Items]
  BY <1>2 DEF NewItems
<1> QED  BY <1>1, <1>3

(* The values of the variables: the type invariant of the run.             *)
THEOREM TypeCorrect == Spec => []TypeOK
<1>1. Init => TypeOK
  BY BoundsAssumption, TargetAssumption
  DEF Init, TypeOK, ThreadStates, OwnerStates, ProducerStates
<1>2. TypeOK /\ [Next]_vars => TypeOK'
  <2> SUFFICES ASSUME TypeOK, [Next]_vars PROVE TypeOK'
    OBVIOUS
  <2> USE TargetAssumption, BoundsAssumption
  <2>1. ASSUME NEW p \in Producers, NEW n \in 1..MaxBatch, Push(p, n)
        PROVE  TypeOK'
    <3>1. NewItems(p, n) \in Seq(Items)
      BY <2>1, NewItemsType DEF Push
    <3>2. count[p] + n \in 0..MaxPushes
      BY <2>1 DEF Push, TypeOK
    <3> QED  BY <2>1, <3>1, <3>2 DEF Push, TypeOK, ProducerStates
  <2>2. ASSUME NEW q \in Queues PROVE SemaphoreOf(q) \in Semaphores
    BY SharedAssumption DEF SemaphoreOf, Semaphores
  <2>3. ASSUME NEW p \in Producers, PushSignal(p) PROVE TypeOK'
    BY <2>3, <2>2 DEF PushSignal, SendSignal, TypeOK, ProducerStates
  <2>4. ASSUME NEW p \in Producers, StopProducer(p) PROVE TypeOK'
    BY <2>4 DEF StopProducer, TypeOK, ProducerStates
  <2>5. ASSUME NEW q \in Queues, Wait(q) PROVE TypeOK'
    BY <2>5, <2>2 DEF Wait, TypeOK, ThreadStates
  <2>6. ASSUME NEW q \in Queues, Take(q) PROVE TypeOK'
    BY <2>6 DEF Take, TypeOK, ThreadStates
  <2>7. ASSUME NEW q \in Queues, Deliver(q) PROVE TypeOK'
    BY <2>7 DEF Deliver, TypeOK, ThreadStates
  <2>8. ASSUME NEW q \in Queues, SetFinished(q) PROVE TypeOK'
    BY <2>8 DEF SetFinished, TypeOK, OwnerStates
  <2>9. ASSUME NEW q \in Queues, DestructorSignal(q) PROVE TypeOK'
    BY <2>9, <2>2 DEF DestructorSignal, SendSignal, TypeOK, OwnerStates
  <2>10. ASSUME NEW q \in Queues, Join(q) PROVE TypeOK'
    BY <2>10 DEF Join, TypeOK, OwnerStates
  <2>11. CASE UNCHANGED vars
    BY <2>11 DEF vars, TypeOK
  <2> QED
    BY <2>1, <2>3, <2>4, <2>5, <2>6, <2>7, <2>8, <2>9, <2>10, <2>11
    DEF Next, Done
<1> QED  BY <1>1, <1>2, PTL DEF Spec

-----------------------------------------------------------------------------
(* Nothing is lost, doubled or reordered, and a destroyed queue is empty.  *)

(* What holds between the steps of one queue's threads.  A thread holds a  *)
(* batch only while it delivers it; it decides to exit in the critical     *)
(* section that empties the list, after the last producer has stopped.     *)
ThreadInv ==
  \A q \in Queues :
    /\ thread[q] # "delivering" => batch[q] = <<>>
    /\ owner[q] # "running" =>
         \A p \in Producers : Target[p] = q => producer[p] = "stopped"
    /\ finished[q] => owner[q] # "running"
    /\ exiting[q] =>
         /\ finished[q]
         /\ thread[q] \in {"delivering", "exited"}
         /\ content[q] = <<>>
    /\ thread[q] = "exited" => exiting[q]
    /\ owner[q] = "destroyed" => thread[q] = "exited"

LEMMA ThreadInvStep == TypeOK /\ ThreadInv /\ [Next]_vars => ThreadInv'
<1> SUFFICES ASSUME TypeOK, ThreadInv, [Next]_vars PROVE ThreadInv'
  OBVIOUS
<1> USE TargetAssumption DEF ThreadInv, TypeOK
<1>1. ASSUME NEW p \in Producers, NEW n \in 1..MaxBatch, Push(p, n)
      PROVE  ThreadInv'
  BY <1>1 DEF Push
<1>2. ASSUME NEW p \in Producers, PushSignal(p) PROVE ThreadInv'
  BY <1>2 DEF PushSignal
<1>3. ASSUME NEW p \in Producers, StopProducer(p) PROVE ThreadInv'
  BY <1>3 DEF StopProducer
<1>4. ASSUME NEW q \in Queues, Wait(q) PROVE ThreadInv'
  BY <1>4 DEF Wait
<1>5. ASSUME NEW q \in Queues, Take(q) PROVE ThreadInv'
  BY <1>5 DEF Take
<1>6. ASSUME NEW q \in Queues, Deliver(q) PROVE ThreadInv'
  BY <1>6 DEF Deliver
<1>7. ASSUME NEW q \in Queues, SetFinished(q) PROVE ThreadInv'
  BY <1>7 DEF SetFinished
<1>8. ASSUME NEW q \in Queues, DestructorSignal(q) PROVE ThreadInv'
  BY <1>8 DEF DestructorSignal
<1>9. ASSUME NEW q \in Queues, Join(q) PROVE ThreadInv'
  BY <1>9 DEF Join
<1>10. CASE UNCHANGED vars
  BY <1>10 DEF vars
<1> QED
  BY <1>1, <1>2, <1>3, <1>4, <1>5, <1>6, <1>7, <1>8, <1>9, <1>10
  DEF Next, Done

LEMMA OnceInOrderStep ==
  TypeOK /\ ThreadInv /\ OnceInOrder /\ [Next]_vars => OnceInOrder'
<1> SUFFICES ASSUME TypeOK, ThreadInv, OnceInOrder, [Next]_vars
             PROVE  OnceInOrder'
  OBVIOUS
<1> USE TargetAssumption, BoundsAssumption
<1>1. ASSUME NEW p \in Producers, NEW n \in 1..MaxBatch, Push(p, n)
      PROVE  OnceInOrder'
  <2> DEFINE t == Target[p]
             new == NewItems(p, n)
  <2>1. t \in Queues /\ new \in Seq(Items)
    BY <1>1, NewItemsType DEF Push
  <2>2. \A q \in Queues : /\ delivered[q] \in Seq(Items)
                          /\ batch[q] \in Seq(Items)
                          /\ content[q] \in Seq(Items)
    BY DEF TypeOK
  <2>3. pushed'[t] = pushed[t] \o new /\ content'[t] = content[t] \o new
    BY <1>1, <2>1 DEF Push, TypeOK
  <2>4. \A q \in Queues \ {t} : pushed'[q] = pushed[q] /\ content'[q] = content[q]
    BY <1>1, <2>1 DEF Push, TypeOK
  <2>5. delivered' = delivered /\ batch' = batch
    BY <1>1 DEF Push
  <2> HIDE DEF new, t
  <2>6. (delivered[t] \o batch[t] \o content[t]) \o new
          = delivered[t] \o batch[t] \o (content[t] \o new)
    <3> DEFINE d == delivered[t]  b == batch[t]  c == content[t]
    <3>1. d \in Seq(Items) /\ b \in Seq(Items) /\ c \in Seq(Items)
      BY <2>1, <2>2
    <3> HIDE DEF d, b, c
    <3>2. d \o b \in Seq(Items)
      BY <3>1
    <3>3. ((d \o b) \o c) \o new = (d \o b) \o (c \o new)
      BY <2>1, <3>1, <3>2
    <3> QED  BY <3>3 DEF d, b, c
  <2> QED  BY <2>1, <2>3, <2>4, <2>5, <2>6 DEF OnceInOrder
<1>2. ASSUME NEW q \in Queues, Take(q) PROVE OnceInOrder'
  <2>1. batch[q] = <<>>
    BY <1>2 DEF Take, ThreadInv
  <2>2. delivered[q] \o <<>> \o content[q] = delivered[q] \o content[q] \o <<>>
    BY DEF TypeOK
  <2>3. /\ batch'[q] = content[q] /\ content'[q] = <<>>
        /\ delivered' = delivered /\ pushed' = pushed
        /\ \A r \in Queues \ {q} : batch'[r] = batch[r] /\ content'[r] = content[r]
    BY <1>2 DEF Take, TypeOK
  <2> QED  BY <2>1, <2>2, <2>3 DEF OnceInOrder
<1>3. ASSUME NEW q \in Queues, Deliver(q) PROVE OnceInOrder'
  <2>1. delivered[q] \o batch[q] \o content[q]
          = (delivered[q] \o batch[q]) \o <<>> \o content[q]
    BY DEF TypeOK
  <2>2. /\ delivered'[q] = delivered[q] \o batch[q] /\ batch'[q] = <<>>
        /\ content' = content /\ pushed' = pushed
        /\ \A r \in Queues \ {q} :
             batch'[r] = batch[r] /\ delivered'[r] = delivered[r]
    BY <1>3 DEF Deliver, TypeOK
  <2> QED  BY <2>1, <2>2 DEF OnceInOrder
<1>4. ASSUME UNCHANGED <<pushed, delivered, batch, content>> PROVE OnceInOrder'
  BY <1>4 DEF OnceInOrder
<1> QED
  BY <1>1, <1>2, <1>3, <1>4
  DEF Next, Done, vars, PushSignal, StopProducer, Wait, SetFinished,
      DestructorSignal, Join

(* The queue's whole life at once: the inductive invariant.                *)
THEOREM QueueInvariant == Spec => [](TypeOK /\ ThreadInv /\ OnceInOrder)
<1>1. Init => ThreadInv /\ OnceInOrder
  BY DEF Init, ThreadInv, OnceInOrder
<1>2. Spec => []TypeOK
  BY TypeCorrect
<1> QED  BY <1>1, <1>2, ThreadInvStep, OnceInOrderStep, PTL DEF Spec

(* Every item pushed is delivered, held or waiting, once and in order.     *)
THEOREM FifoCorrect == Spec => []OnceInOrder
  BY QueueInvariant, PTL

(* The assertion of the destructor holds, also on a shared semaphore.      *)
THEOREM DestroyedEmpty == Spec => []EmptyWhenDestroyed
<1>1. TypeOK /\ ThreadInv /\ OnceInOrder => EmptyWhenDestroyed
  <2> SUFFICES ASSUME TypeOK, ThreadInv, OnceInOrder, NEW q \in Queues,
                      owner[q] = "destroyed"
               PROVE  content[q] = <<>> /\ delivered[q] = pushed[q]
    BY DEF EmptyWhenDestroyed
  <2>1. content[q] = <<>> /\ batch[q] = <<>>
    BY DEF ThreadInv
  <2>2. delivered[q] \o <<>> \o <<>> = delivered[q]
    BY DEF TypeOK
  <2> QED  BY <2>1, <2>2 DEF OnceInOrder
<1> QED  BY <1>1, QueueInvariant, PTL

-----------------------------------------------------------------------------
(* Private semaphores lose no wakeup. *)

(* A thread that is not about to take the list can be sure of a signal for *)
(* what is in it.                                                          *)
SignalInv ==
  \A q \in Queues :
    content[q] # <<>> /\ thread[q] # "taking" =>
      \/ semaphore[SemaphoreOf(q)] > 0
      \/ \E p \in Producers : Target[p] = q /\ producer[p] = "signal"

LEMMA SignalInvStep ==
  ASSUME SharedSemaphore = FALSE
  PROVE  TypeOK /\ ThreadInv /\ SignalInv /\ [Next]_vars => SignalInv'
<1> SUFFICES ASSUME TypeOK, ThreadInv, SignalInv, [Next]_vars PROVE SignalInv'
  OBVIOUS
<1>0. Semaphores = Queues /\ \A q \in Queues : SemaphoreOf(q) = q
  BY DEF Semaphores, SemaphoreOf
<1>a. \A q \in Queues : semaphore[q] \in Nat
  BY <1>0 DEF TypeOK
<1> USE TargetAssumption, <1>0, <1>a DEF SignalInv
<1>1. ASSUME NEW p \in Producers, NEW n \in 1..MaxBatch, Push(p, n)
      PROVE  SignalInv'
  BY <1>1 DEF Push, TypeOK
<1>2. ASSUME NEW p \in Producers, PushSignal(p) PROVE SignalInv'
  BY <1>2 DEF PushSignal, SendSignal, TypeOK
<1>3. ASSUME NEW p \in Producers, StopProducer(p) PROVE SignalInv'
  BY <1>3 DEF StopProducer, TypeOK
<1>4. ASSUME NEW q \in Queues, Wait(q) PROVE SignalInv'
  BY <1>4 DEF Wait, TypeOK
<1>5. ASSUME NEW q \in Queues, Take(q) PROVE SignalInv'
  BY <1>5 DEF Take, TypeOK
<1>6. ASSUME NEW q \in Queues, Deliver(q) PROVE SignalInv'
  BY <1>6 DEF Deliver, TypeOK
<1>7. ASSUME NEW q \in Queues, DestructorSignal(q) PROVE SignalInv'
  BY <1>7 DEF DestructorSignal, SendSignal, TypeOK
<1>8. ASSUME UNCHANGED <<content, thread, semaphore, producer>> PROVE SignalInv'
  BY <1>8
<1> QED
  BY <1>1, <1>2, <1>3, <1>4, <1>5, <1>6, <1>7, <1>8
  DEF Next, Done, vars, SetFinished, Join

(* Where the semaphores are private, a sleeping thread is always signalled *)
(* for what its list contains.                                             *)
THEOREM WakeupCorrect ==
  ASSUME SharedSemaphore = FALSE
  PROVE  Spec => []NoLostWakeup
<1>1. Init => SignalInv
  BY DEF Init, SignalInv
<1>2. SignalInv => NoLostWakeup
  BY DEF SignalInv, NoLostWakeup
<1>3. TypeOK /\ ThreadInv /\ SignalInv /\ [Next]_vars => SignalInv'
  BY SignalInvStep
<1> QED  BY <1>1, <1>2, <1>3, QueueInvariant, PTL DEF Spec

-----------------------------------------------------------------------------
(* The queue implements a fifo channel. *)

(* The two halves of a concatenation.                                      *)
LEMMA ConcatParts ==
  ASSUME NEW S, NEW s \in Seq(S), NEW t \in Seq(S)
  PROVE  /\ SubSeq(s \o t, 1, Len(s)) = s
         /\ SubSeq(s \o t, Len(s) + 1, Len(s \o t)) = t
         /\ s # <<>> => Len(s) \in 1..Len(s \o t)
<1>1. s \o t \in Seq(S) /\ Len(s \o t) = Len(s) + Len(t)
  OBVIOUS
<1>2. Len(s) \in Nat /\ Len(t) \in Nat
  OBVIOUS
<1>3. SubSeq(s \o t, 1, Len(s)) = s
  BY <1>1, <1>2
<1>4. SubSeq(s \o t, Len(s) + 1, Len(s \o t)) = t
  BY <1>1, <1>2
<1> QED  BY <1>1, <1>2, <1>3, <1>4

(* Every step of the threads is a step of the channel, or invisible to it. *)
THEOREM QueueImplementsFifo == Spec => ImplementsFifo
<1>1. Init => Fifo!Init
  BY DEF Init, Fifo!Init, Pending, Destroyed
<1>2. TypeOK /\ ThreadInv /\ TypeOK' /\ [Next]_vars => [Fifo!Next]_(Fifo!vars)
  <2> SUFFICES ASSUME TypeOK, ThreadInv, TypeOK', [Next]_vars
               PROVE  Fifo!Next \/ UNCHANGED <<Pending, delivered, Destroyed>>
    BY DEF Fifo!vars
  <2>0. \A q \in Queues : batch[q] \in Seq(Items) /\ content[q] \in Seq(Items)
    BY DEF TypeOK
  <2>1. ASSUME NEW p \in Producers, NEW n \in 1..MaxBatch, Push(p, n)
        PROVE  Fifo!Next
    <3>1. PICK q \in Queues : q = Target[p]
      BY TargetAssumption
    <3>2. PICK new \in Lists : new = NewItems(p, n)
      BY <2>1, NewItemsType DEF Push, Lists
    <3>3. new \in Seq(Items)
      BY <2>1, <3>2, NewItemsType DEF Push
    <3>4. content' = [content EXCEPT ![q] = @ \o new] /\ batch' = batch
      BY <2>1, <3>1, <3>2 DEF Push
    <3>5. q \notin Destroyed /\ Destroyed' = Destroyed /\ delivered' = delivered
      BY <2>1, <3>1 DEF Push, ThreadInv, Destroyed
    <3>6. (batch[q] \o content[q]) \o new = batch[q] \o (content[q] \o new)
      <4>1. PICK b \in Seq(Items), c \in Seq(Items) : b = batch[q] /\ c = content[q]
        BY <2>0
      <4>2. (b \o c) \o new = b \o (c \o new)
        BY <3>3, ConcatAssociative
      <4> QED  BY <4>1, <4>2
    <3>7. Pending' = [Pending EXCEPT ![q] = @ \o new]
      BY <3>4, <3>6 DEF Pending, TypeOK
    <3>8. Fifo!Accept(q, new)
      BY <3>5, <3>7 DEF Fifo!Accept
    <3> QED  BY <3>8 DEF Fifo!Next
  <2>2. ASSUME NEW q \in Queues, Take(q)
        PROVE  UNCHANGED <<Pending, delivered, Destroyed>>
    <3>1. batch[q] = <<>> /\ batch' = [batch EXCEPT ![q] = content[q]]
          /\ content' = [content EXCEPT ![q] = <<>>]
      BY <2>2 DEF Take, ThreadInv
    <3>2. content[q] \o <<>> = content[q] /\ <<>> \o content[q] = content[q]
      BY <2>0, ConcatEmptySeq
    <3>3. Pending' = Pending
      BY <3>1, <3>2 DEF Pending, TypeOK
    <3> QED  BY <2>2, <3>3 DEF Take, Destroyed
  <2>3. ASSUME NEW q \in Queues, Deliver(q)
        PROVE  Fifo!Next \/ UNCHANGED <<Pending, delivered, Destroyed>>
    <3>1. /\ batch' = [batch EXCEPT ![q] = <<>>] /\ content' = content
          /\ Destroyed' = Destroyed
          /\ delivered' = [delivered EXCEPT ![q] = @ \o batch[q]]
      BY <2>3 DEF Deliver, Destroyed
    <3>2. CASE batch[q] = <<>>
      <4>1. delivered[q] \o <<>> = delivered[q]
        BY ConcatEmptySeq DEF TypeOK
      <4>2. delivered' = delivered /\ batch' = batch
        BY <3>1, <3>2, <4>1 DEF TypeOK
      <4> QED  BY <3>1, <4>2 DEF Pending
    <3>3. CASE batch[q] # <<>>
      <4>1. PICK b \in Seq(Items), c \in Seq(Items) : b = batch[q] /\ c = content[q]
        BY <2>0
      <4>a. Pending[q] = b \o c
        BY <4>1 DEF Pending
      <4>b. /\ SubSeq(b \o c, 1, Len(b)) = b
            /\ SubSeq(b \o c, Len(b) + 1, Len(b \o c)) = c
            /\ b # <<>> => Len(b) \in 1..Len(b \o c)
        BY ConcatParts, Zenon
      <4>2. PICK n \in 1..Len(Pending[q]) : n = Len(b)
        BY <3>3, <4>1, <4>a, <4>b
      <4>3. /\ SubSeq(Pending[q], 1, n) = batch[q]
            /\ SubSeq(Pending[q], n + 1, Len(Pending[q])) = content[q]
        BY <4>1, <4>2, <4>a, <4>b
      <4>4. <<>> \o content[q] = content[q]
        BY <2>0, ConcatEmptySeq
      <4>5. Pending' = [Pending EXCEPT ![q] = content[q]]
        BY <3>1, <4>4 DEF Pending, TypeOK
      <4>6. Fifo!Deliver(q, n)
        BY <3>1, <4>3, <4>5 DEF Fifo!Deliver
      <4> QED  BY <4>6 DEF Fifo!Next
    <3> QED  BY <3>2, <3>3
  <2>4. ASSUME NEW q \in Queues, Join(q) PROVE Fifo!Next
    <3>1. q \notin Destroyed /\ Destroyed' = Destroyed \cup {q}
      BY <2>4 DEF Join, Destroyed, TypeOK
    <3>2. batch[q] = <<>> /\ content[q] = <<>>
      BY <2>4 DEF Join, ThreadInv
    <3>3. Pending[q] = <<>> /\ Pending' = Pending
      BY <2>4, <3>2 DEF Join, Pending
    <3>4. Fifo!Close(q)
      BY <2>4, <3>1, <3>3 DEF Join, Fifo!Close
    <3> QED  BY <3>4 DEF Fifo!Next
  <2>5. ASSUME NEW q \in Queues, SetFinished(q) \/ DestructorSignal(q)
        PROVE  UNCHANGED <<Pending, delivered, Destroyed>>
    BY <2>5 DEF SetFinished, DestructorSignal, TypeOK, Pending, Destroyed
  <2>6. ASSUME UNCHANGED <<content, batch, delivered, owner>>
        PROVE  UNCHANGED <<Pending, delivered, Destroyed>>
    BY <2>6 DEF Pending, Destroyed
  <2> QED
    BY <2>1, <2>2, <2>3, <2>4, <2>5, <2>6
    DEF Next, Done, vars, PushSignal, StopProducer, Wait
<1> QED  BY <1>1, <1>2, QueueInvariant, PTL DEF Spec, ImplementsFifo, Fifo!Spec
=============================================================================
