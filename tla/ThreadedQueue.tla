---------------------------- MODULE ThreadedQueue ----------------------------
(***************************************************************************)
(* CThreadedQueue<T>: a list protected by a mutex, a semaphore, and one    *)
(* output thread that hands the list's contents to an output sink.  The    *)
(* server owns two of them: the feedback queue of the dsp engine and the   *)
(* queue of the midi input dispatcher.                                     *)
(*                                                                         *)
(* A critical section of m_queue_mutex is one step; the code between two   *)
(* critical sections, and every semaphore operation, is a step of its own. *)
(* m_finished is written by the destructor outside the mutex, so that      *)
(* write too is a step of its own.                                         *)
(***************************************************************************)
EXTENDS Naturals, Sequences, FiniteSets

CONSTANTS
  Queues,           (* the CThreadedQueue instances *)
  Producers,        (* the threads that call push *)
  Target,           (* Target[p] is the queue producer p pushes to *)
  MaxBatch,         (* bound: items in one call of push *)
  MaxPushes,        (* bound: items one producer pushes *)
  DestroyedAfter,   (* the queues that are destroyed before a queue is *)
  SharedSemaphore   (* TRUE where the semaphore is the named "/semaphore" *)

ASSUME TargetAssumption == Target \in [Producers -> Queues]
ASSUME OrderAssumption == DestroyedAfter \in [Queues -> SUBSET Queues]
ASSUME BoundsAssumption == MaxBatch \in Nat \ {0} /\ MaxPushes \in Nat
ASSUME SharedAssumption == SharedSemaphore \in BOOLEAN

VARIABLES
  content,    (* m_content *)
  finished,   (* m_finished *)
  semaphore,  (* the value of each semaphore *)
  thread,     (* where the output thread of each queue is *)
  exiting,    (* the local variable "finished" of output_thread *)
  batch,      (* the local variable "content_to_deliver" *)
  owner,      (* where the destructor of each queue is *)
  producer,   (* where each producer is in push *)
  count,      (* history: how many items each producer has pushed *)
  pushed,     (* history: the items pushed to each queue *)
  delivered   (* history: the items handle_queue_items was given *)

vars == <<content, finished, semaphore, thread, exiting, batch, owner,
          producer, count, pushed, delivered>>

(* Every item is distinct: the n-th that producer p pushes. *)
Items == Producers \X (1..MaxPushes)

(* On the platforms with unnamed semaphores each queue creates its own;    *)
(* sem_open gives every queue of the machine the one called "/semaphore".  *)
Semaphores == IF SharedSemaphore THEN {"/semaphore"} ELSE Queues
SemaphoreOf(q) == IF SharedSemaphore THEN "/semaphore" ELSE q

ThreadStates == {"waiting", "taking", "delivering", "exited"}
OwnerStates == {"running", "signal", "join", "destroyed"}
ProducerStates == {"idle", "signal", "stopped"}

-----------------------------------------------------------------------------

Init ==
  /\ content = [q \in Queues |-> <<>>]
  /\ finished = [q \in Queues |-> FALSE]
  /\ semaphore = [s \in Semaphores |-> 0]
  /\ thread = [q \in Queues |-> "waiting"]
  /\ exiting = [q \in Queues |-> FALSE]
  /\ batch = [q \in Queues |-> <<>>]
  /\ owner = [q \in Queues |-> "running"]
  /\ producer = [p \in Producers |-> "idle"]
  /\ count = [p \in Producers |-> 0]
  /\ pushed = [q \in Queues |-> <<>>]
  /\ delivered = [q \in Queues |-> <<>>]

(* The items of a call of push that hands over n items. *)
NewItems(p, n) == [i \in 1..n |-> <<p, count[p] + i>>]

SendSignal(q) == semaphore' = [semaphore EXCEPT ![SemaphoreOf(q)] = @ + 1]

(* push, up to the release of the mutex.  The list version of push hands   *)
(* over several items in one critical section.                             *)
Push(p, n) ==
  LET q == Target[p] IN
  /\ producer[p] = "idle"
  /\ count[p] + n <= MaxPushes
  /\ content' = [content EXCEPT ![q] = @ \o NewItems(p, n)]
  /\ pushed' = [pushed EXCEPT ![q] = @ \o NewItems(p, n)]
  /\ count' = [count EXCEPT ![p] = @ + n]
  /\ producer' = [producer EXCEPT ![p] = "signal"]
  /\ UNCHANGED <<finished, semaphore, thread, exiting, batch, owner, delivered>>

(* push, after the release of the mutex. *)
PushSignal(p) ==
  /\ producer[p] = "signal"
  /\ SendSignal(Target[p])
  /\ producer' = [producer EXCEPT ![p] = "idle"]
  /\ UNCHANGED <<content, finished, thread, exiting, batch, owner, count,
                 pushed, delivered>>

(* The engine that feeds the queue is deleted before the queue is.         *)
StopProducer(p) ==
  /\ producer[p] = "idle"
  /\ producer' = [producer EXCEPT ![p] = "stopped"]
  /\ UNCHANGED <<content, finished, semaphore, thread, exiting, batch, owner,
                 count, pushed, delivered>>

-----------------------------------------------------------------------------
(* The output thread. *)

Wait(q) ==
  /\ thread[q] = "waiting"
  /\ semaphore[SemaphoreOf(q)] > 0
  /\ semaphore' = [semaphore EXCEPT ![SemaphoreOf(q)] = @ - 1]
  /\ thread' = [thread EXCEPT ![q] = "taking"]
  /\ UNCHANGED <<content, finished, exiting, batch, owner, producer, count,
                 pushed, delivered>>

(* A variant that pops the oldest item only. *)
TakeOne(q) ==
  /\ thread[q] = "taking"
  /\ batch' = [batch EXCEPT ![q] = SubSeq(content[q], 1, IF content[q] = <<>> THEN 0 ELSE 1)]
  /\ content' = [content EXCEPT ![q] = IF @ = <<>> THEN @ ELSE Tail(@)]
  /\ exiting' = [exiting EXCEPT ![q] = finished[q]]
  /\ thread' = [thread EXCEPT ![q] = "delivering"]
  /\ UNCHANGED <<finished, semaphore, owner, producer, count, pushed,
                 delivered>>

(* A variant that forgets to put an empty list in the queue. *)
TakeCopy(q) ==
  /\ thread[q] = "taking"
  /\ batch' = [batch EXCEPT ![q] = content[q]]
  /\ exiting' = [exiting EXCEPT ![q] = finished[q]]
  /\ thread' = [thread EXCEPT ![q] = "delivering"]
  /\ UNCHANGED <<content, finished, semaphore, owner, producer, count, pushed,
                 delivered>>

(* The critical section: the whole list is taken, m_finished is read.      *)
Take(q) ==
  /\ thread[q] = "taking"
  /\ batch' = [batch EXCEPT ![q] = content[q]]
  /\ content' = [content EXCEPT ![q] = <<>>]
  /\ exiting' = [exiting EXCEPT ![q] = finished[q]]
  /\ thread' = [thread EXCEPT ![q] = "delivering"]
  /\ UNCHANGED <<finished, semaphore, owner, producer, count, pushed,
                 delivered>>

(* handle_queue_items, when there is something to deliver; then round the  *)
(* loop or out of the thread function.                                     *)
Deliver(q) ==
  /\ thread[q] = "delivering"
  /\ delivered' = [delivered EXCEPT ![q] = @ \o batch[q]]
  /\ batch' = [batch EXCEPT ![q] = <<>>]
  /\ thread' = [thread EXCEPT ![q] = IF exiting[q] THEN "exited" ELSE "waiting"]
  /\ UNCHANGED <<content, finished, semaphore, exiting, owner, producer, count,
                 pushed>>

-----------------------------------------------------------------------------
(* The destructor.  ~CServer calls it when the engine whose thread pushes  *)
(* to the queue is gone, for one queue after the other.                    *)

(* A variant that does not wait for the engine that feeds the queue. *)
SetFinishedEarly(q) ==
  /\ owner[q] = "running"
  /\ \A r \in DestroyedAfter[q] : owner[r] = "destroyed"
  /\ finished' = [finished EXCEPT ![q] = TRUE]
  /\ owner' = [owner EXCEPT ![q] = "signal"]
  /\ UNCHANGED <<content, semaphore, thread, exiting, batch, producer, count,
                 pushed, delivered>>

SetFinished(q) ==
  /\ owner[q] = "running"
  /\ \A r \in DestroyedAfter[q] : owner[r] = "destroyed"
  /\ \A p \in Producers : Target[p] = q => producer[p] = "stopped"
  /\ finished' = [finished EXCEPT ![q] = TRUE]
  /\ owner' = [owner EXCEPT ![q] = "signal"]
  /\ UNCHANGED <<content, semaphore, thread, exiting, batch, producer, count,
                 pushed, delivered>>

(* A variant that joins a thread it has not woken. *)
DestructorNoSignal(q) ==
  /\ owner[q] = "signal"
  /\ owner' = [owner EXCEPT ![q] = "join"]
  /\ UNCHANGED <<content, finished, semaphore, thread, exiting, batch, producer,
                 count, pushed, delivered>>

DestructorSignal(q) ==
  /\ owner[q] = "signal"
  /\ SendSignal(q)
  /\ owner' = [owner EXCEPT ![q] = "join"]
  /\ UNCHANGED <<content, finished, thread, exiting, batch, producer, count,
                 pushed, delivered>>

(* pthread_join returns, the mutex and semaphore go, m_content is deleted. *)
Join(q) ==
  /\ owner[q] = "join"
  /\ thread[q] = "exited"
  /\ owner' = [owner EXCEPT ![q] = "destroyed"]
  /\ UNCHANGED <<content, finished, semaphore, thread, exiting, batch, producer,
                 count, pushed, delivered>>

(* The process goes on after its queues are gone. *)
Done ==
  /\ \A q \in Queues : owner[q] = "destroyed"
  /\ UNCHANGED vars

Next ==
  \/ \E p \in Producers :
       \/ \E n \in 1..MaxBatch : Push(p, n)
       \/ PushSignal(p)
       \/ StopProducer(p)
  \/ \E q \in Queues :
       \/ Wait(q) \/ Take(q) \/ Deliver(q)
       \/ SetFinished(q) \/ DestructorSignal(q) \/ Join(q)
  \/ Done

Spec == Init /\ [][Next]_vars

(* The scheduler runs every thread; a producer finishes a push it began    *)
(* but need not begin one, and the owner need not destroy a queue.         *)
Fairness ==
  /\ \A p \in Producers : WF_vars(PushSignal(p))
  /\ \A q \in Queues :
       /\ WF_vars(Wait(q)) /\ WF_vars(Take(q)) /\ WF_vars(Deliver(q))
       /\ WF_vars(DestructorSignal(q)) /\ WF_vars(Join(q))

FairSpec == Spec /\ Fairness

-----------------------------------------------------------------------------
(* Properties *)

TypeOK ==
  /\ content \in [Queues -> Seq(Items)]
  /\ finished \in [Queues -> BOOLEAN]
  /\ semaphore \in [Semaphores -> Nat]
  /\ thread \in [Queues -> ThreadStates]
  /\ exiting \in [Queues -> BOOLEAN]
  /\ batch \in [Queues -> Seq(Items)]
  /\ owner \in [Queues -> OwnerStates]
  /\ producer \in [Producers -> ProducerStates]
  /\ count \in [Producers -> 0..MaxPushes]
  /\ pushed \in [Queues -> Seq(Items)]
  /\ delivered \in [Queues -> Seq(Items)]

(* Once, in order, none lost: what was pushed to a queue is what its sink  *)
(* was given, then what its output thread holds, then what it contains.    *)
OnceInOrder ==
  \A q \in Queues : pushed[q] = delivered[q] \o batch[q] \o content[q]

(* The assertion of the destructor: when the thread has been joined and    *)
(* the list is deleted it is empty, so every item pushed in the queue's    *)
(* life has reached the sink, whoever took the semaphore's signals.        *)
EmptyWhenDestroyed ==
  \A q \in Queues :
    owner[q] = "destroyed" => content[q] = <<>> /\ delivered[q] = pushed[q]

(* A thread sleeps on items only while a signal for them is on its way:    *)
(* the semaphore is up or a producer (or the destructor) is about to post. *)
NoLostWakeup ==
  \A q \in Queues :
    content[q] # <<>> /\ thread[q] = "waiting" =>
      \/ semaphore[SemaphoreOf(q)] > 0
      \/ \E p \in Producers : Target[p] = q /\ producer[p] = "signal"

(* What push appended is handed to the sink.                               *)
EventuallyDelivered ==
  \A q \in Queues : (content[q] # <<>>) ~> (content[q] = <<>> /\ batch[q] = <<>>)

(* Ending a session frees the queue: its destructor returns.               *)
DestructorReturns ==
  \A q \in Queues : (owner[q] = "signal") ~> (owner[q] = "destroyed")

(* The queue is a fifo channel: the items its thread holds and those in    *)
(* the list are pending, and delivering a batch removes its items.         *)
Lists == UNION {[1..n -> Items] : n \in 1..MaxBatch}
Pending == [q \in Queues |-> batch[q] \o content[q]]
Destroyed == {q \in Queues : owner[q] = "destroyed"}

Fifo == INSTANCE FifoDelivery WITH
  Batches <- Lists,
  pending <- Pending,
  closed <- Destroyed

ImplementsFifo == Fifo!Spec
=============================================================================
