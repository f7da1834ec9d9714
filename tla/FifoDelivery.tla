---------------------------- MODULE FifoDelivery ----------------------------
(***************************************************************************)
(* What a threaded queue promises to the code that uses it, whatever its   *)
(* threads, mutex and semaphore do: the items handed to push reach the     *)
(* output sink once each, in the order they were pushed, in batches that   *)
(* never skip an item; and a queue is destroyed only when nothing is left  *)
(* to deliver.  ThreadedQueue is shown to implement this specification.    *)
(***************************************************************************)
EXTENDS Naturals, Sequences

CONSTANTS
  Queues,  (* the queues of the server *)
  Batches  (* the sequences of items one call of push may be given *)

VARIABLES
  pending,    (* accepted and not yet handed to the sink, per queue *)
  delivered,  (* handed to the sink, per queue *)
  closed      (* the queues that have been destroyed *)

vars == <<pending, delivered, closed>>

Init ==
  /\ pending = [q \in Queues |-> <<>>]
  /\ delivered = [q \in Queues |-> <<>>]
  /\ closed = {}

Accept(q, items) ==
  /\ q \notin closed
  /\ pending' = [pending EXCEPT ![q] = @ \o items]
  /\ UNCHANGED <<delivered, closed>>

(* The sink is given the n oldest items as one batch. *)
Deliver(q, n) ==
  /\ n \in 1..Len(pending[q])
  /\ delivered' = [delivered EXCEPT ![q] = @ \o SubSeq(pending[q], 1, n)]
  /\ pending' = [pending EXCEPT ![q] = SubSeq(@, n + 1, Len(@))]
  /\ UNCHANGED closed

Close(q) ==
  /\ q \notin closed
  /\ pending[q] = <<>>
  /\ closed' = closed \cup {q}
  /\ UNCHANGED <<pending, delivered>>

Next ==
  \E q \in Queues :
    \/ \E items \in Batches : Accept(q, items)
    \/ \E n \in 1..Len(pending[q]) : Deliver(q, n)
    \/ Close(q)

Spec == Init /\ [][Next]_vars
=============================================================================
