------------------------------- MODULE HostGraph -------------------------------
(***************************************************************************)
(* What the node tree asks of the sound host: a graph of modules, each     *)
(* known by its internal id, with wires between them.  Two modules may be  *)
(* wired more than once, and a module that goes takes its wires with it.   *)
(***************************************************************************)
EXTENDS Naturals

CONSTANT Ids  (* internal ids of nodes with an implementation *)

VARIABLES
  modules,  (* those that are in the host *)
  wires,    (* how many wires lead from one module to another *)
  asked     (* what the host was asked to do last *)

vars == <<modules, wires, asked>>

Init == modules = {} /\ wires = [w \in Ids \X Ids |-> 0] /\ asked = <<"nothing">>

Add(m) ==
  /\ asked' = <<"add", m>>
  /\ m \notin modules
  /\ modules' = modules \cup {m}
  /\ UNCHANGED wires

Remove(m) ==
  /\ asked' = <<"remove", m>>
  /\ m \in modules
  /\ modules' = modules \ {m}
  /\ wires' = [w \in Ids \X Ids |-> IF m \in {w[1], w[2]} THEN 0 ELSE wires[w]]

Connect(s, t) ==
  /\ asked' = <<"connect", s, t>>
  /\ {s, t} \subseteq modules
  /\ wires' = [wires EXCEPT ![<<s, t>>] = @ + 1]
  /\ UNCHANGED modules

(* Nothing happens when there is no wire. *)
Disconnect(s, t) ==
  /\ asked' = <<"disconnect", s, t>>
  /\ wires' = [wires EXCEPT ![<<s, t>>] = IF @ > 0 THEN @ - 1 ELSE 0]
  /\ UNCHANGED modules

Next ==
  \/ \E m \in Ids : Add(m) \/ Remove(m)
  \/ \E s, t \in Ids : Connect(s, t) \/ Disconnect(s, t)

Spec == Init /\ [][Next]_vars
=============================================================================
