------------------------------ MODULE AudioWiring ------------------------------
(***************************************************************************)
(* The node tree together with the sound host: which wires the commands of *)
(* module NodeTree make and remove.  A module has one audio output, which  *)
(* the source of a connection refers to, and one audio input, which the    *)
(* target refers to.  The host is used as HostGraph says.                  *)
(***************************************************************************)
EXTENDS NodeTree

CONSTANTS
  Casts,    (* bound: the sets of nodes that there may be, one at a time *)
  MaxKept,  (* bound: no more wires are left when two modules have so many *)
  Unfit     (* nodes of which a connection's source refers to a control that *)
            (* is not meant as a source, such as the user data of a container *)

Modules == OfKind("module")
Pairs == Modules \X Modules

ASSUME WiringAssumption ==
  /\ Ends = {"sourcePath", "targetPath"} /\ Casts \subseteq SUBSET Nodes
  /\ Unfit \subseteq Nodes \ Modules

VARIABLES
  wires,  (* HostGraph's wires: how many lead from one to another *)
  kept,   (* history: how many of them a connection left for an unfit source *)
  cast    (* bound: the nodes that there may be, never changed *)

wiring == <<alive, parent, name, path, children, byPath, byId, ends, wires, kept, cast>>

NoWires == [w \in Pairs |-> 0]

WiringInit == Init /\ wires = NoWires /\ kept = NoWires /\ cast \in Casts

(* The output and the input that a connection connects, if it does.        *)
Connected(c) ==
  (Referred(c, "sourcePath") \X Referred(c, "targetPath")) \cap Pairs

Living == Connections \cap alive

(* Disconnecting does nothing when there is no wire. *)
Minus(m, n) == IF m > n THEN m - n ELSE 0

-----------------------------------------------------------------------------
(* A variant that leaves out CLogic::handle_new. *)
CreateUnwired(n, p, wanted) ==
  /\ NewCommand(n, p, wanted)
  /\ UNCHANGED <<wires, kept>>

(* CLogic::handle_new: the connections among the siblings of the new node  *)
(* and of each node above it may have waited for it.                       *)
Create(n, p, wanted) ==
  /\ NewCommand(n, p, wanted)
  /\ wires' = [w \in Pairs |-> wires[w] +
       Cardinality({c \in Living : /\ parent[c] \in AtOrAbove(p)
                                   /\ w \in Connected(c)'
                                   /\ n \in {w[1], w[2]}})]
  /\ UNCHANGED kept

(* What is left of some wires without the modules below n. *)
Spared(some, n) == [w \in Pairs |-> IF {w[1], w[2]} \cap Subtree(n) # {} THEN 0 ELSE some[w]]

(* A variant that leaves out the handle_delete of connections. *)
DeleteKeepsWires(n) ==
  /\ DeleteCommand(n)
  /\ wires' = Spared(wires, n) /\ kept' = Spared(kept, n)

(* A connection removes its wire, and a module takes its wires with it;    *)
(* children go first, and the order among them makes no difference.        *)
Delete(n) ==
  /\ DeleteCommand(n)
  /\ wires' = [w \in Pairs |->
       IF {w[1], w[2]} \cap Subtree(n) # {} THEN 0
       ELSE Minus(wires[w],
                  Cardinality({c \in Connections \cap Subtree(n) : w \in Connected(c)}))]
  /\ kept' = Spared(kept, n)

(* The end that a set has just changed is a source that may not be one.    *)
IsUnfit(c, e) == e = "sourcePath" /\ Referred(c, e)' \cap Unfit # {}

(* Out with the old wire, and in with the new one. *)
Rewire(c) ==
  /\ wires' = [w \in Pairs |->
       Minus(wires[w], IF w \in Connected(c) THEN 1 ELSE 0)
         + (IF w \in Connected(c)' THEN 1 ELSE 0)]
  /\ UNCHANGED kept

(* The handler returns with the old wire in place. *)
LeaveWire(c) ==
  /\ Connected(c) # {} => \A w \in Pairs : kept[w] < MaxKept
  /\ kept' = [w \in Pairs |-> IF w \in Connected(c) THEN kept[w] + 1 ELSE kept[w]]
  /\ UNCHANGED wires

(* source_path_handler and target_path_handler, for a set by the api: the  *)
(* path is changed before the handler finds that it is not a good source.  *)
SetEnd(c, e, p) ==
  /\ SetPath(c, e, p)
  /\ \/ IsUnfit(c, e) /\ LeaveWire(c)
     \/ ~IsUnfit(c, e) /\ Rewire(c)

(* A path that is rewritten is set by the system: the handlers return.     *)
Rename(n, wanted) == RenameCommand(n, wanted) /\ UNCHANGED <<wires, kept>>

Move(n, p) ==
  /\ MoveCommand(n, p)
  /\ IF Crashes(n, p) THEN wires' = NoWires /\ kept' = NoWires
     ELSE UNCHANGED <<wires, kept>>

CreateAny ==
  \E n \in Nodes, p \in Places, nm \in Names :
    /\ n \in cast
    /\ Create(n, p, nm)

DeleteAny == \E n \in Nodes : Delete(n)
SetAny == \E c \in Living, e \in Ends : \E p \in EndValues(parent[c]) : SetEnd(c, e, p)
RenameAny == \E n \in Nodes, nm \in Names : Rename(n, nm)
MoveGood == \E n \in Nodes, p \in Places : GoodMove(n, p) /\ Move(n, p)

(* What callers take care of: nodes are moved to where they may be (module *)
(* NodeTree is about other moves), and no connection comes to refer to     *)
(* something else when a node is relocated.                                *)
KeepsConnections == \A c \in Living : Connected(c)' = Connected(c)

CarefulNext ==
  /\ \/ CreateAny \/ DeleteAny \/ SetAny
     \/ RenameAny /\ KeepsConnections
     \/ MoveGood /\ KeepsConnections
  /\ UNCHANGED cast

CarefulSpec == WiringInit /\ [][CarefulNext]_wiring

-----------------------------------------------------------------------------
(* Properties *)

Wanted(w) == Cardinality({c \in Living : w \in Connected(c)})

(* Every connection between audio endpoints that exist lets the signal     *)
(* flow between the modules (the api's documentation of Connection).       *)
ConnectionsHaveWires == \A w \in Pairs : wires[w] >= Wanted(w)

(* A module hears only what a connection leads to it, and what connections *)
(* have left that were given an unfit source ("remove previous connection  *)
(* in host" comes after source_path_handler's return): any other wire goes *)
(* when an end is set, and when the connection or a module is deleted.     *)
WiresHaveConnections == \A w \in Pairs : wires[w] <= Wanted(w) + kept[w]
=============================================================================
