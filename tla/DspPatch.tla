------------------------------- MODULE DspPatch -------------------------------
(***************************************************************************)
(* How CDspEngine keeps the host's patch.  Pd knows an object by its       *)
(* position in the canvas, and the numbers of those behind it change when  *)
(* one is cut; the engine therefore keeps a map from internal ids to       *)
(* positions, and connects modules by position.  It shall implement        *)
(* HostGraph.  Every operation runs under the dsp engine's mutex.          *)
(***************************************************************************)
EXTENDS Integers, FiniteSets, Sequences

CONSTANTS
  Ids,        (* internal ids of nodes with an implementation *)
  MaxWires,   (* bound: most wires between two modules *)
  CountsNew   (* whether a map's size is taken after the entry is made *)

(* m[id] = m.size(): the order of the two sides is open before C++17.      *)
ASSUME DspPatchAssumption == MaxWires \in Nat /\ CountsNew \in BOOLEAN

VARIABLES
  patch,    (* pd's canvas: the modules in it, first to last *)
  wires,    (* pd's connections: a number for each pair of objects *)
  patchId,  (* m_map_id_to_patch_id *)
  asked     (* the operation asked for last, as a record of the calls *)

vars == <<patch, wires, patchId, asked>>

Init ==
  /\ patch = <<>>
  /\ wires = [w \in Ids \X Ids |-> 0]
  /\ patchId = [id \in {} |-> 0]
  /\ asked = <<"nothing">>

-----------------------------------------------------------------------------
(* Pd *)

Objects == {patch[i] : i \in 1..Len(patch)}

(* "find", which selects the first object with that number, and "cut". *)
Cut(id) ==
  IF id \in Objects
    THEN LET at == CHOOSE i \in 1..Len(patch) : patch[i] = id
         IN  /\ patch' = [i \in 1..Len(patch) - 1 |->
                            IF i < at THEN patch[i] ELSE patch[i + 1]]
             /\ wires' = [w \in Ids \X Ids |->
                            IF id \in {w[1], w[2]} THEN 0 ELSE wires[w]]
    ELSE UNCHANGED <<patch, wires>>

(* "connect" and "disconnect" with the positions of two objects.           *)
PdConnect(s, t) ==
  wires' = IF s < Len(patch) /\ t < Len(patch)
             THEN [wires EXCEPT ![<<patch[s + 1], patch[t + 1]>>] = @ + 1]
             ELSE wires

PdDisconnect(s, t) ==
  wires' = IF /\ s < Len(patch) /\ t < Len(patch)
              /\ wires[<<patch[s + 1], patch[t + 1]>>] > 0
             THEN [wires EXCEPT ![<<patch[s + 1], patch[t + 1]>>] = @ - 1]
             ELSE wires

-----------------------------------------------------------------------------
(* CDspEngine *)

GetPatchId(id) == IF id \in DOMAIN patchId THEN patchId[id] ELSE -1

Size == Cardinality(DOMAIN patchId) + (IF CountsNew THEN 1 ELSE 0)

(* The new command adds a module once, with an id that is new. *)
AddModule(id) ==
  /\ asked' = <<"add", id>>
  /\ id \notin DOMAIN patchId
  /\ patch' = Append(patch, id)
  /\ patchId' = [i \in DOMAIN patchId \cup {id} |-> IF i = id THEN Size ELSE patchId[i]]
  /\ UNCHANGED wires

(* A variant that forgets to close the gap. *)
RemoveLeavesGap(id) ==
  /\ asked' = <<"remove", id>>
  /\ id \in DOMAIN patchId
  /\ Cut(id)
  /\ patchId' = [i \in DOMAIN patchId \ {id} |-> patchId[i]]

(* The delete command removes each module it added. *)
RemoveModule(id) ==
  /\ asked' = <<"remove", id>>
  /\ id \in DOMAIN patchId
  /\ Cut(id)
  /\ patchId' = [i \in DOMAIN patchId \ {id} |->
                   IF patchId[i] > GetPatchId(id) THEN patchId[i] - 1 ELSE patchId[i]]

(* A variant that counts positions from one. *)
ConnectFromOne(s, t) ==
  /\ asked' = <<"connect", s, t>>
  /\ GetPatchId(s) >= 0 /\ GetPatchId(t) >= 0
  /\ wires[<<s, t>>] < MaxWires
  /\ PdConnect(GetPatchId(s) + 1, GetPatchId(t) + 1)
  /\ UNCHANGED <<patch, patchId>>

ConnectModules(s, t) ==
  /\ asked' = <<"connect", s, t>>
  /\ GetPatchId(s) >= 0 /\ GetPatchId(t) >= 0
  /\ wires[<<s, t>>] < MaxWires
  /\ PdConnect(GetPatchId(s), GetPatchId(t))
  /\ UNCHANGED <<patch, patchId>>

DisconnectModules(s, t) ==
  /\ asked' = <<"disconnect", s, t>>
  /\ GetPatchId(s) >= 0 /\ GetPatchId(t) >= 0
  /\ PdDisconnect(GetPatchId(s), GetPatchId(t))
  /\ UNCHANGED <<patch, patchId>>

Next ==
  \/ \E id \in Ids : AddModule(id) \/ RemoveModule(id)
  \/ \E s, t \in Ids : ConnectModules(s, t) \/ DisconnectModules(s, t)

Spec == Init /\ [][Next]_vars

-----------------------------------------------------------------------------
(* Properties *)

TypeOK ==
  /\ patch \in Seq(Ids)
  /\ wires \in [Ids \X Ids -> Nat]
  /\ DOMAIN patchId \subseteq Ids
  /\ \A id \in DOMAIN patchId : patchId[id] \in Nat

(* Through any sequence of additions and removals, the number the engine   *)
(* has for a module is its position in pd's canvas.                        *)
IdsArePositions ==
  /\ DOMAIN patchId = Objects
  /\ \A i \in 1..Len(patch) : patchId[patch[i]] = i - 1

(* test_map_sanity: the map contains all values from 0 to its size minus   *)
(* one, with no duplicates.                                                *)
MapSanity ==
  /\ \A id \in DOMAIN patchId : patchId[id] \in 0..Cardinality(DOMAIN patchId) - 1
  /\ \A i, j \in DOMAIN patchId : patchId[i] = patchId[j] => i = j

(* Whatever the engine is asked to do is done to the modules it is asked   *)
(* for, and to no others, although pd is told positions only.              *)
Graph == INSTANCE HostGraph WITH modules <- DOMAIN patchId
ImplementsHostGraph == Graph!Spec
=============================================================================
