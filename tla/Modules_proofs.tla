----------------------------- MODULE Modules_proofs -----------------------------
(***************************************************************************)
(* Proofs about the two registries of modules, which share no state: the   *)
(* map of the dsp engine from nodes to modules in pd's canvas (DspPatch),  *)
(* and the module manager (ModuleManager).                                 *)
(*                                                                         *)
(* The map: for any number of modules and of wires, it gives the positions *)
(* of the modules in pd's canvas, and the engine implements HostGraph,     *)
(* when the size of the map is taken before the new entry.                 *)
(*                                                                         *)
(* The manager: each operation builds the next registry from Entered,      *)
(* Unloaded and Resourced; a lemma for each of these says what it          *)
(* preserves, and the steps put them together.                             *)
(***************************************************************************)
EXTENDS DspPatch, ModuleManager, FiniteSetTheorems, TLAPS

-----------------------------------------------------------------------------
(* The map of the dsp engine *)

(* Besides the positions, the invariant counts the entries: a module is    *)
(* added at the position the size of the map names.                        *)
IInv ==
  /\ TypeOK
  /\ IdsArePositions
  /\ IsFiniteSet(DOMAIN patchId) /\ Cardinality(DOMAIN patchId) = Len(patch)

-----------------------------------------------------------------------------
(* Where a module is *)

(* The engine's number for a module, from zero, finds the module. *)
LEMMA Position ==
  ASSUME IInv, NEW id \in DOMAIN patchId
  PROVE  /\ GetPatchId(id) \in 0..Len(patch) - 1
         /\ patch[GetPatchId(id) + 1] = id
         /\ \A i \in 1..Len(patch) : patch[i] = id => i = GetPatchId(id) + 1
<1>1. PICK i \in 1..Len(patch) : patch[i] = id
  BY DEF IInv, IdsArePositions, Objects
<1>2. GetPatchId(id) = i - 1
  BY <1>1 DEF IInv, IdsArePositions, GetPatchId
<1>3. Len(patch) \in Nat
  BY DEF IInv, TypeOK
<1>4. ASSUME NEW j \in 1..Len(patch), patch[j] = id
      PROVE  j = i
  <2>1. patchId[id] = j - 1 /\ patchId[id] = i - 1
    BY <1>1, <1>4 DEF IInv, IdsArePositions
  <2> QED
    BY <2>1, <1>3
<1> QED
  BY <1>1, <1>2, <1>3, <1>4

-----------------------------------------------------------------------------
(* The invariant *)

LEMMA Initially == Init => IInv
<1> SUFFICES ASSUME Init PROVE IInv
  OBVIOUS
<1>1. patch = <<>> /\ Len(patch) = 0 /\ Objects = {} /\ DOMAIN patchId = {}
  BY DEF Init, Objects
<1>2. IsFiniteSet({}) /\ Cardinality({}) = 0
  BY FS_EmptySet
<1>3. TypeOK
  BY <1>1 DEF Init, TypeOK
<1>4. IdsArePositions
  BY <1>1 DEF IdsArePositions
<1> QED
  BY <1>1, <1>2, <1>3, <1>4 DEF IInv

LEMMA AddStep ==
  ASSUME IInv, CountsNew = FALSE, NEW id \in Ids, AddModule(id)
  PROVE  IInv'
<1> DEFINE n == Len(patch)
<1>1. n \in Nat /\ patch \in Seq(Ids)
  BY DEF IInv, TypeOK
<1>2. Size = n
  BY <1>1 DEF IInv, Size
<1>3. /\ patch' \in Seq(Ids) /\ Len(patch') = n + 1
      /\ \A i \in 1..n : patch'[i] = patch[i]
      /\ patch'[n + 1] = id
  BY <1>1 DEF AddModule
<1>4. DOMAIN patchId' = DOMAIN patchId \cup {id}
  BY DEF AddModule
<1>5. /\ patchId'[id] = n
      /\ \A i \in DOMAIN patchId : patchId'[i] = patchId[i]
  BY <1>2 DEF AddModule
<1>6. Objects' = Objects \cup {id}
  <2>1. 1..n + 1 = (1..n) \cup {n + 1}
    BY <1>1
  <2> QED
    BY <1>3, <2>1 DEF Objects
<1>7. TypeOK'
  BY <1>1, <1>3, <1>4, <1>5 DEF IInv, TypeOK, AddModule
<1>8. IdsArePositions'
  <2>1. DOMAIN patchId' = Objects'
    BY <1>4, <1>6 DEF IInv, IdsArePositions
  <2>2. ASSUME NEW i \in 1..n + 1 PROVE patchId'[patch'[i]] = i - 1
    <3>1. CASE i = n + 1
      BY <3>1, <1>1, <1>3, <1>5
    <3>2. CASE i \in 1..n
      <4>1. patch'[i] = patch[i] /\ patch[i] \in DOMAIN patchId
        BY <3>2, <1>3 DEF IInv, IdsArePositions, Objects
      <4>2. patchId'[patch[i]] = patchId[patch[i]]
        BY <4>1, <1>5
      <4> QED
        BY <3>2, <4>1, <4>2 DEF IInv, IdsArePositions
    <3> QED
      BY <3>1, <3>2, <1>1
  <2> QED
    BY <2>1, <2>2, <1>3 DEF IdsArePositions
<1>9. IsFiniteSet(DOMAIN patchId') /\ Cardinality(DOMAIN patchId') = Len(patch')
  <2>1. id \notin DOMAIN patchId
    BY DEF AddModule
  <2>2. /\ IsFiniteSet(DOMAIN patchId \cup {id})
        /\ Cardinality(DOMAIN patchId \cup {id}) = Cardinality(DOMAIN patchId) + 1
    BY <2>1, FS_AddElement DEF IInv
  <2> QED
    BY <2>2, <1>3, <1>4 DEF IInv
<1> QED
  BY <1>7, <1>8, <1>9 DEF IInv

LEMMA RemoveStep ==
  ASSUME IInv, NEW id \in Ids, RemoveModule(id)
  PROVE  IInv'
<1> DEFINE n == Len(patch)
           k == GetPatchId(id) + 1
<1>1. n \in Nat /\ patch \in Seq(Ids) /\ id \in DOMAIN patchId /\ id \in Objects
  BY DEF IInv, TypeOK, RemoveModule, IdsArePositions
<1>2. /\ k \in 1..n /\ patch[k] = id
      /\ \A i \in 1..n : patch[i] = id => i = k
      /\ GetPatchId(id) = k - 1
  BY <1>1, Position
<1>3. patch' = [i \in 1..n - 1 |-> IF i < k THEN patch[i] ELSE patch[i + 1]]
  <2>1. (CHOOSE i \in 1..n : patch[i] = id) = k
    BY <1>2
  <2> QED
    BY <2>1, <1>1 DEF RemoveModule, Cut
<1>4. /\ patch' \in Seq(Ids) /\ Len(patch') = n - 1
      /\ \A i \in 1..n - 1 : patch'[i] = IF i < k THEN patch[i] ELSE patch[i + 1]
  <2>1. n - 1 \in Nat
    BY <1>1, <1>2
  <2>2. \A i \in 1..n - 1 : (IF i < k THEN patch[i] ELSE patch[i + 1]) \in Ids
    BY <1>1, <1>2
  <2> QED
    BY <1>3, <2>1, <2>2
<1>5. DOMAIN patchId' = DOMAIN patchId \ {id}
  BY DEF RemoveModule
<1>6. \A i \in DOMAIN patchId \ {id} :
        patchId'[i] = IF patchId[i] > k - 1 THEN patchId[i] - 1 ELSE patchId[i]
  BY <1>2 DEF RemoveModule
<1>7. TypeOK'
  <2>1. wires' \in [Ids \X Ids -> Nat]
    BY <1>1 DEF IInv, TypeOK, RemoveModule, Cut
  <2>2. ASSUME NEW i \in DOMAIN patchId \ {id} PROVE patchId'[i] \in Nat
    <3>1. patchId[i] \in Nat /\ k - 1 \in Nat
      BY <1>1, <1>2 DEF IInv, TypeOK
    <3> QED
      BY <3>1, <1>6
  <2> QED
    BY <2>1, <2>2, <1>4, <1>5 DEF IInv, TypeOK
<1>8. Objects' = Objects \ {id}
  <2>1. ASSUME NEW i \in 1..n - 1
        PROVE  patch'[i] \in Objects \ {id}
    <3>1. ASSUME NEW j \in 1..n, j # k
          PROVE  patch[j] \in Objects \ {id}
      BY <3>1, <1>2 DEF Objects
    <3>2. CASE i < k
      <4>1. i \in 1..n /\ i # k
        BY <3>2, <1>1, <1>2
      <4> QED
        BY <3>1, <3>2, <4>1, <1>4
    <3>3. CASE ~(i < k)
      <4>1. i + 1 \in 1..n /\ i + 1 # k
        BY <3>3, <1>1, <1>2
      <4> QED
        BY <3>1, <3>3, <4>1, <1>4
    <3> QED
      BY <3>2, <3>3
  <2>2. ASSUME NEW m \in Objects \ {id}
        PROVE  \E i \in 1..n - 1 : patch'[i] = m
    <3>1. PICK i \in 1..n : patch[i] = m
      BY DEF Objects
    <3>2. i # k
      BY <3>1, <1>2
    <3>3. CASE i < k
      <4>1. i \in 1..n - 1
        BY <3>3, <1>1, <1>2
      <4> QED
        BY <3>1, <3>3, <4>1, <1>4
    <3>4. CASE i > k
      <4>1. i - 1 \in 1..n - 1 /\ ~(i - 1 < k) /\ (i - 1) + 1 = i
        BY <3>4, <1>1, <1>2
      <4> QED
        BY <3>1, <4>1, <1>4
    <3> QED
      BY <3>2, <3>3, <3>4, <1>1, <1>2
  <2>3. Objects' = {patch'[i] : i \in 1..n - 1}
    BY <1>4 DEF Objects
  <2> QED
    BY <2>1, <2>2, <2>3
<1>9. IdsArePositions'
  <2>1. DOMAIN patchId' = Objects'
    BY <1>5, <1>8 DEF IInv, IdsArePositions
  <2>2. ASSUME NEW i \in 1..n - 1 PROVE patchId'[patch'[i]] = i - 1
    <3>1. CASE i < k
      <4>1. i \in 1..n /\ patch'[i] = patch[i] /\ patchId[patch[i]] = i - 1
        BY <3>1, <1>1, <1>4 DEF IInv, IdsArePositions
      <4>2. patch[i] \in DOMAIN patchId \ {id}
        <5>1. i # k
          BY <3>1, <1>2
        <5>2. patch[i] # id
          BY <4>1, <5>1, <1>2
        <5> QED
          BY <4>1, <5>2 DEF IInv, IdsArePositions, Objects
      <4> QED
        BY <4>1, <4>2, <3>1, <1>2, <1>6
    <3>2. CASE ~(i < k)
      <4>1. i + 1 \in 1..n /\ patch'[i] = patch[i + 1] /\ patchId[patch[i + 1]] = i
        BY <3>2, <1>1, <1>4 DEF IInv, IdsArePositions
      <4>2. patch[i + 1] \in DOMAIN patchId \ {id}
        <5>1. i + 1 # k
          BY <3>2, <1>1, <1>2
        <5>2. patch[i + 1] # id
          BY <4>1, <5>1, <1>2
        <5> QED
          BY <4>1, <5>2 DEF IInv, IdsArePositions, Objects
      <4> QED
        BY <4>1, <4>2, <3>2, <1>2, <1>6
    <3> QED
      BY <3>1, <3>2
  <2> QED
    BY <2>1, <2>2, <1>4 DEF IdsArePositions
<1>10. IsFiniteSet(DOMAIN patchId') /\ Cardinality(DOMAIN patchId') = Len(patch')
  <2>1. /\ IsFiniteSet(DOMAIN patchId \ {id})
        /\ Cardinality(DOMAIN patchId \ {id}) = Cardinality(DOMAIN patchId) - 1
    BY <1>1, FS_RemoveElement DEF IInv
  <2> QED
    BY <2>1, <1>4, <1>5 DEF IInv
<1> QED
  BY <1>7, <1>9, <1>10 DEF IInv

(* What the messages to pd do, when it is sent the numbers of s and t. *)
LEMMA ConnectMeans ==
  ASSUME IInv, NEW s \in Ids, NEW t \in Ids, ConnectModules(s, t)
  PROVE  /\ {s, t} \subseteq DOMAIN patchId
         /\ wires' = [wires EXCEPT ![<<s, t>>] = @ + 1]
         /\ UNCHANGED <<patch, patchId>>
<1>1. s \in DOMAIN patchId /\ t \in DOMAIN patchId
  BY DEF ConnectModules, GetPatchId
<1>2. /\ GetPatchId(s) < Len(patch) /\ patch[GetPatchId(s) + 1] = s
      /\ GetPatchId(t) < Len(patch) /\ patch[GetPatchId(t) + 1] = t
  <2>1. Len(patch) \in Nat
    BY DEF IInv, TypeOK
  <2> QED
    BY <1>1, <2>1, Position
<1> QED
  BY <1>1, <1>2 DEF ConnectModules, PdConnect

LEMMA DisconnectMeans ==
  ASSUME IInv, NEW s \in Ids, NEW t \in Ids, DisconnectModules(s, t)
  PROVE  /\ wires' = IF wires[<<s, t>>] > 0
                       THEN [wires EXCEPT ![<<s, t>>] = @ - 1] ELSE wires
         /\ UNCHANGED <<patch, patchId>>
<1>1. s \in DOMAIN patchId /\ t \in DOMAIN patchId
  BY DEF DisconnectModules, GetPatchId
<1>2. /\ GetPatchId(s) < Len(patch) /\ patch[GetPatchId(s) + 1] = s
      /\ GetPatchId(t) < Len(patch) /\ patch[GetPatchId(t) + 1] = t
  <2>1. Len(patch) \in Nat
    BY DEF IInv, TypeOK
  <2> QED
    BY <1>1, <2>1, Position
<1> QED
  BY <1>1, <1>2 DEF DisconnectModules, PdDisconnect

LEMMA WireStep ==
  ASSUME IInv, UNCHANGED <<patch, patchId>>, wires' \in [Ids \X Ids -> Nat]
  PROVE  IInv'
BY DEF IInv, TypeOK, IdsArePositions, Objects

LEMMA Inductive ==
  ASSUME IInv, CountsNew = FALSE, [Next]_vars
  PROVE  IInv'
<1>1. ASSUME NEW id \in Ids, AddModule(id) PROVE IInv'
  BY <1>1, AddStep
<1>2. ASSUME NEW id \in Ids, RemoveModule(id) PROVE IInv'
  BY <1>2, RemoveStep
<1>3. ASSUME NEW s \in Ids, NEW t \in Ids, ConnectModules(s, t) PROVE IInv'
  <2>1. /\ wires' = [wires EXCEPT ![<<s, t>>] = @ + 1]
        /\ UNCHANGED <<patch, patchId>>
    BY <1>3, ConnectMeans
  <2>2. wires' \in [Ids \X Ids -> Nat]
    BY <2>1 DEF IInv, TypeOK
  <2> QED
    BY <2>1, <2>2, WireStep
<1>4. ASSUME NEW s \in Ids, NEW t \in Ids, DisconnectModules(s, t) PROVE IInv'
  <2>1. /\ wires' = IF wires[<<s, t>>] > 0
                      THEN [wires EXCEPT ![<<s, t>>] = @ - 1] ELSE wires
        /\ UNCHANGED <<patch, patchId>>
    BY <1>4, DisconnectMeans
  <2>2. wires' \in [Ids \X Ids -> Nat]
    BY <2>1 DEF IInv, TypeOK
  <2> QED
    BY <2>1, <2>2, WireStep
<1>5. CASE UNCHANGED vars
  BY <1>5, WireStep DEF vars, IInv, TypeOK
<1> QED
  BY <1>1, <1>2, <1>3, <1>4, <1>5 DEF Next

-----------------------------------------------------------------------------
(* The theorems *)

(* The patch holds modules, and the engine's numbers for them are the      *)
(* positions pd knows them by, after any sequence of operations.           *)
THEOREM PatchCorrect ==
  ASSUME CountsNew = FALSE
  PROVE  Spec => [](TypeOK /\ IdsArePositions)
<1>1. IInv => TypeOK /\ IdsArePositions
  BY DEF IInv
<1> QED
  BY <1>1, Initially, Inductive, PTL DEF Spec

(* What test_map_sanity looks for never happens. *)
THEOREM MapSane ==
  ASSUME CountsNew = FALSE
  PROVE  Spec => []MapSanity
<1>1. ASSUME IInv PROVE MapSanity
  <2>1. \A id \in DOMAIN patchId : patchId[id] = GetPatchId(id)
    BY DEF GetPatchId
  <2>2. \A id \in DOMAIN patchId : patchId[id] \in 0..Cardinality(DOMAIN patchId) - 1
    BY <1>1, <2>1, Position DEF IInv
  <2>3. ASSUME NEW i \in DOMAIN patchId, NEW j \in DOMAIN patchId, patchId[i] = patchId[j]
        PROVE  i = j
    <3>1. patch[GetPatchId(i) + 1] = i /\ patch[GetPatchId(j) + 1] = j
      BY <1>1, Position
    <3> QED
      BY <2>1, <2>3, <3>1
  <2> QED
    BY <2>2, <2>3 DEF MapSanity
<1> QED
  BY <1>1, Initially, Inductive, PTL DEF Spec

(* The engine adds, removes, connects and disconnects exactly the modules  *)
(* it is asked to: it implements HostGraph.                                *)
THEOREM PatchImplementsHostGraph ==
  ASSUME CountsNew = FALSE
  PROVE  Spec => ImplementsHostGraph
<1>1. Init => Graph!Init
  BY DEF Init, Graph!Init
<1>2. ASSUME IInv, [Next]_vars
      PROVE  [Graph!Next]_(Graph!vars)
  <2>1. ASSUME NEW id \in Ids, AddModule(id) PROVE Graph!Add(id)
    BY <2>1 DEF AddModule, Graph!Add
  <2>2. ASSUME NEW id \in Ids, RemoveModule(id) PROVE Graph!Remove(id)
    <3>1. id \in Objects
      BY <1>2, <2>2 DEF IInv, IdsArePositions, RemoveModule
    <3> QED
      BY <2>2, <3>1 DEF RemoveModule, Cut, Graph!Remove
  <2>3. ASSUME NEW s \in Ids, NEW t \in Ids, ConnectModules(s, t)
        PROVE  Graph!Connect(s, t)
    BY <1>2, <2>3, ConnectMeans DEF ConnectModules, Graph!Connect
  <2>4. ASSUME NEW s \in Ids, NEW t \in Ids, DisconnectModules(s, t)
        PROVE  Graph!Disconnect(s, t)
    <3>1. wires \in [Ids \X Ids -> Nat]
      BY <1>2 DEF IInv, TypeOK
    <3>2. wires' = [wires EXCEPT ![<<s, t>>] = IF @ > 0 THEN @ - 1 ELSE 0]
      BY <1>2, <2>4, <3>1, DisconnectMeans
    <3> QED
      BY <1>2, <2>4, <3>2, DisconnectMeans DEF DisconnectModules, Graph!Disconnect
  <2>5. CASE UNCHANGED vars
    BY <2>5 DEF vars, Graph!vars
  <2> QED
    BY <1>2, <2>1, <2>2, <2>3, <2>4, <2>5 DEF Next, Graph!Next
<1> QED
  BY <1>1, <1>2, Initially, Inductive, PTL DEF Spec, ImplementsHostGraph, Graph!Spec

-----------------------------------------------------------------------------
(* The module manager *)

(* What holds of every registry, whatever becomes of the files.            *)
Sound(reg) ==
  /\ Loaded(reg) \subseteq Modules
  /\ \A o \in DOMAIN reg.origins :
       reg.origins[o] \in Loaded(reg) /\ Origin[reg.origins[o]] = o
  /\ \A l, m \in From(reg, "inDevelopment") : l = m

SoundInv == Sound(registry)

-----------------------------------------------------------------------------
(* load_module keeps the registry sound when the modules are new, and of   *)
(* one that is in development there was none.                              *)
LEMMA EnteredSound ==
  ASSUME NEW reg, Sound(reg), NEW new \in SUBSET Modules, NEW src,
         NEW first \in Firsts(new),
         src = "inDevelopment" =>
           From(reg, "inDevelopment") = {} /\ \A l, m \in new : l = m
  PROVE  Sound(Entered(reg, new, src, first))
<1> DEFINE r == Entered(reg, new, src, first)
<1>1. Loaded(r) = Loaded(reg) \cup new
  BY DEF Entered, Loaded
<1>2. \A m \in Loaded(r) : r.source[m] = IF m \in new THEN src ELSE reg.source[m]
  BY DEF Entered, Loaded
<1>3. /\ DOMAIN r.origins = DOMAIN reg.origins \cup OriginsOf(new)
      /\ \A o \in DOMAIN r.origins :
           r.origins[o] = IF o \in DOMAIN reg.origins THEN reg.origins[o] ELSE first[o]
  BY DEF Entered
<1>4. \A o \in OriginsOf(new) : first[o] \in new /\ Origin[first[o]] = o
  BY DEF Firsts
<1>5. \A o \in DOMAIN r.origins : r.origins[o] \in Loaded(r) /\ Origin[r.origins[o]] = o
  BY <1>1, <1>3, <1>4 DEF Sound
<1>6. \A l, m \in From(r, "inDevelopment") : l = m
  <2> SUFFICES ASSUME NEW l \in From(r, "inDevelopment"), NEW m \in From(r, "inDevelopment")
               PROVE  l = m
    OBVIOUS
  <2>1. CASE src = "inDevelopment"
    <3>1. From(r, "inDevelopment") \subseteq new
      BY <1>1, <1>2, <2>1 DEF From
    <3> QED
      BY <2>1, <3>1
  <2>2. CASE src # "inDevelopment"
    <3>1. From(r, "inDevelopment") \subseteq From(reg, "inDevelopment")
      BY <1>1, <1>2, <2>2 DEF From
    <3> QED
      BY <3>1 DEF Sound
  <2> QED
    BY <2>1, <2>2
<1> HIDE DEF r
<1>7. Loaded(r) \subseteq Modules
  BY <1>1 DEF Sound
<1> QED
  BY <1>5, <1>6, <1>7 DEF Sound, r

(* unload_module: no lineage keeps a module that is gone.                  *)
LEMMA UnloadedSound ==
  ASSUME NEW reg, Sound(reg), NEW old
  PROVE  Sound(Unloaded(reg, old))
<1> DEFINE r == Unloaded(reg, old)
<1>1. Loaded(r) = Loaded(reg) \ old /\ \A m \in Loaded(r) : r.source[m] = reg.source[m]
  BY DEF Unloaded, Loaded
<1>2. /\ DOMAIN r.origins = {o \in DOMAIN reg.origins : reg.origins[o] \notin old}
      /\ \A o \in DOMAIN r.origins : r.origins[o] = reg.origins[o]
  BY DEF Unloaded
<1>3. From(r, "inDevelopment") \subseteq From(reg, "inDevelopment")
  BY <1>1 DEF From
<1> HIDE DEF r
<1> QED
  BY <1>1, <1>2, <1>3 DEF Sound, r

(* change_module_source does not make a second module in development.      *)
LEMMA ResourcedSound ==
  ASSUME NEW reg, Sound(reg), NEW ms, NEW src, src # "inDevelopment"
  PROVE  Sound(Resourced(reg, ms, src))
<1> DEFINE r == Resourced(reg, ms, src)
<1>1. /\ Loaded(r) = Loaded(reg)
      /\ \A m \in Loaded(r) : r.source[m] = IF m \in ms THEN src ELSE reg.source[m]
      /\ r.origins = reg.origins
  BY DEF Resourced, Loaded
<1>2. From(r, "inDevelopment") \subseteq From(reg, "inDevelopment")
  BY <1>1 DEF From
<1> HIDE DEF r
<1> QED
  BY <1>1, <1>2 DEF Sound, r

(* The files do not matter to it. *)
LEMMA FilesApart ==
  ASSUME NEW reg, Sound(reg), NEW r, r.source = reg.source, r.origins = reg.origins
  PROVE  Sound(r)
BY DEF Sound, Loaded, From

(* What a new start finds. *)
LEMMA StartSound ==
  ASSUME NEW files, NEW reg \in StartWith(files)
  PROVE  Sound(reg)
<1> DEFINE empty == [source |-> [m \in {} |-> "shipped"], origins |-> [o \in {} |-> o],
                     files |-> files \ {<<"embedded", m>> : m \in Modules}]
<1>1. PICK first \in Firsts(Shipped), second \in Firsts(Installed(files)) :
        reg = Started(files, first, second)
  BY DEF StartWith
<1>a. reg = Entered(Entered(empty, Shipped, "shipped", first),
                    Installed(files), "thirdParty", second)
  BY <1>1 DEF Started
<1>2. Sound(empty)
  BY DEF Sound, Loaded, From
<1>3. Shipped \in SUBSET Modules /\ Installed(files) \in SUBSET Modules
  BY ManagerAssumption DEF Installed
<1> HIDE DEF empty
<1>4. Sound(Entered(empty, Shipped, "shipped", first))
  BY <1>2, <1>3, EnteredSound
<1>5. Sound(Entered(Entered(empty, Shipped, "shipped", first),
                    Installed(files), "thirdParty", second))
  BY <1>3, <1>4, EnteredSound
<1> QED
  BY <1>a, <1>5

(* Which modules are loaded after each. *)
LEMMA EnteredLoaded ==
  ASSUME NEW reg, NEW ms, NEW src, NEW first
  PROVE  Loaded(Entered(reg, ms, src, first)) = Loaded(reg) \cup ms
BY DEF Entered, Loaded

LEMMA UnloadedLoaded ==
  ASSUME NEW reg, NEW ms
  PROVE  Loaded(Unloaded(reg, ms)) = Loaded(reg) \ ms
BY DEF Unloaded, Loaded

LEMMA ResourcedLoaded ==
  ASSUME NEW reg, NEW ms, NEW src
  PROVE  Loaded(Resourced(reg, ms, src)) = Loaded(reg)
BY DEF Resourced, Loaded

(* Unloading the previous module in development leaves none, and leaves    *)
(* every module that is in use.                                            *)
LEMMA NoneInDevelopment ==
  ASSUME SoundInv, NEW used
  PROVE  /\ Sound(WithoutDevelopment(used))
         /\ From(WithoutDevelopment(used), "inDevelopment") = {}
         /\ Loaded(WithoutDevelopment(used)) \subseteq Loaded(registry)
         /\ Loaded(registry) \cap used \subseteq Loaded(WithoutDevelopment(used))
<1> DEFINE dev  == From(registry, "inDevelopment")
           kept == dev \cap used
           mid  == Resourced(registry, kept, "embedded")
<1>1. WithoutDevelopment(used) = Unloaded(mid, dev \ used)
  BY DEF WithoutDevelopment
<1>2. /\ Loaded(mid) = Loaded(registry)
      /\ \A m \in Loaded(registry) :
           mid.source[m] = IF m \in kept THEN "embedded" ELSE registry.source[m]
  BY DEF Resourced, Loaded
<1>3. Sound(mid)
  BY ResourcedSound DEF SoundInv
<1> HIDE DEF mid
<1>4. Sound(WithoutDevelopment(used))
  BY <1>1, <1>3, UnloadedSound
<1>5. /\ Loaded(Unloaded(mid, dev \ used)) = Loaded(registry) \ (dev \ used)
      /\ \A m \in Loaded(registry) \ (dev \ used) :
           Unloaded(mid, dev \ used).source[m] = mid.source[m]
  BY <1>2 DEF Unloaded, Loaded
<1>6. From(Unloaded(mid, dev \ used), "inDevelopment") = {}
  BY <1>2, <1>5 DEF From
<1>7. Loaded(registry) \cap used \subseteq Loaded(registry) \ (dev \ used)
  OBVIOUS
<1> QED
  BY <1>1, <1>4, <1>5, <1>6, <1>7

-----------------------------------------------------------------------------
(* Every step keeps the registry sound. *)
LEMMA SoundStep ==
  ASSUME SoundInv, [ManagerNext]_managed
  PROVE  SoundInv'
<1> USE DEF SoundInv
<1>1. ASSUME NEW m \in Modules, InstallModule(m) PROVE Sound(registry')
  <2>1. CASE m \notin Loaded(registry) \cup BuiltIn
             /\ \E first \in Firsts({m}) : registry' = Entered(registry, {m}, "thirdParty", first)
    BY <2>1, EnteredSound
  <2>2. CASE registry' = Resourced(registry, {m}, "thirdParty")
    BY <2>2, ResourcedSound
  <2> QED
    BY <1>1, <2>1, <2>2 DEF InstallModule
<1>2. ASSUME NEW m \in Modules, InstallEmbeddedModule(m) PROVE Sound(registry')
  BY <1>2, ResourcedSound DEF InstallEmbeddedModule
<1>3. ASSUME NEW m \in Modules, UninstallModule(m) PROVE Sound(registry')
  <2>1. CASE registry' = Resourced(registry, {m}, "embedded")
    BY <2>1, ResourcedSound
  <2>2. CASE registry' = [Unloaded(registry, {m}) EXCEPT !.files = @ \ {<<"thirdParty", m>>}]
    <3>1. Sound(Unloaded(registry, {m}))
      BY UnloadedSound
    <3>2. /\ registry'.source = Unloaded(registry, {m}).source
          /\ registry'.origins = Unloaded(registry, {m}).origins
      BY <2>2 DEF Unloaded
    <3> QED
      BY <3>1, <3>2, FilesApart
  <2> QED
    BY <1>3, <2>1, <2>2 DEF UninstallModule
<1>4. ASSUME NEW m \in Modules, LoadModuleInDevelopment(m) PROVE Sound(registry')
  <2>0. PICK used \in FoundInUse :
          \/ registry' = WithoutDevelopment(used)
          \/ \E first \in Firsts({m}) :
               registry' = Entered(WithoutDevelopment(used), {m}, "inDevelopment", first)
    BY <1>4 DEF LoadModuleInDevelopment
  <2>1. CASE registry' = WithoutDevelopment(used)
    BY <2>1, NoneInDevelopment
  <2>2. CASE \E first \in Firsts({m}) :
               registry' = Entered(WithoutDevelopment(used), {m}, "inDevelopment", first)
    BY <2>2, NoneInDevelopment, EnteredSound
  <2> QED
    BY <2>0, <2>1, <2>2
<1>5. CASE UnloadUnusedEmbeddedModules
  BY <1>5, UnloadedSound DEF UnloadUnusedEmbeddedModules
<1>6. ASSUME NEW new \in SUBSET New(Modules), Load(new) PROVE Sound(registry')
  <2>1. PICK reg \in Brought(new) : registry' = reg \/ registry' = Dropped(reg)
    BY <1>6 DEF Load
  <2>2. Sound(reg)
    <3>1. new \in SUBSET Modules
      BY DEF New
    <3>2. PICK first \in Firsts(new) : reg = Entered(registry, new, "embedded", first)
      BY DEF Brought
    <3> QED
      BY <3>1, <3>2, EnteredSound
  <2> QED
    BY <2>1, <2>2, UnloadedSound DEF Dropped
<1>7. CASE Restart
  BY <1>7, StartSound DEF Restart
<1>8. ASSUME NEW m \in Modules, OwnFileGoes(m) PROVE Sound(registry')
  <2>1. registry'.source = registry.source /\ registry'.origins = registry.origins
    BY <1>8 DEF OwnFileGoes
  <2> QED
    BY <2>1, FilesApart
<1>9. CASE UNCHANGED registry
  BY <1>9
<1> QED
  BY <1>1, <1>2, <1>3, <1>4, <1>5, <1>6, <1>7, <1>8, <1>9
     DEF ManagerNext, ManageModules, MakeNode, DropNodes, managed

(* Through installation, development and loading, in any order, the map of *)
(* lineages leads to loaded modules, and at most one is in development.    *)
THEOREM RegistrySound == ManagerSpec => []SoundInv
<1>1. ManagerInit => SoundInv
  BY StartSound DEF ManagerInit, SoundInv
<1>2. SoundInv /\ [ManagerNext]_managed => SoundInv'
  BY SoundStep
<1> QED
  BY <1>1, <1>2, PTL DEF ManagerSpec

(* m_origin_id_map holds no definition that was deleted.                   *)
THEOREM OriginsSound == ManagerSpec => []OriginsLead
<1>1. SoundInv => OriginsLead
  BY DEF SoundInv, Sound, OriginsLead
<1> QED
  BY <1>1, RegistrySound, PTL

(* There is only ever one module in development.                           *)
THEOREM DevelopmentSingle == ManagerSpec => []OneInDevelopment
<1>1. SoundInv => OneInDevelopment
  BY DEF SoundInv, Sound, OneInDevelopment
<1> QED
  BY <1>1, RegistrySound, PTL

-----------------------------------------------------------------------------
(* Whatever an orphan's definition is taken for, what the other nodes use  *)
(* is found.                                                               *)
LEMMA UsedIsFound ==
  ASSUME NEW used \in FoundInUse
  PROVE  InUse \subseteq used
BY DEF FoundInUse

(* No step takes a module from a node that is not an orphan, and only a    *)
(* load that fails makes orphans.                                          *)
LEMMA NodesStep ==
  ASSUME SoundInv, NodesHaveModules, [ManagerNext]_managed
  PROVE  NodesHaveModules'
<1>0. \A n \in DOMAIN nodes \ orphans : nodes[n] \in Loaded(registry) /\ nodes[n] \in InUse
  BY DEF NodesHaveModules, InUse
<1>a. ASSUME UNCHANGED <<nodes, orphans>>,
             Loaded(registry) \cap InUse \subseteq Loaded(registry')
      PROVE  NodesHaveModules'
  BY <1>0, <1>a DEF NodesHaveModules
<1>1. ASSUME NEW m \in Modules, InstallModule(m) PROVE NodesHaveModules'
  BY <1>1, <1>a, EnteredLoaded, ResourcedLoaded DEF InstallModule
<1>2. ASSUME NEW m \in Modules, InstallEmbeddedModule(m) PROVE NodesHaveModules'
  BY <1>2, <1>a, ResourcedLoaded DEF InstallEmbeddedModule
<1>3. ASSUME NEW m \in Modules, UninstallModule(m) PROVE NodesHaveModules'
  <2>0. UNCHANGED <<nodes, orphans>>
    BY <1>3 DEF UninstallModule
  <2>1. CASE registry' = Resourced(registry, {m}, "embedded")
    BY <2>0, <2>1, <1>a, ResourcedLoaded
  <2>2. CASE /\ m \notin InUse
             /\ registry' = [Unloaded(registry, {m}) EXCEPT !.files = @ \ {<<"thirdParty", m>>}]
    <3>1. Loaded(registry') = Loaded(Unloaded(registry, {m}))
      BY <2>2 DEF Unloaded, Loaded
    <3>2. Loaded(registry') = Loaded(registry) \ {m}
      BY <3>1, UnloadedLoaded
    <3> QED
      BY <2>0, <2>2, <3>2, <1>a
  <2> QED
    BY <1>3, <2>1, <2>2, UsedIsFound DEF UninstallModule
<1>4. ASSUME NEW m \in Modules, LoadModuleInDevelopment(m) PROVE NodesHaveModules'
  <2>1. PICK used \in FoundInUse :
          \/ registry' = WithoutDevelopment(used)
          \/ \E first \in Firsts({m}) :
               registry' = Entered(WithoutDevelopment(used), {m}, "inDevelopment", first)
    BY <1>4 DEF LoadModuleInDevelopment
  <2>2. Loaded(WithoutDevelopment(used)) \subseteq Loaded(registry')
    BY <2>1, EnteredLoaded
  <2>3. Loaded(registry) \cap used \subseteq Loaded(WithoutDevelopment(used))
    BY NoneInDevelopment
  <2>4. UNCHANGED <<nodes, orphans>>
    BY <1>4 DEF LoadModuleInDevelopment
  <2> QED
    BY <2>2, <2>3, <2>4, <1>a, UsedIsFound
<1>5. CASE UnloadUnusedEmbeddedModules
  <2>1. PICK used \in FoundInUse :
          registry' = Unloaded(registry, From(registry, "embedded") \ used)
    BY <1>5 DEF UnloadUnusedEmbeddedModules
  <2>2. UNCHANGED <<nodes, orphans>>
    BY <1>5 DEF UnloadUnusedEmbeddedModules
  <2> QED
    BY <2>1, <2>2, <1>a, UnloadedLoaded, UsedIsFound
<1>6. ASSUME NEW new \in SUBSET New(Modules), Load(new) PROVE NodesHaveModules'
  <2>1. PICK reg \in Brought(new) :
          /\ Grow(reg)
          /\ \/ registry' = reg /\ UNCHANGED orphans
             \/ registry' = Dropped(reg) /\ orphans' = orphans \cup Orphaned
    BY <1>6 DEF Load
  <2>2. Loaded(reg) = Loaded(registry) \cup new
    BY EnteredLoaded DEF Brought
  <2>3. /\ \A n \in DOMAIN nodes : n \in DOMAIN nodes' /\ nodes'[n] = nodes[n]
        /\ \A n \in DOMAIN nodes' \ DOMAIN nodes : nodes'[n] \in Loaded(reg)
    BY <2>1 DEF Grow
  <2>4. CASE registry' = reg /\ UNCHANGED orphans
    BY <1>0, <2>2, <2>3, <2>4 DEF NodesHaveModules
  <2>5. CASE registry' = Dropped(reg) /\ orphans' = orphans \cup Orphaned
    <3>1. Loaded(Dropped(reg)) = Loaded(reg) \ (Loaded(reg) \ Loaded(registry))
      BY UnloadedLoaded DEF Dropped
    <3>2. Loaded(registry') = Loaded(registry)
      BY <2>2, <2>5, <3>1
    <3>3. \A n \in DOMAIN nodes' \ DOMAIN nodes :
            nodes'[n] \in Loaded(registry) \/ n \in orphans'
      BY <2>5 DEF Orphaned
    <3> QED
      BY <1>0, <2>3, <2>5, <3>2, <3>3 DEF NodesHaveModules
  <2> QED
    BY <2>1, <2>4, <2>5
<1>7. CASE Restart
  BY <1>7 DEF Restart, NodesHaveModules
<1>8. ASSUME NEW m \in Modules, OwnFileGoes(m) PROVE NodesHaveModules'
  <2>1. Loaded(registry') = Loaded(registry)
    BY <1>8 DEF OwnFileGoes, Loaded
  <2> QED
    BY <1>8, <2>1, <1>a DEF OwnFileGoes
<1>9. ASSUME NEW n \in NodeIds, NEW m \in Modules, MakeNode(n, m) PROVE NodesHaveModules'
  BY <1>9, <1>0 DEF MakeNode, NodesHaveModules
<1>10. ASSUME NEW gone \in SUBSET DOMAIN nodes, DropNodes(gone) PROVE NodesHaveModules'
  BY <1>10, <1>0 DEF DropNodes, NodesHaveModules
<1>11. CASE UNCHANGED managed
  BY <1>11, <1>a DEF managed
<1> QED
  BY <1>1, <1>2, <1>3, <1>4, <1>5, <1>6, <1>7, <1>8, <1>9, <1>10, <1>11
     DEF ManagerNext, ManageModules

(* Whatever is uninstalled, replaced or unloaded, and however loads fail,  *)
(* a node's interface definition lives as long as the node, but for the    *)
(* orphans: the nodes that a failed load made of modules it brought.       *)
THEOREM NodesSafe == ManagerSpec => []NodesHaveModules
<1>1. ManagerInit => NodesHaveModules
  BY DEF ManagerInit, NodesHaveModules
<1>2. SoundInv /\ NodesHaveModules /\ [ManagerNext]_managed => NodesHaveModules'
  BY NodesStep
<1> QED
  BY <1>1, <1>2, RegistrySound, PTL DEF ManagerSpec

-----------------------------------------------------------------------------
(* Where each file is, when files can be renamed and users delete none:    *)
(* the shipped modules never change their source, the others' files follow *)
(* theirs.                                                                 *)
Filed(reg) ==
  /\ From(reg, "shipped") = Shipped
  /\ \A m \in Loaded(reg) : <<reg.source[m], m>> \in reg.files
  /\ \A m \in Modules : <<"embedded", m>> \in reg.files => m \in From(reg, "embedded")
  /\ \A m \in Modules \ Shipped :
       <<"thirdParty", m>> \in reg.files => m \in From(reg, "thirdParty")

FiledInv == Filed(registry)

(* A module that is loaded brings its file. *)
LEMMA EnteredFiled ==
  ASSUME NEW reg, Filed(reg), NEW new, new \cap Loaded(reg) = {},
         NEW src, src # "shipped", NEW first
  PROVE  Filed(Entered(reg, new, src, first))
<1> DEFINE r == Entered(reg, new, src, first)
<1>1. Loaded(r) = Loaded(reg) \cup new
  BY EnteredLoaded
<1>2. \A m \in Loaded(r) : r.source[m] = IF m \in new THEN src ELSE reg.source[m]
  BY DEF Entered, Loaded
<1>3. \A s, m : <<s, m>> \in r.files <=> <<s, m>> \in reg.files \/ (s = src /\ m \in new)
  BY DEF Entered
<1> HIDE DEF r
<1>4. From(r, "shipped") = Shipped
  BY <1>1, <1>2 DEF From, Filed
<1>5. \A m \in Loaded(r) : <<r.source[m], m>> \in r.files
  BY <1>1, <1>2, <1>3 DEF Filed
<1>6. \A m \in Modules : <<"embedded", m>> \in r.files => m \in From(r, "embedded")
  BY <1>1, <1>2, <1>3 DEF Filed, From
<1>7. \A m \in Modules \ Shipped :
        <<"thirdParty", m>> \in r.files => m \in From(r, "thirdParty")
  BY <1>1, <1>2, <1>3 DEF Filed, From
<1> QED
  BY <1>4, <1>5, <1>6, <1>7 DEF Filed, r

(* An embedded module that is unloaded takes its file; the file of one in  *)
(* development is the user's.                                              *)
LEMMA UnloadedFiled ==
  ASSUME NEW reg, Filed(reg),
         NEW old \in SUBSET (From(reg, "embedded") \cup From(reg, "inDevelopment"))
  PROVE  Filed(Unloaded(reg, old))
<1> DEFINE r == Unloaded(reg, old)
<1>1. Loaded(r) = Loaded(reg) \ old
  BY UnloadedLoaded
<1>2. \A m \in Loaded(r) : r.source[m] = reg.source[m]
  BY DEF Unloaded, Loaded
<1>3. \A s, m : <<s, m>> \in r.files <=>
                  <<s, m>> \in reg.files /\ ~(s = "embedded" /\ m \in old \cap From(reg, "embedded"))
  BY DEF Unloaded
<1> HIDE DEF r
<1>4. From(r, "shipped") = Shipped
  BY <1>1, <1>2 DEF From, Filed
<1>5. \A m \in Loaded(r) : <<r.source[m], m>> \in r.files
  BY <1>1, <1>2, <1>3 DEF Filed
<1>6. \A m \in Modules : <<"embedded", m>> \in r.files => m \in From(r, "embedded")
  BY <1>1, <1>2, <1>3 DEF Filed, From
<1>7. \A m \in Modules \ Shipped :
        <<"thirdParty", m>> \in r.files => m \in From(r, "thirdParty")
  BY <1>1, <1>2, <1>3 DEF Filed, From
<1> QED
  BY <1>4, <1>5, <1>6, <1>7 DEF Filed, r

(* A module that changes its source takes its file along. *)
LEMMA ResourcedFiled ==
  ASSUME SameFileSystem, NEW reg, Filed(reg), NEW ms \in SUBSET Loaded(reg),
         NEW src, src # "shipped",
         \A m \in ms : reg.source[m] # "shipped" /\ reg.source[m] # src
  PROVE  Filed(Resourced(reg, ms, src))
<1> DEFINE r == Resourced(reg, ms, src)
<1>1. Loaded(r) = Loaded(reg)
  BY ResourcedLoaded
<1>2. \A m \in Loaded(r) : r.source[m] = IF m \in ms THEN src ELSE reg.source[m]
  BY DEF Resourced, Loaded
<1>3. \A s, m : <<s, m>> \in r.files <=>
                  \/ <<s, m>> \in reg.files /\ ~(m \in ms /\ s = reg.source[m])
                  \/ m \in ms /\ s = src
  <2>1. {m \in ms : SameFileSystem /\ <<reg.source[m], m>> \in reg.files} = ms
    BY DEF Filed
  <2>2. r.files = (reg.files \ {<<reg.source[m], m>> : m \in ms}) \cup {<<src, m>> : m \in ms}
    BY <2>1 DEF Resourced
  <2> QED
    BY <2>2
<1> HIDE DEF r
<1>4. From(r, "shipped") = Shipped
  BY <1>1, <1>2 DEF From, Filed
<1>5. \A m \in Loaded(r) : <<r.source[m], m>> \in r.files
  BY <1>1, <1>2, <1>3 DEF Filed
<1>6. \A m \in Modules : <<"embedded", m>> \in r.files => m \in From(r, "embedded")
  BY <1>1, <1>2, <1>3 DEF Filed, From
<1>7. \A m \in Modules \ Shipped :
        <<"thirdParty", m>> \in r.files => m \in From(r, "thirdParty")
  BY <1>1, <1>2, <1>3 DEF Filed, From
<1> QED
  BY <1>4, <1>5, <1>6, <1>7 DEF Filed, r

(* A new start finds the shipped and the installed modules, and no other   *)
(* files in the scratch directory.                                         *)
LEMMA StartFiled ==
  ASSUME NEW files, \A m \in Shipped : <<"shipped", m>> \in files,
         NEW r \in StartWith(files)
  PROVE  Filed(r)
<1>1. PICK first \in Firsts(Shipped), second \in Firsts(Installed(files)) :
        r = Started(files, first, second)
  BY DEF StartWith
<1>2. /\ Loaded(r) = Shipped \cup Installed(files)
      /\ \A m \in Loaded(r) :
           r.source[m] = IF m \in Installed(files) THEN "thirdParty" ELSE "shipped"
  BY <1>1 DEF Started, Entered, Loaded
<1>3. \A s, m : <<s, m>> \in r.files <=>
        \/ <<s, m>> \in files /\ ~(s = "embedded" /\ m \in Modules)
        \/ s = "shipped" /\ m \in Shipped
        \/ s = "thirdParty" /\ m \in Installed(files)
  BY <1>1 DEF Started, Entered
<1>4. Installed(files) \cap Shipped = {}
      /\ \A m \in Installed(files) : <<"thirdParty", m>> \in files
  BY DEF Installed
<1>5. From(r, "shipped") = Shipped
  BY <1>2, <1>4 DEF From
<1>6. \A m \in Loaded(r) : <<r.source[m], m>> \in r.files
  BY <1>2, <1>3
<1>7. \A m \in Modules : <<"embedded", m>> \in r.files => m \in From(r, "embedded")
  BY <1>3
<1>8. \A m \in Modules \ Shipped :
        <<"thirdParty", m>> \in r.files => m \in From(r, "thirdParty")
  BY <1>2, <1>3, <1>4 DEF From, Installed
<1> QED
  BY <1>5, <1>6, <1>7, <1>8 DEF Filed

(* Where nothing outside the program takes a file away, every step leaves  *)
(* the files where the sources say.                                        *)
LEMMA FiledStep ==
  ASSUME SameFileSystem, ~OwnFilesGo, SoundInv, FiledInv, [ManagerNext]_managed
  PROVE  FiledInv'
<1> USE DEF FiledInv
<1>a. From(registry, "shipped") = Shipped
  BY DEF Filed
<1>1. ASSUME NEW m \in Modules, InstallModule(m) PROVE Filed(registry')
  <2>1. CASE m \notin Loaded(registry) \cup BuiltIn
             /\ \E first \in Firsts({m}) : registry' = Entered(registry, {m}, "thirdParty", first)
    <3>1. {m} \cap Loaded(registry) = {}
      BY <2>1
    <3> QED
      BY <2>1, <3>1, EnteredFiled
  <2>2. CASE m \in From(registry, "embedded") /\ registry' = Resourced(registry, {m}, "thirdParty")
    <3>1. {m} \in SUBSET Loaded(registry) /\ registry.source[m] = "embedded"
      BY <2>2 DEF From
    <3> QED
      BY <2>2, <3>1, ResourcedFiled
  <2> QED
    BY <1>1, <2>1, <2>2 DEF InstallModule
<1>2. ASSUME NEW m \in Modules, InstallEmbeddedModule(m) PROVE Filed(registry')
  <2>1. {m} \in SUBSET Loaded(registry) /\ registry.source[m] = "embedded"
    BY <1>2 DEF InstallEmbeddedModule, From
  <2> QED
    BY <1>2, <2>1, ResourcedFiled DEF InstallEmbeddedModule
<1>3. ASSUME NEW m \in Modules, UninstallModule(m) PROVE Filed(registry')
  <2>1. {m} \in SUBSET Loaded(registry) /\ registry.source[m] = "thirdParty"
    BY <1>3 DEF UninstallModule, From
  <2>2. CASE registry' = Resourced(registry, {m}, "embedded")
    BY <2>1, <2>2, ResourcedFiled
  <2>3. CASE registry' = [Unloaded(registry, {m}) EXCEPT !.files = @ \ {<<"thirdParty", m>>}]
    <3> DEFINE r == registry'
    <3>1. Loaded(r) = Loaded(registry) \ {m}
          /\ \A i \in Loaded(r) : r.source[i] = registry.source[i]
      BY <2>3 DEF Unloaded, Loaded
    <3>2. {m} \cap From(registry, "embedded") = {}
      BY <2>1 DEF From
    <3>3. \A s, i : <<s, i>> \in r.files <=>
                      <<s, i>> \in registry.files /\ ~(s = "thirdParty" /\ i = m)
      BY <2>3, <3>2 DEF Unloaded
    <3> HIDE DEF r
    <3>4. From(r, "shipped") = Shipped
      BY <2>1, <3>1, <1>a DEF From
    <3>5. \A i \in Loaded(r) : <<r.source[i], i>> \in r.files
      BY <3>1, <3>3 DEF Filed
    <3>6. \A i \in Modules : <<"embedded", i>> \in r.files => i \in From(r, "embedded")
      BY <2>1, <3>1, <3>3 DEF Filed, From
    <3>7. \A i \in Modules \ Shipped :
            <<"thirdParty", i>> \in r.files => i \in From(r, "thirdParty")
      BY <3>1, <3>3 DEF Filed, From
    <3> QED
      BY <3>4, <3>5, <3>6, <3>7 DEF Filed, r
  <2> QED
    BY <1>3, <2>2, <2>3 DEF UninstallModule
<1>4. ASSUME NEW used PROVE Filed(WithoutDevelopment(used))
  <2> DEFINE dev  == From(registry, "inDevelopment")
             kept == dev \cap used
             mid  == Resourced(registry, kept, "embedded")
  <2>1. /\ kept \in SUBSET Loaded(registry)
        /\ \A m \in kept : registry.source[m] = "inDevelopment"
    BY DEF From
  <2>2. Filed(mid)
    BY <2>1, ResourcedFiled
  <2>3. dev \ used \in SUBSET (From(mid, "embedded") \cup From(mid, "inDevelopment"))
    <3>1. Loaded(mid) = Loaded(registry)
      BY ResourcedLoaded
    <3>2. \A m \in Loaded(registry) :
            mid.source[m] = IF m \in kept THEN "embedded" ELSE registry.source[m]
      BY DEF Resourced
    <3> HIDE DEF mid
    <3> QED
      BY <3>1, <3>2 DEF From
  <2>4. WithoutDevelopment(used) = Unloaded(mid, dev \ used)
    BY DEF WithoutDevelopment
  <2> HIDE DEF mid, dev, kept
  <2> QED
    BY <2>2, <2>3, <2>4, UnloadedFiled
<1>5. ASSUME NEW m \in Modules, LoadModuleInDevelopment(m) PROVE Filed(registry')
  <2>0. PICK used \in FoundInUse :
          \/ registry' = WithoutDevelopment(used)
          \/ /\ m \notin Loaded(WithoutDevelopment(used))
             /\ \E first \in Firsts({m}) :
                  registry' = Entered(WithoutDevelopment(used), {m}, "inDevelopment", first)
    BY <1>5 DEF LoadModuleInDevelopment
  <2>1. CASE registry' = WithoutDevelopment(used)
    BY <2>1, <1>4
  <2>2. CASE m \notin Loaded(WithoutDevelopment(used)) /\ \E first \in Firsts({m}) :
               registry' = Entered(WithoutDevelopment(used), {m}, "inDevelopment", first)
    <3>1. {m} \cap Loaded(WithoutDevelopment(used)) = {}
      BY <2>2
    <3> QED
      BY <2>2, <3>1, <1>4, EnteredFiled
  <2> QED
    BY <2>0, <2>1, <2>2
<1>6. CASE UnloadUnusedEmbeddedModules
  <2>1. PICK used \in FoundInUse :
          registry' = Unloaded(registry, From(registry, "embedded") \ used)
    BY <1>6 DEF UnloadUnusedEmbeddedModules
  <2> QED
    BY <2>1, UnloadedFiled
<1>7. ASSUME NEW new \in SUBSET New(Modules), Load(new) PROVE Filed(registry')
  <2>1. PICK reg \in Brought(new) : registry' = reg \/ registry' = Dropped(reg)
    BY <1>7 DEF Load
  <2>2. PICK first \in Firsts(new) : reg = Entered(registry, new, "embedded", first)
    BY DEF Brought
  <2>3. new \cap Loaded(registry) = {}
    BY DEF New
  <2>4. Filed(reg)
    BY <2>2, <2>3, EnteredFiled
  <2>5. Loaded(reg) = Loaded(registry) \cup new /\ \A m \in new : reg.source[m] = "embedded"
    BY <2>2 DEF Entered, Loaded
  <2>6. Loaded(reg) \ Loaded(registry) \in SUBSET (From(reg, "embedded") \cup From(reg, "inDevelopment"))
    BY <2>5 DEF From
  <2>7. Filed(Dropped(reg))
    BY <2>4, <2>6, UnloadedFiled DEF Dropped
  <2> QED
    BY <2>1, <2>4, <2>7
<1>8. CASE Restart
  <2>1. \A m \in Shipped : <<"shipped", m>> \in registry.files
    BY <1>a DEF Filed, From
  <2> QED
    BY <1>8, <2>1, StartFiled DEF Restart
<1>9. CASE UNCHANGED registry
  BY <1>9
<1> QED
  BY <1>1, <1>2, <1>3, <1>5, <1>6, <1>7, <1>8, <1>9
     DEF ManagerNext, ManageModules, OwnFileGoes, MakeNode, DropNodes, managed

(* Every module that is loaded has its file, to be embedded when a project *)
(* is saved, and what was uninstalled or unloaded leaves none behind.      *)
THEOREM FilesSafe ==
  ASSUME SameFileSystem, ~OwnFilesGo
  PROVE  ManagerSpec => []FilesMatchModules
<1>1. ManagerInit => FiledInv
  <2> SUFFICES ASSUME ManagerInit PROVE FiledInv
    OBVIOUS
  <2>1. PICK installed \in SUBSET (Modules \ Shipped) :
          registry \in StartWith({<<"shipped", m>> : m \in Shipped}
                                   \cup {<<"inDevelopment", m>> : m \in Modules \ Shipped}
                                   \cup {<<"thirdParty", m>> : m \in installed})
    BY DEF ManagerInit
  <2> QED
    BY <2>1, StartFiled DEF FiledInv
<1>2. SoundInv /\ FiledInv /\ [ManagerNext]_managed => FiledInv'
  BY FiledStep
<1>3. SoundInv /\ FiledInv => FilesMatchModules
  BY DEF SoundInv, FiledInv, Sound, Filed, FilesMatchModules, From
<1> QED
  BY <1>1, <1>2, <1>3, RegistrySound, PTL DEF ManagerSpec
=============================================================================
