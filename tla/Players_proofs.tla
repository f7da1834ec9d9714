---------------------------- MODULE Players_proofs ----------------------------
(***************************************************************************)
(* Proofs about the player handler, for any players, paths and values: it  *)
(* advances the players that are to play, and no others; wherever the      *)
(* computer's clock is put, a player stays within its loop, and an update  *)
(* moves it by the time that has passed or not at all; and between calls a *)
(* player plays the scene that it names.  The first of these is inductive  *)
(* with types.  The second needs that what the thread keeps are integers,  *)
(* and so that its commands and the scripts of the calls carry integers.   *)
(* The third is about a call's script as a whole: at every step of a call, *)
(* what its remaining commands leave a player with, is what the player is  *)
(* to play (Coming).                                                       *)
(***************************************************************************)
EXTENDS Players, FiniteSetTheorems, WellFoundedInduction, TLAPS

Typed ==
  /\ name \in [Players -> Names \cup {Nowhere}]
  /\ DOMAIN values = Players /\ \A p \in Players : DOMAIN values[p] = DOMAIN Defaults
  /\ DOMAIN states \subseteq Players

ScenesOK == DOMAIN scenes \subseteq Scenes /\ \A s \in DOMAIN scenes : scenes[s] \in SceneType

LockOK == lock \in {"free", "api", "thread"} /\ (script # <<>> => lock = "api")

(* A path change sets a field of the handler's record, and what is created *)
(* has default values, which do not play: neither is in StatesFollowNodes. *)
Whole ==
  /\ \A p \in DOMAIN states : DOMAIN states[p] =
       {"path", "initial", "previous", "since", "seen", "loop", "start", "end"}
  /\ \A p \in Players : name[p] = Nowhere => values[p] = Defaults

Known == Typed /\ StatesFollowNodes /\ Whole

Inv == Known /\ LockOK /\ ScenesOK

LEMMA DefaultsDomain ==
  DOMAIN Defaults = {"tick", "play", "active", "loop", "start", "end", "scene"} /\ ~Plays(Defaults)
BY DEF Defaults, Plays

LEMMA InitInv == Init => Inv
<1> SUFFICES ASSUME Init PROVE Inv
  OBVIOUS
<1>1. DOMAIN states = {} /\ \A p \in Players : values[p] = Defaults
  BY DEF Init
<1>2. PICK project \in Projects : name = project.name /\ scenes = project.scenes
  BY DEF Init
<1>3. name \in [Players -> Names \cup {Nowhere}] /\ ScenesOK
  BY <1>2, PlayersAssumption DEF ScenesOK
<1>4. Typed /\ Whole
  BY <1>1, <1>3 DEF Init, Typed, Whole
<1>5. StatesFollowNodes
  BY <1>1, DefaultsDomain DEF StatesFollowNodes
<1> QED
  BY <1>3, <1>4, <1>5 DEF Inv, Known, LockOK, Init

(* A set command on a player that exists, of whatever cause.               *)
LEMMA SetKnown ==
  ASSUME Known, NEW p \in Players, name[p] # Nowhere, name' = name,
         NEW e, NEW v, NEW source, Set(p, e, v, source)
  PROVE  Known'
<1> DEFINE new == [values[p] EXCEPT ![e] = v]
<1>1. values' = [values EXCEPT ![p] = new]
  BY DEF Set
<1>2. DOMAIN new = DOMAIN Defaults /\ \A f \in DOMAIN Defaults : f # e => new[f] = values[p][f]
  BY DEF Known, Typed
<1>3. values'[p] = new /\ \A q \in Players \ {p} : values'[q] = values[q]
  BY <1>1 DEF Known, Typed
<1>4. DOMAIN values' = Players /\ \A q \in Players : DOMAIN values'[q] = DOMAIN Defaults
  BY <1>1, <1>2, <1>3 DEF Known, Typed
<1>5. \A q \in Players : name[q] = Nowhere => values'[q] = Defaults
  BY <1>3 DEF Known, Whole
<1> HIDE DEF new
<1>6. CASE e = "scene" \/ (e = "tick" /\ source = "SYSTEM")
  <2>1. states' = states
    BY <1>6 DEF Set
  <2>2. /\ Plays(new) <=> Plays(values[p])
        /\ new.loop = values[p].loop /\ new.start = values[p].start /\ new.end = values[p].end
    BY <1>2, <1>6, DefaultsDomain DEF Plays
  <2>3. \A q \in Players : /\ Plays(values'[q]) <=> Plays(values[q])
                           /\ values'[q].loop = values[q].loop
                           /\ values'[q].start = values[q].start
                           /\ values'[q].end = values[q].end
    BY <1>3, <2>2
  <2>4. StatesFollowNodes'
    BY <2>1, <2>3 DEF Known, StatesFollowNodes, Typed
  <2> QED
    BY <1>4, <1>5, <2>1, <2>4 DEF Known, Typed, Whole
<1>7. CASE ~(e = "scene" \/ (e = "tick" /\ source = "SYSTEM")) /\ Plays(new)
  <2> DEFINE s == StateOf(p, new)
  <2>1. states' = With(states, p, s)
    BY <1>7 DEF Set, Update, new
  <2>2. DOMAIN s = {"path", "initial", "previous", "since", "seen", "loop", "start", "end"}
    BY DEF StateOf
  <2>3. s.path = name[p] /\ s.loop = new.loop /\ s.start = new.start /\ s.end = new.end
    BY DEF StateOf
  <2> HIDE DEF s
  <2>4. /\ DOMAIN states' = DOMAIN states \cup {p} /\ states'[p] = s
        /\ \A q \in DOMAIN states \ {p} : states'[q] = states[q]
    BY <2>1 DEF With, Without
  <2>5. StatesFollowNodes'
    BY <1>3, <1>7, <2>3, <2>4 DEF Known, StatesFollowNodes, Typed
  <2> QED
    BY <1>4, <1>5, <2>2, <2>4, <2>5 DEF Known, Typed, Whole
<1>8. CASE ~(e = "scene" \/ (e = "tick" /\ source = "SYSTEM")) /\ ~Plays(new)
  <2>1. states' = Without(states, p)
    BY <1>8 DEF Set, Update, new
  <2>2. /\ DOMAIN states' = DOMAIN states \ {p}
        /\ \A q \in DOMAIN states \ {p} : states'[q] = states[q]
    BY <2>1 DEF With, Without
  <2>3. StatesFollowNodes'
    BY <1>3, <1>8, <2>2 DEF Known, StatesFollowNodes, Typed
  <2> QED
    BY <1>4, <1>5, <2>2, <2>3 DEF Known, Typed, Whole
<1> QED
  BY <1>6, <1>7, <1>8

LEMMA ExecuteKnown ==
  ASSUME Known, name' = name, NEW c, Execute(c)
  PROVE  Known'
<1>1. CASE PlayersAt(c.path) = {} \/ ~Conforms(c)
  BY <1>1 DEF Execute, Known, Typed, StatesFollowNodes, Whole
<1>2. CASE ~(PlayersAt(c.path) = {} \/ ~Conforms(c))
  <2>1. PICK p \in PlayersAt(c.path) : Set(p, c.endpoint, c.value, "SYSTEM")
    BY <1>2 DEF Execute
  <2>2. p \in Players /\ name[p] # Nowhere
    BY DEF PlayersAt
  <2> QED
    BY <2>1, <2>2, SetKnown
<1> QED
  BY <1>1, <1>2

LEMMA RenameKnown ==
  ASSUME Known, NEW p \in Players, NEW n \in Names, Nowhere \notin Names, Rename(p, n)
  PROVE  Known'
<1>1. /\ name[p] # Nowhere /\ n # Nowhere /\ values' = values
      /\ name' = [name EXCEPT ![p] = n]
      /\ states' = IF p \in DOMAIN states THEN [states EXCEPT ![p].path = n] ELSE states
  BY DEF Rename, InSession
<1>2. name'[p] = n /\ \A q \in Players \ {p} : name'[q] = name[q]
  BY <1>1 DEF Known, Typed
<1>3. Typed'
  BY <1>1 DEF Known, Typed
<1>4. \A q \in Players : name'[q] = Nowhere <=> name[q] = Nowhere
  BY <1>1, <1>2
<1>5. DOMAIN states' = DOMAIN states /\ \A q \in DOMAIN states \ {p} : states'[q] = states[q]
  BY <1>1
<1>6. p \in DOMAIN states =>
        /\ DOMAIN states'[p] = DOMAIN states[p] /\ states'[p].path = n
        /\ \A f \in DOMAIN states[p] \ {"path"} : states'[p][f] = states[p][f]
  BY <1>1 DEF Known, Whole
<1>7. Whole'
  BY <1>1, <1>4, <1>5, <1>6 DEF Known, Whole
<1>8. \A q \in DOMAIN states : /\ states'[q].loop = states[q].loop
                              /\ states'[q].start = states[q].start
                              /\ states'[q].end = states[q].end
  BY <1>5, <1>6 DEF Known, Whole
<1>9. StatesFollowNodes'
  BY <1>1, <1>2, <1>4, <1>5, <1>6, <1>8 DEF Known, StatesFollowNodes, Typed
<1> QED
  BY <1>3, <1>7, <1>9 DEF Known

LEMMA RemoveKnown ==
  ASSUME Known, NEW p \in Players, RemoveNode(p)
  PROVE  Known'
<1>1. /\ name' = [name EXCEPT ![p] = Nowhere] /\ values' = [values EXCEPT ![p] = Defaults]
      /\ states' = Without(states, p)
  BY DEF RemoveNode
<1>2. /\ name'[p] = Nowhere /\ values'[p] = Defaults
      /\ \A q \in Players \ {p} : name'[q] = name[q] /\ values'[q] = values[q]
  BY <1>1 DEF Known, Typed
<1>3. /\ DOMAIN states' = DOMAIN states \ {p}
      /\ \A q \in DOMAIN states \ {p} : states'[q] = states[q]
  BY <1>1 DEF Without
<1>4. Typed'
  BY <1>1, <1>2, <1>3 DEF Known, Typed
<1>5. Whole'
  BY <1>2, <1>3 DEF Known, Whole
<1>6. StatesFollowNodes'
  BY <1>2, <1>3 DEF Known, StatesFollowNodes, Typed
<1> QED
  BY <1>4, <1>5, <1>6 DEF Known

LEMMA NewKnown ==
  ASSUME Known, NEW p \in Players, NEW n \in Names, Nowhere \notin Names, New(p, n)
  PROVE  Known'
<1>1. name[p] = Nowhere /\ name' = [name EXCEPT ![p] = n] /\ values' = values /\ states' = states
  BY DEF New
<1>2. /\ name'[p] = n /\ ~Plays(values[p])
      /\ \A q \in Players \ {p} : name'[q] = name[q]
  BY <1>1, DefaultsDomain DEF Known, Typed, Whole
<1>3. p \notin DOMAIN states
  BY <1>1 DEF Known, StatesFollowNodes
<1>4. Typed' /\ Whole'
  BY <1>1, <1>2 DEF Known, Typed, Whole
<1>5. StatesFollowNodes'
  BY <1>1, <1>2, <1>3 DEF Known, StatesFollowNodes, Typed
<1> QED
  BY <1>4, <1>5 DEF Known

(* What the thread computes, is in fields that the players do not share.   *)
LEMMA ComputeKnown == ASSUME Known, Compute PROVE Known'
<1>1. /\ name' = name /\ values' = values
      /\ states' = [p \in DOMAIN states |->
                      [states[p] EXCEPT !.previous = NewTick(states[p]),
                                        !.since = Since(states[p]), !.seen = clock]]
  BY DEF Compute
<1>2. DOMAIN states' = DOMAIN states
  BY <1>1
<1>3. ASSUME NEW p \in DOMAIN states
      PROVE  /\ DOMAIN states'[p] = DOMAIN states[p]
             /\ states'[p].path = states[p].path /\ states'[p].loop = states[p].loop
             /\ states'[p].start = states[p].start /\ states'[p].end = states[p].end
  <2> DEFINE new == NewTick(states[p])
             since == Since(states[p])
  <2>1. states'[p] = [states[p] EXCEPT !.previous = new, !.since = since, !.seen = clock]
    BY <1>1
  <2> HIDE DEF new, since
  <2>2. DOMAIN states[p] =
          {"path", "initial", "previous", "since", "seen", "loop", "start", "end"}
    BY DEF Known, Whole
  <2> QED
    BY <2>1, <2>2
<1>4. StatesFollowNodes'
  <2>1. name' = name /\ values' = values
    BY <1>1
  <2>2. DOMAIN states' = {p \in Players : name'[p] # Nowhere /\ Plays(values'[p])}
    BY <1>2, <2>1 DEF Known, StatesFollowNodes
  <2>3. \A p \in DOMAIN states' :
          /\ states'[p].path = name'[p] /\ states'[p].loop = values'[p].loop
          /\ states'[p].start = values'[p].start /\ states'[p].end = values'[p].end
    BY <1>2, <1>3, <2>1 DEF Known, StatesFollowNodes
  <2> QED
    BY <2>2, <2>3 DEF StatesFollowNodes
<1> QED
  BY <1>1, <1>2, <1>3, <1>4 DEF Known, Typed, Whole

LEMMA UnchangedKnown ==
  ASSUME Known, UNCHANGED <<name, values, states>> PROVE Known'
BY DEF Known, Typed, StatesFollowNodes, Whole

(* What a call does before its script: at most it sets "scene".            *)
SetsScene(p) == (\E v, source : Set(p, "scene", v, source)) \/ UNCHANGED <<values, states>>

LEMMA CallKnown ==
  ASSUME Known, NEW p \in Players, InSession(p), name' = name, SetsScene(p)
  PROVE  Known'
BY SetKnown, UnchangedKnown DEF SetsScene, InSession

LEMMA SelectCalls ==
  ASSUME NEW p, NEW nm, SelectScene(p, nm)
  PROVE  /\ InSession(p) /\ name' = name /\ SetsScene(p)
         /\ lock' = lock /\ scenes' = scenes
BY DEF SelectScene, SetsScene

(* Scenes change one at a time, and each keeps its type.                   *)
LEMMA WithScene ==
  ASSUME ScenesOK, NEW s \in Scenes, NEW scene \in SceneType, scenes' = With(scenes, s, scene)
  PROVE  ScenesOK'
BY DEF ScenesOK, With

LEMMA EditStep ==
  ASSUME Inv, NEW s \in DOMAIN scenes,
         \/ \E mode \in Modes : SetMode(s, mode)
         \/ \E start \in Starts : SetStart(s, start)
         \/ \E length \in Lengths : SetLength(s, length)
  PROVE  Inv'
<1>1. s \in Scenes /\ scenes[s] \in SceneType
  BY DEF Inv, ScenesOK
<1>2. PICK scene, commands : Edited(s, scene, commands) /\ scene \in SceneType
  <2>1. CASE \E mode \in Modes : SetMode(s, mode)
    BY <1>1, <2>1 DEF SetMode, SceneType
  <2>2. CASE \E start \in Starts : SetStart(s, start)
    BY <1>1, <2>2, PlayersAssumption DEF SetStart, SceneType
  <2>3. CASE \E length \in Lengths : SetLength(s, length)
    BY <1>1, <2>3, PlayersAssumption DEF SetLength, SceneType
  <2> QED
    BY <2>1, <2>2, <2>3
<1>3. /\ lock = "api" /\ lock' = lock /\ UNCHANGED <<name, values, states>>
      /\ scenes' = With(scenes, s, scene)
  BY <1>2 DEF Edited, Changing, InSession
<1> QED
  BY <1>1, <1>2, <1>3, UnchangedKnown, WithScene DEF Inv, LockOK

LEMMA SceneStep ==
  ASSUME Inv, NEW s \in DOMAIN scenes,
         \/ \E nm \in SceneNames : RenameScene(s, nm)
         \/ \E q \in Players : MoveScene(s, q)
         \/ DeleteScene(s)
  PROVE  Inv'
<1> DEFINE p == scenes[s].player
<1>1. s \in Scenes /\ scenes[s] \in SceneType /\ p \in Players
  BY DEF Inv, ScenesOK, SceneType
<1> HIDE DEF p
<1>2. InSession(p) /\ name' = name /\ SetsScene(p) /\ lock' = lock
  BY DEF RenameScene, MoveScene, DeleteScene, Changing, SetsScene, p
<1>3. ScenesOK'
  <2>1. ASSUME NEW nm \in SceneNames, RenameScene(s, nm) PROVE ScenesOK'
    <3>1. scenes' = [scenes EXCEPT ![s].name = nm]
      BY <2>1 DEF RenameScene
    <3> QED
      BY <1>1, <3>1 DEF Inv, ScenesOK, SceneType
  <2>2. ASSUME NEW q \in Players, MoveScene(s, q) PROVE ScenesOK'
    <3>1. scenes' = [scenes EXCEPT ![s].player = q]
      BY <2>2 DEF MoveScene
    <3> QED
      BY <1>1, <3>1 DEF Inv, ScenesOK, SceneType
  <2>3. CASE DeleteScene(s)
    BY <2>3 DEF DeleteScene, Without, Inv, ScenesOK
  <2> QED
    BY <2>1, <2>2, <2>3
<1> QED
  BY <1>1, <1>2, <1>3, CallKnown DEF Inv, LockOK, InSession

LEMMA NewSceneStep ==
  ASSUME Inv, NEW p \in Players, NEW s \in Scenes, NEW nm \in SceneNames, NewScene(p, s, nm)
  PROVE  Inv'
<1> DEFINE scene == [player |-> p, name |-> nm, mode |-> "hold", start |-> 0, length |-> 1]
<1>1. scene \in SceneType
  BY DEF SceneType, Modes
<1>2. scenes' = With(scenes, s, scene)
  BY DEF NewScene
<1>3. lock = "api" /\ lock' = lock /\ UNCHANGED <<name, values, states>>
  BY DEF NewScene, Changing, InSession
<1> HIDE DEF scene
<1> QED
  BY <1>1, <1>2, <1>3, UnchangedKnown, WithScene DEF Inv, LockOK

LEMMA StepInv == Inv /\ [Next]_vars => Inv'
<1> SUFFICES ASSUME Inv, [Next]_vars PROVE Inv'
  OBVIOUS
<1> USE DEF Inv
<1>0. Nowhere \notin Names
  BY PlayersAssumption
<1>1. CASE Lock \/ Unlock \/ ThreadLock \/ ThreadUnlock \/ Time
  BY <1>1, UnchangedKnown DEF Lock, Unlock, ThreadLock, ThreadUnlock, Time, LockOK, ScenesOK
<1>2. CASE \E d \in Leaps : Leap(d)
  BY <1>2, UnchangedKnown DEF Leap, LockOK, ScenesOK
<1>3. CASE Continue
  <2>1. Known'
    BY <1>3, ExecuteKnown, RemoveKnown DEF Continue, PlayersAt
  <2> QED
    BY <1>3, <2>1 DEF Continue, LockOK, ScenesOK
<1>4. CASE ThreadExecute
  BY <1>4, ExecuteKnown DEF ThreadExecute, LockOK, ScenesOK
<1>5. CASE Compute
  BY <1>5, ComputeKnown DEF Compute, LockOK, ScenesOK
<1>6. ASSUME NEW p \in Players, NEW e, NEW v, ApiSet(p, e, v) PROVE Inv'
  BY <1>6, SetKnown DEF ApiSet, InSession, LockOK, ScenesOK
<1>7. ASSUME NEW p \in Players,
             (\E nm : SelectScene(p, nm)) \/ NextScene(p) \/ PrevScene(p)
      PROVE  Inv'
  <2>1. PICK nm : SelectScene(p, nm)
    BY <1>7 DEF NextScene, PrevScene
  <2> QED
    BY <2>1, SelectCalls, CallKnown DEF InSession, LockOK, ScenesOK
<1>8. ASSUME NEW p \in Players, Home(p) PROVE Inv'
  <2>1. /\ InSession(p) /\ name' = name /\ SetsScene(p)
        /\ lock' = lock /\ scenes' = scenes
    BY <1>8 DEF Home, SetsScene
  <2> QED
    BY <2>1, CallKnown DEF InSession, LockOK, ScenesOK
<1>9. ASSUME NEW p \in Players, Delete(p) PROVE Inv'
  <2>1. /\ InSession(p) /\ name' = name /\ SetsScene(p) /\ lock' = lock
        /\ scenes' = [s \in DOMAIN scenes \ ScenesOf(p) |-> scenes[s]]
    BY <1>9 DEF Delete, SetsScene
  <2>2. ScenesOK'
    BY <2>1 DEF ScenesOK
  <2> QED
    BY <2>1, <2>2, CallKnown DEF InSession, LockOK
<1>10. ASSUME NEW p \in Players, NEW n \in Names, Rename(p, n) PROVE Inv'
  BY <1>0, <1>10, RenameKnown DEF Rename, InSession, LockOK, ScenesOK
<1>11. ASSUME NEW p \in Players, NEW n \in Names, New(p, n) PROVE Inv'
  BY <1>0, <1>11, NewKnown DEF New, LockOK, ScenesOK
<1>12. CASE UNCHANGED vars
  BY <1>12, UnchangedKnown DEF vars, LockOK, ScenesOK
<1>13. CASE \E s \in DOMAIN scenes :
         \/ \E mode \in Modes : SetMode(s, mode)
         \/ \E start \in Starts : SetStart(s, start)
         \/ \E length \in Lengths : SetLength(s, length)
         \/ \E nm \in SceneNames : RenameScene(s, nm)
         \/ \E q \in Players : MoveScene(s, q)
         \/ DeleteScene(s)
  BY <1>13, EditStep, SceneStep
<1> QED
  BY <1>1, <1>2, <1>3, <1>4, <1>5, <1>6, <1>7, <1>8, <1>9, <1>10, <1>11, <1>12, <1>13,
     NewSceneStep DEF Next, Thread

LEMMA SpecInv == Spec => []Inv
BY InitInv, StepInv, PTL DEF Spec

(* Types; what the user calls for is never cut off by the handler's thread.*)
THEOREM TypesConform == Spec => []TypeOK
<1>1. Inv => TypeOK
  BY DEF Inv, Known, Typed, LockOK, ScenesOK, TypeOK
<1> QED
  BY <1>1, SpecInv, PTL

(* The handler advances exactly the players that exist, are active and     *)
(* play, at their present paths and by their present spans: for any set of *)
(* players and paths, and whatever the thread's late commands do.          *)
THEOREM HandlerFollowsNodes == Spec => []StatesFollowNodes
<1>1. Inv => StatesFollowNodes
  BY DEF Inv, Known
<1> QED
  BY <1>1, SpecInv, PTL

-----------------------------------------------------------------------------
(* Where players are: the numbers that the handler's thread computes *)

(* In place of induction: a set of counterexamples has a least one. *)
LEMMA LeastNumber ==
  ASSUME NEW T \in SUBSET Nat, T # {}
  PROVE  \E n \in T : \A m \in T : n <= m
<1> DEFINE Less == {ss \in Nat \X Nat : ss[1] < ss[2]}
<1>0. Less = OpToRel(<, Nat)
  BY DEF OpToRel
<1>1. IsWellFoundedOn(Less, Nat)
  BY NatLessThanWellFounded, <1>0
<1>2. \E n \in T : \A m \in T : ~(<<m, n>> \in Less)
  <2> HIDE DEF Less
  <2> QED BY <1>1, WFMin
<1>3. PICK n \in T : \A m \in T : ~(<<m, n>> \in Less)
  BY <1>2
<1>4. ASSUME NEW m \in T PROVE n <= m
  <2>1. n \in Nat /\ m \in Nat
    OBVIOUS
  <2>2. ~(<<m, n>> \in Less)
    BY <1>3
  <2>3. ~(m < n)
    BY <2>1, <2>2
  <2> QED
    BY <2>1, <2>3
<1> QED
  BY <1>4

(* The sequences of a sequence of sequences, one after the other.          *)
LEMMA FlattenTyped ==
  ASSUME NEW S, NEW n \in Nat, NEW seqs \in [1..n -> Seq(S)]
  PROVE  FlattenSeq(seqs) \in Seq(S)
<1>1. seqs \in Seq(Seq(S)) /\ Len(seqs) = n
  OBVIOUS
<1>2. CASE n = 0
  BY <1>1, <1>2 DEF FlattenSeq
<1>3. CASE n # 0
  <2> DEFINE Flattens(f, k) ==
               /\ f \in [1..k -> Seq(S)]
               /\ \A i \in 1..k : f[i] = IF i = 1 THEN seqs[i] ELSE f[i-1] \o seqs[i]
             none == {k \in 1..n : ~ \E f : Flattens(f, k)}
  <2>1. none = {}
    <3> SUFFICES ASSUME none # {} PROVE FALSE
      OBVIOUS
    <3>1. none \in SUBSET Nat
      OBVIOUS
    <3>2. PICK k \in none : \A m \in none : k <= m
      <4> HIDE DEF none
      <4> QED
        BY <3>1, LeastNumber
    <3>3. k \in 1..n /\ ~ \E f : Flattens(f, k)
      OBVIOUS
    <3>4. CASE k = 1
      <4>1. Flattens([i \in 1..1 |-> seqs[1]], 1)
        OBVIOUS
      <4> QED
        BY <3>3, <3>4, <4>1
    <3>5. CASE k # 1
      <4>1. k - 1 \in 1..n /\ k-1 < k
        BY <3>3, <3>5
      <4>2. k - 1 \notin none
        <5> HIDE DEF none
        <5> QED BY <3>2, <3>3, <4>1
      <4>3. PICK f : Flattens(f, k - 1)
        BY <4>1, <4>2
      <4> DEFINE g == [i \in 1..k |-> IF i = k THEN f[k-1] \o seqs[k] ELSE f[i]]
      <4>4. f[k-1] \in Seq(S) /\ seqs[k] \in Seq(S)
        BY <3>3, <4>1, <4>3
      <4>5. f[k-1] \o seqs[k] \in Seq(S)
        BY <4>4
      <4>6. g \in [1..k -> Seq(S)]
        BY <3>3, <4>3, <4>5
      <4>7. \A i \in 1..k : g[i] = IF i = 1 THEN seqs[i] ELSE g[i-1] \o seqs[i]
        <5> TAKE i \in 1..k
        <5>1. CASE i = k
          <6>1. i - 1 \in 1..k /\ i - 1 # k /\ i # 1
            BY <3>5, <4>1, <5>1
          <6>2. g[i] = f[k-1] \o seqs[k] /\ g[i-1] = f[i-1]
            BY <5>1, <6>1
          <6> HIDE DEF g
          <6> QED
            BY <5>1, <6>1, <6>2
        <5>2. CASE i # k
          <6>1. i \in 1..(k-1) /\ g[i] = f[i]
            BY <3>3, <5>2
          <6>2. i # 1 => g[i-1] = f[i-1]
            BY <3>3, <6>1
          <6> HIDE DEF g
          <6> QED
            BY <4>3, <6>1, <6>2
        <5> QED
          BY <5>1, <5>2
      <4> HIDE DEF g
      <4>8. Flattens(g, k)
        BY <4>6, <4>7
      <4> QED
        BY <3>3, <4>8
    <3> QED
      BY <3>4, <3>5
  <2>2. PICK f : Flattens(f, n)
    <3>1. n \in 1..n
      BY <1>3
    <3>2. n \notin none
      BY <2>1
    <3> QED
      BY <3>1, <3>2
  <2> DEFINE Flatten(g) == g = [i \in 1..n |-> IF i = 1 THEN seqs[i] ELSE g[i-1] \o seqs[i]]
             flatten == CHOOSE g : Flatten(g)
  <2>3. Flatten(f)
    BY <2>2
  <2>4. Flatten(flatten)
    <3> HIDE DEF Flatten
    <3> QED
      BY <2>3
  <2>5. FlattenSeq(seqs) = flatten[n]
    BY <1>1, <1>3 DEF FlattenSeq
  <2> DEFINE wrong == {k \in 1..n : flatten[k] \notin Seq(S)}
  <2>6. \A i \in 1..n : flatten[i] = IF i = 1 THEN seqs[i] ELSE flatten[i-1] \o seqs[i]
    <3> HIDE DEF flatten
    <3> QED
      BY <2>4
  <2> HIDE DEF flatten
  <2>7. wrong = {}
    <3> SUFFICES ASSUME wrong # {} PROVE FALSE
      OBVIOUS
    <3>1. wrong \in SUBSET Nat
      OBVIOUS
    <3>2. PICK k \in wrong : \A m \in wrong : k <= m
      <4> HIDE DEF wrong
      <4> QED
        BY <3>1, LeastNumber
    <3>3. k \in 1..n /\ flatten[k] \notin Seq(S)
      OBVIOUS
    <3>4. k # 1
      BY <3>3, <2>6
    <3>5. k - 1 \in 1..n /\ k-1 < k
      BY <3>3, <3>4
    <3>6. k - 1 \notin wrong
      <4> HIDE DEF wrong
      <4> QED BY <3>2, <3>3, <3>5
    <3>7. flatten[k-1] \in Seq(S) /\ seqs[k] \in Seq(S)
      BY <3>3, <3>5, <3>6
    <3>8. flatten[k] = flatten[k-1] \o seqs[k]
      BY <3>3, <3>4, <2>6
    <3> QED
      BY <3>3, <3>7, <3>8
  <2>8. flatten[n] \in Seq(S)
    BY <1>3, <2>7
  <2> QED
    BY <2>5, <2>8
<1> QED
  BY <1>2, <1>3

(* The members of a finite set in some order. *)
LEMMA SetToSeqTyped ==
  ASSUME NEW T, IsFiniteSet(T)
  PROVE  SetToSeq(T) \in [1..Cardinality(T) -> T] /\ Cardinality(T) \in Nat
<1>1. Cardinality(T) \in Nat /\ ExistsBijection(1..Cardinality(T), T)
  BY FS_CardinalityType
<1>2. PICK f \in [1..Cardinality(T) -> T] : IsInjective(f)
  BY <1>1 DEF ExistsBijection, Bijection, Injection, IsInjective
<1> QED
  BY <1>1, <1>2 DEF SetToSeq

(* To take whole rounds off a position, is to change it by whole rounds.   *)
LEMMA Rounds == ASSUME NEW x \in Int, NEW d \in Nat \ {0} PROVE ((x % d) - x) % d = 0
<1> DEFINE k == -(x \div d)
<1>1. k \in Int /\ x = d * (x \div d) + (x % d)
  OBVIOUS
<1>2. (x % d) - x = d * k
  BY <1>1
<1>3. \A n \in Int : (d * n) % d = 0
  OBVIOUS
<1> HIDE DEF k
<1>4. (d * k) % d = 0
  BY <1>1, <1>3
<1> QED
  BY <1>2, <1>4

LEMMA WholeRounds ==
  ASSUME NEW x \in Int, NEW y \in Int, NEW d \in Nat \ {0}, x % d = 0, y % d = 0
  PROVE  (x - y) % d = 0
<1>1. PICK m \in Int, n \in Int : m = x \div d /\ n = y \div d
  OBVIOUS
<1>2. x = d * m /\ y = d * n
  BY <1>1
<1>3. m - n \in Int /\ x - y = d * (m - n)
  BY <1>2
<1>4. \A k \in Int : (d * k) % d = 0
  OBVIOUS
<1> QED
  BY <1>3, <1>4

(* Commands on players at some paths. *)
Commanding(paths, endpoints) == [path : paths, endpoint : endpoints, value : Int]

Updated == {"loop", "start", "end", "tick", "play"}
Scripted == Updated \cup {"delete"}
Advanced == {"play", "tick"}

CommandsOK ==
  script \in Seq(Commanding(Names, Scripted)) /\ pending \in Seq(Commanding(Names, Advanced))

NumbersOK ==
  clock \in Int /\ \A p \in Players : /\ values[p].tick \in Int
                                     /\ values[p].start \in Int /\ values[p].end \in Int

(* What the handler keeps of a player that plays. *)
Integral(s) ==
  /\ s.initial \in Int /\ s.previous \in Int /\ s.since \in Int /\ s.seen \in Int
  /\ s.start \in Int /\ s.end \in Int

StaysInLoop(s) ==
  s.loop # 0 /\ s.end > 0 /\ Duration(s) > 0 /\ s.initial < s.end => s.previous < s.end

KeepsPhase(s) ==
  LET time == s.initial + s.seen - s.since
  IN  \/ s.previous = time
      \/ s.loop # 0 /\ Duration(s) > 0 /\ (s.previous - time) % Duration(s) = 0

RunsOK ==
  /\ IsFiniteSet(DOMAIN states)
  /\ \A p \in DOMAIN states :
       Integral(states[p]) /\ StaysInLoop(states[p]) /\ KeepsPhase(states[p])

(* A player that begins, or begins anew.                                   *)
LEMMA BeginsOK ==
  ASSUME NEW p, NEW v, v.tick \in Int, v.start \in Int, v.end \in Int, clock \in Int
  PROVE  /\ Integral(StateOf(p, v)) /\ StaysInLoop(StateOf(p, v)) /\ KeepsPhase(StateOf(p, v))
<1> DEFINE s == StateOf(p, v)
<1>1. /\ s.initial = v.tick /\ s.previous = v.tick /\ s.since = clock /\ s.seen = clock
      /\ s.loop = v.loop /\ s.start = v.start /\ s.end = v.end
  BY DEF StateOf
<1> HIDE DEF s
<1>2. Integral(s) /\ StaysInLoop(s) /\ KeepsPhase(s)
  BY <1>1 DEF Integral, StaysInLoop, KeepsPhase
<1> QED
  BY <1>2 DEF s

LEMMA SetNumbers ==
  ASSUME Known, NumbersOK, RunsOK, NEW p \in Players, NEW e, NEW v, NEW source,
         e \in {"tick", "start", "end"} => v \in Int,
         Set(p, e, v, source), clock' = clock
  PROVE  NumbersOK' /\ RunsOK'
<1> DEFINE new == [values[p] EXCEPT ![e] = v]
<1>1. values' = [values EXCEPT ![p] = new]
  BY DEF Set
<1>2. \A f \in DOMAIN Defaults : new[f] = IF f = e THEN v ELSE values[p][f]
  BY DEF Known, Typed
<1>3. new.tick \in Int /\ new.start \in Int /\ new.end \in Int
  BY <1>2, DefaultsDomain DEF NumbersOK
<1>4. values'[p] = new /\ \A q \in Players \ {p} : values'[q] = values[q]
  BY <1>1 DEF Known, Typed
<1> HIDE DEF new
<1>5. NumbersOK'
  BY <1>3, <1>4 DEF NumbersOK
<1>6. states' = states \/ states' = With(states, p, StateOf(p, new)) \/ states' = Without(states, p)
  BY DEF Set, Update, new
<1>7. CASE states' = states
  BY <1>5, <1>7 DEF RunsOK
<1>8. CASE states' = With(states, p, StateOf(p, new))
  <2> DEFINE s == StateOf(p, new)
  <2>1. Integral(s) /\ StaysInLoop(s) /\ KeepsPhase(s)
    BY <1>3, BeginsOK DEF NumbersOK
  <2> HIDE DEF s
  <2>2. states' = With(states, p, s)
    BY <1>8 DEF s
  <2>3. /\ DOMAIN states' = DOMAIN states \cup {p} /\ states'[p] = s
        /\ \A q \in DOMAIN states \ {p} : states'[q] = states[q]
    BY <2>2 DEF With
  <2>4. IsFiniteSet(DOMAIN states')
    BY <2>3, FS_AddElement DEF RunsOK
  <2> QED
    BY <1>5, <2>1, <2>3, <2>4 DEF RunsOK
<1>9. CASE states' = Without(states, p)
  <2>1. /\ DOMAIN states' = DOMAIN states \ {p}
        /\ \A q \in DOMAIN states \ {p} : states'[q] = states[q]
    BY <1>9 DEF Without
  <2>2. IsFiniteSet(DOMAIN states')
    BY <2>1, FS_RemoveElement DEF RunsOK
  <2> QED
    BY <1>5, <2>1, <2>2 DEF RunsOK
<1> QED
  BY <1>5, <1>6, <1>7, <1>8, <1>9

(* What the thread makes of a player's position. *)
LEMMA AdvancesOK ==
  ASSUME NEW s, Integral(s), clock \in Int
  PROVE  /\ NewTick(s) \in Int /\ Since(s) \in Int
         /\ s.loop # 0 /\ s.end > 0 /\ Duration(s) > 0 => NewTick(s) < s.end
         /\ LET time == s.initial + clock - Since(s)
            IN  \/ NewTick(s) = time
                \/ s.loop # 0 /\ Duration(s) > 0 /\ (NewTick(s) - time) % Duration(s) = 0
<1> USE DEF Integral
<1> DEFINE U == Unwrapped(s)
           D == Duration(s)
           time == s.initial + clock - Since(s)
<1>1. U \in Int /\ Since(s) \in Int /\ time = U
  BY DEF Unwrapped, Since, Position
<1>2. D \in Int /\ D = s.end - s.start
  BY DEF Duration
<1>3. CASE ~Wraps(s)
  <2>1. NewTick(s) = U
    BY <1>3 DEF NewTick
  <2>2. s.loop # 0 /\ s.end > 0 /\ D > 0 => U < s.end
    BY <1>1, <1>3 DEF Wraps, Ends
  <2> HIDE DEF U, D
  <2> QED
    BY <1>1, <2>1, <2>2 DEF U, D
<1>4. CASE Wraps(s)
  <2>1. s.loop # 0 /\ D > 0 /\ NewTick(s) = ((U - s.start) % D) + s.start
    BY <1>4 DEF Wraps, NewTick
  <2> DEFINE x == U - s.start
             r == x % D
  <2> HIDE DEF U, D
  <2>2. x \in Int /\ D \in Nat \ {0}
    BY <1>1, <1>2, <2>1
  <2>3. r \in 0..(D-1) /\ (r - x) % D = 0
    <3> HIDE DEF x
    <3> QED
      BY <2>2, Rounds
  <2>4. NewTick(s) = r + s.start
    BY <2>1
  <2> HIDE DEF r
  <2>5. NewTick(s) \in Int /\ NewTick(s) < s.end
    BY <1>2, <2>2, <2>3, <2>4
  <2>6. NewTick(s) - U = r - x
    BY <1>1, <2>3, <2>4
  <2>7. (NewTick(s) - U) % D = 0
    BY <2>3, <2>6
  <2> QED
    BY <1>1, <2>1, <2>5, <2>7 DEF D
<1> QED
  BY <1>3, <1>4

(* An update that does not take the clock to have leapt, moves a player by *)
(* the time that has passed; one that does, not at all.                    *)
LEMMA UpdateKeepsTime ==
  ASSUME NEW s, Integral(s), KeepsPhase(s), clock \in Int
  PROVE  \/ Advances(s, NewTick(s), Passed(s))
         \/ Advances(s, NewTick(s), 0) /\ Distance(Rounded(s) + Passed(s), 0) > Sanity
<1> DEFINE looping == s.loop # 0 /\ Duration(s) > 0
<1>1. PICK d, u, t, new, y, x :
        /\ d = Duration(s) /\ u = s.initial + clock - Since(s) /\ t = s.initial + s.seen - s.since
        /\ new = NewTick(s) /\ y = s.previous - t /\ x = new - u
  OBVIOUS
<1>2. /\ d \in Int /\ u \in Int /\ t \in Int /\ new \in Int /\ x \in Int /\ y \in Int
      /\ s.previous \in Int /\ Passed(s) \in Int /\ Sanity \in Int
      /\ s.initial \in Int /\ s.seen \in Int /\ s.since \in Int
  BY <1>1, AdvancesOK, PlayersAssumption DEF Integral, Duration, Passed
<1>3. x = 0 \/ (looping /\ x % d = 0)
  BY <1>1, <1>2, AdvancesOK
<1>4. y = 0 \/ (looping /\ y % d = 0)
  BY <1>1, <1>2 DEF KeepsPhase
<1>5. looping => d \in Nat \ {0} /\ 0 % d = 0
  BY <1>1, <1>2
<1>6. CASE ~Leapt(s)
  <2>1. u = t + Passed(s)
    BY <1>1, <1>2, <1>6 DEF Since, Passed
  <2>2. new - s.previous - Passed(s) = x - y
    BY <1>1, <1>2, <2>1
  <2>3. (x = 0 /\ y = 0) \/ (looping /\ (x - y) % d = 0)
    <3>1. ASSUME looping, x % d = 0, y % d = 0 PROVE (x - y) % d = 0
      BY <1>2, <1>5, <3>1, WholeRounds
    <3>2. looping => (x = 0 => x % d = 0) /\ (y = 0 => y % d = 0)
      BY <1>5
    <3> QED
      BY <1>3, <1>4, <3>1, <3>2
  <2>4. x = 0 /\ y = 0 => new = s.previous + Passed(s)
    BY <1>2, <2>2
  <2> QED
    BY <1>1, <2>2, <2>3, <2>4 DEF Advances
<1>7. CASE Leapt(s)
  <2>1. u = s.previous
    BY <1>1, <1>2, <1>7 DEF Since
  <2>2. Advances(s, new, 0)
    BY <1>1, <1>2, <1>3, <2>1 DEF Advances
  <2>3. Rounded(s) = -y
    BY <1>1, <1>2, <1>4 DEF Rounded
  <2>4. Position(s) - s.previous = Passed(s) - y
    BY <1>1, <1>2 DEF Position, Passed
  <2>5. Distance(Rounded(s) + Passed(s), 0) > Sanity
    BY <1>2, <1>7, <2>3, <2>4 DEF Leapt, Distance, Position
  <2> QED
    BY <1>1, <2>2, <2>5
<1> QED
  BY <1>6, <1>7

LEMMA ComputeNumbers ==
  ASSUME Known, NumbersOK, RunsOK, Compute
  PROVE  NumbersOK' /\ RunsOK' /\ pending' \in Seq(Commanding(Names, Advanced))
<1>1. /\ clock' = clock /\ values' = values
      /\ states' = [p \in DOMAIN states |->
                      [states[p] EXCEPT !.previous = NewTick(states[p]),
                                        !.since = Since(states[p]), !.seen = clock]]
  BY DEF Compute
<1>2. NumbersOK'
  BY <1>1 DEF NumbersOK
<1>3. DOMAIN states' = DOMAIN states
  BY <1>1
<1>4. ASSUME NEW p \in DOMAIN states
      PROVE  Integral(states'[p]) /\ StaysInLoop(states'[p]) /\ KeepsPhase(states'[p])
  <2> DEFINE s == states[p]
             n == NewTick(s)
             since == Since(s)
             t == states'[p]
  <2>1. t = [s EXCEPT !.previous = n, !.since = since, !.seen = clock]
    BY <1>1
  <2>2. Integral(s) /\ clock \in Int
    BY DEF RunsOK, NumbersOK
  <2>3. /\ n \in Int /\ since \in Int
        /\ s.loop # 0 /\ s.end > 0 /\ Duration(s) > 0 => n < s.end
        /\ LET time == s.initial + clock - since
           IN  \/ n = time
               \/ s.loop # 0 /\ Duration(s) > 0 /\ (n - time) % Duration(s) = 0
    BY <2>2, AdvancesOK
  <2>4. DOMAIN s = {"path", "initial", "previous", "since", "seen", "loop", "start", "end"}
    BY DEF Known, Whole
  <2> HIDE DEF s, n, since, t
  <2>5. /\ t.initial = s.initial /\ t.previous = n /\ t.since = since /\ t.seen = clock
        /\ t.loop = s.loop /\ t.start = s.start /\ t.end = s.end
    BY <2>1, <2>4
  <2>6. Duration(t) = Duration(s)
    BY <2>5 DEF Duration
  <2>7. Integral(t)
    BY <2>2, <2>3, <2>5 DEF Integral
  <2>8. StaysInLoop(t) /\ KeepsPhase(t)
    BY <2>3, <2>5, <2>6 DEF StaysInLoop, KeepsPhase
  <2> QED
    BY <2>7, <2>8 DEF t
<1>5. RunsOK'
  BY <1>3, <1>4 DEF RunsOK
<1>6. ASSUME NEW p \in DOMAIN states
      PROVE  Commands(states[p]) \in Seq(Commanding(Names, Advanced))
  <2> DEFINE s == states[p]
             C == Commanding(Names, Advanced)
             stop == [path |-> s.path, endpoint |-> "play", value |-> 0]
             move == [path |-> s.path, endpoint |-> "tick", value |-> NewTick(s)]
  <2>1. s.path \in Names
    BY DEF Known, StatesFollowNodes, Typed
  <2>2. NewTick(s) \in Int
    BY AdvancesOK DEF RunsOK, NumbersOK
  <2>3. stop \in C /\ move \in C
    BY <2>1, <2>2 DEF Commanding, Advanced
  <2>4. Commands(s) = (IF Ends(s) /\ s.loop = 0 THEN <<stop>> ELSE <<>>)
                       \o (IF NewTick(s) # s.previous THEN <<move>> ELSE <<>>)
    BY DEF Commands
  <2> HIDE DEF C, stop, move
  <2> DEFINE first == IF Ends(s) /\ s.loop = 0 THEN <<stop>> ELSE <<>>
             second == IF NewTick(s) # s.previous THEN <<move>> ELSE <<>>
  <2>5. first \in Seq(C) /\ second \in Seq(C)
    BY <2>3
  <2> HIDE DEF first, second
  <2>6. first \o second \in Seq(C)
    BY <2>5
  <2> QED
    BY <2>4, <2>6 DEF C, first, second
<1>7. pending' \in Seq(Commanding(Names, Advanced))
  <2> DEFINE C == Commanding(Names, Advanced)
             playing == SetToSeq(DOMAIN states)
             k == Cardinality(DOMAIN states)
             each == [i \in DOMAIN playing |-> Commands(states[playing[i]])]
  <2>1. playing \in [1..k -> DOMAIN states] /\ k \in Nat
    BY SetToSeqTyped DEF RunsOK
  <2> HIDE DEF C, playing, k
  <2>2. each \in [1..k -> Seq(C)]
    BY <1>6, <2>1 DEF C
  <2> HIDE DEF each
  <2>3. FlattenSeq(each) \in Seq(C)
    BY <2>1, <2>2, FlattenTyped
  <2> QED
    BY <2>3 DEF Compute, C, playing, each
<1> QED
  BY <1>2, <1>5, <1>7

-----------------------------------------------------------------------------
(* The commands of the calls *)

LEMMA SeqWidens ==
  ASSUME NEW S, NEW T, S \subseteq T, NEW q \in Seq(S)
  PROVE  q \in Seq(T)
OBVIOUS

LEMMA CommandTyped ==
  ASSUME NEW p, NEW e \in Updated, NEW v \in Int
  PROVE  Command(p, e, v) \in Commanding({name[p]}, Updated)
BY DEF Command, Commanding

LEMMA UpdateTyped ==
  ASSUME NEW p, NEW tick \in Int, NEW play \in Int,
         NEW loop \in Int, NEW start \in Int, NEW end \in Int
  PROVE  UpdatePlayer(p, tick, play, loop, start, end) \in Seq(Commanding({name[p]}, Updated))
<1> DEFINE C == Commanding({name[p]}, Updated)
           span == <<Command(p, "loop", loop), Command(p, "start", start), Command(p, "end", end)>>
           go == IF tick >= 0 THEN <<Command(p, "tick", tick)>> ELSE <<>>
           last == <<Command(p, "play", play)>>
<1>1. /\ Command(p, "loop", loop) \in C /\ Command(p, "start", start) \in C
      /\ Command(p, "end", end) \in C /\ Command(p, "tick", tick) \in C
      /\ Command(p, "play", play) \in C
  BY CommandTyped DEF Updated
<1>2. \A S : \A a, b, c \in S : <<a, b, c>> \in Seq(S) /\ <<a>> \in Seq(S)
  OBVIOUS
<1>3. \A S : <<>> \in Seq(S)
  OBVIOUS
<1> HIDE DEF C
<1>4. span \in Seq(C) /\ go \in Seq(C) /\ last \in Seq(C)
  BY <1>1, <1>2, <1>3
<1>5. UpdatePlayer(p, tick, play, loop, start, end) = span \o go \o last
  BY DEF UpdatePlayer
<1> HIDE DEF span, go, last
<1>6. span \o go \o last \in Seq(C)
  BY <1>4
<1> QED
  BY <1>5, <1>6 DEF C

LEMMA SpanTyped ==
  ASSUME NEW p, NEW scene \in SceneType
  PROVE  SpanCommands(p, scene) \in Seq(Commanding({name[p]}, Updated))
<1> DEFINE C == Commanding({name[p]}, Updated)
<1>1. scene.start \in Int /\ End(scene) \in Int
  BY DEF SceneType, End
<1>2. /\ Command(p, "tick", scene.start) \in C /\ Command(p, "start", scene.start) \in C
      /\ Command(p, "end", End(scene)) \in C
  BY <1>1, CommandTyped DEF Updated
<1>3. \A S : \A a, b, c \in S : <<a, b, c>> \in Seq(S)
  OBVIOUS
<1> HIDE DEF C
<1>4. SpanCommands(p, scene) \in Seq(C)
  BY <1>2, <1>3 DEF SpanCommands
<1> QED
  BY <1>4 DEF C

(* A command that the player at a path obeys; the last one on an endpoint  *)
(* that it obeys, is what it is left with.                                 *)
Obeys(c, path, e) == c.path = path /\ c.endpoint = e /\ Conforms(c)

Leaves(q, path, e, v) ==
  \E i \in 1..Len(q) :
    /\ Obeys(q[i], path, e) /\ q[i].value = v
    /\ \A j \in 1..Len(q) : i < j => ~Obeys(q[j], path, e)

Spares(q, path, e) == \A i \in 1..Len(q) : ~Obeys(q[i], path, e)

LEMMA SparesBoth ==
  ASSUME NEW S, NEW q \in Seq(S), NEW r \in Seq(S), NEW path, NEW e,
         Spares(q, path, e), Spares(r, path, e)
  PROVE  Spares(q \o r, path, e)
<1>1. Len(q \o r) = Len(q) + Len(r) /\ Len(q) \in Nat /\ Len(r) \in Nat
  OBVIOUS
<1>2. ASSUME NEW i \in 1..(Len(q) + Len(r)) PROVE ~Obeys((q \o r)[i], path, e)
  <2>1. CASE i <= Len(q)
    <3>1. (q \o r)[i] = q[i] /\ i \in 1..Len(q)
      BY <1>1, <2>1
    <3> QED
      BY <3>1 DEF Spares
  <2>2. CASE Len(q) < i
    <3>1. (q \o r)[i] = r[i - Len(q)] /\ i - Len(q) \in 1..Len(r)
      BY <1>1, <2>2
    <3> QED
      BY <3>1 DEF Spares
  <2> QED
    BY <1>1, <2>1, <2>2
<1> QED
  BY <1>1, <1>2 DEF Spares

LEMMA LeavesFirst ==
  ASSUME NEW S, NEW q \in Seq(S), NEW r \in Seq(S), NEW path, NEW e, NEW v,
         Leaves(q, path, e, v), Spares(r, path, e)
  PROVE  Leaves(q \o r, path, e, v)
<1>1. Len(q \o r) = Len(q) + Len(r) /\ Len(q) \in Nat /\ Len(r) \in Nat
  OBVIOUS
<1>2. PICK i \in 1..Len(q) :
        /\ Obeys(q[i], path, e) /\ q[i].value = v
        /\ \A j \in 1..Len(q) : i < j => ~Obeys(q[j], path, e)
  BY DEF Leaves
<1>3. (q \o r)[i] = q[i] /\ i \in 1..Len(q \o r)
  BY <1>1
<1>4. ASSUME NEW j \in 1..(Len(q) + Len(r)), i < j PROVE ~Obeys((q \o r)[j], path, e)
  <2>1. CASE j <= Len(q)
    <3>1. (q \o r)[j] = q[j] /\ j \in 1..Len(q)
      BY <1>1, <2>1
    <3> QED
      BY <1>2, <1>4, <3>1
  <2>2. CASE Len(q) < j
    <3>1. (q \o r)[j] = r[j - Len(q)] /\ j - Len(q) \in 1..Len(r)
      BY <1>1, <2>2
    <3> QED
      BY <3>1 DEF Spares
  <2> QED
    BY <1>1, <2>1, <2>2
<1> QED
  BY <1>1, <1>2, <1>3, <1>4 DEF Leaves

LEMMA LeavesSecond ==
  ASSUME NEW S, NEW q \in Seq(S), NEW r \in Seq(S), NEW path, NEW e, NEW v,
         Leaves(r, path, e, v)
  PROVE  Leaves(q \o r, path, e, v)
<1>1. Len(q \o r) = Len(q) + Len(r) /\ Len(q) \in Nat /\ Len(r) \in Nat
  OBVIOUS
<1>2. PICK i \in 1..Len(r) :
        /\ Obeys(r[i], path, e) /\ r[i].value = v
        /\ \A j \in 1..Len(r) : i < j => ~Obeys(r[j], path, e)
  BY DEF Leaves
<1> DEFINE k == Len(q) + i
<1>3. k \in 1..(Len(q) + Len(r)) /\ (q \o r)[k] = r[i]
  BY <1>1
<1>4. ASSUME NEW j \in 1..(Len(q) + Len(r)), k < j PROVE ~Obeys((q \o r)[j], path, e)
  <2>1. (q \o r)[j] = r[j - Len(q)] /\ j - Len(q) \in 1..Len(r) /\ i < j - Len(q)
    BY <1>1, <1>4
  <2> QED
    BY <1>2, <2>1
<1> HIDE DEF k
<1> QED
  BY <1>1, <1>2, <1>3, <1>4 DEF Leaves

(* What update_player leaves a player with. *)
LEMMA UpdateLeaves ==
  ASSUME NEW p, NEW tick \in Int, NEW play \in Int,
         NEW loop \in Int, NEW start \in Int, NEW end \in Int
  PROVE  \A commands : commands = UpdatePlayer(p, tick, play, loop, start, end) =>
           /\ Leaves(commands, name[p], "loop", loop)
           /\ start >= -1 => Leaves(commands, name[p], "start", start)
           /\ end >= -1 => Leaves(commands, name[p], "end", end)
<1> DEFINE C == Commanding({name[p]}, Updated)
           span == <<Command(p, "loop", loop), Command(p, "start", start), Command(p, "end", end)>>
           go == IF tick >= 0 THEN <<Command(p, "tick", tick)>> ELSE <<>>
           last == <<Command(p, "play", play)>>
           n == name[p]
<1>1. /\ Command(p, "loop", loop) \in C /\ Command(p, "start", start) \in C
      /\ Command(p, "end", end) \in C /\ Command(p, "tick", tick) \in C
      /\ Command(p, "play", play) \in C
  BY CommandTyped DEF Updated
<1>2. \A S : \A a, b, c \in S : <<a, b, c>> \in Seq(S) /\ <<a>> \in Seq(S)
  OBVIOUS
<1>3. \A S : <<>> \in Seq(S)
  OBVIOUS
<1>4. \A a, b, c : LET t == <<a, b, c>>
                   IN  Len(t) = 3 /\ t[1] = a /\ t[2] = b /\ t[3] = c
  OBVIOUS
<1>5. \A a : Len(<<a>>) = 1 /\ <<a>>[1] = a
  OBVIOUS
<1>6. \A e, v : LET c == Command(p, e, v) IN c.path = n /\ c.endpoint = e /\ c.value = v
  BY DEF Command
<1> HIDE DEF C, n
<1>7. span \in Seq(C) /\ go \in Seq(C) /\ last \in Seq(C)
  BY <1>1, <1>2, <1>3
<1>8. \A e \in {"loop", "start", "end"} : Spares(go, n, e) /\ Spares(last, n, e)
  BY <1>5, <1>6 DEF Spares, Obeys
<1>9. /\ Len(span) = 3 /\ span[1] = Command(p, "loop", loop)
      /\ span[2] = Command(p, "start", start) /\ span[3] = Command(p, "end", end)
  BY <1>4
<1> HIDE DEF span, go, last
<1>10. /\ Leaves(span, n, "loop", loop)
       /\ start >= -1 => Leaves(span, n, "start", start)
       /\ end >= -1 => Leaves(span, n, "end", end)
  <2>1. 1..Len(span) = {1, 2, 3}
    BY <1>9
  <2>2. /\ Obeys(span[1], n, "loop") /\ span[1].value = loop
        /\ start >= -1 => Obeys(span[2], n, "start") /\ span[2].value = start
        /\ end >= -1 => Obeys(span[3], n, "end") /\ span[3].value = end
    BY <1>6, <1>9 DEF Obeys, Conforms
  <2>3. /\ ~Obeys(span[2], n, "loop") /\ ~Obeys(span[3], n, "loop")
        /\ ~Obeys(span[3], n, "start")
    BY <1>6, <1>9 DEF Obeys
  <2> QED
    BY <2>1, <2>2, <2>3 DEF Leaves
<1>11. \A e \in {"loop", "start", "end"}, v \in Int :
         Leaves(span, n, e, v) => Leaves(span \o go \o last, n, e, v)
  <2>1. span \o go \in Seq(C)
    BY <1>7
  <2>2. ASSUME NEW e \in {"loop", "start", "end"}, NEW v \in Int, Leaves(span, n, e, v)
        PROVE  Leaves(span \o go \o last, n, e, v)
    <3>1. Leaves(span \o go, n, e, v)
      BY <1>7, <1>8, <2>2, LeavesFirst
    <3> QED
      BY <1>7, <1>8, <2>1, <3>1, LeavesFirst
  <2> QED
    BY <2>2
<1>12. UpdatePlayer(p, tick, play, loop, start, end) = span \o go \o last
  BY DEF UpdatePlayer, span, go, last
<1>13. /\ Leaves(span \o go \o last, n, "loop", loop)
       /\ start >= -1 => Leaves(span \o go \o last, n, "start", start)
       /\ end >= -1 => Leaves(span \o go \o last, n, "end", end)
  BY <1>10, <1>11
<1> QED
  BY <1>12, <1>13 DEF n

-----------------------------------------------------------------------------
(* What a player is to play when the present call is done *)

(* Paths and, within a player, names of scenes are each one's own. *)
OwnPaths == \A p, q \in Players : name[p] = name[q] /\ name[p] # Nowhere => p = q

OwnNames ==
  \A s, t \in DOMAIN scenes :
    scenes[s].player = scenes[t].player /\ scenes[s].name = scenes[t].name => s = t

Comes(p, e, v) ==
  \/ Leaves(script, name[p], e, v)
  \/ Spares(script, name[p], e) /\ values[p][e] = v

(* Loops and the parts of spans that conform get there each on its own.    *)
ShownBy(p, s) ==
  /\ Comes(p, "loop", IF scenes[s].mode = "loop" THEN 1 ELSE 0)
  /\ scenes[s].start >= -1 => Comes(p, "start", scenes[s].start)
  /\ End(scenes[s]) >= -1 => Comes(p, "end", End(scenes[s]))

ShowsNone(p) == Comes(p, "loop", 0) /\ Comes(p, "start", -1) /\ Comes(p, "end", -1)

Coming(p) ==
  /\ values[p].scene = NoScene => ShowsNone(p)
  /\ values[p].scene # NoScene /\ p \notin adrift =>
       \E s \in Named(p, values[p].scene) : ShownBy(p, s)

(* The present call deletes the player. *)
Doomed(p) ==
  \E i \in 1..Len(script) : script[i].path = name[p] /\ script[i].endpoint = "delete"

ShowsOK == \A p \in Players : name[p] # Nowhere /\ ~Doomed(p) => Coming(p)

Numeric == CommandsOK /\ NumbersOK /\ RunsOK

Full == Inv /\ Numeric /\ OwnPaths /\ OwnNames /\ ShowsOK

LEMMA SpanLeaves ==
  ASSUME NEW p, NEW scene \in SceneType
  PROVE  LET commands == SpanCommands(p, scene)
         IN  /\ Spares(commands, name[p], "loop")
             /\ scene.start >= -1 => Leaves(commands, name[p], "start", scene.start)
             /\ End(scene) >= -1 => Leaves(commands, name[p], "end", End(scene))
<1> DEFINE commands == SpanCommands(p, scene)
           n == name[p]
<1>1. \A a, b, c : LET t == <<a, b, c>>
                   IN  Len(t) = 3 /\ t[1] = a /\ t[2] = b /\ t[3] = c
  OBVIOUS
<1>2. /\ Len(commands) = 3 /\ commands[1] = Command(p, "tick", scene.start)
      /\ commands[2] = Command(p, "start", scene.start)
      /\ commands[3] = Command(p, "end", End(scene))
  BY <1>1 DEF SpanCommands
<1>3. \A e, v : LET c == Command(p, e, v) IN c.path = n /\ c.endpoint = e /\ c.value = v
  BY DEF Command
<1> HIDE DEF commands, n
<1>4. 1..Len(commands) = {1, 2, 3}
  BY <1>2
<1>5. /\ scene.start >= -1 => Obeys(commands[2], n, "start") /\ commands[2].value = scene.start
      /\ End(scene) >= -1 => Obeys(commands[3], n, "end") /\ commands[3].value = End(scene)
  BY <1>2, <1>3 DEF Obeys, Conforms
<1>6. /\ \A i \in {1, 2, 3} : ~Obeys(commands[i], n, "loop")
      /\ ~Obeys(commands[3], n, "start")
  BY <1>2, <1>3 DEF Obeys
<1>7. /\ Spares(commands, n, "loop")
      /\ scene.start >= -1 => Leaves(commands, n, "start", scene.start)
      /\ End(scene) >= -1 => Leaves(commands, n, "end", End(scene))
  BY <1>4, <1>5, <1>6 DEF Leaves, Spares
<1> QED
  BY <1>7 DEF commands, n

LEMMA AdvanceSpares ==
  ASSUME NEW paths, NEW q \in Seq(Commanding(paths, Advanced)), NEW path,
         NEW e \in {"loop", "start", "end"}
  PROVE  Spares(q, path, e)
<1> SUFFICES ASSUME NEW i \in 1..Len(q) PROVE ~Obeys(q[i], path, e)
  BY DEF Spares
<1>1. q[i] \in Commanding(paths, Advanced)
  OBVIOUS
<1> QED
  BY <1>1 DEF Obeys, Commanding, Advanced

LEMMA OthersSpared ==
  ASSUME NEW path, NEW other, path # other, NEW endpoints,
         NEW q \in Seq(Commanding({path}, endpoints)), NEW e
  PROVE  Spares(q, other, e)
<1> SUFFICES ASSUME NEW i \in 1..Len(q) PROVE ~Obeys(q[i], other, e)
  BY DEF Spares
<1>1. q[i] \in Commanding({path}, endpoints)
  OBVIOUS
<1> QED
  BY <1>1 DEF Obeys, Commanding

LEMMA EmptySpares == \A path, e : Spares(<<>>, path, e) /\ \A v : ~Leaves(<<>>, path, e, v)
BY DEF Spares, Leaves

(* What sets "scene", sets nothing else. *)
LEMMA SceneSet ==
  ASSUME Known, NEW p \in Players, NEW nm, NEW source, Set(p, "scene", nm, source)
  PROVE  /\ values'[p].scene = nm /\ values'[p].loop = values[p].loop
         /\ values'[p].start = values[p].start /\ values'[p].end = values[p].end
         /\ \A q \in Players \ {p} : values'[q] = values[q]
<1> DEFINE new == [values[p] EXCEPT !["scene"] = nm]
<1>1. values' = [values EXCEPT ![p] = new]
  BY DEF Set
<1>2. /\ new.scene = nm /\ new.loop = values[p].loop
      /\ new.start = values[p].start /\ new.end = values[p].end
  BY DefaultsDomain DEF Known, Typed
<1> HIDE DEF new
<1> QED
  BY <1>1, <1>2 DEF Known, Typed

(* A call on a player, or on one of its scenes: a step and a script.       *)
Called(p) ==
  /\ InSession(p) /\ SetsScene(p)
  /\ UNCHANGED <<name, pending, clock>>
  /\ script' \in Seq(Commanding({name[p]}, Scripted))
  /\ \A q \in Players \ {p} : q \in adrift' <=> q \in adrift
  /\ \A s \in DOMAIN scenes :
       scenes[s].player # p => s \in DOMAIN scenes' /\ scenes'[s] = scenes[s]
  /\ OwnNames'
  /\ Doomed(p)' \/ Coming(p)'

LEMMA UpdatedScripted ==
  ASSUME NEW path, NEW q \in Seq(Commanding({path}, Updated))
  PROVE  q \in Seq(Commanding({path}, Scripted))
<1>1. Commanding({path}, Updated) \subseteq Commanding({path}, Scripted)
  BY DEF Commanding, Scripted
<1> QED
  BY <1>1, SeqWidens

LEMMA AdvancedScripted ==
  ASSUME NEW path, NEW q \in Seq(Commanding({path}, Advanced))
  PROVE  q \in Seq(Commanding({path}, Scripted))
<1>1. Commanding({path}, Advanced) \subseteq Commanding({path}, Scripted)
  BY DEF Commanding, Scripted, Advanced, Updated
<1> QED
  BY <1>1, SeqWidens

(* Between calls what is to come is what is. *)
LEMMA ComesNow ==
  ASSUME script = <<>>, NEW p, NEW e, NEW v
  PROVE  Comes(p, e, v) <=> values[p][e] = v
BY EmptySpares DEF Comes

LEMMA NotDoomedNow == ASSUME script = <<>>, NEW p PROVE ~Doomed(p)
BY DEF Doomed

LEMMA NoneTyped ==
  ASSUME NEW p
  PROVE  /\ ShowNone(p) \in Seq(Commanding({name[p]}, Updated))
         /\ Leaves(ShowNone(p), name[p], "loop", 0)
         /\ Leaves(ShowNone(p), name[p], "start", -1) /\ Leaves(ShowNone(p), name[p], "end", -1)
<1>1. ShowNone(p) = UpdatePlayer(p, -1, 0, 0, -1, -1) /\ -1 \in Int /\ -1 >= -1
  BY DEF ShowNone
<1>2. ShowNone(p) \in Seq(Commanding({name[p]}, Updated))
  BY <1>1, UpdateTyped
<1> QED
  BY <1>1, <1>2, UpdateLeaves

LEMMA SceneLeaves ==
  ASSUME NEW p, NEW scene \in SceneType
  PROVE  /\ ShowScene(p, scene) \in Seq(Commanding({name[p]}, Updated))
         /\ ModeCommands(p, scene) \in Seq(Commanding({name[p]}, Updated))
         /\ LET loop == IF scene.mode = "loop" THEN 1 ELSE 0
            IN  \A commands \in {ShowScene(p, scene), ModeCommands(p, scene)} :
                  /\ Leaves(commands, name[p], "loop", loop)
                  /\ scene.start >= -1 => Leaves(commands, name[p], "start", scene.start)
                  /\ End(scene) >= -1 => Leaves(commands, name[p], "end", End(scene))
<1> DEFINE loop == IF scene.mode = "loop" THEN 1 ELSE 0
           tick1 == scene.start
           play == IF scene.mode = "hold" THEN 0 ELSE 1
           tick2 == IF scene.mode = "hold" THEN scene.start ELSE -1
<1>1. scene.start \in Int /\ End(scene) \in Int
  BY DEF SceneType, End
<1>2. loop \in Int /\ tick1 \in Int /\ tick2 \in Int /\ play \in Int
  BY <1>1
<1>3. /\ ShowScene(p, scene) = UpdatePlayer(p, tick1, play, loop, scene.start, End(scene))
      /\ ModeCommands(p, scene) = UpdatePlayer(p, tick2, play, loop, scene.start, End(scene))
  BY DEF ShowScene, ModeCommands
<1> HIDE DEF loop, tick1, tick2, play
<1>4. /\ ShowScene(p, scene) \in Seq(Commanding({name[p]}, Updated))
      /\ Leaves(ShowScene(p, scene), name[p], "loop", loop)
      /\ scene.start >= -1 => Leaves(ShowScene(p, scene), name[p], "start", scene.start)
      /\ End(scene) >= -1 => Leaves(ShowScene(p, scene), name[p], "end", End(scene))
  <2>1. ShowScene(p, scene) \in Seq(Commanding({name[p]}, Updated))
    <3>1. UpdatePlayer(p, tick1, play, loop, scene.start, End(scene))
            \in Seq(Commanding({name[p]}, Updated))
      BY <1>1, <1>2, UpdateTyped, Zenon
    <3> QED
      BY <1>3, <3>1
  <2>2. /\ Leaves(ShowScene(p, scene), name[p], "loop", loop)
        /\ scene.start >= -1 => Leaves(ShowScene(p, scene), name[p], "start", scene.start)
        /\ End(scene) >= -1 => Leaves(ShowScene(p, scene), name[p], "end", End(scene))
    BY <1>1, <1>2, <1>3, UpdateLeaves
  <2> QED
    BY <2>1, <2>2
<1>5. /\ ModeCommands(p, scene) \in Seq(Commanding({name[p]}, Updated))
      /\ Leaves(ModeCommands(p, scene), name[p], "loop", loop)
      /\ scene.start >= -1 => Leaves(ModeCommands(p, scene), name[p], "start", scene.start)
      /\ End(scene) >= -1 => Leaves(ModeCommands(p, scene), name[p], "end", End(scene))
  <2>1. ModeCommands(p, scene) \in Seq(Commanding({name[p]}, Updated))
    <3>1. UpdatePlayer(p, tick2, play, loop, scene.start, End(scene))
            \in Seq(Commanding({name[p]}, Updated))
      BY <1>1, <1>2, UpdateTyped, Zenon
    <3> QED
      BY <1>3, <3>1
  <2>2. /\ Leaves(ModeCommands(p, scene), name[p], "loop", loop)
        /\ scene.start >= -1 => Leaves(ModeCommands(p, scene), name[p], "start", scene.start)
        /\ End(scene) >= -1 => Leaves(ModeCommands(p, scene), name[p], "end", End(scene))
    BY <1>1, <1>2, <1>3, UpdateLeaves
  <2> QED
    BY <2>1, <2>2
<1> QED
  BY <1>4, <1>5 DEF loop

LEMMA SelectCalled ==
  ASSUME Full, NEW p \in Players, NEW nm, SelectScene(p, nm)
  PROVE  Called(p)
<1>1. /\ InSession(p) /\ SetsScene(p) /\ UNCHANGED <<name, pending, clock, scenes>>
      /\ Set(p, "scene", nm, "PUBLIC_API")
  BY DEF SelectScene, SetsScene
<1>2. \A q \in Players \ {p} : q \in adrift' <=> q \in adrift
  BY DEF SelectScene
<1>3. values'[p].scene = nm
  BY <1>1, SceneSet DEF Full, Inv
<1>4. OwnNames'
  BY <1>1 DEF Full, OwnNames
<1>5. CASE nm = NoScene
  <2>1. script' = ShowNone(p)
    BY <1>5 DEF SelectScene
  <2>2. script' \in Seq(Commanding({name[p]}, Scripted))
    BY <2>1, NoneTyped, UpdatedScripted
  <2>3. Coming(p)'
    BY <1>1, <1>3, <1>5, <2>1, NoneTyped DEF Coming, ShowsNone, Comes
  <2> QED
    BY <1>1, <1>2, <1>4, <2>2, <2>3 DEF Called
<1>6. CASE nm # NoScene /\ \E s \in Named(p, nm) : script' = ShowScene(p, scenes[s])
  <2>1. PICK s \in Named(p, nm) : script' = ShowScene(p, scenes[s])
    BY <1>6
  <2>2. s \in DOMAIN scenes /\ scenes[s] \in SceneType
    BY DEF Named, ScenesOf, Full, Inv, ScenesOK
  <2>3. script' \in Seq(Commanding({name[p]}, Scripted))
    BY <2>1, <2>2, SceneLeaves, UpdatedScripted
  <2>4. ShownBy(p, s)'
    BY <1>1, <2>1, <2>2, SceneLeaves DEF ShownBy, Comes
  <2>5. (s \in Named(p, values[p].scene))'
    BY <1>1, <1>3 DEF Named, ScenesOf
  <2>6. Coming(p)'
    BY <1>3, <1>6, <2>4, <2>5 DEF Coming
  <2> QED
    BY <1>1, <1>2, <1>4, <2>3, <2>6 DEF Called
<1>7. CASE nm # NoScene /\ Named(p, nm) = {}
  <2>1. script' = <<>> /\ p \in adrift'
    BY <1>7 DEF SelectScene
  <2>2. Coming(p)'
    BY <1>3, <1>7, <2>1 DEF Coming
  <2>3. script' \in Seq(Commanding({name[p]}, Scripted))
    BY <2>1
  <2> QED
    BY <1>1, <1>2, <1>4, <2>2, <2>3 DEF Called
<1> QED
  BY <1>5, <1>6, <1>7 DEF SelectScene

LEMMA HomeCalled ==
  ASSUME Full, NEW p \in Players, Home(p)
  PROVE  Called(p)
<1> DEFINE rewind == IF values[p].tick # 0 THEN <<Command(p, "tick", 0)>> ELSE <<>>
           A == Commanding({name[p]}, Advanced)
<1>1. /\ InSession(p) /\ SetsScene(p) /\ UNCHANGED <<name, pending, clock, scenes>>
  BY DEF Home, SetsScene
<1>2. \A q \in Players \ {p} : q \in adrift' <=> q \in adrift
  BY DEF Home
<1>3. OwnNames'
  BY <1>1 DEF Full, OwnNames
<1>4. Command(p, "tick", 0) \in A /\ Command(p, "play", 0) \in A
  BY DEF Command, Commanding, Advanced
<1>5. \A S : \A c \in S : <<c>> \in Seq(S)
  OBVIOUS
<1>6. \A S : <<>> \in Seq(S)
  OBVIOUS
<1> HIDE DEF A
<1>7. rewind \in Seq(A)
  BY <1>4, <1>5, <1>6
<1>8. CASE values[p].scene # NoScene
  <2>1. Set(p, "scene", NoScene, "SYSTEM") /\ script' = ShowNone(p) \o rewind
    BY <1>8 DEF Home
  <2>2. values'[p].scene = NoScene
    BY <2>1, SceneSet DEF Full, Inv
  <2> DEFINE C == Commanding({name[p]}, Scripted)
  <2>3. ShowNone(p) \in Seq(C) /\ rewind \in Seq(C)
    BY <1>7, NoneTyped, UpdatedScripted, AdvancedScripted DEF A
  <2>4. \A e \in {"loop", "start", "end"} : Spares(rewind, name[p], e)
    BY <1>7, AdvanceSpares DEF A
  <2> HIDE DEF C, rewind
  <2>5. script' \in Seq(C)
    BY <2>1, <2>3
  <2>6. /\ Leaves(script', name[p], "loop", 0)
        /\ Leaves(script', name[p], "start", -1) /\ Leaves(script', name[p], "end", -1)
    BY <2>1, <2>3, <2>4, NoneTyped, LeavesFirst
  <2>7. Coming(p)'
    BY <1>1, <2>2, <2>6 DEF Coming, ShowsNone, Comes
  <2> QED
    BY <1>1, <1>2, <1>3, <2>5, <2>7 DEF Called, C
<1>9. CASE values[p].scene = NoScene
  <2> DEFINE stop == IF values[p].play # 0 THEN <<Command(p, "play", 0)>> ELSE <<>>
  <2>1. values' = values /\ script' = stop \o rewind
    BY <1>9 DEF Home
  <2>2. stop \in Seq(A)
    BY <1>4, <1>5, <1>6
  <2> HIDE DEF stop, rewind
  <2>3. script' \in Seq(A)
    BY <1>7, <2>1, <2>2
  <2>4. script' \in Seq(Commanding({name[p]}, Scripted))
    BY <2>3, AdvancedScripted DEF A
  <2>5. \A e \in {"loop", "start", "end"} : Spares(script', name[p], e)
    BY <2>3, AdvanceSpares DEF A
  <2>6. Coming(p)
    BY <1>1, NotDoomedNow DEF Full, ShowsOK, InSession
  <2>7. values[p].loop = 0 /\ values[p].start = -1 /\ values[p].end = -1
    BY <1>1, <1>9, <2>6, ComesNow DEF Coming, ShowsNone, InSession
  <2>8. Coming(p)'
    BY <1>1, <1>9, <2>1, <2>5, <2>7 DEF Coming, ShowsNone, Comes
  <2> QED
    BY <1>1, <1>2, <1>3, <2>4, <2>8 DEF Called
<1> QED
  BY <1>8, <1>9

(* What a call leaves alone, a player still shows. *)
LEMMA StillComing ==
  ASSUME script = <<>>, script' = <<>>, name' = name, NEW p \in Players,
         values'[p] = values[p], p \in adrift => p \in adrift', Coming(p),
         \A t \in Named(p, values[p].scene) : t \in DOMAIN scenes' /\ scenes'[t] = scenes[t]
  PROVE  Coming(p)'
<1>1. ASSUME NEW e, NEW v, Comes(p, e, v) PROVE Comes(p, e, v)'
  BY <1>1, EmptySpares DEF Comes
<1>2. CASE values[p].scene = NoScene
  BY <1>1, <1>2 DEF Coming, ShowsNone
<1>3. CASE values[p].scene # NoScene /\ p \notin adrift'
  <2>1. PICK s \in Named(p, values[p].scene) : ShownBy(p, s)
    BY <1>3 DEF Coming
  <2>2. s \in DOMAIN scenes' /\ scenes'[s] = scenes[s]
    BY <2>1
  <2>3. ShownBy(p, s)'
    BY <1>1, <2>1, <2>2 DEF ShownBy, End
  <2>4. (s \in Named(p, values[p].scene))'
    BY <2>2 DEF Named, ScenesOf
  <2> QED
    BY <1>3, <2>3, <2>4 DEF Coming
<1> QED
  BY <1>2, <1>3 DEF Coming

(* The selected scene of a player that is not adrift is the one it shows.  *)
LEMMA SelectedShown ==
  ASSUME Full, NEW s \in DOMAIN scenes, IsSelected(s), InSession(scenes[s].player),
         scenes[s].player \notin adrift
  PROVE  ShownBy(scenes[s].player, s)
<1> DEFINE p == scenes[s].player
<1>1. p \in Players /\ scenes[s].name \in SceneNames
  BY DEF Full, Inv, ScenesOK, SceneType
<1>2. values[p].scene = scenes[s].name /\ values[p].scene # NoScene
  BY <1>1, PlayersAssumption DEF IsSelected
<1>3. Coming(p)
  BY <1>1, NotDoomedNow DEF Full, ShowsOK, InSession
<1>4. PICK t \in Named(p, values[p].scene) : ShownBy(p, t)
  BY <1>2, <1>3 DEF Coming
<1>5. t = s
  BY <1>2, <1>4 DEF Full, OwnNames, Named, ScenesOf
<1> QED
  BY <1>4, <1>5

LEMMA EditCalled ==
  ASSUME Full, NEW s \in DOMAIN scenes, NEW scene \in SceneType, NEW commands,
         Edited(s, scene, commands),
         scene.player = scenes[s].player, scene.name = scenes[s].name,
         \/ commands = ModeCommands(scene.player, scene)
         \/ commands = SpanCommands(scene.player, scene) /\ scene.mode = scenes[s].mode
  PROVE  Called(scene.player)
<1> DEFINE p == scene.player
           loop == IF scene.mode = "loop" THEN 1 ELSE 0
<1>1. /\ InSession(p) /\ SetsScene(p) /\ UNCHANGED <<name, pending, clock, values, adrift>>
      /\ scenes' = With(scenes, s, scene)
      /\ script' = IF IsSelected(s) THEN commands ELSE <<>>
  BY DEF Edited, Changing, SetsScene
<1>2. /\ DOMAIN scenes' = DOMAIN scenes /\ scenes'[s] = scene
      /\ \A t \in DOMAIN scenes \ {s} : scenes'[t] = scenes[t]
  BY <1>1 DEF With
<1>3. \A t \in DOMAIN scenes :
        scenes'[t].player = scenes[t].player /\ scenes'[t].name = scenes[t].name
  BY <1>2
<1>4. OwnNames'
  BY <1>2, <1>3 DEF Full, OwnNames
<1>5. p \in Players
  BY DEF SceneType
<1>6. CASE IsSelected(s)
  <2>1. script' = commands
    BY <1>1, <1>6
  <2>2. commands \in Seq(Commanding({name[p]}, Scripted))
    BY SceneLeaves, SpanTyped, UpdatedScripted
  <2>3. values[p].scene = scenes[s].name /\ values[p].scene # NoScene
    BY <1>6, PlayersAssumption DEF IsSelected, Full, Inv, ScenesOK, SceneType
  <2>4. (s \in Named(p, values[p].scene))'
    BY <1>1, <1>2, <1>3, <2>3 DEF Named, ScenesOf
  <2>5. p \notin adrift => Comes(p, "loop", loop)'
    <3>1. CASE commands = ModeCommands(p, scene)
      BY <1>1, <2>1, <3>1, SceneLeaves DEF Comes
    <3>2. CASE commands = SpanCommands(p, scene) /\ scene.mode = scenes[s].mode
      <4>1. p \notin adrift => Comes(p, "loop", loop)
        BY <1>1, <1>6, <3>2, SelectedShown DEF ShownBy
      <4>2. p \notin adrift => values[p].loop = loop
        BY <1>1, <4>1, ComesNow DEF InSession
      <4>3. Spares(commands, name[p], "loop")
        BY <3>2, SpanLeaves
      <4> QED
        BY <1>1, <2>1, <4>2, <4>3 DEF Comes
    <3> QED
      BY <3>1, <3>2
  <2>6. /\ scene.start >= -1 => Leaves(commands, name[p], "start", scene.start)
        /\ End(scene) >= -1 => Leaves(commands, name[p], "end", End(scene))
    BY SceneLeaves, SpanLeaves
  <2>7. p \notin adrift => ShownBy(p, s)'
    BY <1>1, <1>2, <2>1, <2>5, <2>6 DEF ShownBy, Comes, End
  <2>8. Coming(p)'
    BY <1>1, <2>3, <2>4, <2>7 DEF Coming
  <2> QED
    BY <1>1, <1>2, <1>4, <2>1, <2>2, <2>8 DEF Called
<1>7. CASE ~IsSelected(s)
  <2>1. script' = <<>> /\ script = <<>>
    BY <1>1, <1>7 DEF InSession
  <2>2. Coming(p)
    BY <1>1, <1>5, NotDoomedNow DEF Full, ShowsOK, InSession
  <2>3. \A t \in Named(p, values[p].scene) : t \in DOMAIN scenes' /\ scenes'[t] = scenes[t]
    BY <1>2, <1>7 DEF Named, ScenesOf, IsSelected
  <2>4. Coming(p)'
    BY <1>1, <1>5, <2>1, <2>2, <2>3, StillComing
  <2>5. script' \in Seq(Commanding({name[p]}, Scripted))
    BY <2>1
  <2> QED
    BY <1>1, <1>2, <1>4, <2>4, <2>5 DEF Called
<1> QED
  BY <1>6, <1>7

LEMMA NewSceneCalled ==
  ASSUME Full, NEW p \in Players, NEW s \in Scenes, NEW nm \in SceneNames, NewScene(p, s, nm)
  PROVE  Called(p)
<1> DEFINE default(length) ==
             [player |-> p, name |-> nm, mode |-> "hold", start |-> 0, length |-> length]
           zero == default(0)
           unit == default(1)
<1>1. /\ zero \in SceneType /\ unit \in SceneType
      /\ zero.mode = "hold" /\ zero.start = 0 /\ End(zero) = 0
      /\ unit.mode = "hold" /\ unit.start = 0 /\ End(unit) = 1
      /\ unit.player = p /\ unit.name = nm
  BY DEF SceneType, Modes, End
<1>2. /\ InSession(p) /\ SetsScene(p) /\ UNCHANGED <<name, pending, clock, values>>
      /\ s \notin DOMAIN scenes /\ Named(p, nm) = {} /\ scenes' = With(scenes, s, unit)
      /\ IF values[p].scene = nm
           THEN /\ script' = ModeCommands(p, zero) \o SpanCommands(p, zero)
                              \o SpanCommands(p, unit)
                /\ adrift' = adrift \ {p}
           ELSE script' = <<>> /\ UNCHANGED adrift
  BY DEF NewScene, Changing, SetsScene
<1> HIDE DEF zero, unit
<1>3. /\ DOMAIN scenes' = DOMAIN scenes \cup {s} /\ scenes'[s] = unit
      /\ \A t \in DOMAIN scenes : scenes'[t] = scenes[t]
  BY <1>2 DEF With
<1>4. OwnNames'
  <2>1. \A t \in DOMAIN scenes : ~(scenes[t].player = p /\ scenes[t].name = nm)
    BY <1>2 DEF Named, ScenesOf
  <2> QED
    BY <1>1, <1>3, <2>1 DEF Full, OwnNames
<1>5. \A q \in Players \ {p} : q \in adrift' <=> q \in adrift
  BY <1>2
<1>6. nm # NoScene
  BY PlayersAssumption
<1>7. CASE values[p].scene = nm
  <2> DEFINE C == Commanding({name[p]}, Scripted)
             first == ModeCommands(p, zero)
             second == SpanCommands(p, zero)
             third == SpanCommands(p, unit)
             n == name[p]
  <2>1. first \in Seq(C) /\ second \in Seq(C) /\ third \in Seq(C)
    BY <1>1, SceneLeaves, SpanTyped, UpdatedScripted
  <2>2. Leaves(first, n, "loop", 0)
    BY <1>1, SceneLeaves
  <2>3. Spares(second, n, "loop") /\ Spares(third, n, "loop")
    BY <1>1, SpanLeaves
  <2>4. Leaves(third, n, "start", 0) /\ Leaves(third, n, "end", 1)
    BY <1>1, SpanLeaves
  <2>5. script' = first \o second \o third
    BY <1>2, <1>7
  <2> HIDE DEF C, first, second, third, n
  <2>6. first \o second \in Seq(C)
    BY <2>1
  <2>7. script' \in Seq(C)
    BY <2>1, <2>5, <2>6
  <2>8. Leaves(first \o second, n, "loop", 0)
    BY <2>1, <2>2, <2>3, LeavesFirst
  <2>9. /\ Leaves(script', n, "loop", 0)
        /\ Leaves(script', n, "start", 0) /\ Leaves(script', n, "end", 1)
    BY <2>1, <2>3, <2>4, <2>5, <2>6, <2>8, LeavesFirst, LeavesSecond
  <2>10. ShownBy(p, s)'
    BY <1>1, <1>2, <1>3, <2>9 DEF ShownBy, Comes, n
  <2>11. (s \in Named(p, values[p].scene))'
    BY <1>1, <1>2, <1>3, <1>7 DEF Named, ScenesOf
  <2>12. Coming(p)'
    BY <1>2, <1>6, <1>7, <2>10, <2>11 DEF Coming
  <2> QED
    BY <1>2, <1>3, <1>4, <1>5, <2>7, <2>12 DEF Called, C
<1>8. CASE values[p].scene # nm
  <2>1. script' = <<>> /\ script = <<>>
    BY <1>2, <1>8 DEF InSession
  <2>2. Coming(p)
    BY <1>2, NotDoomedNow DEF Full, ShowsOK, InSession
  <2>3. \A t \in Named(p, values[p].scene) : t \in DOMAIN scenes' /\ scenes'[t] = scenes[t]
    BY <1>3 DEF Named, ScenesOf
  <2>4. Coming(p)'
    BY <1>2, <1>8, <2>1, <2>2, <2>3, StillComing
  <2>5. script' \in Seq(Commanding({name[p]}, Scripted))
    BY <2>1
  <2> QED
    BY <1>2, <1>3, <1>4, <1>5, <2>4, <2>5 DEF Called
<1> QED
  BY <1>7, <1>8

(* One scene gets a name or a player with which it is still alone.         *)
LEMMA OneSceneOwn ==
  ASSUME OwnNames, NEW s \in DOMAIN scenes, DOMAIN scenes' = DOMAIN scenes,
         \A t \in DOMAIN scenes \ {s} :
           /\ scenes'[t] = scenes[t]
           /\ ~(scenes[t].player = scenes'[s].player /\ scenes[t].name = scenes'[s].name)
  PROVE  OwnNames'
<1> SUFFICES ASSUME NEW t \in DOMAIN scenes, NEW u \in DOMAIN scenes,
                    scenes'[t].player = scenes'[u].player, scenes'[t].name = scenes'[u].name
             PROVE  t = u
  BY DEF OwnNames
<1>1. CASE t = s
  BY <1>1
<1>2. CASE u = s
  BY <1>2
<1>3. CASE t # s /\ u # s
  BY <1>3 DEF OwnNames
<1> QED
  BY <1>1, <1>2, <1>3

LEMMA RenameSceneCalled ==
  ASSUME Full, NEW s \in DOMAIN scenes, NEW p, p = scenes[s].player, NEW nm \in SceneNames, RenameScene(s, nm)
  PROVE  Called(p)
<1>1. /\ InSession(p) /\ SetsScene(p) /\ UNCHANGED <<name, pending, clock, adrift>>
      /\ Named(p, nm) = {} /\ scenes' = [scenes EXCEPT ![s].name = nm]
      /\ IF IsSelected(s)
           THEN Set(p, "scene", nm, "SYSTEM") /\ script' = ShowScene(p, scenes[s])
           ELSE script' = <<>> /\ UNCHANGED <<values, states>>
  BY DEF RenameScene, Changing, SetsScene
<1>2. p \in Players /\ scenes[s] \in SceneType /\ nm # NoScene
  BY PlayersAssumption DEF Full, Inv, ScenesOK, SceneType
<1>3. /\ DOMAIN scenes' = DOMAIN scenes /\ scenes'[s] = [scenes[s] EXCEPT !.name = nm]
      /\ \A t \in DOMAIN scenes \ {s} : scenes'[t] = scenes[t]
  BY <1>1
<1>4. /\ scenes'[s].name = nm /\ scenes'[s].player = p /\ scenes'[s].mode = scenes[s].mode
      /\ scenes'[s].start = scenes[s].start /\ scenes'[s].length = scenes[s].length
  BY <1>2, <1>3 DEF SceneType
<1>5. OwnNames'
  <2>1. \A t \in DOMAIN scenes : ~(scenes[t].player = p /\ scenes[t].name = nm)
    BY <1>1 DEF Named, ScenesOf
  <2> QED
    <3>1. OwnNames /\ DOMAIN scenes' = DOMAIN scenes
      BY <1>3 DEF Full
    <3>2. \A t \in DOMAIN scenes \ {s} :
            /\ scenes'[t] = scenes[t]
            /\ ~(scenes[t].player = scenes'[s].player /\ scenes[t].name = scenes'[s].name)
      BY <1>3, <1>4, <2>1
    <3> QED
      BY <3>1, <3>2, OneSceneOwn
<1>6. CASE IsSelected(s)
  <2>1. Set(p, "scene", nm, "SYSTEM") /\ script' = ShowScene(p, scenes[s])
    BY <1>1, <1>6
  <2>2. values'[p].scene = nm
    BY <1>2, <2>1, SceneSet DEF Full, Inv
  <2>3. script' \in Seq(Commanding({name[p]}, Scripted))
    BY <1>2, <2>1, SceneLeaves, UpdatedScripted
  <2>4. ShownBy(p, s)'
    BY <1>1, <1>2, <1>4, <2>1, SceneLeaves DEF ShownBy, Comes, End
  <2>5. (s \in Named(p, values[p].scene))'
    BY <1>3, <1>4, <2>2 DEF Named, ScenesOf
  <2>6. Coming(p)'
    BY <1>2, <2>2, <2>4, <2>5 DEF Coming
  <2> QED
    BY <1>1, <1>3, <1>5, <2>3, <2>6 DEF Called
<1>7. CASE ~IsSelected(s)
  <2>1. script' = <<>> /\ script = <<>> /\ values' = values
    BY <1>1, <1>7 DEF InSession
  <2>2. Coming(p)
    BY <1>1, <1>2, NotDoomedNow DEF Full, ShowsOK, InSession
  <2>3. \A t \in Named(p, values[p].scene) : t \in DOMAIN scenes' /\ scenes'[t] = scenes[t]
    BY <1>3, <1>7 DEF Named, ScenesOf, IsSelected
  <2>4. Coming(p)'
    BY <1>1, <1>2, <2>1, <2>2, <2>3, StillComing
  <2>5. script' \in Seq(Commanding({name[p]}, Scripted))
    BY <2>1
  <2> QED
    BY <1>1, <1>3, <1>5, <2>4, <2>5 DEF Called
<1> QED
  BY <1>6, <1>7

LEMMA DeleteSceneCalled ==
  ASSUME Full, NEW s \in DOMAIN scenes, NEW p, p = scenes[s].player, DeleteScene(s)
  PROVE  Called(p)
<1>1. /\ InSession(p) /\ SetsScene(p) /\ UNCHANGED <<name, pending, clock, adrift>>
      /\ scenes' = Without(scenes, s)
      /\ IF IsSelected(s)
           THEN Set(p, "scene", NoScene, "SYSTEM") /\ script' = ShowNone(p)
           ELSE script' = <<>> /\ UNCHANGED <<values, states>>
  BY DEF DeleteScene, Changing, SetsScene
<1>2. p \in Players
  BY DEF Full, Inv, ScenesOK, SceneType
<1>3. /\ DOMAIN scenes' = DOMAIN scenes \ {s}
      /\ \A t \in DOMAIN scenes \ {s} : scenes'[t] = scenes[t]
  BY <1>1 DEF Without
<1>4. OwnNames'
  BY <1>3 DEF Full, OwnNames
<1>5. CASE IsSelected(s)
  <2>1. Set(p, "scene", NoScene, "SYSTEM") /\ script' = ShowNone(p)
    BY <1>1, <1>5
  <2>2. values'[p].scene = NoScene
    BY <1>2, <2>1, SceneSet DEF Full, Inv
  <2>3. script' \in Seq(Commanding({name[p]}, Scripted))
    BY <2>1, NoneTyped, UpdatedScripted
  <2>4. Coming(p)'
    BY <1>1, <2>1, <2>2, NoneTyped DEF Coming, ShowsNone, Comes
  <2> QED
    BY <1>1, <1>3, <1>4, <2>3, <2>4 DEF Called
<1>6. CASE ~IsSelected(s)
  <2>1. script' = <<>> /\ script = <<>> /\ values' = values
    BY <1>1, <1>6 DEF InSession
  <2>2. Coming(p)
    BY <1>1, <1>2, NotDoomedNow DEF Full, ShowsOK, InSession
  <2>3. \A t \in Named(p, values[p].scene) : t \in DOMAIN scenes' /\ scenes'[t] = scenes[t]
    BY <1>3, <1>6 DEF Named, ScenesOf, IsSelected
  <2>4. Coming(p)'
    BY <1>1, <1>2, <2>1, <2>2, <2>3, StillComing
  <2>5. script' \in Seq(Commanding({name[p]}, Scripted))
    BY <2>1
  <2> QED
    BY <1>1, <1>3, <1>4, <2>4, <2>5 DEF Called
<1> QED
  BY <1>5, <1>6

LEMMA MoveSceneCalled ==
  ASSUME Full, NEW s \in DOMAIN scenes, NEW p, p = scenes[s].player, NEW q \in Players, MoveScene(s, q)
  PROVE  Called(p)
<1>1. /\ InSession(p) /\ SetsScene(p) /\ UNCHANGED <<name, pending, clock, values>>
      /\ q # p /\ Named(q, scenes[s].name) = {}
      /\ scenes' = [scenes EXCEPT ![s].player = q] /\ script' = <<>> /\ script = <<>>
      /\ adrift' = IF IsSelected(s) THEN adrift \cup {p} ELSE adrift
  BY DEF MoveScene, Changing, SetsScene, InSession
<1>2. p \in Players /\ scenes[s] \in SceneType
  BY DEF Full, Inv, ScenesOK, SceneType
<1>3. /\ DOMAIN scenes' = DOMAIN scenes /\ scenes'[s] = [scenes[s] EXCEPT !.player = q]
      /\ \A t \in DOMAIN scenes \ {s} : scenes'[t] = scenes[t]
  BY <1>1
<1>4. scenes'[s].name = scenes[s].name /\ scenes'[s].player = q
  BY <1>2, <1>3 DEF SceneType
<1>5. OwnNames'
  <2>1. \A t \in DOMAIN scenes : ~(scenes[t].player = q /\ scenes[t].name = scenes[s].name)
    BY <1>1 DEF Named, ScenesOf
  <2> QED
    <3>1. OwnNames /\ DOMAIN scenes' = DOMAIN scenes
      BY <1>3 DEF Full
    <3>2. \A t \in DOMAIN scenes \ {s} :
            /\ scenes'[t] = scenes[t]
            /\ ~(scenes[t].player = scenes'[s].player /\ scenes[t].name = scenes'[s].name)
      BY <1>3, <1>4, <2>1
    <3> QED
      BY <3>1, <3>2, OneSceneOwn
<1>6. Coming(p)
  BY <1>1, <1>2, NotDoomedNow DEF Full, ShowsOK, InSession
<1>7. Coming(p)'
  <2>1. CASE IsSelected(s)
    <3>1. p \in adrift' /\ values'[p].scene = scenes[s].name
      BY <1>1, <2>1 DEF IsSelected
    <3>2. scenes[s].name # NoScene
      BY <1>2, PlayersAssumption DEF SceneType
    <3> QED
      BY <3>1, <3>2 DEF Coming
  <2>2. CASE ~IsSelected(s)
    <3>1. \A t \in Named(p, values[p].scene) : t \in DOMAIN scenes' /\ scenes'[t] = scenes[t]
      BY <1>3, <2>2 DEF Named, ScenesOf, IsSelected
    <3> QED
      BY <1>1, <1>2, <1>6, <2>2, <3>1, StillComing
  <2> QED
    BY <2>1, <2>2
<1>8. script' \in Seq(Commanding({name[p]}, Scripted))
  BY <1>1
<1> QED
  BY <1>1, <1>3, <1>5, <1>7, <1>8 DEF Called

LEMMA ConcatLater ==
  ASSUME NEW S, NEW q \in Seq(S), NEW r \in Seq(S), NEW i \in Nat,
         Len(q) < i, i <= Len(q) + Len(r)
  PROVE  (q \o r)[i] = r[i - Len(q)]
OBVIOUS

(* The last command of the script of Delete. *)
LEMMA DeleteCalled ==
  ASSUME Full, NEW p \in Players, Delete(p)
  PROVE  Called(p)
<1> DEFINE selected == \E s \in ScenesOf(p) : IsSelected(s)
           first == IF selected THEN ShowNone(p) ELSE <<>>
           last == <<Command(p, "delete", 0)>>
           C == Commanding({name[p]}, Scripted)
<1>1. /\ InSession(p) /\ SetsScene(p) /\ UNCHANGED <<name, pending, clock>>
      /\ script' = first \o last /\ adrift' = adrift \ {p}
      /\ scenes' = [s \in DOMAIN scenes \ ScenesOf(p) |-> scenes[s]]
  BY DEF Delete, SetsScene
<1>2. /\ DOMAIN scenes' = DOMAIN scenes \ ScenesOf(p)
      /\ \A t \in DOMAIN scenes \ ScenesOf(p) : scenes'[t] = scenes[t]
  BY <1>1
<1>3. OwnNames'
  BY <1>2 DEF Full, OwnNames
<1>4. \A s \in DOMAIN scenes :
        scenes[s].player # p => s \in DOMAIN scenes' /\ scenes'[s] = scenes[s]
  BY <1>2 DEF ScenesOf
<1>5. Command(p, "delete", 0) \in C
  BY DEF Command, Commanding, Scripted
<1>6. \A S : \A c \in S : <<c>> \in Seq(S) /\ Len(<<c>>) = 1 /\ <<c>>[1] = c
  OBVIOUS
<1>7. first \in Seq(C)
  <2>1. ShowNone(p) \in Seq(C)
    BY NoneTyped, UpdatedScripted
  <2> HIDE DEF C
  <2> QED
    BY <2>1
<1> HIDE DEF first, C
<1>8. last \in Seq(C) /\ Len(last) = 1 /\ last[1] = Command(p, "delete", 0)
  BY <1>5, <1>6
<1> HIDE DEF last
<1>9. /\ script' \in Seq(C) /\ Len(first) + 1 \in 1..Len(script')
      /\ script'[Len(first) + 1] = Command(p, "delete", 0)
  <2>1. script' = first \o last
    BY <1>1
  <2>2. first \o last \in Seq(C) /\ Len(first \o last) = Len(first) + 1 /\ Len(first) \in Nat
    <3>1. \A S : \A q, r \in Seq(S) :
            q \o r \in Seq(S) /\ Len(q \o r) = Len(q) + Len(r) /\ Len(q) \in Nat
      OBVIOUS
    <3> QED
      BY <1>7, <1>8, <3>1
  <2>3. (first \o last)[Len(first) + 1] = last[Len(first) + 1 - Len(first)]
    BY <1>7, <1>8, <2>2, ConcatLater
  <2>4. Len(first) + 1 - Len(first) = 1
    BY <2>2
  <2> QED
    BY <1>8, <2>1, <2>2, <2>3, <2>4
<1>10. Doomed(p)'
  <2>1. script'[Len(first) + 1].path = name'[p] /\ script'[Len(first) + 1].endpoint = "delete"
    BY <1>1, <1>9 DEF Command
  <2> QED
    BY <1>9, <2>1 DEF Doomed
<1> QED
  BY <1>1, <1>3, <1>4, <1>9, <1>10 DEF Called, C

(* What is to come of the others, a call leaves. *)
LEMMA CalledKeeps ==
  ASSUME Full, NEW p \in Players, Called(p)
  PROVE  Numeric' /\ OwnPaths' /\ OwnNames' /\ ShowsOK'
<1> USE DEF Full
<1>1. /\ script = <<>> /\ name[p] # Nowhere /\ name' = name
      /\ pending' = pending /\ clock' = clock
      /\ script' \in Seq(Commanding({name[p]}, Scripted))
  BY DEF Called, InSession
<1>2. CommandsOK'
  <2>1. name[p] \in Names
    BY <1>1 DEF Inv, Known, Typed
  <2>2. Commanding({name[p]}, Scripted) \subseteq Commanding(Names, Scripted)
    BY <2>1 DEF Commanding
  <2>3. script' \in Seq(Commanding(Names, Scripted))
    BY <1>1, <2>2, SeqWidens
  <2> QED
    BY <1>1, <2>3 DEF Numeric, CommandsOK
<1>3. NumbersOK' /\ RunsOK'
  <2>1. CASE UNCHANGED <<values, states>>
    BY <1>1, <2>1 DEF Numeric, NumbersOK, RunsOK
  <2>2. CASE \E v, source : Set(p, "scene", v, source)
    BY <1>1, <2>2, SetNumbers DEF Numeric, Inv
  <2> QED
    BY <2>1, <2>2 DEF Called, SetsScene
<1>4. OwnPaths' /\ OwnNames'
  BY <1>1 DEF OwnPaths, Called
<1>5. \A q \in Players \ {p} : values'[q] = values[q]
  BY SceneSet DEF Called, SetsScene, Inv
<1>6. ASSUME NEW q \in Players, name'[q] # Nowhere, ~Doomed(q)' PROVE Coming(q)'
  <2>1. CASE q = p
    BY <1>6, <2>1 DEF Called
  <2>2. CASE q # p
    <3>1. name[q] # name[p] /\ name'[q] = name[q] /\ values'[q] = values[q]
      BY <1>1, <1>5, <1>6, <2>2 DEF OwnPaths
    <3>2. Coming(q)
      BY <1>1, <1>6, NotDoomedNow DEF ShowsOK
    <3>3. ASSUME NEW e, NEW v, Comes(q, e, v) PROVE Comes(q, e, v)'
      <4>1. values[q][e] = v
        BY <1>1, <3>3, ComesNow
      <4>2. Spares(script', name[q], e)
        BY <1>1, <3>1, OthersSpared
      <4> QED
        BY <3>1, <4>1, <4>2 DEF Comes
    <3>4. CASE values[q].scene = NoScene
      BY <3>1, <3>2, <3>3, <3>4 DEF Coming, ShowsNone
    <3>5. CASE values[q].scene # NoScene /\ q \notin adrift
      <4>1. PICK s \in Named(q, values[q].scene) : ShownBy(q, s)
        BY <3>2, <3>5 DEF Coming
      <4>2. s \in DOMAIN scenes' /\ scenes'[s] = scenes[s]
        BY <2>2, <4>1 DEF Called, Named, ScenesOf
      <4>3. ShownBy(q, s)'
        BY <3>3, <4>1, <4>2 DEF ShownBy, End
      <4>4. (s \in Named(q, values[q].scene))'
        BY <3>1, <4>1, <4>2 DEF Named, ScenesOf
      <4> QED
        BY <3>1, <3>5, <4>3, <4>4 DEF Coming
    <3>6. CASE values[q].scene # NoScene /\ q \in adrift
      BY <2>2, <3>1, <3>6 DEF Coming, Called
    <3> QED
      BY <3>4, <3>5, <3>6
  <2> QED
    BY <2>1, <2>2
<1> QED
  BY <1>2, <1>3, <1>4, <1>6 DEF Numeric, ShowsOK

(* Steps of the thread and of sets of the user: none of what a scene sets. *)
LEMMA SteadyShows ==
  ASSUME ShowsOK, UNCHANGED <<name, scenes, script, adrift>>,
         \A p \in Players : \A e \in {"loop", "start", "end", "scene"} :
           values'[p][e] = values[p][e]
  PROVE  ShowsOK'
<1> SUFFICES ASSUME NEW p \in Players, name'[p] # Nowhere, ~Doomed(p)' PROVE Coming(p)'
  BY DEF ShowsOK
<1>1. Coming(p)
  BY DEF ShowsOK, Doomed
<1>2. \A e \in {"loop", "start", "end"} : \A v : Comes(p, e, v) <=> Comes(p, e, v)'
  BY DEF Comes
<1>3. values'[p].scene = values[p].scene
  OBVIOUS
<1>4. CASE values[p].scene = NoScene
  BY <1>1, <1>2, <1>3, <1>4 DEF Coming, ShowsNone
<1>5. CASE values[p].scene # NoScene
  <2>1. ASSUME NEW s, ShownBy(p, s) PROVE ShownBy(p, s)'
    BY <1>2, <2>1 DEF ShownBy, End
  <2>2. Named(p, values[p].scene)' = Named(p, values[p].scene)
    BY <1>3 DEF Named, ScenesOf
  <2> QED
    BY <1>1, <1>3, <1>5, <2>1, <2>2 DEF Coming
<1> QED
  BY <1>4, <1>5

LEMMA SetOther ==
  ASSUME Known, NEW p \in Players, NEW e, NEW v, NEW source, Set(p, e, v, source)
  PROVE  /\ \A f \in DOMAIN Defaults : values'[p][f] = IF f = e THEN v ELSE values[p][f]
         /\ \A q \in Players \ {p} : values'[q] = values[q]
<1> DEFINE new == [values[p] EXCEPT ![e] = v]
<1>1. values' = [values EXCEPT ![p] = new]
  BY DEF Set
<1>2. \A f \in DOMAIN Defaults : new[f] = IF f = e THEN v ELSE values[p][f]
  BY DEF Known, Typed
<1> HIDE DEF new
<1> QED
  BY <1>1, <1>2 DEF Known, Typed

(* A command that is executed: on the player that is at its path.          *)
LEMMA ExecuteSets ==
  ASSUME Known, OwnPaths, name' = name, NEW c, Execute(c), c.endpoint \in Updated
  PROVE  \A p \in Players : name[p] # Nowhere =>
           \A e \in {"loop", "start", "end", "scene"} :
             values'[p][e] = IF Obeys(c, name[p], e) THEN c.value ELSE values[p][e]
<1> SUFFICES ASSUME NEW p \in Players, name[p] # Nowhere,
                    NEW e \in {"loop", "start", "end", "scene"}
             PROVE  values'[p][e] = IF Obeys(c, name[p], e) THEN c.value ELSE values[p][e]
  OBVIOUS
<1>0. e \in DOMAIN Defaults
  BY DefaultsDomain
<1>1. CASE PlayersAt(c.path) = {} \/ ~Conforms(c)
  <2>1. values' = values
    BY <1>1 DEF Execute
  <2>2. ~Obeys(c, name[p], e)
    BY <1>1 DEF Obeys, PlayersAt
  <2> QED
    BY <2>1, <2>2
<1>2. CASE ~(PlayersAt(c.path) = {} \/ ~Conforms(c))
  <2>1. PICK q \in PlayersAt(c.path) : Set(q, c.endpoint, c.value, "SYSTEM")
    BY <1>2 DEF Execute
  <2>2. q \in Players /\ name[q] = c.path /\ name[q] # Nowhere
    BY DEF PlayersAt
  <2>3. CASE p = q
    <3>1. values'[p][e] = IF e = c.endpoint THEN c.value ELSE values[p][e]
      BY <1>0, <2>1, <2>3, SetOther
    <3> QED
      BY <1>2, <2>2, <2>3, <3>1 DEF Obeys
  <2>4. CASE p # q
    <3>1. values'[p] = values[p]
      BY <2>1, <2>2, <2>4, SetOther
    <3>2. name[p] # c.path
      BY <2>2, <2>4 DEF OwnPaths
    <3> QED
      BY <3>1, <3>2 DEF Obeys
  <2> QED
    BY <2>3, <2>4
<1> QED
  BY <1>1, <1>2

(* The next command of a script brings a player nearer to what comes.      *)
LEMMA NextCommand ==
  ASSUME NEW S, NEW q \in Seq(S), q # <<>>, NEW path, NEW e, NEW v
  PROVE  /\ Leaves(q, path, e, v) =>
              \/ Leaves(Tail(q), path, e, v)
              \/ Spares(Tail(q), path, e) /\ Obeys(Head(q), path, e) /\ Head(q).value = v
         /\ Spares(q, path, e) => Spares(Tail(q), path, e) /\ ~Obeys(Head(q), path, e)
<1>1. /\ Len(q) \in Nat /\ Len(Tail(q)) = Len(q) - 1 /\ 1 \in 1..Len(q) /\ Head(q) = q[1]
      /\ \A i \in 1..(Len(q) - 1) : Tail(q)[i] = q[i + 1] /\ i + 1 \in 1..Len(q)
  OBVIOUS
<1>2. Spares(q, path, e) => Spares(Tail(q), path, e) /\ ~Obeys(Head(q), path, e)
  BY <1>1 DEF Spares
<1>3. ASSUME Leaves(q, path, e, v)
      PROVE  \/ Leaves(Tail(q), path, e, v)
             \/ Spares(Tail(q), path, e) /\ Obeys(Head(q), path, e) /\ Head(q).value = v
  <2>1. PICK i \in 1..Len(q) : /\ Obeys(q[i], path, e) /\ q[i].value = v
                               /\ \A j \in 1..Len(q) : i < j => ~Obeys(q[j], path, e)
    BY <1>3 DEF Leaves
  <2>2. CASE i = 1
    <3>1. \A j \in 1..(Len(q) - 1) : ~Obeys(Tail(q)[j], path, e)
      BY <1>1, <2>1, <2>2
    <3> QED
      BY <1>1, <2>1, <2>2, <3>1 DEF Spares
  <2>3. CASE i # 1
    <3>1. i - 1 \in 1..(Len(q) - 1) /\ Tail(q)[i - 1] = q[i]
      BY <1>1, <2>3
    <3>2. \A j \in 1..(Len(q) - 1) : i - 1 < j => ~Obeys(Tail(q)[j], path, e)
      BY <1>1, <2>1
    <3> QED
      BY <1>1, <2>1, <3>1, <3>2 DEF Leaves
  <2> QED
    BY <2>2, <2>3
<1> QED
  BY <1>2, <1>3

(* How what comes of a player goes on to come. *)
LEMMA ComingGoesOn ==
  ASSUME NEW p \in Players, Coming(p), UNCHANGED <<scenes, adrift>>,
         values'[p].scene = values[p].scene,
         \A e \in {"loop", "start", "end"} : \A v : Comes(p, e, v) => Comes(p, e, v)'
  PROVE  Coming(p)'
<1>1. CASE values[p].scene = NoScene
  BY <1>1 DEF Coming, ShowsNone
<1>2. CASE values[p].scene # NoScene
  <2>1. ASSUME NEW s, ShownBy(p, s) PROVE ShownBy(p, s)'
    BY <2>1 DEF ShownBy, End
  <2>2. Named(p, values[p].scene)' = Named(p, values[p].scene)
    BY DEF Named, ScenesOf
  <2> QED
    BY <1>2, <2>1, <2>2 DEF Coming
<1> QED
  BY <1>1, <1>2

LEMMA ContinueShows ==
  ASSUME Full, Continue
  PROVE  ShowsOK'
<1> DEFINE c == Head(script)
<1>1. /\ script # <<>> /\ script' = Tail(script) /\ UNCHANGED <<scenes, adrift>>
      /\ script \in Seq(Commanding(Names, Scripted))
  BY DEF Continue, Full, Numeric, CommandsOK
<1>2. /\ Len(script) \in Nat /\ Len(Tail(script)) = Len(script) - 1 /\ c = script[1]
      /\ \A i \in 1..(Len(script) - 1) : Tail(script)[i] = script[i + 1]
      /\ c \in Commanding(Names, Scripted)
  BY <1>1
<1>3. c.endpoint \in Scripted
  BY <1>2 DEF Commanding
<1> HIDE DEF c
<1>4. CASE c.endpoint # "delete"
  <2>1. Execute(c) /\ name' = name
    BY <1>4 DEF Continue, c
  <2>2. c.endpoint \in Updated
    BY <1>3, <1>4 DEF Scripted
  <2>3. \A p \in Players : name[p] # Nowhere =>
          \A e \in {"loop", "start", "end", "scene"} :
            values'[p][e] = IF Obeys(c, name[p], e) THEN c.value ELSE values[p][e]
    BY <2>1, <2>2, ExecuteSets DEF Full, Inv
  <2>4. ASSUME NEW p \in Players, name'[p] # Nowhere, ~Doomed(p)' PROVE Coming(p)'
    <3>1. ~Doomed(p)
      <4>1. ASSUME NEW i \in 1..Len(script), script[i].path = name[p],
                   script[i].endpoint = "delete"
            PROVE  FALSE
        <5>1. i # 1 /\ i - 1 \in 1..(Len(script) - 1)
          BY <1>2, <1>4, <4>1
        <5>2. Tail(script)[i - 1] = script[i]
          BY <1>2, <5>1
        <5> QED
          BY <1>1, <1>2, <2>1, <2>4, <4>1, <5>1, <5>2 DEF Doomed
      <4> QED
        BY <4>1 DEF Doomed
    <3>2. Coming(p)
      BY <2>1, <2>4, <3>1 DEF Full, ShowsOK
    <3>3. ASSUME NEW e \in {"loop", "start", "end"}, NEW v, Comes(p, e, v) PROVE Comes(p, e, v)'
      <4>1. /\ Leaves(script, name[p], e, v) =>
                 \/ Leaves(script', name[p], e, v)
                 \/ Spares(script', name[p], e) /\ Obeys(c, name[p], e) /\ c.value = v
            /\ Spares(script, name[p], e) => Spares(script', name[p], e) /\ ~Obeys(c, name[p], e)
        BY <1>1, NextCommand DEF c
      <4>2. values'[p][e] = IF Obeys(c, name[p], e) THEN c.value ELSE values[p][e]
        BY <2>1, <2>3, <2>4
      <4> QED
        BY <2>1, <3>3, <4>1, <4>2 DEF Comes
    <3>4. values'[p].scene = values[p].scene
      <4>1. ~Obeys(c, name[p], "scene")
        BY <2>2 DEF Obeys, Updated
      <4> QED
        BY <2>1, <2>3, <2>4, <4>1
    <3> QED
      BY <1>1, <3>2, <3>3, <3>4, ComingGoesOn
  <2> QED
    BY <2>4 DEF ShowsOK
<1>5. CASE c.endpoint = "delete"
  <2>1. PICK q \in PlayersAt(c.path) : RemoveNode(q)
    BY <1>5 DEF Continue, c
  <2>2. q \in Players /\ name[q] = c.path /\ name[q] # Nowhere
    BY DEF PlayersAt
  <2>3. /\ name'[q] = Nowhere
        /\ \A p \in Players \ {q} : name'[p] = name[p] /\ values'[p] = values[p]
    BY <2>1, <2>2 DEF RemoveNode, Full, Inv, Known, Typed
  <2>4. ASSUME NEW p \in Players, name'[p] # Nowhere, ~Doomed(p)' PROVE Coming(p)'
    <3>1. /\ p # q /\ name'[p] = name[p] /\ name[p] # Nowhere /\ values'[p] = values[p]
          /\ name[p] # c.path
      BY <2>2, <2>3, <2>4 DEF Full, OwnPaths
    <3>2. ~Doomed(p)
      <4>1. ASSUME NEW i \in 1..Len(script), script[i].path = name[p],
                   script[i].endpoint = "delete"
            PROVE  FALSE
        <5>1. i # 1 /\ i - 1 \in 1..(Len(script) - 1)
          BY <1>2, <3>1, <4>1
        <5>2. Tail(script)[i - 1] = script[i]
          BY <1>2, <5>1
        <5> QED
          BY <1>1, <1>2, <2>4, <3>1, <4>1, <5>1, <5>2 DEF Doomed
      <4> QED
        BY <4>1 DEF Doomed
    <3>3. Coming(p)
      BY <3>1, <3>2 DEF Full, ShowsOK
    <3>4. ASSUME NEW e \in {"loop", "start", "end"}, NEW v, Comes(p, e, v) PROVE Comes(p, e, v)'
      <4>1. ~Obeys(c, name[p], e)
        BY <3>1 DEF Obeys
      <4>2. /\ Leaves(script, name[p], e, v) => Leaves(script', name[p], e, v)
            /\ Spares(script, name[p], e) => Spares(script', name[p], e)
        BY <1>1, <4>1, NextCommand DEF c
      <4> QED
        BY <3>1, <3>4, <4>2 DEF Comes
    <3> QED
      BY <1>1, <3>1, <3>3, <3>4, ComingGoesOn
  <2> QED
    BY <2>4 DEF ShowsOK
<1> QED
  BY <1>4, <1>5

LEMMA ExecuteNumbers ==
  ASSUME Known, NumbersOK, RunsOK, NEW c, c.value \in Int, Execute(c), clock' = clock
  PROVE  NumbersOK' /\ RunsOK'
<1>1. CASE UNCHANGED <<values, states>>
  BY <1>1 DEF NumbersOK, RunsOK
<1>2. CASE \E p \in PlayersAt(c.path) : Set(p, c.endpoint, c.value, "SYSTEM")
  BY <1>2, SetNumbers DEF PlayersAt
<1> QED
  BY <1>1, <1>2 DEF Execute

LEMMA RemoveNumbers ==
  ASSUME Known, NumbersOK, RunsOK, NEW p \in Players, RemoveNode(p), clock' = clock
  PROVE  NumbersOK' /\ RunsOK'
<1>1. values' = [values EXCEPT ![p] = Defaults] /\ states' = Without(states, p)
  BY DEF RemoveNode
<1>2. values'[p] = Defaults /\ \A q \in Players \ {p} : values'[q] = values[q]
  BY <1>1 DEF Known, Typed
<1>3. Defaults.tick \in Int /\ Defaults.start \in Int /\ Defaults.end \in Int
  BY DEF Defaults
<1>4. /\ DOMAIN states' = DOMAIN states \ {p}
      /\ \A q \in DOMAIN states \ {p} : states'[q] = states[q]
  BY <1>1 DEF Without
<1>5. IsFiniteSet(DOMAIN states')
  BY <1>4, FS_RemoveElement DEF RunsOK
<1> QED
  BY <1>2, <1>3, <1>4, <1>5 DEF NumbersOK, RunsOK

LEMMA RenameNumbers ==
  ASSUME Known, NumbersOK, RunsOK, NEW p \in Players, NEW n, Rename(p, n)
  PROVE  NumbersOK' /\ RunsOK'
<1>1. /\ values' = values /\ clock' = clock
      /\ states' = IF p \in DOMAIN states THEN [states EXCEPT ![p].path = n] ELSE states
  BY DEF Rename
<1>2. DOMAIN states' = DOMAIN states
  BY <1>1
<1>3. ASSUME NEW q \in DOMAIN states
      PROVE  Integral(states'[q]) /\ StaysInLoop(states'[q]) /\ KeepsPhase(states'[q])
  <2> DEFINE s == states[q]
             t == states'[q]
  <2>1. Integral(s) /\ StaysInLoop(s) /\ KeepsPhase(s)
    BY DEF RunsOK
  <2>2. DOMAIN s = {"path", "initial", "previous", "since", "seen", "loop", "start", "end"}
    BY DEF Known, Whole
  <2>3. t = s \/ t = [s EXCEPT !.path = n]
    BY <1>1
  <2> HIDE DEF s, t
  <2>4. /\ t.initial = s.initial /\ t.previous = s.previous /\ t.since = s.since
        /\ t.seen = s.seen /\ t.loop = s.loop /\ t.start = s.start /\ t.end = s.end
    BY <2>2, <2>3
  <2>5. Integral(t) /\ StaysInLoop(t) /\ KeepsPhase(t)
    BY <2>1, <2>4 DEF Integral, StaysInLoop, KeepsPhase, Duration
  <2> QED
    BY <2>5 DEF t
<1> QED
  BY <1>1, <1>2, <1>3 DEF NumbersOK, RunsOK

(* A new path, for a player that had one or for a new player.              *)
LEMMA PathShows ==
  ASSUME Full, NEW p \in Players, NEW n \in Names, Rename(p, n) \/ New(p, n)
  PROVE  OwnPaths' /\ ShowsOK'
<1>1. /\ script = <<>> /\ name' = [name EXCEPT ![p] = n] /\ \A q \in Players : name[q] # n
      /\ UNCHANGED <<values, scenes, script, adrift>>
  BY DEF Rename, New, InSession
<1>2. name'[p] = n /\ \A q \in Players \ {p} : name'[q] = name[q]
  BY <1>1 DEF Full, Inv, Known, Typed
<1>3. OwnPaths'
  <2> SUFFICES ASSUME NEW q \in Players, NEW r \in Players, name'[q] = name'[r],
                      name'[q] # Nowhere
               PROVE  q = r
    BY DEF OwnPaths
  <2>1. CASE q = p
    BY <1>1, <1>2, <2>1
  <2>2. CASE r = p
    BY <1>1, <1>2, <2>2
  <2>3. CASE q # p /\ r # p
    BY <1>2, <2>3 DEF Full, OwnPaths
  <2> QED
    BY <2>1, <2>2, <2>3
<1>4. ASSUME NEW q \in Players, name'[q] # Nowhere PROVE Coming(q)'
  <2>1. \A e, v : Comes(q, e, v) => Comes(q, e, v)'
    BY <1>1, EmptySpares DEF Comes
  <2>2. Coming(q)
    <3>1. CASE name[q] # Nowhere
      BY <1>1, <3>1, NotDoomedNow DEF Full, ShowsOK
    <3>2. CASE name[q] = Nowhere
      <4>1. values[q] = Defaults
        BY <3>2 DEF Full, Inv, Known, Whole
      <4>2. /\ values[q]["loop"] = 0 /\ values[q]["start"] = -1 /\ values[q]["end"] = -1
            /\ values[q].scene = NoScene
        BY <4>1 DEF Defaults
      <4> QED
        BY <1>1, <4>2, ComesNow DEF Coming, ShowsNone
    <3> QED
      BY <3>1, <3>2
  <2> QED
    BY <1>1, <2>1, <2>2, ComingGoesOn
<1> QED
  BY <1>3, <1>4 DEF ShowsOK

LEMMA InitFull == Init => Full
<1> SUFFICES ASSUME Init PROVE Full
  OBVIOUS
<1>1. Inv
  BY InitInv
<1>2. PICK project \in Projects : name = project.name /\ scenes = project.scenes
  BY DEF Init
<1>3. OwnPaths /\ OwnNames
  BY <1>2, PlayersAssumption DEF OwnPaths, OwnNames
<1>4. DOMAIN states = {} /\ script = <<>> /\ pending = <<>> /\ clock = 0
  BY DEF Init
<1>5. \A p \in Players :
        /\ values[p] = Defaults /\ values[p].tick = 0
        /\ values[p]["loop"] = 0 /\ values[p]["start"] = -1 /\ values[p]["end"] = -1
        /\ values[p].scene = NoScene
  BY DEF Init, Defaults
<1>6. Numeric
  <2>1. RunsOK
    BY <1>4, FS_EmptySet DEF RunsOK
  <2>2. \A S : <<>> \in Seq(S)
    OBVIOUS
  <2> QED
    BY <1>4, <1>5, <2>1, <2>2 DEF Numeric, NumbersOK, CommandsOK
<1>7. ShowsOK
  BY <1>4, <1>5, ComesNow DEF ShowsOK, Coming, ShowsNone
<1> QED
  BY <1>1, <1>3, <1>6, <1>7 DEF Full

(* Sets of the user: "play", "active" and "tick". *)
LEMMA ApiSetFull ==
  ASSUME Full, NEW p \in Players, NEW e \in {"play", "active", "tick"}, NEW v,
         e = "tick" => v \in Int, ApiSet(p, e, v)
  PROVE  Numeric' /\ OwnPaths' /\ OwnNames' /\ ShowsOK'
<1>1. /\ Set(p, e, v, "PUBLIC_API")
      /\ UNCHANGED <<name, scenes, pending, script, clock, adrift>>
  BY DEF ApiSet
<1>2. NumbersOK' /\ RunsOK'
  BY <1>1, SetNumbers DEF Full, Inv, Numeric
<1>3. \A q \in Players : \A f \in {"loop", "start", "end", "scene"} :
        values'[q][f] = values[q][f]
  <2>1. \A f \in {"loop", "start", "end", "scene"} : f \in DOMAIN Defaults /\ f # e
    BY DefaultsDomain
  <2> QED
    BY <1>1, <2>1, SetOther DEF Full, Inv
<1>4. ShowsOK'
  BY <1>1, <1>3, SteadyShows DEF Full
<1> QED
  BY <1>1, <1>2, <1>4 DEF Full, Numeric, CommandsOK, OwnPaths, OwnNames

LEMMA ThreadFull ==
  ASSUME Full, ThreadExecute
  PROVE  Numeric' /\ OwnPaths' /\ OwnNames' /\ ShowsOK'
<1> DEFINE c == Head(pending)
<1>1. /\ Execute(c) /\ pending # <<>> /\ pending' = Tail(pending)
      /\ UNCHANGED <<name, scenes, script, clock, adrift>>
      /\ pending \in Seq(Commanding(Names, Advanced))
  BY DEF ThreadExecute, Full, Numeric, CommandsOK
<1>2. c \in Commanding(Names, Advanced) /\ pending' \in Seq(Commanding(Names, Advanced))
  BY <1>1
<1>3. c.value \in Int /\ c.endpoint \in Advanced
  BY <1>2 DEF Commanding
<1> HIDE DEF c
<1>4. NumbersOK' /\ RunsOK'
  BY <1>1, <1>3, ExecuteNumbers DEF Full, Inv, Numeric
<1>5. \A q \in Players : \A f \in {"loop", "start", "end", "scene"} :
        values'[q][f] = values[q][f]
  <2>1. CASE values' = values
    BY <2>1
  <2>2. CASE \E p \in PlayersAt(c.path) : Set(p, c.endpoint, c.value, "SYSTEM")
    <3>1. PICK p \in PlayersAt(c.path) : Set(p, c.endpoint, c.value, "SYSTEM")
      BY <2>2
    <3>2. \A f \in {"loop", "start", "end", "scene"} : f \in DOMAIN Defaults /\ f # c.endpoint
      BY <1>3, DefaultsDomain DEF Advanced
    <3>3. p \in Players
      BY DEF PlayersAt
    <3>4. /\ \A f \in DOMAIN Defaults :
               values'[p][f] = IF f = c.endpoint THEN c.value ELSE values[p][f]
          /\ \A q \in Players \ {p} : values'[q] = values[q]
      BY <3>1, <3>3, SetOther DEF Full, Inv
    <3> QED
      BY <3>2, <3>4
  <2> QED
    BY <1>1, <2>1, <2>2 DEF Execute
<1>6. ShowsOK'
  BY <1>1, <1>5, SteadyShows DEF Full
<1> QED
  BY <1>1, <1>2, <1>4, <1>6 DEF Full, Numeric, CommandsOK, OwnPaths, OwnNames

LEMMA StepFull == Full /\ [Next]_vars => Full'
<1> SUFFICES ASSUME Full, [Next]_vars PROVE Numeric' /\ OwnPaths' /\ OwnNames' /\ ShowsOK'
  BY StepInv DEF Full
<1>1. CASE Lock \/ Unlock \/ ThreadLock \/ ThreadUnlock \/ UNCHANGED vars
  <2>1. UNCHANGED <<name, values, scenes, states, pending, script, clock, adrift>>
    BY <1>1 DEF Lock, Unlock, ThreadLock, ThreadUnlock, vars
  <2>2. ShowsOK'
    BY <2>1, SteadyShows DEF Full
  <2> QED
    BY <2>1, <2>2 DEF Full, Numeric, CommandsOK, NumbersOK, RunsOK, OwnPaths, OwnNames
<1>2. CASE Time \/ \E d \in Leaps : Leap(d)
  <2>1. UNCHANGED <<name, values, scenes, states, pending, script, adrift>>
    BY <1>2 DEF Time, Leap
  <2>2. clock' \in Int
    BY <1>2, PlayersAssumption DEF Time, Leap, Full, Numeric, NumbersOK
  <2>3. ShowsOK'
    BY <2>1, SteadyShows DEF Full
  <2> QED
    BY <2>1, <2>2, <2>3 DEF Full, Numeric, CommandsOK, NumbersOK, RunsOK, OwnPaths, OwnNames
<1>3. CASE Continue
  <2>1. /\ script # <<>> /\ script' = Tail(script) /\ UNCHANGED <<scenes, pending, clock>>
        /\ script \in Seq(Commanding(Names, Scripted))
    BY <1>3 DEF Continue, Full, Numeric, CommandsOK
  <2>2. /\ Head(script) \in Commanding(Names, Scripted)
        /\ script' \in Seq(Commanding(Names, Scripted))
    BY <2>1
  <2>3. Head(script).value \in Int
    BY <2>2 DEF Commanding
  <2>4. CommandsOK' /\ OwnNames'
    BY <2>1, <2>2 DEF CommandsOK, OwnNames, Full, Numeric
  <2>5. NumbersOK' /\ RunsOK' /\ OwnPaths'
    <3>1. CASE Head(script).endpoint # "delete"
      <4>1. Execute(Head(script)) /\ name' = name
        BY <1>3, <3>1 DEF Continue
      <4> QED
        BY <2>1, <2>3, <4>1, ExecuteNumbers DEF Full, Inv, Numeric, OwnPaths
    <3>2. CASE Head(script).endpoint = "delete"
      <4>1. PICK p \in PlayersAt(Head(script).path) : RemoveNode(p)
        BY <1>3, <3>2 DEF Continue
      <4>2. p \in Players
        BY DEF PlayersAt
      <4>3. NumbersOK' /\ RunsOK'
        BY <2>1, <4>1, <4>2, RemoveNumbers DEF Full, Inv, Numeric
      <4>4. name'[p] = Nowhere /\ \A q \in Players \ {p} : name'[q] = name[q]
        BY <4>1, <4>2 DEF RemoveNode, Full, Inv, Known, Typed
      <4> QED
        BY <4>3, <4>4 DEF Full, OwnPaths
    <3> QED
      BY <3>1, <3>2
  <2> QED
    BY <1>3, <2>4, <2>5, ContinueShows DEF Numeric
<1>4. CASE ThreadExecute
  BY <1>4, ThreadFull
<1>5. CASE Compute
  <2>1. UNCHANGED <<name, values, scenes, script, adrift>>
    BY <1>5 DEF Compute
  <2>2. ShowsOK'
    BY <2>1, SteadyShows DEF Full
  <2> QED
    BY <1>5, <2>1, <2>2, ComputeNumbers DEF Full, Inv, Numeric, CommandsOK, OwnPaths, OwnNames
<1>6. ASSUME NEW p \in Players,
             \/ \E e \in Switches, v \in {0, 1} : ApiSet(p, e, v)
             \/ \E v \in Ticks : ApiSet(p, "tick", v)
      PROVE  Numeric' /\ OwnPaths' /\ OwnNames' /\ ShowsOK'
  BY <1>6, ApiSetFull, PlayersAssumption
<1>7. ASSUME NEW p \in Players,
             \/ (\E nm : SelectScene(p, nm)) \/ NextScene(p) \/ PrevScene(p) \/ Home(p) \/ Delete(p)
             \/ \E s \in Scenes, nm \in SceneNames : NewScene(p, s, nm)
      PROVE  Numeric' /\ OwnPaths' /\ OwnNames' /\ ShowsOK'
  <2>1. NextScene(p) \/ PrevScene(p) => \E nm : SelectScene(p, nm)
    BY DEF NextScene, PrevScene
  <2>2. Called(p)
    BY <1>7, <2>1, SelectCalled, HomeCalled, DeleteCalled, NewSceneCalled
  <2> QED
    BY <2>2, CalledKeeps
<1>8. ASSUME NEW p \in Players, NEW n \in Names, Rename(p, n) \/ New(p, n)
      PROVE  Numeric' /\ OwnPaths' /\ OwnNames' /\ ShowsOK'
  <2>1. UNCHANGED <<values, scenes, pending, script, clock>>
    BY <1>8 DEF Rename, New
  <2>2. NumbersOK' /\ RunsOK'
    <3>1. CASE Rename(p, n)
      BY <3>1, RenameNumbers DEF Full, Inv, Numeric
    <3>2. CASE New(p, n)
      BY <2>1, <3>2 DEF New, Full, Numeric, NumbersOK, RunsOK
    <3> QED
      BY <1>8, <3>1, <3>2
  <2> QED
    BY <1>8, <2>1, <2>2, PathShows DEF Full, Numeric, CommandsOK, OwnNames
<1>9. ASSUME NEW s \in DOMAIN scenes,
             \/ \E mode \in Modes : SetMode(s, mode)
             \/ \E start \in Starts : SetStart(s, start)
             \/ \E length \in Lengths : SetLength(s, length)
             \/ \E nm \in SceneNames : RenameScene(s, nm)
             \/ \E q \in Players : MoveScene(s, q)
             \/ DeleteScene(s)
      PROVE  Numeric' /\ OwnPaths' /\ OwnNames' /\ ShowsOK'
  <2> DEFINE old == scenes[s]
  <2>1. old \in SceneType
    BY DEF Full, Inv, ScenesOK
  <2>2. PICK p \in Players : p = scenes[s].player
    BY <2>1 DEF SceneType
  <2>3. Called(p)
    <3>1. ASSUME NEW mode \in Modes, SetMode(s, mode) PROVE Called(p)
      <4> DEFINE scene == [old EXCEPT !.mode = mode]
      <4>1. scene \in SceneType /\ scene.player = p /\ scene.name = scenes[s].name
        BY <2>1, <2>2 DEF SceneType
      <4>2. Edited(s, scene, ModeCommands(scene.player, scene))
        BY <3>1 DEF SetMode
      <4> HIDE DEF scene
      <4> QED
        BY <2>2, <4>1, <4>2, EditCalled
    <3>2. ASSUME NEW start \in Starts, SetStart(s, start) PROVE Called(p)
      <4> DEFINE scene == [old EXCEPT !.start = start]
      <4>1. /\ scene \in SceneType /\ scene.player = p /\ scene.name = scenes[s].name
            /\ scene.mode = scenes[s].mode
        BY <2>1, <2>2, PlayersAssumption DEF SceneType
      <4>2. Edited(s, scene, SpanCommands(scene.player, scene))
        BY <3>2 DEF SetStart
      <4> HIDE DEF scene
      <4> QED
        BY <2>2, <4>1, <4>2, EditCalled
    <3>3. ASSUME NEW length \in Lengths, SetLength(s, length) PROVE Called(p)
      <4> DEFINE scene == [old EXCEPT !.length = length]
      <4>1. /\ scene \in SceneType /\ scene.player = p /\ scene.name = scenes[s].name
            /\ scene.mode = scenes[s].mode
        BY <2>1, <2>2, PlayersAssumption DEF SceneType
      <4>2. Edited(s, scene, SpanCommands(scene.player, scene))
        BY <3>3 DEF SetLength
      <4> HIDE DEF scene
      <4> QED
        BY <2>2, <4>1, <4>2, EditCalled
    <3> QED
      BY <1>9, <2>2, <3>1, <3>2, <3>3, RenameSceneCalled, MoveSceneCalled, DeleteSceneCalled
  <2> QED
    BY <2>3, CalledKeeps
<1> QED
  BY <1>1, <1>2, <1>3, <1>4, <1>5, <1>6, <1>7, <1>8, <1>9 DEF Next, Thread

LEMMA SpecFull == Spec => []Full
BY InitFull, StepFull, PTL DEF Spec

(* Wherever the clock is put, and however long the thread is late, a       *)
(* player that loops and began before its end is never set to its end.     *)
THEOREM LoopsStayBeforeEnd == Spec => []LoopsWrap
<1>1. Full => LoopsWrap
  BY DEF Full, Numeric, RunsOK, StaysInLoop, LoopsWrap
<1> QED
  BY <1>1, SpecFull, PTL

(* Each update takes a player on by what the clock has gone on since the   *)
(* last one, whole rounds of its loop apart, or lets it stand still where  *)
(* the clock has leapt or the rounds amount to more than Sanity: for any   *)
(* players, spans and leaps of the clock.                                  *)
THEOREM TimeIsKept == Spec => KeepsTime
<1> DEFINE OnTime(p) ==
             LET s == states[p]
                 tick == states'[p].previous
             IN  \/ Advances(s, tick, Passed(s))
                 \/ Advances(s, tick, 0) /\ Distance(Rounded(s) + Passed(s), 0) > Sanity
<1>1. ASSUME Full, Compute, NEW p \in DOMAIN states PROVE OnTime(p)
  <2>1. Integral(states[p]) /\ KeepsPhase(states[p]) /\ clock \in Int
    BY <1>1 DEF Full, Numeric, RunsOK, NumbersOK
  <2>2. states'[p] = [states[p] EXCEPT !.previous = NewTick(states[p]),
                                       !.since = Since(states[p]), !.seen = clock]
    BY <1>1 DEF Compute
  <2>3. "previous" \in DOMAIN states[p]
    BY <1>1 DEF Full, Inv, Known, Whole
  <2>4. states'[p].previous = NewTick(states[p])
    BY <2>2, <2>3
  <2> QED
    BY <2>1, <2>4, UpdateKeepsTime
<1>2. Full => [Compute => \A p \in DOMAIN states : OnTime(p)]_vars
  BY <1>1
<1> QED
  BY <1>2, SpecFull, PTL DEF KeepsTime

(* A player plays the scene that it names, whatever has been done to       *)
(* scenes and players, in whatever order: for any of them.                 *)
THEOREM PlayersPlayScenes == Spec => []PlayersShowScenes
<1>1. Full => PlayersShowScenes
  <2> SUFFICES ASSUME Full, NEW p \in Players \ adrift, script = <<>>, name[p] # Nowhere
               PROVE  IF values[p].scene = NoScene
                        THEN values[p].loop = 0 /\ values[p].start = -1 /\ values[p].end = -1
                        ELSE \E s \in Named(p, values[p].scene) :
                               scenes[s].start >= -1 /\ End(scenes[s]) >= -1
                               => Shows(p, scenes[s])
    BY DEF PlayersShowScenes
  <2>1. Coming(p)
    BY NotDoomedNow DEF Full, ShowsOK
  <2>2. CASE values[p].scene = NoScene
    BY <2>1, <2>2, ComesNow DEF Coming, ShowsNone
  <2>3. CASE values[p].scene # NoScene
    <3>1. PICK s \in Named(p, values[p].scene) : ShownBy(p, s)
      BY <2>1, <2>3 DEF Coming
    <3>2. scenes[s].start >= -1 /\ End(scenes[s]) >= -1 => Shows(p, scenes[s])
      BY <3>1, ComesNow DEF ShownBy, Shows
    <3> QED
      BY <2>3, <3>1, <3>2
  <2> QED
    BY <2>2, <2>3
<1> QED
  BY <1>1, SpecFull, PTL
=============================================================================
