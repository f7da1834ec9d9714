-------------------------- MODULE AudioWiring_proofs --------------------------
(***************************************************************************)
(* Proofs about NodeTree and AudioWiring, for any nodes, kinds, names and  *)
(* depths: only moves that are refused or go to a taken name part the      *)
(* copies of the tree, wires agree with connections as long as callers are *)
(* careful, and connections follow what they refer to.                     *)
(*                                                                         *)
(* The inductive invariant of the tree is Whole: unless a node is lost,    *)
(* Tree (the maps and the parents agree, and each path is the parent's     *)
(* with the name) and Table (the state table lists just those paths).  A   *)
(* bad move ends in a state that is not Intact (MoveCases), a circle of    *)
(* nodes in a new process.  For the rest it takes to know what the         *)
(* recursive functions of the model compute: Subtree(n) is the nodes whose *)
(* paths continue n's (Subtrees), AtOrAbove(p) holds the places whose      *)
(* paths p's continues (PrefixIsAbove), and Repathed(n, p, nm) gives each  *)
(* node below n its parent's new path with its name (RepathedIs).  Where   *)
(* one would argue by induction, the least counterexample is looked at     *)
(* (LeastNumber).                                                          *)
(*                                                                         *)
(* That a connection follows what it refers to (EndsFollow) is about one   *)
(* step from such a state: a relocated node's path is the old one with its *)
(* beginning exchanged (PathAfter), and so is an end that is rewritten     *)
(* (ReprefixedIs), which happens where the node is on the way from the     *)
(* connection's owner to what the end refers to, and, as strings that      *)
(* begin alike name other nodes only where names of siblings do            *)
(* (OnTheWay), nowhere else.                                               *)
(***************************************************************************)
EXTENDS AudioWiring, FiniteSetTheorems, WellFoundedInduction, TLAPS

(* In place of induction: a set of counterexamples has a least one. *)
LEMMA LeastNumber ==
  ASSUME NEW T \in SUBSET Nat, T # {}
  PROVE  \E n \in T : \A m \in T : n <= m
<1> DEFINE Less == {ss \in Nat \X Nat : ss[1] < ss[2]}
<1>0. Less = OpToRel(<, Nat)
  BY DEF OpToRel
<1>1. IsWellFoundedOn(Less, Nat)
  BY NatLessThanWellFounded, <1>0
<1>2. \E n \in T : \A m \in T : ~(<<m, n>> \in Less)
  <2> HIDE DEF Less
  <2> QED BY <1>1, WFMin
<1>3. PICK n \in T : \A m \in T : ~(<<m, n>> \in Less)
  BY <1>2
<1>4. ASSUME NEW m \in T PROVE n <= m
  <2>1. n \in Nat /\ m \in Nat
    OBVIOUS
  <2>2. ~(<<m, n>> \in Less)
    BY <1>3
  <2>3. ~(m < n)
    BY <2>1, <2>2
  <2> QED
    BY <2>1, <2>3
<1> QED
  BY <1>4

-----------------------------------------------------------------------------
(* The tree *)

(* What the maps and the parents say of the nodes that exist.              *)
TreeTyped ==
  /\ alive \subseteq Nodes
  /\ DOMAIN parent = Nodes /\ DOMAIN name = Nodes /\ DOMAIN path = Nodes
  /\ DOMAIN children = Places
  /\ \A n \in alive : /\ parent[n] \in alive \cup {Top} /\ name[n] \in Names
                      /\ path[n] \in Seq(Names)
  /\ \A p \in Places : /\ DOMAIN children[p] \subseteq Names
                       /\ \A nm \in DOMAIN children[p] : children[p][nm] \in alive
  /\ \A p \in Nodes \ alive : DOMAIN children[p] = {}

PathsChained == \A n \in alive : path[n] = Append(PathOf(parent[n]), name[n])

(* ParentsListChildren, as one equivalence. *)
MapsListChildren ==
  \A p \in alive \cup {Top}, n \in Nodes, nm \in Names :
    (nm \in DOMAIN children[p] /\ children[p][nm] = n)
      <=> (n \in alive /\ parent[n] = p /\ name[n] = nm)

Tree == TreeTyped /\ MapsListChildren /\ PathsChained

LEMMA PathTyped ==
  ASSUME Tree, NEW p \in alive \cup {Top}
  PROVE  PathOf(p) \in Seq(Names) /\ Len(PathOf(p)) \in Nat
BY DEF Tree, TreeTyped, PathOf

LEMMA PathParts ==
  ASSUME Tree, NEW n \in alive
  PROVE  /\ parent[n] \in alive \cup {Top} /\ name[n] \in Names
         /\ path[n] \in Seq(Names) /\ Len(path[n]) \in Nat
         /\ Len(path[n]) = Len(PathOf(parent[n])) + 1
         /\ path[n][Len(path[n])] = name[n]
         /\ \A i \in 1..Len(PathOf(parent[n])) : path[n][i] = PathOf(parent[n])[i]
<1>1. PathOf(parent[n]) \in Seq(Names) /\ name[n] \in Names
  BY PathTyped DEF Tree, TreeTyped
<1>2. path[n] = Append(PathOf(parent[n]), name[n])
  BY DEF Tree, PathsChained
<1>3. \A s \in Seq(Names) : \A x \in Names :
        /\ Len(Append(s, x)) = Len(s) + 1 /\ Append(s, x)[Len(s) + 1] = x
        /\ \A i \in 1..Len(s) : Append(s, x)[i] = s[i]
  OBVIOUS
<1> QED
  BY <1>1, <1>2, <1>3 DEF Tree, TreeTyped

(* Siblings have different names. *)
LEMMA SiblingNames ==
  ASSUME Tree, NEW m \in alive, NEW n \in alive, parent[m] = parent[n], name[m] = name[n]
  PROVE  m = n
<1>1. /\ children[parent[m]][name[m]] = m
  BY PathParts DEF Tree, TreeTyped, MapsListChildren
<1>2. /\ children[parent[n]][name[n]] = n
  BY PathParts DEF Tree, TreeTyped, MapsListChildren
<1> QED
  BY <1>1, <1>2

(* So no two nodes have one path. *)
LEMMA PathsDiffer ==
  ASSUME Tree
  PROVE  \A m, n \in alive : path[m] = path[n] => m = n
<1> DEFINE twice == {k \in Nat : \E m, n \in alive :
                       m # n /\ path[m] = path[n] /\ Len(path[m]) = k}
<1>1. twice = {}
  <2> SUFFICES ASSUME twice # {} PROVE FALSE
    OBVIOUS
  <2>1. twice \in SUBSET Nat
    OBVIOUS
  <2>2. PICK k \in twice : \A j \in twice : k <= j
    <3> HIDE DEF twice
    <3> QED
      BY <2>1, LeastNumber
  <2>3. PICK m \in alive, n \in alive : m # n /\ path[m] = path[n] /\ Len(path[m]) = k
    OBVIOUS
  <2>4. name[m] = name[n] /\ Len(PathOf(parent[m])) = Len(PathOf(parent[n]))
    <3>1. Len(PathOf(parent[m])) \in Nat /\ Len(PathOf(parent[n])) \in Nat
      BY PathParts, PathTyped
    <3> QED
      BY <2>3, <3>1, PathParts
  <2>5. PathOf(parent[m]) = PathOf(parent[n])
    <3>1. PathOf(parent[m]) \in Seq(Names) /\ PathOf(parent[n]) \in Seq(Names)
      BY PathParts, PathTyped
    <3>2. ASSUME NEW i \in 1..Len(PathOf(parent[m]))
          PROVE  PathOf(parent[m])[i] = PathOf(parent[n])[i]
      <4>1. i \in 1..Len(PathOf(parent[n]))
        BY <2>4
      <4>2. path[m][i] = PathOf(parent[m])[i]
        BY PathParts
      <4>3. path[n][i] = PathOf(parent[n])[i]
        BY <4>1, PathParts
      <4> QED
        BY <2>3, <4>2, <4>3
    <3>3. \A s, t \in Seq(Names) : Len(s) = Len(t) /\ (\A i \in 1..Len(s) : s[i] = t[i]) => s = t
      OBVIOUS
    <3> QED
      BY <2>4, <3>1, <3>2, <3>3
  <2>6. parent[m] # parent[n]
    BY <2>3, <2>4, SiblingNames
  <2>7. parent[m] # Top /\ parent[n] # Top
    <3>1. ASSUME NEW a \in alive PROVE Len(PathOf(a)) > 0 /\ a # Top
      <4>1. a # Top
        BY NodeTreeAssumption DEF Tree, TreeTyped
      <4>2. Len(path[a]) > 0
        BY PathParts, PathTyped
      <4> QED
        BY <4>1, <4>2 DEF PathOf
    <3>2. Len(PathOf(Top)) = 0
      BY DEF PathOf
    <3> QED
      BY <2>4, <2>6, <3>1, <3>2, PathParts
  <2>8. /\ parent[m] \in alive /\ parent[n] \in alive
        /\ path[parent[m]] = path[parent[n]]
        /\ Len(path[parent[m]]) \in Nat /\ Len(path[parent[m]]) = k - 1
    <3>1. parent[m] \in alive /\ parent[n] \in alive
      BY <2>7, PathParts
    <3>2. PathOf(parent[m]) = path[parent[m]] /\ PathOf(parent[n]) = path[parent[n]]
      BY <2>7 DEF PathOf
    <3>3. Len(PathOf(parent[m])) \in Nat /\ Len(PathOf(parent[m])) + 1 = k
      BY <2>3, <3>1, PathParts, PathTyped
    <3>4. path[parent[m]] = path[parent[n]]
      BY <2>5, <3>2
    <3>5. Len(path[parent[m]]) \in Nat /\ Len(path[parent[m]]) + 1 = k
      BY <3>2, <3>3
    <3> QED
      BY <3>1, <3>4, <3>5
  <2>9. k - 1 \in twice
    BY <2>6, <2>8
  <2> HIDE DEF twice
  <2> QED
    BY <2>1, <2>2, <2>9
<1> QED
  BY <1>1, PathParts

-----------------------------------------------------------------------------
(* What is reached in so many steps: the recursion of Subtree and AtOrAbove *)

Step(S, R, T) == T \cup {b \in S : \E a \in T : <<a, b>> \in R}

IsLevels(level, S, R, start) ==
  /\ level \in [Nat -> SUBSET S]
  /\ level[0] = {start}
  /\ \A k \in Nat : level[k + 1] = Step(S, R, level[k])

(* Such levels exist: what is at the end of chains of so many steps.       *)
LEMMA LevelsExist ==
  ASSUME NEW S, NEW R, NEW start \in S
  PROVE  \E level : IsLevels(level, S, R, start)
<1> DEFINE Chain(s, k) ==
             /\ s \in [0..k -> S] /\ s[0] = start
             /\ \A i \in 1..k : s[i] = s[i-1] \/ <<s[i-1], s[i]>> \in R
           W == [k \in Nat |-> {b \in S : \E s : Chain(s, k) /\ s[k] = b}]
<1>1. W \in [Nat -> SUBSET S]
  OBVIOUS
<1>2. W[0] = {start}
  <2>1. Chain([i \in 0..0 |-> start], 0)
    OBVIOUS
  <2>2. ASSUME NEW b \in W[0] PROVE b = start
    OBVIOUS
  <2>3. start \in W[0]
    BY <2>1
  <2> QED
    BY <2>2, <2>3
<1>3. ASSUME NEW k \in Nat PROVE W[k + 1] = Step(S, R, W[k])
  <2>1. ASSUME NEW b \in W[k + 1] PROVE b \in Step(S, R, W[k])
    <3>1. PICK s : Chain(s, k + 1) /\ s[k + 1] = b
      OBVIOUS
    <3> DEFINE t == [i \in 0..k |-> s[i]]
    <3>2. s[k] \in S /\ b \in S
      BY <3>1
    <3>3. Chain(t, k) /\ t[k] = s[k]
      <4>1. t \in [0..k -> S] /\ t[0] = start /\ t[k] = s[k]
        BY <3>1
      <4>2. ASSUME NEW i \in 1..k PROVE t[i] = t[i-1] \/ <<t[i-1], t[i]>> \in R
        <5>1. i \in 1..(k+1) /\ t[i] = s[i] /\ t[i-1] = s[i-1]
          OBVIOUS
        <5> QED
          BY <3>1, <5>1
      <4> QED
        BY <4>1, <4>2
    <3>4. s[k] \in W[k]
      BY <3>2, <3>3
    <3>5. s[k+1] = s[k] \/ <<s[k], s[k+1]>> \in R
      <4>1. k + 1 \in 1..(k+1) /\ (k + 1) - 1 = k
        OBVIOUS
      <4> QED
        BY <3>1, <4>1
    <3> HIDE DEF W, Chain, t
    <3> QED
      BY <3>1, <3>2, <3>4, <3>5 DEF Step
  <2>2. ASSUME NEW b \in Step(S, R, W[k]) PROVE b \in W[k + 1]
    <3>1. PICK a \in W[k] : b = a \/ (b \in S /\ <<a, b>> \in R)
      <4> HIDE DEF W
      <4> QED
        BY DEF Step
    <3>2. PICK s : Chain(s, k) /\ s[k] = a
      OBVIOUS
    <3>3. a \in S /\ b \in S
      BY <3>1
    <3> DEFINE t == [i \in 0..(k+1) |-> IF i = k + 1 THEN b ELSE s[i]]
    <3>4. t \in [0..(k+1) -> S] /\ t[0] = start /\ t[k+1] = b
      BY <3>2, <3>3
    <3>5. ASSUME NEW i \in 1..(k+1) PROVE t[i] = t[i-1] \/ <<t[i-1], t[i]>> \in R
      <4>1. CASE i = k + 1
        <5>1. t[i] = b /\ t[i-1] = a
          BY <3>2, <4>1
        <5> HIDE DEF t
        <5> QED
          BY <3>1, <5>1
      <4>2. CASE i # k + 1
        <5>1. i \in 1..k /\ t[i] = s[i] /\ t[i-1] = s[i-1]
          BY <4>2
        <5> HIDE DEF t
        <5> QED
          BY <3>2, <5>1
      <4> QED
        BY <4>1, <4>2
    <3>6. Chain(t, k + 1)
      BY <3>4, <3>5
    <3> HIDE DEF t
    <3>7. t[k + 1] = b /\ k + 1 \in Nat
      BY <3>4
    <3> HIDE DEF Chain
    <3> QED
      BY <3>3, <3>6, <3>7
  <2> QED
    BY <2>1, <2>2
<1> HIDE DEF W
<1>4. IsLevels(W, S, R, start)
  BY <1>1, <1>2, <1>3 DEF IsLevels
<1> QED
  BY <1>4

LEMMA LevelsGrow ==
  ASSUME NEW S, NEW R, NEW start, NEW level, IsLevels(level, S, R, start),
         NEW i \in Nat, NEW j \in Nat, i <= j
  PROVE  level[i] \subseteq level[j]
<1> DEFINE bad == {k \in Nat : i <= k /\ ~(level[i] \subseteq level[k])}
<1>1. bad = {}
  <2> SUFFICES ASSUME bad # {} PROVE FALSE
    OBVIOUS
  <2>1. bad \in SUBSET Nat
    OBVIOUS
  <2>2. PICK k \in bad : \A m \in bad : k <= m
    <3> HIDE DEF bad
    <3> QED
      BY <2>1, LeastNumber
  <2>3. k \in Nat /\ i <= k /\ ~(level[i] \subseteq level[k])
    OBVIOUS
  <2>4. k # i
    BY <2>3
  <2>5. k - 1 \in Nat /\ i <= k - 1 /\ k - 1 < k
    BY <2>3, <2>4
  <2>6. k - 1 \notin bad
    <3> HIDE DEF bad
    <3> QED
      BY <2>2, <2>3, <2>5
  <2>7. level[i] \subseteq level[k - 1]
    BY <2>5, <2>6
  <2>8. level[k] = Step(S, R, level[k - 1])
    <3>1. (k - 1) + 1 = k
      BY <2>3
    <3> QED
      BY <2>5, <3>1 DEF IsLevels
  <2> QED
    BY <2>3, <2>7, <2>8 DEF Step
<1> QED
  BY <1>1

LEMMA LevelsAre ==
  ASSUME NEW S, NEW R, NEW start \in S, NEW level,
         level = [k \in Nat |-> level[k]], level[0] = {start},
         \A k \in Nat : level[k] \in SUBSET S => level[k + 1] = Step(S, R, level[k])
  PROVE  IsLevels(level, S, R, start)
<1> DEFINE bad == {k \in Nat : ~(level[k] \in SUBSET S)}
<1>1. bad = {}
  <2> SUFFICES ASSUME bad # {} PROVE FALSE
    OBVIOUS
  <2>1. bad \in SUBSET Nat
    OBVIOUS
  <2>2. PICK k \in bad : \A m \in bad : k <= m
    <3> HIDE DEF bad
    <3> QED
      BY <2>1, LeastNumber
  <2>3. k \in Nat /\ ~(level[k] \in SUBSET S)
    OBVIOUS
  <2>4. k # 0
    BY <2>3
  <2>5. k - 1 \in Nat /\ k - 1 < k /\ (k - 1) + 1 = k
    BY <2>3, <2>4
  <2>6. k - 1 \notin bad
    <3> HIDE DEF bad
    <3> QED
      BY <2>2, <2>3, <2>5
  <2>7. level[k - 1] \in SUBSET S
    BY <2>5, <2>6
  <2>8. level[k] = Step(S, R, level[k - 1])
    BY <2>5, <2>7
  <2> QED
    BY <2>3, <2>7, <2>8 DEF Step
<1>2. \A k \in Nat : level[k] \in SUBSET S
  BY <1>1
<1>3. level \in [Nat -> SUBSET S]
  BY <1>2
<1> QED
  BY <1>2, <1>3 DEF IsLevels

Downwards == {e \in Nodes \X Nodes : e[2] \in Range(children[e[1]])}

LEMMA SubtreeLevels ==
  ASSUME Tree, NEW n \in alive
  PROVE  \E level : IsLevels(level, Nodes, Downwards, n) /\ Subtree(n) = level[Cardinality(Nodes)]
<1> DEFINE Rec(f) == f = [k \in Nat |->
             IF k = 0 THEN {n}
             ELSE LET upper == f[k - 1]
                  IN  upper \cup UNION {Range(children[m]) : m \in upper}]
           level == CHOOSE f : Rec(f)
<1>1. n \in Nodes
  BY DEF Tree, TreeTyped
<1>2. ASSUME NEW T \in SUBSET Nodes
      PROVE  Step(Nodes, Downwards, T) = T \cup UNION {Range(children[m]) : m \in T}
  <2>1. \A m \in Nodes : Range(children[m]) \subseteq Nodes
    BY DEF Tree, TreeTyped, Range, Places
  <2>2. \A a \in Nodes, b \in Nodes : <<a, b>> \in Downwards <=> b \in Range(children[a])
    BY DEF Downwards
  <2> QED
    BY <2>1, <2>2 DEF Step
<1>3. PICK f : IsLevels(f, Nodes, Downwards, n)
  BY <1>1, LevelsExist
<1>4. Rec(f)
  <2>1. ASSUME NEW k \in Nat
        PROVE  f[k] = IF k = 0 THEN {n}
                      ELSE f[k - 1] \cup UNION {Range(children[m]) : m \in f[k - 1]}
    <3>1. CASE k = 0
      BY <1>3, <3>1 DEF IsLevels
    <3>2. CASE k # 0
      <4>1. k - 1 \in Nat /\ (k - 1) + 1 = k
        BY <3>2
      <4>2. f[k] = Step(Nodes, Downwards, f[k - 1]) /\ f[k - 1] \in SUBSET Nodes
        BY <1>3, <4>1 DEF IsLevels
      <4> QED
        BY <1>2, <3>2, <4>2
    <3> QED
      BY <3>1, <3>2
  <2>2. f = [k \in Nat |-> f[k]]
    BY <1>3 DEF IsLevels
  <2> QED
    BY <2>1, <2>2
<1>5. Rec(level)
  <2> HIDE DEF Rec
  <2> QED
    BY <1>4
<1>6. Subtree(n) = level[Cardinality(Nodes)]
  BY DEF Subtree
<1> HIDE DEF level
<1>7. /\ level[0] = {n} /\ level = [k \in Nat |-> level[k]]
      /\ \A k \in Nat \ {0} :
           level[k] = level[k - 1] \cup UNION {Range(children[m]) : m \in level[k - 1]}
  BY <1>5
<1> HIDE DEF Rec
<1>8. ASSUME NEW k \in Nat, level[k] \in SUBSET Nodes
      PROVE  level[k + 1] = Step(Nodes, Downwards, level[k])
  <2>1. k + 1 \in Nat \ {0} /\ (k + 1) - 1 = k
    OBVIOUS
  <2> QED
    BY <1>2, <1>7, <1>8, <2>1
<1>9. IsLevels(level, Nodes, Downwards, n)
  BY <1>1, <1>7, <1>8, LevelsAre
<1> QED
  BY <1>6, <1>9

-----------------------------------------------------------------------------
(* A subtree is what has longer paths *)

Continues(s, t) == Len(t) <= Len(s) /\ \A i \in 1..Len(t) : s[i] = t[i]

Under(n) == {m \in alive : Continues(path[m], path[n])}

LEMMA UpOneStays ==
  ASSUME Tree, NEW m \in alive, NEW t \in Seq(Names),
         Continues(path[m], t), Len(t) < Len(path[m])
  PROVE  Continues(PathOf(parent[m]), t)
<1>1. /\ Len(PathOf(parent[m])) \in Nat /\ Len(t) \in Nat
      /\ Len(path[m]) = Len(PathOf(parent[m])) + 1
      /\ \A i \in 1..Len(PathOf(parent[m])) : path[m][i] = PathOf(parent[m])[i]
  BY PathParts, PathTyped
<1>2. Len(t) <= Len(PathOf(parent[m]))
  BY <1>1
<1>3. ASSUME NEW i \in 1..Len(t) PROVE PathOf(parent[m])[i] = t[i]
  <2>1. i \in 1..Len(PathOf(parent[m]))
    BY <1>1, <1>2
  <2> QED
    BY <1>1, <2>1 DEF Continues
<1> QED
  BY <1>2, <1>3 DEF Continues

LEMMA DownOneStays ==
  ASSUME Tree, NEW m \in alive, NEW t \in Seq(Names), Continues(PathOf(parent[m]), t)
  PROVE  Continues(path[m], t) /\ Len(t) < Len(path[m])
<1>1. /\ Len(PathOf(parent[m])) \in Nat /\ Len(t) \in Nat
      /\ Len(path[m]) = Len(PathOf(parent[m])) + 1
      /\ \A i \in 1..Len(PathOf(parent[m])) : path[m][i] = PathOf(parent[m])[i]
  BY PathParts, PathTyped
<1>2. Len(t) <= Len(PathOf(parent[m])) /\ Len(t) < Len(path[m]) /\ Len(t) <= Len(path[m])
  BY <1>1 DEF Continues
<1>3. ASSUME NEW i \in 1..Len(t) PROVE path[m][i] = t[i]
  <2>1. i \in 1..Len(PathOf(parent[m]))
    BY <1>1, <1>2
  <2> QED
    BY <1>1, <2>1 DEF Continues
<1> QED
  BY <1>2, <1>3 DEF Continues

(* The parent of a node that is not at the top. *)
LEMMA ParentAlive ==
  ASSUME Tree, NEW m \in alive, Len(path[m]) # 1
  PROVE  /\ parent[m] \in alive /\ PathOf(parent[m]) = path[parent[m]]
         /\ Len(path[parent[m]]) = Len(path[m]) - 1 /\ Len(path[parent[m]]) \in Nat \ {0}
<1>1. parent[m] # Top
  <2> SUFFICES ASSUME parent[m] = Top PROVE FALSE
    OBVIOUS
  <2>1. PathOf(parent[m]) = <<>>
    BY DEF PathOf
  <2>2. Len(path[m]) = Len(PathOf(parent[m])) + 1
    BY PathParts
  <2> QED
    BY <2>1, <2>2
<1>2. parent[m] \in alive /\ PathOf(parent[m]) = path[parent[m]]
  BY <1>1, PathParts DEF PathOf
<1>3. Len(path[parent[m]]) \in Nat /\ Len(path[m]) = Len(path[parent[m]]) + 1
  BY <1>2, PathParts
<1>4. Len(PathOf(parent[parent[m]])) \in Nat
  BY <1>2, PathParts, PathTyped
<1>5. Len(path[parent[m]]) = Len(PathOf(parent[parent[m]])) + 1
  BY <1>2, PathParts
<1> QED
  BY <1>2, <1>3, <1>4, <1>5

(* Above a node there is one at every lesser depth ...                     *)
LEMMA EveryDepth ==
  ASSUME Tree
  PROVE  \A m \in alive : \A i \in 1..Len(path[m]) : \E k \in alive : Len(path[k]) = i
<1> DEFINE bad == {d \in Nat : \E m \in alive : Len(path[m]) = d /\
                     \E i \in 1..d : ~ \E k \in alive : Len(path[k]) = i}
<1>1. bad = {}
  <2> SUFFICES ASSUME bad # {} PROVE FALSE
    OBVIOUS
  <2>1. bad \in SUBSET Nat
    OBVIOUS
  <2>2. PICK d \in bad : \A j \in bad : d <= j
    <3> HIDE DEF bad
    <3> QED
      BY <2>1, LeastNumber
  <2>3. PICK m \in alive, i \in 1..d : Len(path[m]) = d /\ ~ \E k \in alive : Len(path[k]) = i
    OBVIOUS
  <2>4. d \in Nat /\ i # d
    BY <2>3
  <2>5. i \in 1..(d - 1) /\ d # 1
    BY <2>3, <2>4
  <2>6. parent[m] \in alive /\ Len(path[parent[m]]) = d - 1 /\ d - 1 \in Nat
    BY <2>3, <2>5, ParentAlive
  <2>7. d - 1 \in bad
    BY <2>3, <2>5, <2>6
  <2> HIDE DEF bad
  <2> QED
    BY <2>2, <2>4, <2>7
<1>2. ASSUME NEW m \in alive, NEW i \in 1..Len(path[m]) PROVE \E k \in alive : Len(path[k]) = i
  <2>1. Len(path[m]) \in Nat
    BY PathParts
  <2> QED
    BY <1>1, <2>1
<1> QED
  BY <1>2

(* ... so that no path is longer than there are nodes.                     *)
LEMMA PathsBounded ==
  ASSUME Tree, NEW m \in alive
  PROVE  Len(path[m]) <= Cardinality(Nodes) /\ Cardinality(Nodes) \in Nat
<1> DEFINE L == Len(path[m])
           f == [i \in 1..L |-> CHOOSE k \in alive : Len(path[k]) = i]
<1>1. L \in Nat
  BY PathParts
<1>2. \A i \in 1..L : f[i] \in alive /\ Len(path[f[i]]) = i
  BY EveryDepth
<1>3. f \in [1..L -> Nodes]
  BY <1>2 DEF Tree, TreeTyped
<1> HIDE DEF f, L
<1>4. \A i, j \in 1..L : f[i] = f[j] => i = j
  BY <1>2
<1>5. f \in Injection(1..L, Nodes)
  BY <1>3, <1>4 DEF Injection, IsInjective
<1>6. IsFiniteSet(Nodes)
  BY NodeTreeAssumption
<1>7. Cardinality(1..L) <= Cardinality(Nodes) /\ Cardinality(Nodes) \in Nat
  BY <1>5, <1>6, FS_Injection, FS_CardinalityType
<1>8. Cardinality(1..L) = L
  BY <1>1, FS_Interval
<1> QED
  BY <1>7, <1>8 DEF L

(* What reaches n on the way up is in its subtree ...                      *)
LEMMA UnderIn ==
  ASSUME Tree, NEW n \in alive
  PROVE  Under(n) \subseteq Subtree(n)
<1>1. PICK level : IsLevels(level, Nodes, Downwards, n)
                   /\ Subtree(n) = level[Cardinality(Nodes)]
  BY SubtreeLevels
<1> DEFINE bad == {d \in Nat : \E m \in Under(n) :
                     Len(path[m]) - Len(path[n]) = d /\ m \notin level[d]}
<1>2. path[n] \in Seq(Names) /\ Len(path[n]) \in Nat
  BY PathParts
<1>3. \A m \in Under(n) : m \in alive /\ Len(path[m]) \in Nat
                          /\ Len(path[n]) <= Len(path[m]) /\ Continues(path[m], path[n])
  BY PathParts DEF Under, Continues
<1>4. bad = {}
  <2> SUFFICES ASSUME bad # {} PROVE FALSE
    OBVIOUS
  <2>1. bad \in SUBSET Nat
    OBVIOUS
  <2>2. PICK d \in bad : \A j \in bad : d <= j
    <3> HIDE DEF bad
    <3> QED
      BY <2>1, LeastNumber
  <2>3. PICK m \in Under(n) : Len(path[m]) - Len(path[n]) = d /\ m \notin level[d]
    OBVIOUS
  <2>4. d \in Nat
    OBVIOUS
  <2>5. CASE d = 0
    <3>1. Len(path[m]) = Len(path[n])
      BY <1>2, <1>3, <2>3, <2>5
    <3>2. path[m] \in Seq(Names) /\ \A i \in 1..Len(path[n]) : path[m][i] = path[n][i]
      BY <1>3, PathParts DEF Continues
    <3>3. \A s, t \in Seq(Names) : Len(s) = Len(t) /\ (\A i \in 1..Len(t) : s[i] = t[i]) => s = t
      OBVIOUS
    <3>4. path[m] = path[n]
      BY <1>2, <3>1, <3>2, <3>3
    <3>5. m = n
      BY <1>3, <3>4, PathsDiffer
    <3> QED
      BY <1>1, <2>3, <2>5, <3>5 DEF IsLevels
  <2>6. CASE d # 0
    <3>1. Len(path[n]) < Len(path[m]) /\ Len(path[m]) # 1
      <4>1. Len(path[n]) # 0
        BY PathParts, PathTyped
      <4>2. Len(path[n]) \in Nat /\ Len(path[m]) \in Nat /\ Len(path[n]) <= Len(path[m])
        BY <1>2, <1>3
      <4>3. Len(path[m]) - Len(path[n]) # 0
        BY <2>3, <2>6
      <4>4. \A a, b \in Nat : a <= b /\ b - a # 0 /\ a # 0 => a < b /\ b # 1
        OBVIOUS
      <4> QED
        BY <4>1, <4>2, <4>3, <4>4
    <3>2. /\ parent[m] \in alive /\ PathOf(parent[m]) = path[parent[m]]
          /\ Len(path[parent[m]]) = Len(path[m]) - 1
      BY <1>3, <3>1, ParentAlive
    <3>3. parent[m] \in Under(n)
      BY <1>2, <1>3, <3>1, <3>2, UpOneStays DEF Under
    <3>4. Len(path[parent[m]]) - Len(path[n]) = d - 1 /\ d - 1 \in Nat /\ d - 1 < d /\ (d - 1) + 1 = d
      BY <1>2, <1>3, <2>3, <2>4, <2>6, <3>2
    <3>5. d - 1 \notin bad
      <4> HIDE DEF bad
      <4> QED
        BY <2>2, <2>4, <3>4
    <3>6. parent[m] \in level[d - 1]
      BY <3>3, <3>4, <3>5
    <3>7. m \in Range(children[parent[m]]) /\ m \in Nodes /\ parent[m] \in Nodes
      BY <1>3, <3>2 DEF Tree, TreeTyped, MapsListChildren, Range
    <3>8. level[d] = Step(Nodes, Downwards, level[d - 1])
      BY <1>1, <3>4 DEF IsLevels
    <3>9. <<parent[m], m>> \in Downwards
      BY <3>7 DEF Downwards
    <3> QED
      BY <2>3, <3>6, <3>7, <3>8, <3>9 DEF Step
  <2> QED
    BY <2>5, <2>6
<1>5. ASSUME NEW m \in Under(n) PROVE m \in Subtree(n)
  <2> DEFINE d == Len(path[m]) - Len(path[n])
  <2>1. d \in Nat /\ d <= Cardinality(Nodes) /\ Cardinality(Nodes) \in Nat
    <3>1. /\ Len(path[n]) \in Nat /\ Len(path[m]) \in Nat /\ Len(path[n]) <= Len(path[m])
          /\ Len(path[m]) <= Cardinality(Nodes) /\ Cardinality(Nodes) \in Nat
      BY <1>2, <1>3, PathsBounded
    <3>2. \A a, b, c \in Nat : a <= b /\ b <= c => b - a \in Nat /\ b - a <= c
      OBVIOUS
    <3> QED
      BY <3>1, <3>2
  <2>2. m \in level[d]
    BY <1>4, <2>1
  <2> HIDE DEF d
  <2> QED
    BY <1>1, <2>1, <2>2, LevelsGrow
<1> QED
  BY <1>5

(* ... and nothing else is.                                                *)
LEMMA InUnder ==
  ASSUME Tree, NEW n \in alive
  PROVE  Subtree(n) \subseteq Under(n)
<1>1. PICK level : IsLevels(level, Nodes, Downwards, n)
                   /\ Subtree(n) = level[Cardinality(Nodes)]
  BY SubtreeLevels
<1> DEFINE bad == {d \in Nat : ~(level[d] \subseteq Under(n))}
<1>2. path[n] \in Seq(Names) /\ Len(path[n]) \in Nat
  BY PathParts
<1>3. bad = {}
  <2> SUFFICES ASSUME bad # {} PROVE FALSE
    OBVIOUS
  <2>1. bad \in SUBSET Nat
    OBVIOUS
  <2>2. PICK d \in bad : \A j \in bad : d <= j
    <3> HIDE DEF bad
    <3> QED
      BY <2>1, LeastNumber
  <2>3. PICK m \in level[d] : m \notin Under(n)
    OBVIOUS
  <2>4. d \in Nat
    OBVIOUS
  <2>5. d # 0
    <3>1. n \in Under(n)
      BY <1>2 DEF Under, Continues
    <3> QED
      BY <1>1, <2>3, <3>1 DEF IsLevels
  <2>6. d - 1 \in Nat /\ d - 1 < d /\ (d - 1) + 1 = d
    BY <2>4, <2>5
  <2>7. d - 1 \notin bad
    <3> HIDE DEF bad
    <3> QED
      BY <2>2, <2>4, <2>6
  <2>8. level[d - 1] \subseteq Under(n)
    BY <2>6, <2>7
  <2>9. level[d] = Step(Nodes, Downwards, level[d - 1])
    BY <1>1, <2>6 DEF IsLevels
  <2>10. PICK a \in Under(n) : <<a, m>> \in Downwards
    BY <2>3, <2>8, <2>9 DEF Step
  <2>11. a \in alive /\ Continues(path[a], path[n])
    BY DEF Under
  <2>12. m \in Range(children[a])
    BY <2>10 DEF Downwards
  <2>13. m \in alive /\ parent[m] = a
    BY <2>11, <2>12 DEF Tree, TreeTyped, MapsListChildren, Range, Places
  <2>14. PathOf(a) = path[a]
    BY <2>11, NodeTreeAssumption DEF PathOf, Tree, TreeTyped
  <2>15. Continues(path[m], path[n])
    BY <1>2, <2>11, <2>13, <2>14, DownOneStays
  <2> QED
    BY <2>3, <2>13, <2>15 DEF Under
<1>4. Cardinality(Nodes) \in Nat
  BY PathsBounded
<1> QED
  BY <1>1, <1>3, <1>4

(* So of a node that exists: its subtree holds it and, with a node, the    *)
(* children of it, and is closed upwards up to the node itself.            *)
LEMMA Subtrees ==
  ASSUME Tree, NEW n \in alive
  PROVE  /\ n \in Subtree(n) /\ Subtree(n) \subseteq alive
         /\ \A k \in alive : parent[k] \in Subtree(n) => k \in Subtree(n)
         /\ \A k \in Subtree(n) : k # n => parent[k] \in Subtree(n)
         /\ parent[n] \notin Subtree(n)
         /\ \A k \in Subtree(n) : /\ Len(path[n]) <= Len(path[k])
                                  /\ \A i \in 1..Len(path[n]) : path[k][i] = path[n][i]
         /\ \A k \in Subtree(n) : k # n => Len(path[n]) < Len(path[k])
<1>1. Subtree(n) = Under(n)
  BY UnderIn, InUnder
<1>2. path[n] \in Seq(Names) /\ Len(path[n]) \in Nat
  BY PathParts
<1>3. n \in Subtree(n) /\ Subtree(n) \subseteq alive
  BY <1>1, <1>2 DEF Under, Continues
<1>4. ASSUME NEW k \in alive, parent[k] \in Subtree(n) PROVE k \in Subtree(n)
  <2>1. parent[k] \in alive /\ Continues(path[parent[k]], path[n])
    BY <1>1, <1>4 DEF Under
  <2>2. PathOf(parent[k]) = path[parent[k]]
    BY <2>1, NodeTreeAssumption DEF PathOf, Tree, TreeTyped
  <2>3. Continues(path[k], path[n])
    BY <1>2, <2>1, <2>2, DownOneStays
  <2> QED
    BY <1>1, <2>3 DEF Under
<1>5. ASSUME NEW k \in Subtree(n), k # n PROVE Len(path[n]) < Len(path[k])
  <2>1. k \in alive /\ Len(path[n]) <= Len(path[k]) /\ \A i \in 1..Len(path[n]) : path[k][i] = path[n][i]
    BY <1>1 DEF Under, Continues
  <2>2. path[k] \in Seq(Names) /\ Len(path[k]) \in Nat
    BY <2>1, PathParts
  <2>3. Len(path[k]) # Len(path[n])
    <3> SUFFICES ASSUME Len(path[k]) = Len(path[n]) PROVE FALSE
      OBVIOUS
    <3>1. \A s, t \in Seq(Names) : Len(s) = Len(t) /\ (\A i \in 1..Len(t) : s[i] = t[i]) => s = t
      OBVIOUS
    <3>2. path[k] = path[n]
      BY <1>2, <2>1, <2>2, <3>1
    <3> QED
      BY <1>5, <2>1, <3>2, PathsDiffer
  <2> QED
    BY <1>2, <2>1, <2>2, <2>3
<1>6. ASSUME NEW k \in Subtree(n), k # n PROVE parent[k] \in Subtree(n)
  <2>1. k \in alive /\ Continues(path[k], path[n]) /\ Len(path[n]) < Len(path[k])
    BY <1>1, <1>5, <1>6 DEF Under
  <2>2. Len(path[n]) # 0
    BY PathParts, PathTyped
  <2>3. Len(path[k]) \in Nat
    BY <2>1, PathParts
  <2>4. Len(path[k]) # 1
    BY <1>2, <2>1, <2>2, <2>3
  <2>5. parent[k] \in alive /\ PathOf(parent[k]) = path[parent[k]]
    BY <2>1, <2>4, ParentAlive
  <2>6. Continues(path[parent[k]], path[n])
    BY <1>2, <2>1, <2>5, UpOneStays
  <2> QED
    BY <1>1, <2>5, <2>6 DEF Under
<1>7. parent[n] \notin Subtree(n)
  <2> SUFFICES ASSUME parent[n] \in Subtree(n) PROVE FALSE
    OBVIOUS
  <2>1. parent[n] \in alive /\ Len(path[n]) <= Len(path[parent[n]])
    BY <1>1 DEF Under, Continues
  <2>2. PathOf(parent[n]) = path[parent[n]]
    BY <2>1, NodeTreeAssumption DEF PathOf, Tree, TreeTyped
  <2>3. Len(path[n]) = Len(path[parent[n]]) + 1 /\ Len(path[parent[n]]) \in Nat
    BY <2>1, <2>2, PathParts
  <2> QED
    BY <2>1, <2>3
<1>8. \A k \in Subtree(n) : /\ Len(path[n]) <= Len(path[k])
                            /\ \A i \in 1..Len(path[n]) : path[k][i] = path[n][i]
  BY <1>1 DEF Under, Continues
<1> QED
  BY <1>3, <1>4, <1>5, <1>6, <1>7, <1>8

-----------------------------------------------------------------------------
(* New paths *)

(* What follows the first c elements of s, put after t instead.            *)
Graft(t, s, c) ==
  [i \in 1..(Len(t) + (Len(s) - c)) |-> IF i <= Len(t) THEN t[i] ELSE s[(i - Len(t)) + c]]

LEMMA GraftNone ==
  ASSUME NEW S, NEW t \in Seq(S), NEW s \in Seq(S)
  PROVE  Graft(t, s, Len(s)) = t
<1>1. Len(s) \in Nat /\ Len(t) \in Nat
  OBVIOUS
<1>2. Len(t) + (Len(s) - Len(s)) = Len(t)
  BY <1>1
<1>3. Graft(t, s, Len(s)) = [i \in 1..Len(t) |-> t[i]]
  BY <1>1, <1>2 DEF Graft
<1> QED
  BY <1>3

LEMMA GraftOne ==
  ASSUME NEW S, NEW t \in Seq(S), NEW s \in Seq(S), NEW x \in S, NEW c \in Nat, c <= Len(s)
  PROVE  /\ Graft(t, s, c) \in Seq(S)
         /\ Graft(t, Append(s, x), c) = Append(Graft(t, s, c), x)
<1> DEFINE a == Len(t)
           b == Len(s)
           g == Graft(t, s, c)
           h == Graft(t, Append(s, x), c)
<1>1. a \in Nat /\ b \in Nat /\ a + (b - c) \in Nat
  <2>1. a \in Nat /\ b \in Nat /\ c <= b
    OBVIOUS
  <2> HIDE DEF a, b
  <2> QED
    BY <2>1
<1>2. /\ Append(s, x) \in Seq(S) /\ Len(Append(s, x)) = b + 1 /\ Append(s, x)[b + 1] = x
      /\ \A i \in 1..b : Append(s, x)[i] = s[i] /\ s[i] \in S
  OBVIOUS
<1>3. \A i \in 1..a : t[i] \in S
  OBVIOUS
<1>4. /\ g = [i \in 1..(a + (b - c)) |-> IF i <= a THEN t[i] ELSE s[(i - a) + c]]
      /\ h = [i \in 1..(a + ((b + 1) - c)) |-> IF i <= a THEN t[i] ELSE Append(s, x)[(i - a) + c]]
  BY <1>2 DEF Graft
<1> HIDE DEF a, b, g, h
<1>5. \A i \in 1..(a + (b - c)) : ~(i <= a) => (i - a) + c \in 1..b
  BY <1>1
<1>6. ASSUME NEW i \in 1..(a + (b - c)) PROVE g[i] \in S
  BY <1>2, <1>3, <1>1, <1>4, <1>5
<1>7. g \in [1..(a + (b - c)) -> S]
  BY <1>4, <1>6
<1>8. g \in Seq(S) /\ Len(g) = a + (b - c)
  BY <1>1, <1>7
<1>9. a + ((b + 1) - c) = (a + (b - c)) + 1
  BY <1>1
<1>10. Append(g, x) = [i \in 1..((a + (b - c)) + 1) |-> IF i = (a + (b - c)) + 1 THEN x ELSE g[i]]
  <2>1. \A q \in Seq(S) : /\ Append(q, x) \in Seq(S) /\ Len(Append(q, x)) = Len(q) + 1
                          /\ Append(q, x)[Len(q) + 1] = x
                          /\ \A i \in 1..Len(q) : Append(q, x)[i] = q[i]
    OBVIOUS
  <2>0. \A r \in Seq(S) : r = [i \in 1..Len(r) |-> r[i]]
    OBVIOUS
  <2>2. /\ Append(g, x) = [i \in 1..((a + (b - c)) + 1) |-> Append(g, x)[i]]
        /\ Append(g, x)[(a + (b - c)) + 1] = x
        /\ \A i \in 1..(a + (b - c)) : Append(g, x)[i] = g[i]
    <3>1. /\ Append(g, x) \in Seq(S) /\ Len(Append(g, x)) = (a + (b - c)) + 1
          /\ Append(g, x)[(a + (b - c)) + 1] = x
          /\ \A i \in 1..(a + (b - c)) : Append(g, x)[i] = g[i]
      BY <1>8, <2>1
    <3>2. Append(g, x) = [i \in 1..Len(Append(g, x)) |-> Append(g, x)[i]]
      BY <2>0, <3>1
    <3> QED
      BY <3>1, <3>2
  <2>3. \A i \in 1..((a + (b - c)) + 1) : i # (a + (b - c)) + 1 => i \in 1..(a + (b - c))
    BY <1>1
  <2>4. \A i \in 1..((a + (b - c)) + 1) :
          Append(g, x)[i] = IF i = (a + (b - c)) + 1 THEN x ELSE g[i]
    BY <2>2, <2>3
  <2> QED
    BY <2>2, <2>4
<1>11. ASSUME NEW i \in 1..((a + (b - c)) + 1)
       PROVE  (IF i <= a THEN t[i] ELSE Append(s, x)[(i - a) + c])
                = (IF i = (a + (b - c)) + 1 THEN x ELSE g[i])
  <2>1. CASE i = (a + (b - c)) + 1
    <3>1. ~(i <= a) /\ (i - a) + c = b + 1
      <4>1. b - c >= 0
        BY <1>1 DEF b
      <4> QED
        BY <1>1, <2>1, <4>1
    <3> QED
      BY <1>2, <2>1, <3>1
  <2>2. CASE i # (a + (b - c)) + 1
    <3>1. i \in 1..(a + (b - c))
      BY <1>1, <2>2
    <3>2. g[i] = IF i <= a THEN t[i] ELSE s[(i - a) + c]
      BY <1>4, <3>1
    <3> QED
      BY <1>2, <1>5, <2>2, <3>1, <3>2
  <2> QED
    BY <2>1, <2>2
<1>12. h = [i \in 1..((a + (b - c)) + 1) |-> IF i <= a THEN t[i] ELSE Append(s, x)[(i - a) + c]]
  BY <1>4, <1>9
<1>13. h = Append(g, x)
  BY <1>10, <1>11, <1>12
<1> QED
  BY <1>8, <1>13 DEF g, h

(* The new paths begin with the new place and name, and go on as before.   *)
LEMMA RepathedIs ==
  ASSUME Tree, NEW n \in alive, NEW p \in alive \cup {Top}, NEW nm \in Names,
         NEW new, new = Repathed(n, p, nm)
  PROVE  /\ DOMAIN new = Subtree(n)
         /\ new[n] = Append(PathOf(p), nm)
         /\ \A m \in Subtree(n) : m # n => new[m] = Append(new[parent[m]], name[m])
         /\ \A m \in Subtree(n) : new[m] \in Seq(Names)
<1> DEFINE Rec(f) == f = [m \in Subtree(n) |->
             IF m = n THEN Append(PathOf(p), nm) ELSE Append(f[parent[m]], name[m])]
           t == Append(PathOf(p), nm)
           W == [m \in Subtree(n) |-> Graft(t, path[m], Len(path[n]))]
<1>1. t \in Seq(Names)
  BY PathTyped
<1>2. n \in Subtree(n) /\ Subtree(n) \subseteq alive
  BY Subtrees
<1>3. W[n] = t
  BY <1>1, <1>2, GraftNone, PathParts
<1>4. ASSUME NEW m \in Subtree(n), m # n
      PROVE  W[m] = Append(W[parent[m]], name[m])
  <2>1. parent[m] \in Subtree(n) /\ Len(path[n]) \in Nat /\ Len(path[n]) <= Len(path[parent[m]])
    BY <1>4, Subtrees, PathParts
  <2>2. path[m] = Append(PathOf(parent[m]), name[m]) /\ PathOf(parent[m]) = path[parent[m]]
    BY <1>2, <2>1, NodeTreeAssumption DEF Tree, TreeTyped, PathsChained, PathOf
  <2>3. path[parent[m]] \in Seq(Names) /\ name[m] \in Names
    BY <1>2, <2>1, PathParts
  <2>4. Graft(t, Append(path[parent[m]], name[m]), Len(path[n]))
          = Append(Graft(t, path[parent[m]], Len(path[n])), name[m])
    <3> HIDE DEF t, W
    <3>1. \A c \in Nat : \A s \in Seq(Names) : \A x \in Names :
            c <= Len(s) => Graft(t, Append(s, x), c) = Append(Graft(t, s, c), x)
      BY <1>1, GraftOne
    <3> QED
      BY <2>1, <2>3, <3>1
  <2> HIDE DEF t
  <2> QED
    BY <2>1, <2>2, <2>4
<1>5. Rec(W)
  <2>1. W = [m \in Subtree(n) |-> W[m]]
    OBVIOUS
  <2>2. \A m \in Subtree(n) : W[m] = IF m = n THEN Append(PathOf(p), nm) ELSE Append(W[parent[m]], name[m])
    BY <1>3, <1>4
  <2> HIDE DEF W
  <2> QED
    BY <2>1, <2>2
<1>6. Rec(new)
  <2>1. new = CHOOSE f : Rec(f)
    BY DEF Repathed
  <2> HIDE DEF Rec, W
  <2> QED
    BY <1>5, <2>1
<1>7. /\ DOMAIN new = Subtree(n)
      /\ new[n] = Append(PathOf(p), nm)
      /\ \A m \in Subtree(n) : m # n => new[m] = Append(new[parent[m]], name[m])
  BY <1>2, <1>6
<1> HIDE DEF Rec, W
<1> DEFINE bad == {d \in Nat : \E m \in Subtree(n) : Len(path[m]) = d /\ new[m] \notin Seq(Names)}
<1>8. bad = {}
  <2> SUFFICES ASSUME bad # {} PROVE FALSE
    OBVIOUS
  <2>1. bad \in SUBSET Nat
    OBVIOUS
  <2>2. PICK d \in bad : \A j \in bad : d <= j
    <3> HIDE DEF bad
    <3> QED
      BY <2>1, LeastNumber
  <2>3. PICK m \in Subtree(n) : Len(path[m]) = d /\ new[m] \notin Seq(Names)
    OBVIOUS
  <2>4. m # n
    BY <1>1, <1>7, <2>3
  <2>5. m \in alive /\ parent[m] \in Subtree(n) /\ parent[m] \in alive
    BY <1>2, <2>4, Subtrees
  <2>6. Len(path[parent[m]]) \in Nat /\ d = Len(path[parent[m]]) + 1 /\ name[m] \in Names
    <3>1. PathOf(parent[m]) = path[parent[m]]
      BY <2>5, NodeTreeAssumption DEF Tree, TreeTyped, PathOf
    <3> QED
      BY <2>3, <2>5, <3>1, PathParts
  <2>7. Len(path[parent[m]]) \notin bad
    <3>1. ~(d <= Len(path[parent[m]]))
      BY <2>6
    <3> HIDE DEF bad
    <3> QED
      BY <2>2, <3>1
  <2>8. new[parent[m]] \in Seq(Names)
    BY <2>5, <2>6, <2>7
  <2>9. new[m] = Append(new[parent[m]], name[m])
    BY <1>7, <2>4
  <2> QED
    BY <2>3, <2>6, <2>8, <2>9
<1>9. \A m \in Subtree(n) : Len(path[m]) \in Nat
  BY <1>2, PathParts
<1>10. \A m \in Subtree(n) : new[m] \in Seq(Names)
  BY <1>8, <1>9
<1> QED
  BY <1>7, <1>10

-----------------------------------------------------------------------------
(* The maps *)

LEMMA InsertIs ==
  ASSUME NEW maps, NEW p \in DOMAIN maps, NEW nm, NEW n, NEW new, new = Insert(maps, p, nm, n)
  PROVE  /\ DOMAIN new = DOMAIN maps
         /\ DOMAIN new[p] = DOMAIN maps[p] \cup {nm} /\ new[p][nm] = n
         /\ \A k \in DOMAIN maps[p] : k # nm => new[p][k] = maps[p][k]
         /\ \A q \in DOMAIN maps : q # p => new[q] = maps[q]
BY DEF Insert, Over

LEMMA EraseIs ==
  ASSUME NEW maps, NEW p \in DOMAIN maps, NEW nm, NEW new, new = Erase(maps, p, nm)
  PROVE  /\ DOMAIN new = DOMAIN maps
         /\ DOMAIN new[p] = DOMAIN maps[p] \ {nm}
         /\ \A k \in DOMAIN maps[p] \ {nm} : new[p][k] = maps[p][k]
         /\ \A q \in DOMAIN maps : q # p => new[q] = maps[q]
BY DEF Erase, Without, Restrict

(* Nodes whose paths differ, and are not in the table, are all added.      *)
LEMMA AddedIs ==
  ASSUME NEW table, NEW paths, NEW new, new = Added(table, paths),
         \A a, b \in DOMAIN paths : paths[a] = paths[b] => a = b,
         \A a \in DOMAIN paths : paths[a] \notin DOMAIN table
  PROVE  /\ new = [q \in DOMAIN new |-> new[q]]
         /\ DOMAIN new = DOMAIN table \cup {paths[a] : a \in DOMAIN paths}
         /\ \A q \in DOMAIN table : new[q] = table[q]
         /\ \A a \in DOMAIN paths : new[paths[a]] = a
<1> DEFINE more == [q \in Range(paths) |-> CHOOSE a \in DOMAIN paths : paths[a] = q]
<1>1. new = [q \in DOMAIN table \cup Range(paths) |->
               IF q \in DOMAIN table THEN table[q] ELSE more[q]]
  BY DEF Added, Over
<1>2. Range(paths) = {paths[a] : a \in DOMAIN paths}
  BY DEF Range
<1>3. ASSUME NEW a \in DOMAIN paths PROVE more[paths[a]] = a
  BY <1>2
<1> HIDE DEF more
<1> QED
  BY <1>1, <1>2, <1>3

-----------------------------------------------------------------------------
(* The inductive invariant *)

(* The state table lists the nodes that exist, each by its path.           *)
Table ==
  /\ byPath = [q \in DOMAIN byPath |-> byPath[q]]
  /\ DOMAIN byPath = {path[n] : n \in alive}
  /\ \A n \in alive : byPath[path[n]] = n
  /\ byId = alive

TreeInv == Tree /\ Table

LEMMA InitTree ==
  ASSUME Init
  PROVE  TreeInv
<1>1. alive = {} /\ DOMAIN children = Places /\ \A p \in Places : DOMAIN children[p] = {}
  BY DEF Init
<1>2. TreeTyped
  BY <1>1 DEF Init, TreeTyped, Places
<1>3. MapsListChildren
  BY <1>1 DEF MapsListChildren, Places
<1>4. PathsChained
  BY <1>1 DEF PathsChained
<1>5. Table
  <2>1. byPath = <<>> /\ DOMAIN byPath = {}
    BY DEF Init
  <2>2. byPath = [q \in DOMAIN byPath |-> byPath[q]]
    BY <2>1
  <2> QED
    BY <1>1, <2>1, <2>2 DEF Table, Init
<1> QED
  BY <1>2, <1>3, <1>4, <1>5 DEF TreeInv, Tree

(* What the copies promise each other follows.                             *)
LEMMA TreeCopies ==
  ASSUME TreeInv
  PROVE  CopiesAgree
<1>1. Tree /\ Table
  BY DEF TreeInv
<1>2. ParentsListChildren
  <2>1. \A n \in alive : /\ parent[n] \in alive \cup {Top} /\ n \in Nodes /\ name[n] \in Names
    BY <1>1 DEF Tree, TreeTyped
  <2>2. ASSUME NEW n \in alive
        PROVE  name[n] \in DOMAIN children[parent[n]] /\ children[parent[n]][name[n]] = n
    BY <1>1, <2>1 DEF Tree, MapsListChildren
  <2>3. ASSUME NEW p \in alive \cup {Top}, NEW nm \in DOMAIN children[p]
        PROVE  /\ children[p][nm] \in alive
               /\ parent[children[p][nm]] = p /\ name[children[p][nm]] = nm
    <3>1. p \in Places /\ nm \in Names /\ children[p][nm] \in alive /\ alive \subseteq Nodes
      BY <1>1 DEF Tree, TreeTyped, Places
    <3> QED
      BY <1>1, <3>1 DEF Tree, MapsListChildren
  <2> QED
    BY <2>1, <2>2, <2>3 DEF ParentsListChildren
<1>3. TableFindsNodes
  BY <1>1 DEF TableFindsNodes, Table, Tree, PathsChained
<1> QED
  BY <1>2, <1>3 DEF CopiesAgree

LEMMA TreeCopiesNext ==
  ASSUME TreeInv'
  PROVE  CopiesAgree'
BY TreeCopies, PTL

-----------------------------------------------------------------------------
(* Each command keeps it *)

LEMMA FreeNameIs ==
  ASSUME NEW p, NEW wanted, NEW nm \in FreeName(p, wanted)
  PROVE  nm \in Names /\ nm \notin DOMAIN children[p]
BY DEF FreeName

(* A new node is at the end of one edge.                                   *)
LEMMA NewFacts ==
  ASSUME TreeInv, NEW n \in Nodes, NEW p \in Places, NEW wanted \in Names,
         NewCommand(n, p, wanted)
  PROVE  \E nm \in Names :
           /\ n \notin alive /\ p \in alive \cup {Top} /\ n # p /\ n # Top
           /\ nm \notin DOMAIN children[p]
           /\ DOMAIN parent' = Nodes /\ DOMAIN name' = Nodes /\ DOMAIN path' = Nodes
           /\ DOMAIN children' = Places
           /\ alive' = alive \cup {n} /\ byId' = byId \cup {n}
           /\ parent'[n] = p /\ name'[n] = nm /\ path'[n] = Append(PathOf(p), nm)
           /\ \A m \in Nodes : m # n => /\ parent'[m] = parent[m] /\ name'[m] = name[m]
                                        /\ path'[m] = path[m]
           /\ DOMAIN children'[p] = DOMAIN children[p] \cup {nm} /\ children'[p][nm] = n
           /\ \A k \in DOMAIN children[p] : children'[p][k] = children[p][k]
           /\ \A q \in Places : q # p => children'[q] = children[q]
           /\ byPath' = Added(byPath, [m \in {n} |-> path'[m]])
<1>1. PICK nm \in FreeName(p, wanted) :
        /\ name' = [name EXCEPT ![n] = nm]
        /\ path' = [path EXCEPT ![n] = Append(PathOf(p), nm)]
        /\ children' = Insert(children, p, nm, n)
        /\ byPath' = Added(byPath, [m \in {n} |-> path'[m]])
  BY DEF NewCommand
<1>2. nm \in Names /\ nm \notin DOMAIN children[p]
  BY FreeNameIs
<1>3. /\ n \notin alive /\ p \in alive \cup {Top}
      /\ alive' = alive \cup {n} /\ byId' = byId \cup {n}
      /\ parent' = [parent EXCEPT ![n] = p]
  BY DEF NewCommand
<1>4. n # p /\ n # Top
  BY <1>3, NodeTreeAssumption
<1>5. DOMAIN parent = Nodes /\ DOMAIN name = Nodes /\ DOMAIN path = Nodes /\ DOMAIN children = Places
  BY DEF TreeInv, Tree, TreeTyped
<1>6. /\ DOMAIN children' = Places
      /\ DOMAIN children'[p] = DOMAIN children[p] \cup {nm} /\ children'[p][nm] = n
      /\ \A k \in DOMAIN children[p] : k # nm => children'[p][k] = children[p][k]
      /\ \A q \in Places : q # p => children'[q] = children[q]
  BY <1>1, <1>5, InsertIs
<1>7. /\ DOMAIN parent' = Nodes /\ DOMAIN name' = Nodes /\ DOMAIN path' = Nodes
      /\ parent'[n] = p /\ name'[n] = nm /\ path'[n] = Append(PathOf(p), nm)
      /\ \A m \in Nodes : m # n => /\ parent'[m] = parent[m] /\ name'[m] = name[m]
                                   /\ path'[m] = path[m]
  BY <1>1, <1>3, <1>5
<1> QED
  BY <1>1, <1>2, <1>3, <1>4, <1>6, <1>7

LEMMA PathsDifferNext ==
  ASSUME Tree'
  PROVE  \A m, n \in alive' : path'[m] = path'[n] => m = n
<1>1. (\A m, n \in alive : path[m] = path[n] => m = n)'
  BY PathsDiffer, PTL
<1> QED
  BY <1>1

LEMMA NewTree ==
  ASSUME TreeInv, NEW n \in Nodes, NEW p \in Places, NEW wanted \in Names,
         NewCommand(n, p, wanted)
  PROVE  TreeInv'
<1>1. PICK nm \in Names :
           /\ n \notin alive /\ p \in alive \cup {Top} /\ n # p /\ n # Top
           /\ nm \notin DOMAIN children[p]
           /\ DOMAIN parent' = Nodes /\ DOMAIN name' = Nodes /\ DOMAIN path' = Nodes
           /\ DOMAIN children' = Places
           /\ alive' = alive \cup {n} /\ byId' = byId \cup {n}
           /\ parent'[n] = p /\ name'[n] = nm /\ path'[n] = Append(PathOf(p), nm)
           /\ \A m \in Nodes : m # n => /\ parent'[m] = parent[m] /\ name'[m] = name[m]
                                        /\ path'[m] = path[m]
           /\ DOMAIN children'[p] = DOMAIN children[p] \cup {nm} /\ children'[p][nm] = n
           /\ \A k \in DOMAIN children[p] : children'[p][k] = children[p][k]
           /\ \A q \in Places : q # p => children'[q] = children[q]
           /\ byPath' = Added(byPath, [m \in {n} |-> path'[m]])
  BY NewFacts
<1>2. Tree /\ Table /\ TreeTyped /\ MapsListChildren /\ PathsChained
  BY DEF TreeInv, Tree
<1>3. /\ \A q \in alive \cup {Top} : PathOf(q)' = PathOf(q)
      /\ \A m \in alive : /\ m \in Nodes /\ m # n /\ parent'[m] = parent[m]
                          /\ name'[m] = name[m] /\ path'[m] = path[m]
  BY <1>1, <1>2 DEF PathOf, TreeTyped
<1>4. TreeTyped'
  <2>1. path'[n] \in Seq(Names)
    BY <1>1, <1>2, PathTyped
  <2>2. \A m \in alive' : parent'[m] \in alive' \cup {Top} /\ name'[m] \in Names /\ path'[m] \in Seq(Names)
    BY <1>1, <1>2, <1>3, <2>1 DEF TreeTyped
  <2>3. \A q \in Places : /\ DOMAIN children'[q] \subseteq Names
                          /\ \A k \in DOMAIN children'[q] : children'[q][k] \in alive'
    <3>1. \A q \in Places : DOMAIN children[q] \subseteq Names /\ \A k \in DOMAIN children[q] : children[q][k] \in alive
      BY <1>2 DEF TreeTyped
    <3> QED
      BY <1>1, <3>1
  <2>4. \A q \in Nodes \ alive' : DOMAIN children'[q] = {}
    BY <1>1, <1>2, NodeTreeAssumption DEF TreeTyped, Places
  <2> QED
    BY <1>1, <1>2, <2>2, <2>3, <2>4 DEF TreeTyped
<1>5. MapsListChildren'
  <2> SUFFICES ASSUME NEW q \in alive' \cup {Top}, NEW m \in Nodes, NEW k \in Names
               PROVE  (k \in DOMAIN children'[q] /\ children'[q][k] = m)
                        <=> (m \in alive' /\ parent'[m] = q /\ name'[m] = k)
    BY DEF MapsListChildren
  <2>1. q \in Places /\ p \in Places
    BY <1>1, <1>2 DEF TreeTyped, Places
  <2>2. \A a \in Places : \A b \in DOMAIN children[a] : children[a][b] \in alive
    BY <1>2 DEF TreeTyped
  <2>3. CASE q = n
    <3>1. children'[n] = children[n] /\ DOMAIN children[n] = {}
      BY <1>1, <1>2 DEF TreeTyped, Places
    <3>2. \A a \in alive : parent[a] # n
      BY <1>1, <1>2 DEF TreeTyped
    <3> QED
      BY <1>1, <1>3, <2>3, <3>1, <3>2
  <2>4. CASE q # n /\ m = n
    <3>1. q \in alive \cup {Top}
      BY <1>1, <2>4
    <3> QED
      BY <1>1, <2>1, <2>2, <2>4, <3>1
  <2>5. CASE q # n /\ m # n
    <3>1. q \in alive \cup {Top}
      BY <1>1, <2>5
    <3>2. (k \in DOMAIN children[q] /\ children[q][k] = m)
             <=> (m \in alive /\ parent[m] = q /\ name[m] = k)
      BY <1>2, <3>1 DEF MapsListChildren
    <3>3. (m \in alive' /\ parent'[m] = q /\ name'[m] = k)
             <=> (m \in alive /\ parent[m] = q /\ name[m] = k)
      BY <1>1, <1>3, <2>5
    <3>4. (k \in DOMAIN children'[q] /\ children'[q][k] = m)
             <=> (k \in DOMAIN children[q] /\ children[q][k] = m)
      BY <1>1, <2>1, <2>5
    <3> QED
      BY <3>2, <3>3, <3>4
  <2> QED
    BY <2>3, <2>4, <2>5
<1>6. PathsChained'
  <2>1. \A m \in alive : parent[m] \in alive \cup {Top} /\ path[m] = Append(PathOf(parent[m]), name[m])
    BY <1>2 DEF TreeTyped, PathsChained
  <2>2. ASSUME NEW m \in alive' PROVE path'[m] = Append(PathOf(parent[m])', name'[m])
    <3>1. CASE m = n
      BY <1>1, <1>3, <3>1 DEF PathOf
    <3>2. CASE m # n
      <4>1. m \in alive /\ parent'[m] = parent[m] /\ parent[m] \in alive \cup {Top}
        BY <1>1, <1>3, <2>1, <3>2
      <4>2. PathOf(parent[m])' = PathOf(parent[m])
        BY <1>3, <4>1 DEF PathOf
      <4> QED
        BY <1>3, <2>1, <4>1, <4>2
    <3> QED
      BY <3>1, <3>2
  <2> QED
    BY <2>2 DEF PathsChained
<1>7. Tree'
  BY <1>4, <1>5, <1>6 DEF Tree
<1>8. Table'
  <2> DEFINE more == [m \in {n} |-> path'[m]]
  <2>1. \A a \in DOMAIN more : more[a] \notin DOMAIN byPath
    <3>1. ASSUME NEW m \in alive PROVE path'[n] # path[m]
      <4>1. n \in alive' /\ m \in alive' /\ m # n /\ path'[m] = path[m]
        BY <1>1, <1>3
      <4> QED
        BY <1>7, <4>1, PathsDifferNext
    <3> QED
      BY <1>2, <3>1 DEF Table
  <2>2. /\ byPath' = [q \in DOMAIN byPath' |-> byPath'[q]]
        /\ DOMAIN byPath' = DOMAIN byPath \cup {more[a] : a \in DOMAIN more}
        /\ \A q \in DOMAIN byPath : byPath'[q] = byPath[q]
        /\ \A a \in DOMAIN more : byPath'[more[a]] = a
    <3>1. \A a, b \in DOMAIN more : more[a] = more[b] => a = b
      OBVIOUS
    <3>2. byPath' = Added(byPath, more)
      BY <1>1
    <3> HIDE DEF more
    <3>3. \A nw : nw = Added(byPath, more) =>
            /\ nw = [q \in DOMAIN nw |-> nw[q]]
            /\ DOMAIN nw = DOMAIN byPath \cup {more[a] : a \in DOMAIN more}
            /\ \A q \in DOMAIN byPath : nw[q] = byPath[q]
            /\ \A a \in DOMAIN more : nw[more[a]] = a
      BY <2>1, <3>1, AddedIs
    <3> QED
      BY <3>2, <3>3
  <2>5. {more[a] : a \in DOMAIN more} = {path'[n]} /\ byPath'[path'[n]] = n
    BY <2>2
  <2>6. \A m \in alive : path'[m] = path[m] /\ path[m] \in DOMAIN byPath /\ byPath[path[m]] = m
    BY <1>2, <1>3 DEF Table
  <2>7. \A q \in DOMAIN byPath : \E m \in alive : q = path'[m]
    BY <1>2, <1>3 DEF Table
  <2>3. DOMAIN byPath' = {path'[m] : m \in alive'}
    <3>1. alive' = alive \cup {n} /\ DOMAIN byPath' = DOMAIN byPath \cup {path'[n]}
      BY <1>1, <2>2, <2>5
    <3> QED
      BY <2>6, <2>7, <3>1
  <2>4. \A m \in alive' : byPath'[path'[m]] = m
    <3>1. alive' = alive \cup {n} /\ \A q \in DOMAIN byPath : byPath'[q] = byPath[q]
      BY <1>1, <2>2
    <3> QED
      BY <2>5, <2>6, <3>1
  <2> QED
    BY <1>1, <1>2, <2>2, <2>3, <2>4 DEF Table
<1> QED
  BY <1>7, <1>8 DEF TreeInv

LEMMA RemovedIs ==
  ASSUME TreeInv, NEW n \in alive
  PROVE  /\ Removed(n) = [q \in DOMAIN Removed(n) |-> Removed(n)[q]]
         /\ DOMAIN Removed(n) = {path[m] : m \in alive \ Subtree(n)}
         /\ \A m \in alive \ Subtree(n) : Removed(n)[path[m]] = m
<1>1. Tree /\ Table
  BY DEF TreeInv
<1>2. Removed(n) = [q \in DOMAIN byPath \ {path[m] : m \in Subtree(n)} |-> byPath[q]]
  BY DEF Removed, Without, Restrict
<1>3. DOMAIN byPath \ {path[m] : m \in Subtree(n)} = {path[m] : m \in alive \ Subtree(n)}
  BY <1>1, Subtrees, PathsDiffer DEF Table
<1>4. \A m \in alive : byPath[path[m]] = m
  BY <1>1 DEF Table
<1> QED
  BY <1>2, <1>3, <1>4

LEMMA DeleteFacts ==
  ASSUME TreeInv, NEW n \in Nodes, DeleteCommand(n)
  PROVE  /\ n \in alive /\ n \in Subtree(n) /\ Subtree(n) \subseteq alive
         /\ alive' = alive \ Subtree(n) /\ byId' = byId \ Subtree(n) /\ byPath' = Removed(n)
         /\ DOMAIN parent' = Nodes /\ DOMAIN name' = Nodes /\ DOMAIN path' = Nodes
         /\ DOMAIN children' = Places
         /\ \A m \in Nodes \ Subtree(n) : /\ parent'[m] = parent[m] /\ name'[m] = name[m]
                                          /\ path'[m] = path[m]
         /\ \A q \in Subtree(n) : DOMAIN children'[q] = {}
         /\ \A q \in Places \ Subtree(n) : q # parent[n] => children'[q] = children[q]
         /\ DOMAIN children'[parent[n]] = DOMAIN children[parent[n]] \ {name[n]}
         /\ \A k \in DOMAIN children'[parent[n]] :
              children'[parent[n]][k] = children[parent[n]][k]
<1>1. /\ DOMAIN parent = Nodes /\ DOMAIN name = Nodes /\ DOMAIN path = Nodes
      /\ DOMAIN children = Places /\ alive \subseteq Nodes /\ Tree
  BY DEF TreeInv, Tree, TreeTyped
<1>2. n \in alive
  BY DEF DeleteCommand
<1>3. /\ n \in Subtree(n) /\ Subtree(n) \subseteq alive /\ parent[n] \notin Subtree(n)
      /\ parent[n] \in Places
  BY <1>1, <1>2, Subtrees, PathParts DEF Places
<1> DEFINE gone == Subtree(n)
           erased == Erase(children, parent[n], name[n])
<1>4. /\ alive' = alive \ gone
      /\ parent' = Over([m \in gone |-> Top], parent)
      /\ name' = Over([m \in gone |-> NoName], name)
      /\ path' = Over([m \in gone |-> <<>>], path)
      /\ children' = Over([m \in gone |-> <<>>], erased)
      /\ byPath' = Removed(n) /\ byId' = byId \ gone
  BY DEF DeleteCommand
<1>5. /\ DOMAIN erased = Places
      /\ DOMAIN erased[parent[n]] = DOMAIN children[parent[n]] \ {name[n]}
      /\ \A k \in DOMAIN children[parent[n]] \ {name[n]} :
           erased[parent[n]][k] = children[parent[n]][k]
      /\ \A q \in Places : q # parent[n] => erased[q] = children[q]
  BY <1>1, <1>3, EraseIs
<1> HIDE DEF gone, erased
<1>6. gone \subseteq Nodes /\ gone \subseteq Places
  BY <1>1, <1>3 DEF gone, Places
<1>7. /\ DOMAIN parent' = Nodes
      /\ \A m \in Nodes \ gone : parent'[m] = parent[m]
  BY <1>1, <1>4, <1>6 DEF Over
<1>8. /\ DOMAIN name' = Nodes
      /\ \A m \in Nodes \ gone : name'[m] = name[m]
  BY <1>1, <1>4, <1>6 DEF Over
<1>9. /\ DOMAIN path' = Nodes
      /\ \A m \in Nodes \ gone : path'[m] = path[m]
  BY <1>1, <1>4, <1>6 DEF Over
<1>10. /\ DOMAIN children' = Places
       /\ \A q \in gone : DOMAIN children'[q] = {}
       /\ \A q \in Places \ gone : children'[q] = erased[q]
  BY <1>4, <1>5, <1>6 DEF Over
<1>11. children'[parent[n]] = erased[parent[n]]
  BY <1>3, <1>10 DEF gone
<1> QED
  BY <1>2, <1>3, <1>4, <1>5, <1>7, <1>8, <1>9, <1>10, <1>11 DEF gone

LEMMA DeleteTree ==
  ASSUME TreeInv, NEW n \in Nodes, DeleteCommand(n)
  PROVE  TreeInv'
<1> DEFINE gone == Subtree(n)
<1>1. /\ n \in alive /\ n \in gone /\ gone \subseteq alive
      /\ alive' = alive \ gone /\ byId' = byId \ gone /\ byPath' = Removed(n)
      /\ DOMAIN parent' = Nodes /\ DOMAIN name' = Nodes /\ DOMAIN path' = Nodes
      /\ DOMAIN children' = Places
      /\ \A m \in Nodes \ gone : /\ parent'[m] = parent[m] /\ name'[m] = name[m]
                                 /\ path'[m] = path[m]
      /\ \A q \in gone : DOMAIN children'[q] = {}
      /\ \A q \in Places \ gone : q # parent[n] => children'[q] = children[q]
      /\ DOMAIN children'[parent[n]] = DOMAIN children[parent[n]] \ {name[n]}
      /\ \A k \in DOMAIN children'[parent[n]] :
           children'[parent[n]][k] = children[parent[n]][k]
  BY DeleteFacts
<1>2. Tree /\ Table /\ TreeTyped /\ MapsListChildren /\ PathsChained
  BY DEF TreeInv, Tree
<1>3. /\ \A k \in alive : parent[k] \in gone => k \in gone
      /\ \A k \in gone : k # n => parent[k] \in gone
      /\ parent[n] \notin gone
  BY <1>1, <1>2, Subtrees
<1>4. /\ Removed(n) = [q \in DOMAIN Removed(n) |-> Removed(n)[q]]
      /\ DOMAIN Removed(n) = {path[m] : m \in alive \ gone}
      /\ \A m \in alive \ gone : Removed(n)[path[m]] = m
  BY <1>1, RemovedIs
<1> HIDE DEF gone
<1>5. /\ \A m \in alive' : /\ m \in alive /\ m \in Nodes /\ m \notin gone
                           /\ parent'[m] = parent[m] /\ name'[m] = name[m] /\ path'[m] = path[m]
                           /\ parent[m] \in alive' \cup {Top}
      /\ Top \notin gone
  BY <1>1, <1>2, <1>3, NodeTreeAssumption DEF TreeTyped
<1>6. \A q \in Places \ gone : \A k : \A m :
        (k \in DOMAIN children'[q] /\ children'[q][k] = m)
          <=> (k \in DOMAIN children[q] /\ children[q][k] = m /\ m # n)
  <2> SUFFICES ASSUME NEW q \in Places \ gone, NEW k, NEW m
               PROVE  (k \in DOMAIN children'[q] /\ children'[q][k] = m)
                        <=> (k \in DOMAIN children[q] /\ children[q][k] = m /\ m # n)
    OBVIOUS
  <2>1. q \in alive \cup {Top} \/ DOMAIN children[q] = {}
    BY <1>2 DEF TreeTyped, Places
  <2>2. k \in DOMAIN children[q] => k \in Names /\ children[q][k] \in alive
    BY <1>2 DEF TreeTyped
  <2>3. children[parent[n]][name[n]] = n /\ name[n] \in Names /\ n \in Nodes
    BY <1>1, <1>2 DEF TreeTyped, MapsListChildren
  <2>4. k \in DOMAIN children[q] /\ children[q][k] = n => parent[n] = q /\ name[n] = k
    BY <1>1, <1>2, <2>1, <2>2 DEF TreeTyped, MapsListChildren
  <2>5. CASE q = parent[n]
    BY <1>1, <2>3, <2>4, <2>5
  <2>6. CASE q # parent[n]
    BY <1>1, <2>4, <2>6
  <2> QED
    BY <2>5, <2>6
<1>7. TreeTyped'
  <2>1. \A q \in Places : /\ DOMAIN children'[q] \subseteq Names
                          /\ \A k \in DOMAIN children'[q] : children'[q][k] \in alive'
    <3> SUFFICES ASSUME NEW q \in Places, NEW k \in DOMAIN children'[q]
                 PROVE  k \in Names /\ children'[q][k] \in alive'
      OBVIOUS
    <3>1. q \notin gone
      BY <1>1
    <3>2. k \in DOMAIN children[q] /\ children'[q][k] = children[q][k] /\ children[q][k] # n
      BY <1>6, <3>1
    <3>3. k \in Names /\ children[q][k] \in alive
      BY <1>2, <3>2 DEF TreeTyped
    <3>4. q \in alive \cup {Top}
      BY <1>2, <3>2 DEF TreeTyped, Places
    <3>5. parent[children[q][k]] = q
      BY <1>2, <3>2, <3>3, <3>4 DEF TreeTyped, MapsListChildren
    <3>6. children[q][k] \notin gone
      BY <1>3, <3>1, <3>2, <3>5
    <3> QED
      BY <1>1, <3>2, <3>3, <3>6
  <2>2. \A q \in Nodes \ alive' : DOMAIN children'[q] = {}
    <3> SUFFICES ASSUME NEW q \in Nodes \ alive', q \notin gone PROVE DOMAIN children'[q] = {}
      BY <1>1
    <3>1. q \in Nodes \ alive
      BY <1>1
    <3>2. q # parent[n] /\ q \in Places
      BY <1>1, <1>2, <3>1, NodeTreeAssumption DEF TreeTyped, Places
    <3> QED
      BY <1>1, <1>2, <3>1, <3>2 DEF TreeTyped
  <2> QED
    BY <1>1, <1>2, <1>5, <2>1, <2>2 DEF TreeTyped
<1>8. MapsListChildren'
  <2> SUFFICES ASSUME NEW q \in alive' \cup {Top}, NEW m \in Nodes, NEW k \in Names
               PROVE  (k \in DOMAIN children'[q] /\ children'[q][k] = m)
                        <=> (m \in alive' /\ parent'[m] = q /\ name'[m] = k)
    BY DEF MapsListChildren
  <2>1. q \in alive \cup {Top} /\ q \in Places \ gone
    BY <1>1, <1>2, <1>5 DEF TreeTyped, Places
  <2>2. (k \in DOMAIN children[q] /\ children[q][k] = m)
          <=> (m \in alive /\ parent[m] = q /\ name[m] = k)
    BY <1>2, <2>1 DEF MapsListChildren
  <2>3. (m \in alive /\ parent[m] = q /\ m # n) => m \notin gone
    BY <1>3, <2>1
  <2> QED
    BY <1>1, <1>5, <1>6, <2>1, <2>2, <2>3
<1>9. PathsChained'
  <2>1. ASSUME NEW m \in alive' PROVE path'[m] = Append(PathOf(parent[m])', name'[m])
    <3>1. PathOf(parent[m])' = PathOf(parent[m])
      BY <1>5 DEF PathOf
    <3> QED
      BY <1>2, <1>5, <3>1 DEF PathsChained
  <2> QED
    BY <2>1 DEF PathsChained
<1>10. Table'
  <2>1. {path'[m] : m \in alive'} = {path[m] : m \in alive \ gone}
    BY <1>1, <1>5
  <2> QED
    BY <1>1, <1>2, <1>4, <1>5, <2>1 DEF Table
<1> QED
  BY <1>7, <1>8, <1>9, <1>10 DEF TreeInv, Tree

(* A renamed or moved node is listed once, where and as it is to be ...    *)
ListedAt(new, n, q, nm) ==
  /\ DOMAIN new = Places
  /\ \A r \in Places : \A k : \A m :
       (k \in DOMAIN new[r] /\ new[r][k] = m)
         <=> \/ r = q /\ k = nm /\ m = n
             \/ k \in DOMAIN children[r] /\ children[r][k] = m /\ m # n

LEMMA RelocatedChildren ==
  ASSUME Tree, NEW n \in alive, NEW q \in alive \cup {Top}, NEW nm \in Names,
         (q = parent[n] /\ nm = name[n]) \/ nm \notin DOMAIN children[q],
         NEW new, new = Insert(Erase(children, parent[n], name[n]), q, nm, n)
  PROVE  ListedAt(new, n, q, nm)
<1> DEFINE erased == Erase(children, parent[n], name[n])
<1>1. /\ DOMAIN children = Places /\ q \in Places /\ parent[n] \in Places /\ n \in Nodes
      /\ parent[n] \in alive \cup {Top} /\ name[n] \in Names
  BY PathParts DEF Tree, TreeTyped, Places
<1>2. /\ DOMAIN erased = Places
      /\ DOMAIN erased[parent[n]] = DOMAIN children[parent[n]] \ {name[n]}
      /\ \A k \in DOMAIN children[parent[n]] \ {name[n]} :
           erased[parent[n]][k] = children[parent[n]][k]
      /\ \A r \in Places : r # parent[n] => erased[r] = children[r]
  BY <1>1, EraseIs
<1> HIDE DEF erased
<1>3. /\ DOMAIN new = DOMAIN erased
      /\ DOMAIN new[q] = DOMAIN erased[q] \cup {nm} /\ new[q][nm] = n
      /\ \A k \in DOMAIN erased[q] : k # nm => new[q][k] = erased[q][k]
      /\ \A r \in DOMAIN erased : r # q => new[r] = erased[r]
  <2>1. new = Insert(erased, q, nm, n) /\ q \in DOMAIN erased
    BY <1>1, <1>2 DEF erased
  <2> QED
    BY <2>1, InsertIs
<1>4. nm \notin DOMAIN erased[q]
  BY <1>1, <1>2
<1>5. \A r \in Places : \A k : \A m :
        (k \in DOMAIN erased[r] /\ erased[r][k] = m)
          <=> (k \in DOMAIN children[r] /\ children[r][k] = m /\ m # n)
  <2> SUFFICES ASSUME NEW r \in Places, NEW k, NEW m
               PROVE  (k \in DOMAIN erased[r] /\ erased[r][k] = m)
                        <=> (k \in DOMAIN children[r] /\ children[r][k] = m /\ m # n)
    OBVIOUS
  <2>1. r \in alive \cup {Top} \/ DOMAIN children[r] = {}
    BY DEF Tree, TreeTyped, Places
  <2>2. k \in DOMAIN children[r] => k \in Names /\ children[r][k] \in alive
    BY DEF Tree, TreeTyped
  <2>3. children[parent[n]][name[n]] = n
    BY <1>1 DEF Tree, MapsListChildren
  <2>4. k \in DOMAIN children[r] /\ children[r][k] = n => parent[n] = r /\ name[n] = k
    BY <1>1, <2>1, <2>2 DEF Tree, MapsListChildren
  <2>5. CASE r = parent[n]
    BY <1>2, <2>3, <2>4, <2>5
  <2>6. CASE r # parent[n]
    BY <1>2, <2>4, <2>6
  <2> QED
    BY <2>5, <2>6
<1>6. ASSUME NEW r \in Places, NEW k, NEW m
      PROVE  (k \in DOMAIN new[r] /\ new[r][k] = m)
               <=> \/ r = q /\ k = nm /\ m = n
                   \/ k \in DOMAIN children[r] /\ children[r][k] = m /\ m # n
  <2>1. (k \in DOMAIN new[r] /\ new[r][k] = m)
          <=> \/ r = q /\ k = nm /\ m = n
              \/ k \in DOMAIN erased[r] /\ erased[r][k] = m
    BY <1>2, <1>3, <1>4
  <2> QED
    BY <1>5, <2>1
<1> QED
  BY <1>2, <1>3, <1>6 DEF ListedAt

(* ... and it and what is below it have the paths that follow.             *)
PathsAt(new, n, q, nm) ==
  /\ DOMAIN new = Nodes
  /\ new[n] = Append(PathOf(q), nm)
  /\ \A m \in Subtree(n) : m # n => new[m] = Append(new[parent[m]], name[m])
  /\ \A m \in Subtree(n) : new[m] \in Seq(Names)
  /\ \A m \in Nodes \ Subtree(n) : new[m] = path[m]

Relocated(n, q, nm) ==
  /\ alive' = alive /\ byId' = byId
  /\ DOMAIN parent' = Nodes /\ DOMAIN name' = Nodes
  /\ parent'[n] = q /\ name'[n] = nm
  /\ \A m \in Nodes : m # n => parent'[m] = parent[m] /\ name'[m] = name[m]
  /\ ListedAt(children', n, q, nm) /\ PathsAt(path', n, q, nm)
  /\ byPath' = Added(Removed(n), Restrict(path', Subtree(n)))

LEMMA RelocatedPaths ==
  ASSUME Tree, NEW n \in alive, NEW q \in alive \cup {Top}, NEW nm \in Names,
         NEW new, new = NewPath(n, q, nm)
  PROVE  PathsAt(new, n, q, nm)
<1> DEFINE re == Repathed(n, q, nm)
<1>1. /\ DOMAIN re = Subtree(n)
      /\ re[n] = Append(PathOf(q), nm)
      /\ \A m \in Subtree(n) : m # n => re[m] = Append(re[parent[m]], name[m])
      /\ \A m \in Subtree(n) : re[m] \in Seq(Names)
  BY RepathedIs
<1> HIDE DEF re
<1>2. new = Over(re, path)
  BY DEF re, NewPath
<1>3. n \in Subtree(n) /\ Subtree(n) \subseteq Nodes /\ DOMAIN path = Nodes
      /\ \A m \in Subtree(n) : m # n => parent[m] \in Subtree(n)
  BY Subtrees DEF Tree, TreeTyped
<1>4. /\ DOMAIN new = Nodes
      /\ \A m \in Subtree(n) : new[m] = re[m]
      /\ \A m \in Nodes \ Subtree(n) : new[m] = path[m]
  BY <1>1, <1>2, <1>3 DEF Over
<1> QED
  BY <1>1, <1>3, <1>4 DEF PathsAt

(* What renaming and moving have in common.                                *)
LEMMA Relocates ==
  ASSUME TreeInv, NEW n \in alive, NEW q \in alive \cup {Top}, NEW nm \in Names,
         (q = parent[n] /\ nm = name[n]) \/ nm \notin DOMAIN children[q],
         path' = NewPath(n, q, nm),
         children' = Insert(Erase(children, parent[n], name[n]), q, nm, n),
         byPath' = Added(Removed(n), Restrict(path', Subtree(n))),
         alive' = alive, byId' = byId, DOMAIN parent' = Nodes, DOMAIN name' = Nodes,
         parent'[n] = q, name'[n] = nm,
         \A m \in Nodes : m # n => parent'[m] = parent[m] /\ name'[m] = name[m]
  PROVE  Relocated(n, q, nm)
<1>1. Tree
  BY DEF TreeInv
<1>2. ListedAt(children', n, q, nm)
  BY <1>1, RelocatedChildren
<1>3. PathsAt(path', n, q, nm)
  BY <1>1, RelocatedPaths
<1> QED
  BY <1>2, <1>3 DEF Relocated

LEMMA RenameRelocates ==
  ASSUME TreeInv, NEW n \in Nodes, NEW wanted \in Names, RenameCommand(n, wanted)
  PROVE  \E q \in alive \cup {Top} : \E nm \in Names :
           n \in alive /\ q \notin Subtree(n) /\ Relocated(n, q, nm)
<1>1. PICK nm \in FreeName(parent[n], wanted) :
        /\ path' = NewPath(n, parent[n], nm)
        /\ name' = [name EXCEPT ![n] = nm]
        /\ children' = Insert(Erase(children, parent[n], name[n]), parent[n], nm, n)
        /\ byPath' = Added(Removed(n), Restrict(path', Subtree(n)))
  BY DEF RenameCommand
<1>2. n \in alive /\ UNCHANGED <<alive, parent, byId>>
  BY DEF RenameCommand
<1>3. PICK q : q = parent[n]
  OBVIOUS
<1>4. nm \in Names /\ nm \notin DOMAIN children[q]
  BY <1>3, FreeNameIs
<1>5. Tree /\ q \in alive \cup {Top} /\ q \notin Subtree(n)
  BY <1>2, <1>3, PathParts, Subtrees DEF TreeInv
<1>6. /\ DOMAIN parent' = Nodes /\ DOMAIN name' = Nodes
      /\ parent'[n] = q /\ name'[n] = nm
      /\ \A m \in Nodes : m # n => parent'[m] = parent[m] /\ name'[m] = name[m]
  BY <1>1, <1>2, <1>3, <1>5 DEF Tree, TreeTyped
<1>7. /\ path' = NewPath(n, q, nm)
      /\ children' = Insert(Erase(children, parent[n], name[n]), q, nm, n)
  BY <1>1, <1>3
<1>8. Relocated(n, q, nm)
  BY <1>1, <1>2, <1>4, <1>5, <1>6, <1>7, Relocates
<1> QED
  BY <1>2, <1>4, <1>5, <1>8

(* A move that is executed and leaves the tree whole.                      *)
Moved(n, p) ==
  /\ n \in alive /\ p \in alive \cup {Top}
  /\ GoodMove(n, p)
  /\ MoveTo(n, p)

LEMMA MoveRelocates ==
  ASSUME TreeInv, NEW n \in Nodes, NEW p \in Places, Moved(n, p)
  PROVE  \E q \in alive \cup {Top} : \E nm \in Names :
           n \in alive /\ q \notin Subtree(n) /\ Relocated(n, q, nm)
<1>1. PICK nm : nm = name[n]
  OBVIOUS
<1>2. /\ path' = NewPath(n, p, nm)
      /\ children' = Insert(Erase(children, parent[n], name[n]), p, nm, n)
      /\ byPath' = Added(Removed(n), Restrict(path', Subtree(n)))
      /\ parent' = [parent EXCEPT ![n] = p]
      /\ UNCHANGED <<alive, name, byId>>
  BY <1>1 DEF Moved, MoveTo
<1>3. /\ n \in alive /\ p \in alive \cup {Top} /\ p \notin Subtree(n)
      /\ (p = parent[n] /\ nm = name[n]) \/ nm \notin DOMAIN children[p]
  BY <1>1 DEF Moved, GoodMove, NameTaken
<1>4. Tree /\ nm \in Names
  BY <1>1, <1>3, PathParts DEF TreeInv
<1>5. /\ DOMAIN parent' = Nodes /\ DOMAIN name' = Nodes
      /\ parent'[n] = p /\ name'[n] = nm
      /\ \A m \in Nodes : m # n => parent'[m] = parent[m] /\ name'[m] = name[m]
  BY <1>1, <1>2, <1>4 DEF Tree, TreeTyped
<1>6. Relocated(n, p, nm)
  BY <1>2, <1>3, <1>4, <1>5, Relocates
<1> QED
  BY <1>3, <1>4, <1>6

LEMMA RelocateTree ==
  ASSUME TreeInv, NEW n \in alive, NEW q \in alive \cup {Top}, NEW nm \in Names,
         q \notin Subtree(n), Relocated(n, q, nm)
  PROVE  TreeInv'
<1> DEFINE sub == Subtree(n)
<1>1. Tree /\ Table /\ TreeTyped /\ MapsListChildren /\ PathsChained
  BY DEF TreeInv, Tree
<1>2. /\ n \in sub /\ sub \subseteq alive
      /\ \A k \in alive : parent[k] \in sub => k \in sub
      /\ \A k \in sub : k # n => parent[k] \in sub
      /\ q \notin sub
  BY <1>1, Subtrees
<1>3. /\ Removed(n) = [r \in DOMAIN Removed(n) |-> Removed(n)[r]]
      /\ DOMAIN Removed(n) = {path[m] : m \in alive \ sub}
      /\ \A m \in alive \ sub : Removed(n)[path[m]] = m
  BY RemovedIs
<1>4. /\ alive' = alive /\ byId' = byId
      /\ DOMAIN parent' = Nodes /\ DOMAIN name' = Nodes
      /\ parent'[n] = q /\ name'[n] = nm
      /\ \A m \in Nodes : m # n => parent'[m] = parent[m] /\ name'[m] = name[m]
      /\ byPath' = Added(Removed(n), Restrict(path', sub))
  BY DEF Relocated
<1>5. /\ DOMAIN children' = Places
      /\ \A r \in Places : \A k : \A m :
           (k \in DOMAIN children'[r] /\ children'[r][k] = m)
             <=> \/ r = q /\ k = nm /\ m = n
                 \/ k \in DOMAIN children[r] /\ children[r][k] = m /\ m # n
  BY DEF Relocated, ListedAt
<1>6. /\ DOMAIN path' = Nodes
      /\ path'[n] = Append(PathOf(q), nm)
      /\ \A m \in sub : m # n => path'[m] = Append(path'[parent[m]], name[m])
      /\ \A m \in sub : path'[m] \in Seq(Names)
      /\ \A m \in Nodes \ sub : path'[m] = path[m]
  BY DEF Relocated, PathsAt
<1> HIDE DEF sub
<1>7. \A m \in alive : /\ m \in Nodes /\ m # Top /\ parent[m] \in alive \cup {Top}
                       /\ path[m] = Append(PathOf(parent[m]), name[m])
  BY <1>1, NodeTreeAssumption DEF TreeTyped, PathsChained
<1>8. TreeTyped'
  <2>1. \A m \in alive : /\ parent'[m] \in alive \cup {Top} /\ name'[m] \in Names
                         /\ path'[m] \in Seq(Names)
    BY <1>1, <1>4, <1>6 DEF TreeTyped
  <2>2. \A r \in Places : /\ DOMAIN children'[r] \subseteq Names
                          /\ \A k \in DOMAIN children'[r] : children'[r][k] \in alive
    <3>1. \A r \in Places : \A k \in DOMAIN children[r] : k \in Names /\ children[r][k] \in alive
      BY <1>1 DEF TreeTyped
    <3> QED
      BY <1>5, <3>1
  <2>3. \A r \in Nodes \ alive : DOMAIN children'[r] = {}
    <3> SUFFICES ASSUME NEW r \in Nodes \ alive, NEW k \in DOMAIN children'[r] PROVE FALSE
      OBVIOUS
    <3>1. r # q /\ r \in Places /\ DOMAIN children[r] = {}
      BY <1>1, NodeTreeAssumption DEF TreeTyped, Places
    <3> QED
      BY <1>5, <3>1
  <2> QED
    BY <1>1, <1>4, <1>5, <1>6, <2>1, <2>2, <2>3 DEF TreeTyped
<1>9. MapsListChildren'
  <2> SUFFICES ASSUME NEW r \in alive' \cup {Top}, NEW m \in Nodes, NEW k \in Names
               PROVE  (k \in DOMAIN children'[r] /\ children'[r][k] = m)
                        <=> (m \in alive' /\ parent'[m] = r /\ name'[m] = k)
    BY DEF MapsListChildren
  <2>1. r \in alive \cup {Top} /\ r \in Places
    BY <1>4, <1>7 DEF Places
  <2>2. (k \in DOMAIN children[r] /\ children[r][k] = m)
          <=> (m \in alive /\ parent[m] = r /\ name[m] = k)
    BY <1>1, <2>1 DEF MapsListChildren
  <2> QED
    BY <1>4, <1>5, <2>1, <2>2
<1>10. PathsChained'
  <2>1. ASSUME NEW m \in alive PROVE path'[m] = Append(PathOf(parent[m])', name'[m])
    <3>1. CASE m = n
      <4>1. PathOf(parent[m])' = PathOf(q)
        BY <1>2, <1>4, <1>6, <1>7, <3>1 DEF PathOf
      <4> QED
        BY <1>4, <1>6, <3>1, <4>1
    <3>2. CASE m \in sub /\ m # n
      <4>1. PathOf(parent[m])' = path'[parent[m]]
        BY <1>2, <1>4, <1>7, <3>2 DEF PathOf
      <4> QED
        BY <1>4, <1>6, <1>7, <3>2, <4>1
    <3>3. CASE m \notin sub
      <4>1. m # n /\ parent[m] \notin sub /\ parent'[m] = parent[m] /\ name'[m] = name[m]
        BY <1>2, <1>4, <1>7, <3>3
      <4>2. PathOf(parent[m])' = PathOf(parent[m])
        BY <1>6, <1>7, <4>1 DEF PathOf
      <4> QED
        BY <1>6, <1>7, <3>3, <4>1, <4>2
    <3> QED
      BY <3>1, <3>2, <3>3
  <2> QED
    BY <1>4, <2>1 DEF PathsChained
<1>11. Tree'
  BY <1>8, <1>9, <1>10 DEF Tree
<1>12. Table'
  <2>0. PICK more : more = Restrict(path', sub)
    OBVIOUS
  <2>1. DOMAIN more = sub /\ \A m \in sub : more[m] = path'[m]
    BY <2>0 DEF Restrict
  <2>2. \A a, b \in DOMAIN more : more[a] = more[b] => a = b
    BY <1>2, <1>4, <1>11, <2>1, PathsDifferNext
  <2>3. \A a \in DOMAIN more : more[a] \notin DOMAIN Removed(n)
    <3> SUFFICES ASSUME NEW a \in sub, NEW m \in alive \ sub PROVE path'[a] # path[m]
      BY <1>3, <2>1
    <3>1. path'[m] = path[m] /\ a # m /\ a \in alive'
      BY <1>2, <1>4, <1>6, <1>7
    <3> QED
      BY <1>4, <1>11, <3>1, PathsDifferNext
  <2>4. PICK old : old = Removed(n)
    OBVIOUS
  <2>5. \A nw : nw = Added(old, more) =>
          /\ nw = [r \in DOMAIN nw |-> nw[r]]
          /\ DOMAIN nw = DOMAIN old \cup {more[a] : a \in DOMAIN more}
          /\ \A r \in DOMAIN old : nw[r] = old[r]
          /\ \A a \in DOMAIN more : nw[more[a]] = a
    <3>1. \A a \in DOMAIN more : more[a] \notin DOMAIN old
      BY <2>3, <2>4
    <3> QED
      BY <2>2, <3>1, AddedIs
  <2>6. byPath' = Added(old, more)
    BY <1>4, <2>0, <2>4
  <2>7. /\ byPath' = [r \in DOMAIN byPath' |-> byPath'[r]]
        /\ DOMAIN byPath' = DOMAIN old \cup {more[a] : a \in sub}
        /\ \A r \in DOMAIN old : byPath'[r] = old[r]
        /\ \A a \in sub : byPath'[path'[a]] = a
    BY <2>1, <2>5, <2>6
  <2>8. \A m \in alive \ sub : path'[m] = path[m] /\ path[m] \in DOMAIN old /\ old[path[m]] = m
    BY <1>3, <1>6, <1>7, <2>4
  <2>9. DOMAIN old = {path'[m] : m \in alive \ sub}
    BY <1>3, <2>4, <2>8
  <2>10. {more[a] : a \in sub} = {path'[a] : a \in sub}
    BY <2>1
  <2>11. DOMAIN byPath' = {path'[m] : m \in alive}
    <3>1. DOMAIN byPath' = {path'[m] : m \in alive \ sub} \cup {path'[m] : m \in sub}
      BY <2>7, <2>9, <2>10
    <3>2. alive = (alive \ sub) \cup sub
      BY <1>2
    <3> QED
      BY <3>1, <3>2
  <2>12. \A m \in alive : byPath'[path'[m]] = m
    BY <2>7, <2>8
  <2> QED
    BY <1>1, <1>4, <2>7, <2>11, <2>12 DEF Table
<1> QED
  BY <1>11, <1>12 DEF TreeInv

LEMMA UnchangedTree ==
  ASSUME TreeInv, UNCHANGED <<alive, parent, name, path, children, byPath, byId>>
  PROVE  TreeInv'
<1>1. TreeTyped' /\ MapsListChildren' /\ PathsChained' /\ Table'
  BY DEF TreeInv, Tree, TreeTyped, MapsListChildren, PathsChained, PathOf, Table
<1> QED
  BY <1>1 DEF TreeInv, Tree

LEMMA RenameTree ==
  ASSUME TreeInv, NEW n \in Nodes, NEW nm \in Names, RenameCommand(n, nm)
  PROVE  TreeInv'
<1>1. PICK q \in alive \cup {Top}, k \in Names :
        n \in alive /\ q \notin Subtree(n) /\ Relocated(n, q, k)
  BY RenameRelocates
<1> QED
  BY <1>1, RelocateTree

LEMMA MoveTree ==
  ASSUME TreeInv, NEW n \in Nodes, NEW p \in Places, Moved(n, p)
  PROVE  TreeInv'
<1>1. PICK q \in alive \cup {Top}, k \in Names :
        n \in alive /\ q \notin Subtree(n) /\ Relocated(n, q, k)
  BY MoveRelocates
<1> QED
  BY <1>1, RelocateTree

(* A move that the node's logic refuses leaves a freed node in the state   *)
(* table, and one to where the name is taken loses the node that moves.    *)
LEMMA TakenLoses ==
  ASSUME TreeInv, NEW n \in alive, NEW p \in alive \cup {Top}, MoveTo(n, p),
         p \notin Subtree(n), NameTaken(n, p)
  PROVE  ~Intact'
<1>1. Tree /\ Table /\ name[n] \in Names /\ alive' = alive
  BY PathParts DEF TreeInv, MoveTo
<1>2. PICK k : k = children[p][name[n]]
  OBVIOUS
<1>3. /\ k \in alive /\ parent[k] = p /\ name[k] = name[n]
  BY <1>1, <1>2 DEF NameTaken, Tree, TreeTyped, MapsListChildren, Places
<1>4. k # n /\ k \notin Subtree(n)
  BY <1>1, <1>3, Subtrees DEF NameTaken
<1>5. path'[n] = path[k]
  <2>1. path[k] = Append(PathOf(p), name[n])
    BY <1>1, <1>3 DEF Tree, PathsChained
  <2>2. path' = NewPath(n, p, name[n])
    BY DEF MoveTo
  <2>3. PICK new : new = NewPath(n, p, name[n])
    OBVIOUS
  <2>4. PathsAt(new, n, p, name[n])
    BY <1>1, <2>3, RelocatedPaths
  <2> QED
    BY <2>1, <2>2, <2>3, <2>4 DEF PathsAt
<1>6. path[k] \in DOMAIN Removed(n) /\ Removed(n)[path[k]] = k
  BY <1>3, <1>4, RemovedIs
<1>7. byPath'[path[k]] = k
  <2>1. PICK new : byPath' = Added(Removed(n), new)
    BY DEF MoveTo
  <2> QED
    BY <1>6, <2>1 DEF Added, Over
<1> QED
  BY <1>1, <1>4, <1>5, <1>7 DEF Intact

(* So a move leaves the tree whole, ends the process, or does damage that  *)
(* Intact knows.                                                           *)
LEMMA MoveCases ==
  ASSUME TreeInv, NEW n \in Nodes, NEW p \in Places, MoveCommand(n, p)
  PROVE  \/ Moved(n, p) \/ Restart
         \/ ~Intact' /\ (~CanBeChildOf(n, p) \/ NameTaken(n, p))
<1>1. n \in alive /\ p \in alive \cup {Top}
  BY DEF MoveCommand
<1>2. CASE Crashes(n, p) /\ Restart
  BY <1>2
<1>3. CASE ~Crashes(n, p) /\ ~CanBeChildOf(n, p) /\ Refuse(n)
  <2>1. alive' = alive \ Subtree(n) /\ byId' = byId /\ byId = alive
    BY <1>3 DEF Refuse, Free, TreeInv, Table
  <2>2. n \in Subtree(n)
    BY <1>1, Subtrees DEF TreeInv
  <2> QED
    BY <1>1, <1>3, <2>1, <2>2 DEF Intact
<1>4. CASE ~Crashes(n, p) /\ CanBeChildOf(n, p) /\ MoveTo(n, p)
  <2>1. p \notin Subtree(n)
    BY <1>4 DEF Crashes
  <2>2. CASE NameTaken(n, p)
    BY <1>1, <1>4, <2>1, <2>2, TakenLoses
  <2>3. CASE ~NameTaken(n, p)
    BY <1>1, <1>4, <2>1, <2>3 DEF Moved, GoodMove
  <2> QED
    BY <2>2, <2>3
<1> QED
  BY <1>2, <1>3, <1>4 DEF MoveCommand

LEMMA GoodMoves ==
  ASSUME NEW n, NEW p, MoveCommand(n, p), GoodMove(n, p)
  PROVE  Moved(n, p) /\ ~Crashes(n, p)
BY DEF MoveCommand, GoodMove, Crashes, Moved

(* A new process begins like the first one.                                *)
LEMMA RestartInit ==
  ASSUME Restart
  PROVE  Init'
BY DEF Init, Restart

LEMMA RestartTree ==
  ASSUME Restart
  PROVE  TreeInv'
<1>1. Init'
  BY RestartInit
<1> QED
  BY <1>1, InitTree, PTL

(* The step, but for the commands that are not followed.                   *)
LEMMA CommandTree ==
  ASSUME TreeInv, Command
  PROVE  \/ TreeInv'
         \/ /\ ~Intact'
            /\ \E n \in alive, p \in Places :
                 (~CanBeChildOf(n, p) \/ NameTaken(n, p)) /\ MoveCommand(n, p)
<1>1. ASSUME NEW n \in Nodes, NEW p \in Places, NEW nm \in Names, NewCommand(n, p, nm)
      PROVE  TreeInv'
  BY <1>1, NewTree
<1>2. ASSUME NEW n \in Nodes, DeleteCommand(n) PROVE TreeInv'
  BY <1>2, DeleteTree
<1>3. ASSUME NEW n \in Nodes, NEW nm \in Names, RenameCommand(n, nm) PROVE TreeInv'
  BY <1>3, RenameTree
<1>4. ASSUME NEW n \in Nodes, NEW p \in Places, MoveCommand(n, p)
      PROVE  TreeInv' \/ (~Intact' /\ n \in alive /\ (~CanBeChildOf(n, p) \/ NameTaken(n, p)))
  <2>1. n \in alive
    BY <1>4 DEF MoveCommand
  <2>2. CASE Moved(n, p)
    BY <2>2, MoveTree
  <2>3. CASE Restart
    BY <2>3, RestartTree
  <2> QED
    BY <1>4, <2>1, <2>2, <2>3, MoveCases
<1>5. ASSUME NEW c, NEW e, NEW p, SetPath(c, e, p) PROVE TreeInv'
  BY <1>5, UnchangedTree DEF SetPath
<1> QED
  BY <1>1, <1>2, <1>3, <1>4, <1>5 DEF Command

(* As long as nothing is lost, the tree is whole.                          *)
Whole == Intact => TreeInv

LEMMA NextTree ==
  ASSUME Whole, [Next]_vars
  PROVE  Whole'
<1>1. CASE Intact /\ Command
  BY <1>1, CommandTree DEF Whole
<1>2. CASE UNCHANGED vars
  <2>1. Intact' = Intact
    BY <1>2 DEF vars, Intact
  <2>2. TreeInv => TreeInv'
    BY <1>2, UnchangedTree DEF vars
  <2> QED
    BY <2>1, <2>2 DEF Whole
<1> QED
  BY <1>1, <1>2 DEF Next

(* After any sequence of commands all copies of the tree agree, unless a   *)
(* move was refused by the node's logic, or went to where its name is      *)
(* taken: no other step parts them, neither a process that ends in a       *)
(* circle of nodes and begins again, nor one in a tree already damaged.    *)
THEOREM TreeStaysWhole == Spec => CopiesStayInStep
<1>1. Init => Whole
  BY InitTree DEF Whole
<1>2. Whole /\ [Next]_vars => Whole'
  BY NextTree
<1>3. ASSUME Whole, [Next]_vars
      PROVE  [\/ CopiesAgree'
              \/ ~CopiesAgree
              \/ \E n \in alive, p \in Places :
                   (~CanBeChildOf(n, p) \/ NameTaken(n, p)) /\ MoveCommand(n, p)]_vars
  <2>1. CASE UNCHANGED vars
    BY <2>1
  <2>2. CASE Intact /\ Command
    <3>1. TreeInv
      BY <1>3, <2>2 DEF Whole
    <3>2. TreeInv' => CopiesAgree'
      BY TreeCopiesNext
    <3> QED
      BY <2>2, <3>1, <3>2, CommandTree
  <2> QED
    BY <1>3, <2>1, <2>2 DEF Next
<1> QED
  BY <1>1, <1>2, <1>3, PTL DEF Spec, CopiesStayInStep

-----------------------------------------------------------------------------
(* What is above a place *)

LEMMA AboveLevels ==
  ASSUME Tree, NEW p \in alive \cup {Top}
  PROVE  \E R : \E level :
           /\ R = {e \in (alive \cup {Top}) \X (alive \cup {Top}) : e[1] # Top /\ e[2] = parent[e[1]]}
           /\ IsLevels(level, alive \cup {Top}, R, p)
           /\ AtOrAbove(p) = level[Cardinality(Nodes)]
<1> DEFINE S == alive \cup {Top}
           R == {e \in S \X S : e[1] # Top /\ e[2] = parent[e[1]]}
           Rec(f) == f = [k \in Nat |->
             IF k = 0 THEN {p}
             ELSE LET lower == f[k - 1] IN lower \cup {parent[m] : m \in lower \ {Top}}]
           level == CHOOSE f : Rec(f)
<1>1. p \in S /\ \A m \in S \ {Top} : parent[m] \in S
  BY DEF Tree, TreeTyped
<1>2. ASSUME NEW T \in SUBSET S
      PROVE  Step(S, R, T) = T \cup {parent[m] : m \in T \ {Top}}
  <2>1. \A a \in S, b \in S : <<a, b>> \in R <=> (a # Top /\ b = parent[a])
    OBVIOUS
  <2> HIDE DEF R, S
  <2>2. \A b : b \in Step(S, R, T) <=> b \in T \/ (b \in S /\ \E a \in T : <<a, b>> \in R)
    BY DEF Step
  <2>3. \A b : (b \in S /\ \E a \in T : <<a, b>> \in R) <=> \E a \in T : a # Top /\ b = parent[a]
    BY <1>1, <2>1
  <2> QED
    BY <2>2, <2>3
<1> HIDE DEF S, R
<1>3. PICK f : IsLevels(f, S, R, p)
  BY <1>1, LevelsExist
<1>4. Rec(f)
  <2>1. ASSUME NEW k \in Nat
        PROVE  f[k] = IF k = 0 THEN {p}
                      ELSE f[k - 1] \cup {parent[m] : m \in f[k - 1] \ {Top}}
    <3>1. CASE k = 0
      BY <1>3, <3>1 DEF IsLevels
    <3>2. CASE k # 0
      <4>1. k - 1 \in Nat /\ (k - 1) + 1 = k
        BY <3>2
      <4>2. f[k] = Step(S, R, f[k - 1]) /\ f[k - 1] \in SUBSET S
        BY <1>3, <4>1 DEF IsLevels
      <4> QED
        BY <1>2, <3>2, <4>2
    <3> QED
      BY <3>1, <3>2
  <2>2. f = [k \in Nat |-> f[k]]
    BY <1>3 DEF IsLevels
  <2> QED
    BY <2>1, <2>2
<1>5. Rec(level)
  <2> HIDE DEF Rec
  <2> QED
    BY <1>4
<1>6. AtOrAbove(p) = level[Cardinality(Nodes)]
  BY DEF AtOrAbove
<1> HIDE DEF level
<1>7. /\ level[0] = {p} /\ level = [k \in Nat |-> level[k]]
      /\ \A k \in Nat \ {0} :
           level[k] = level[k - 1] \cup {parent[m] : m \in level[k - 1] \ {Top}}
  BY <1>5
<1> HIDE DEF Rec
<1>8. ASSUME NEW k \in Nat, level[k] \in SUBSET S
      PROVE  level[k + 1] = Step(S, R, level[k])
  <2>1. k + 1 \in Nat \ {0} /\ (k + 1) - 1 = k
    OBVIOUS
  <2> QED
    BY <1>2, <1>7, <1>8, <2>1
<1>9. IsLevels(level, S, R, p)
  BY <1>1, <1>7, <1>8, LevelsAre
<1> QED
  BY <1>6, <1>9 DEF R, S

LEMMA EqualPaths ==
  ASSUME Tree, NEW p \in alive \cup {Top}, NEW q \in alive \cup {Top}, PathOf(p) = PathOf(q)
  PROVE  p = q
<1>1. \A a \in alive : a # Top /\ PathOf(a) = path[a] /\ Len(path[a]) # 0
  <2>1. \A a \in alive : a # Top
    BY NodeTreeAssumption DEF Tree, TreeTyped
  <2> QED
    BY <2>1, PathParts, PathTyped DEF PathOf
<1>2. Len(PathOf(Top)) = 0
  BY DEF PathOf
<1> QED
  BY <1>1, <1>2, PathsDiffer

(* A place whose path another's continues is at or above that.             *)
LEMMA PrefixIsAbove ==
  ASSUME Tree, NEW p \in alive \cup {Top}, NEW q \in alive \cup {Top},
         Continues(PathOf(p), PathOf(q))
  PROVE  q \in AtOrAbove(p)
<1> DEFINE S == alive \cup {Top}
           P == PathOf(p)
<1>1. PICK R, level :
        /\ R = {e \in S \X S : e[1] # Top /\ e[2] = parent[e[1]]}
        /\ IsLevels(level, S, R, p)
        /\ AtOrAbove(p) = level[Cardinality(Nodes)]
  BY AboveLevels
<1>2. \A a \in S : PathOf(a) \in Seq(Names) /\ Len(PathOf(a)) \in Nat
  BY PathTyped
<1>3. P \in Seq(Names) /\ Len(P) \in Nat
  BY <1>2
<1> DEFINE Here(a, d) == /\ a \in S /\ a \in level[d] /\ Len(PathOf(a)) = Len(P) - d
                         /\ Continues(P, PathOf(a))
           bad == {d \in Nat : d <= Len(P) /\ ~ \E a : Here(a, d)}
<1>4. bad = {}
  <2> SUFFICES ASSUME bad # {} PROVE FALSE
    OBVIOUS
  <2>1. bad \in SUBSET Nat
    OBVIOUS
  <2>2. PICK d \in bad : \A j \in bad : d <= j
    <3> HIDE DEF bad
    <3> QED
      BY <2>1, LeastNumber
  <2>3. d \in Nat /\ d <= Len(P) /\ ~ \E a : Here(a, d)
    OBVIOUS
  <2>4. CASE d = 0
    <3>1. p \in level[0] /\ Len(P) - 0 = Len(P) /\ Continues(P, P)
      BY <1>1, <1>3 DEF IsLevels, Continues
    <3>2. Here(p, 0)
      BY <3>1
    <3> QED
      BY <2>3, <2>4, <3>2
  <2>5. CASE d # 0
    <3>1. d - 1 \in Nat /\ d - 1 <= Len(P) /\ ~(d <= d - 1) /\ (d - 1) + 1 = d
      BY <1>3, <2>3, <2>5
    <3>2. d - 1 \notin bad
      <4> HIDE DEF bad
      <4> QED
        BY <2>2, <3>1
    <3>3. PICK a : Here(a, d - 1)
      BY <3>1, <3>2
    <3>4. a # Top
      <4>1. Len(PathOf(a)) # 0
        <5>1. \A l \in Nat : d <= l => l - (d - 1) # 0
          BY <2>3
        <5> QED
          BY <1>3, <2>3, <3>3, <5>1
      <4>2. Len(PathOf(Top)) = 0
        BY DEF PathOf
      <4> QED
        BY <4>1, <4>2
    <3>5. /\ a \in alive /\ parent[a] \in S /\ PathOf(a) = path[a]
          /\ Len(path[a]) = Len(PathOf(parent[a])) + 1
          /\ \A i \in 1..Len(PathOf(parent[a])) : path[a][i] = PathOf(parent[a])[i]
      BY <3>3, <3>4, PathParts DEF PathOf
    <3>6. Len(PathOf(parent[a])) = Len(P) - d
      <4>1. \A l, k \in Nat : k + 1 = l - (d - 1) => k = l - d
        BY <2>3
      <4>2. Len(PathOf(parent[a])) \in Nat /\ Len(PathOf(parent[a])) + 1 = Len(P) - (d - 1)
        BY <1>2, <3>3, <3>5
      <4> QED
        BY <1>3, <4>1, <4>2
    <3>7. Continues(P, PathOf(parent[a]))
      <4>1. Len(PathOf(parent[a])) <= Len(P) /\ Len(PathOf(parent[a])) \in Nat
        BY <1>2, <1>3, <2>3, <3>5, <3>6
      <4>2. ASSUME NEW i \in 1..Len(PathOf(parent[a])) PROVE P[i] = PathOf(parent[a])[i]
        <5>1. i \in 1..Len(PathOf(a))
          BY <3>5, <4>1
        <5> QED
          BY <3>3, <3>5, <5>1 DEF Continues
      <4> QED
        BY <4>1, <4>2 DEF Continues
    <3>8. parent[a] \in level[d]
      <4>1. level[d] = Step(S, R, level[d - 1]) /\ a \in level[d - 1]
        BY <1>1, <3>1, <3>3 DEF IsLevels
      <4>2. <<a, parent[a]>> \in R
        BY <1>1, <3>4, <3>5
      <4> HIDE DEF S
      <4> QED
        BY <3>5, <4>1, <4>2 DEF Step
    <3>9. Here(parent[a], d)
      BY <3>5, <3>6, <3>7, <3>8
    <3> QED
      BY <2>3, <3>9
  <2> QED
    BY <2>4, <2>5
<1> DEFINE d == Len(P) - Len(PathOf(q))
<1>5. d \in Nat /\ d <= Len(P) /\ Len(P) - d = Len(PathOf(q))
  <2>1. Len(PathOf(q)) <= Len(P) /\ Len(PathOf(q)) \in Nat
    BY <1>2 DEF Continues
  <2>2. \A k, l \in Nat : k <= l => l - k \in Nat /\ l - k <= l /\ l - (l - k) = k
    OBVIOUS
  <2> QED
    BY <1>3, <2>1, <2>2
<1>6. PICK a : Here(a, d)
  BY <1>4, <1>5
<1>7. PathOf(a) = PathOf(q)
  <2>1. \A s, t \in Seq(Names) : Len(s) = Len(t) /\ (\A i \in 1..Len(t) : s[i] = t[i]) => s = t
    OBVIOUS
  <2>2. Len(PathOf(a)) = Len(PathOf(q))
    BY <1>5, <1>6
  <2>3. \A i \in 1..Len(PathOf(q)) : PathOf(a)[i] = PathOf(q)[i]
    BY <1>6, <2>2 DEF Continues
  <2> QED
    BY <1>2, <1>6, <2>1, <2>2, <2>3
<1>8. a = q
  BY <1>6, <1>7, EqualPaths
<1>9. d <= Cardinality(Nodes) /\ Cardinality(Nodes) \in Nat
  <2>1. Cardinality(Nodes) \in Nat
    BY NodeTreeAssumption, FS_CardinalityType
  <2>2. Len(P) <= Cardinality(Nodes)
    <3>1. CASE p = Top
      BY <2>1, <3>1 DEF PathOf
    <3>2. CASE p # Top
      BY <3>2, PathsBounded DEF PathOf
    <3> QED
      BY <3>1, <3>2
  <2> HIDE DEF d, P
  <2> QED
    BY <1>3, <1>5, <2>1, <2>2
<1>10. level[d] \subseteq level[Cardinality(Nodes)]
  <2> HIDE DEF d, S
  <2> QED
    BY <1>1, <1>5, <1>9, LevelsGrow
<1> QED
  BY <1>1, <1>6, <1>8, <1>10

-----------------------------------------------------------------------------
(* The ends of connections *)

(* They are paths, and a connection that does not exist has none.          *)
EndsInv ==
  /\ DOMAIN ends = Connections
  /\ \A c \in Connections : DOMAIN ends[c] = Ends
  /\ \A c \in Connections, e \in Ends : ends[c][e] \in Seq(Names)
  /\ \A c \in Connections \ alive, e \in Ends : ends[c][e] = <<>>

LEMMA InitEnds ==
  ASSUME Init
  PROVE  EndsInv
<1>1. <<>> \in Seq(Names)
  OBVIOUS
<1>2. ends = [c \in Connections |-> [e \in Ends |-> <<>>]]
  BY DEF Init
<1> QED
  BY <1>1, <1>2 DEF EndsInv

LEMMA NewEnds ==
  ASSUME EndsInv, NEW n, NEW p, NEW wanted, NewCommand(n, p, wanted)
  PROVE  EndsInv'
<1>1. ends' = ends /\ alive' = alive \cup {n}
  BY DEF NewCommand
<1> QED
  BY <1>1 DEF EndsInv

LEMMA DeleteEnds ==
  ASSUME EndsInv, NEW n, DeleteCommand(n)
  PROVE  EndsInv'
<1> DEFINE gone == Subtree(n) \cap Connections
<1>1. /\ ends' = Over([c \in gone |-> [e \in Ends |-> <<>>]], ends)
      /\ alive' = alive \ Subtree(n)
  BY DEF DeleteCommand
<1>2. /\ DOMAIN ends' = Connections
      /\ \A c \in gone : ends'[c] = [e \in Ends |-> <<>>]
      /\ \A c \in Connections \ gone : ends'[c] = ends[c]
  BY <1>1 DEF EndsInv, Over
<1>3. \A c \in gone : DOMAIN ends'[c] = Ends /\ \A e \in Ends : ends'[c][e] = <<>>
  BY <1>2
<1>4. <<>> \in Seq(Names)
  OBVIOUS
<1>5. \A c \in Connections \ alive' : c \in gone \/ c \in Connections \ alive
  BY <1>1
<1> HIDE DEF gone
<1>6. gone \subseteq Connections
  BY DEF gone
<1>7. \A c \in Connections : DOMAIN ends'[c] = Ends
  BY <1>2, <1>3 DEF EndsInv
<1>8. \A c \in Connections, e \in Ends : ends'[c][e] = <<>> \/ ends'[c][e] = ends[c][e]
  BY <1>2, <1>3
<1>9. \A c \in Connections, e \in Ends : ends'[c][e] \in Seq(Names)
  BY <1>4, <1>8 DEF EndsInv
<1>10. \A c \in Connections \ alive', e \in Ends : ends'[c][e] = <<>>
  BY <1>3, <1>5, <1>8 DEF EndsInv
<1> QED
  BY <1>2, <1>7, <1>9, <1>10 DEF EndsInv



LEMMA RenameEnds ==
  ASSUME EndsInv, NEW n, NEW wanted, RenameCommand(n, wanted)
  PROVE  EndsInv'
<1>1. PICK new : ends' = EndsRenamed(n, new)
  BY DEF RenameCommand
<1>2. Bounded /\ alive' = alive
  BY DEF RenameCommand
<1>3. /\ DOMAIN ends' = Connections
      /\ \A c \in Connections : DOMAIN ends'[c] = Ends
      /\ \A c \in Connections \ alive, e \in Ends : ends'[c][e] = ends[c][e]
  BY <1>1 DEF EndsRenamed
<1>4. \A c \in Connections, e \in Ends : ends'[c][e] \in Seq(Names)
  BY <1>2 DEF Bounded
<1> QED
  BY <1>2, <1>3, <1>4 DEF EndsInv

LEMMA MoveEnds ==
  ASSUME EndsInv, NEW n, NEW p, Moved(n, p)
  PROVE  EndsInv'
<1>1. PICK new : ends' = EndsMoved(n, p, new)
  BY DEF Moved, MoveTo
<1>2. Bounded /\ alive' = alive
  BY DEF Moved, MoveTo
<1>3. /\ DOMAIN ends' = Connections
      /\ \A c \in Connections : DOMAIN ends'[c] = Ends
      /\ \A c \in Connections \ alive, e \in Ends : ends'[c][e] = ends[c][e]
  BY <1>1 DEF EndsMoved
<1>4. \A c \in Connections, e \in Ends : ends'[c][e] \in Seq(Names)
  BY <1>2 DEF Bounded
<1> QED
  BY <1>2, <1>3, <1>4 DEF EndsInv

(* What a caller sets an end to.                                           *)
LEMMA EndValuesTyped ==
  ASSUME Tree, NEW owner \in alive \cup {Top}, NEW p \in EndValues(owner)
  PROVE  p \in Seq(Names)
<1>1. CASE \E nm \in Names : p = <<nm>>
  BY <1>1
<1>2. CASE p \in {Below(owner, path[m]) : m \in UNION {Subtree(k) : k \in Range(children[owner])}}
  <2>0. PICK k \in Range(children[owner]) : \E m \in Subtree(k) : p = Below(owner, path[m])
    BY <1>2
  <2>1. PICK m \in Subtree(k) : p = Below(owner, path[m])
    BY <2>0
  <2>2. owner \in Places
    BY DEF Tree, TreeTyped, Places
  <2>3. k \in alive
    BY <2>2 DEF Tree, TreeTyped, Range
  <2>4. m \in alive
    BY <2>3, Subtrees
  <2>5. path[m] \in Seq(Names) /\ Len(PathOf(owner)) \in Nat
    BY <2>4, PathParts, PathTyped
  <2>6. \A s \in Seq(Names) : \A i \in Nat : SubSeq(s, i + 1, Len(s)) \in Seq(Names)
    OBVIOUS
  <2> QED
    BY <2>1, <2>5, <2>6 DEF Below
<1> QED
  BY <1>1, <1>2 DEF EndValues

LEMMA SetEnds ==
  ASSUME TreeInv, EndsInv, NEW c \in Connections \cap alive, NEW e \in Ends, NEW p,
         SetPath(c, e, p)
  PROVE  EndsInv'
<1>1. p \in EndValues(parent[c]) /\ ends' = [ends EXCEPT ![c][e] = p] /\ alive' = alive
  BY DEF SetPath
<1>2. parent[c] \in alive \cup {Top} /\ Tree
  BY PathParts DEF TreeInv
<1>3. p \in Seq(Names)
  BY <1>1, <1>2, EndValuesTyped
<1> QED
  BY <1>1, <1>3 DEF EndsInv

-----------------------------------------------------------------------------
(* Wires *)

(* What it takes that an end refers to m.                                  *)
Refers(c, e, m) ==
  m \in alive /\ ends[c][e] # <<>> /\ path[m] = PathOf(parent[c]) \o ends[c][e]

(* The connections that lead the signal from w[1] to w[2].                 *)
Leading(w) == {c \in Living : w \in Connected(c)}

(* The wires there should be, with those that were left.                   *)
Wired ==
  /\ kept \in [Pairs -> Nat]
  /\ \A w \in Pairs : wires[w] = Cardinality(Leading(w)) + kept[w]

LEMMA ConnectsWhat ==
  \A c : \A w \in Pairs :
    w \in Connected(c) <=> Refers(c, "sourcePath", w[1]) /\ Refers(c, "targetPath", w[2])
BY DEF Connected, Referred, Refers, Pairs

LEMMA ConnectsWhatNext ==
  \A c : \A w \in Pairs :
    w \in Connected(c)' <=> Refers(c, "sourcePath", w[1])' /\ Refers(c, "targetPath", w[2])'
<1>1. (\A c : \A w \in Pairs :
         w \in Connected(c) <=> Refers(c, "sourcePath", w[1]) /\ Refers(c, "targetPath", w[2]))'
  BY ConnectsWhat, PTL
<1> QED
  BY <1>1 DEF Pairs, Modules, OfKind

LEMMA Finite ==
  ASSUME Tree, NEW S, S \subseteq alive
  PROVE  IsFiniteSet(S) /\ Cardinality(S) \in Nat
BY NodeTreeAssumption, FS_Subset, FS_CardinalityType DEF Tree, TreeTyped

LEMMA LongerBy ==
  ASSUME NEW S, NEW s \in Seq(S), NEW t \in Seq(S), NEW u \in Seq(S), NEW x \in S,
         Append(s, x) = t \o u, u # <<>>
  PROVE  Continues(s, t)
<1>1. /\ Len(s) \in Nat /\ Len(t) \in Nat /\ Len(u) \in Nat \ {0}
      /\ Len(Append(s, x)) = Len(s) + 1 /\ Len(t \o u) = Len(t) + Len(u)
  OBVIOUS
<1>2. Len(t) <= Len(s)
  BY <1>1
<1>3. ASSUME NEW i \in 1..Len(t) PROVE s[i] = t[i]
  <2>1. (t \o u)[i] = t[i]
    OBVIOUS
  <2>2. i \in 1..Len(s)
    BY <1>1, <1>2
  <2>3. Append(s, x)[i] = s[i]
    BY <2>2
  <2> QED
    BY <2>1, <2>3
<1> QED
  BY <1>2, <1>3 DEF Continues

LEMMA CreateWires ==
  ASSUME TreeInv, EndsInv, Wired, NEW n \in Nodes, NEW p \in Places, NEW wanted \in Names,
         Create(n, p, wanted)
  PROVE  Wired'
<1>0. NewCommand(n, p, wanted)
  BY DEF Create
<1>1. PICK nm \in Names :
           /\ n \notin alive /\ p \in alive \cup {Top} /\ n # p /\ n # Top
           /\ nm \notin DOMAIN children[p]
           /\ DOMAIN parent' = Nodes /\ DOMAIN name' = Nodes /\ DOMAIN path' = Nodes
           /\ DOMAIN children' = Places
           /\ alive' = alive \cup {n} /\ byId' = byId \cup {n}
           /\ parent'[n] = p /\ name'[n] = nm /\ path'[n] = Append(PathOf(p), nm)
           /\ \A m \in Nodes : m # n => /\ parent'[m] = parent[m] /\ name'[m] = name[m]
                                        /\ path'[m] = path[m]
           /\ DOMAIN children'[p] = DOMAIN children[p] \cup {nm} /\ children'[p][nm] = n
           /\ \A k \in DOMAIN children[p] : children'[p][k] = children[p][k]
           /\ \A q \in Places : q # p => children'[q] = children[q]
           /\ byPath' = Added(byPath, [m \in {n} |-> path'[m]])
  BY <1>0, NewFacts
<1>2. ends' = ends
  BY <1>0 DEF NewCommand
<1>3. Tree
  BY DEF TreeInv
<1>4. \A m \in alive : /\ m \in Nodes /\ m # n /\ m # Top /\ parent[m] \in alive \cup {Top}
                       /\ parent'[m] = parent[m] /\ path'[m] = path[m]
  BY <1>1, <1>3, NodeTreeAssumption DEF Tree, TreeTyped
<1>5. ASSUME NEW c \in Living, NEW e \in Ends
      PROVE  /\ \A m : m # n => (Refers(c, e, m)' <=> Refers(c, e, m))
             /\ Refers(c, e, n)' => parent[c] \in AtOrAbove(p)
  <2>1. c \in alive /\ parent[c] \in alive \cup {Top} /\ parent'[c] = parent[c]
    BY <1>4 DEF Living
  <2>2. PathOf(parent[c])' = PathOf(parent[c])
    BY <1>4, <2>1 DEF PathOf
  <2>3. \A m : m # n => (Refers(c, e, m)' <=> Refers(c, e, m))
    BY <1>1, <1>2, <1>4, <2>2 DEF Refers
  <2>4. ASSUME Refers(c, e, n)' PROVE parent[c] \in AtOrAbove(p)
    <3>1. Append(PathOf(p), nm) = PathOf(parent[c]) \o ends[c][e] /\ ends[c][e] # <<>>
      BY <1>1, <1>2, <2>2, <2>4 DEF Refers
    <3>2. /\ PathOf(p) \in Seq(Names) /\ PathOf(parent[c]) \in Seq(Names)
          /\ ends[c][e] \in Seq(Names)
      BY <1>1, <1>3, <2>1, PathTyped DEF EndsInv, Living
    <3>3. Continues(PathOf(p), PathOf(parent[c]))
      BY <3>1, <3>2, LongerBy
    <3> QED
      BY <1>1, <1>3, <2>1, <3>3, PrefixIsAbove
  <2> QED
    BY <2>3, <2>4
<1>6. \A e \in Ends : \A m : n \in Connections => ~Refers(n, e, m)'
  BY <1>1, <1>2 DEF EndsInv, Refers
<1>7. "sourcePath" \in Ends /\ "targetPath" \in Ends
  BY WiringAssumption
<1>8. Living' = Living \cup ({n} \cap Connections)
  BY <1>1 DEF Living
<1>9. ASSUME NEW w \in Pairs PROVE wires'[w] = Cardinality(Leading(w)') + kept[w]
  <2> DEFINE more == {c \in Living : /\ parent[c] \in AtOrAbove(p) /\ w \in Connected(c)'
                                     /\ n \in {w[1], w[2]}}
  <2>1. /\ wires'[w] = wires[w] + Cardinality(more)
        /\ wires[w] = Cardinality(Leading(w)) + kept[w] /\ kept[w] \in Nat
    BY DEF Create, Wired
  <2>2. Leading(w)' = {c \in Living : w \in Connected(c)'}
    <3>1. n \in Connections => ~(w \in Connected(n)')
      BY <1>6, <1>7, ConnectsWhatNext
    <3> QED
      BY <1>8, <3>1 DEF Leading
  <2>3. CASE n \in {w[1], w[2]}
    <3>1. \A c : ~(w \in Connected(c))
      BY <1>1, <2>3, ConnectsWhat DEF Refers
    <3>2. Leading(w) = {}
      BY <3>1 DEF Leading
    <3>3. \A c \in Living : w \in Connected(c)' => parent[c] \in AtOrAbove(p)
      BY <1>5, <1>7, <2>3, ConnectsWhatNext
    <3>4. Leading(w)' = more
      BY <2>2, <2>3, <3>3
    <3>5. Cardinality(more) \in Nat
      <4>1. more \subseteq alive
        BY DEF Living
      <4> QED
        BY <1>3, <4>1, Finite
    <3>6. Cardinality(Leading(w)) = 0
      BY <3>2, FS_EmptySet
    <3> HIDE DEF more
    <3> QED
      BY <2>1, <3>4, <3>5, <3>6
  <2>4. CASE n \notin {w[1], w[2]}
    <3>1. more = {}
      BY <2>4
    <3>2. \A c \in Living : w \in Connected(c)' <=> w \in Connected(c)
      BY <1>5, <1>7, <2>4, ConnectsWhat, ConnectsWhatNext
    <3>3. Leading(w)' = Leading(w)
      BY <2>2, <3>2 DEF Leading
    <3>4. Cardinality(more) = 0
      BY <3>1, FS_EmptySet
    <3>5. Cardinality(Leading(w)) \in Nat
      <4>1. Leading(w) \subseteq alive
        BY DEF Leading, Living
      <4> QED
        BY <1>3, <4>1, Finite
    <3> HIDE DEF more
    <3> QED
      BY <2>1, <3>3, <3>4, <3>5
  <2> QED
    BY <2>3, <2>4
<1>10. kept' = kept
  BY DEF Create
<1> QED
  BY <1>9, <1>10 DEF Wired, Pairs, Modules, OfKind

LEMMA DeleteWires ==
  ASSUME TreeInv, EndsInv, Wired, NEW n \in Nodes, Delete(n)
  PROVE  Wired'
<1> DEFINE gone == Subtree(n)
<1>0. DeleteCommand(n)
  BY DEF Delete
<1>1. /\ n \in alive /\ n \in gone /\ gone \subseteq alive /\ alive' = alive \ gone
      /\ \A m \in Nodes \ gone : /\ parent'[m] = parent[m] /\ name'[m] = name[m]
                                 /\ path'[m] = path[m]
  BY <1>0, DeleteFacts
<1>2. Tree
  BY DEF TreeInv
<1>3. \A k \in alive : parent[k] \in gone => k \in gone
  BY <1>1, <1>2, Subtrees
<1>4. ends' = Over([c \in gone \cap Connections |-> [e \in Ends |-> <<>>]], ends)
  BY <1>0 DEF DeleteCommand
<1>5. wires' = [w \in Pairs |->
        IF {w[1], w[2]} \cap gone # {} THEN 0
        ELSE Minus(wires[w], Cardinality({c \in Connections \cap gone : w \in Connected(c)}))]
  BY DEF Delete
<1>12. kept' = [w \in Pairs |-> IF {w[1], w[2]} \cap gone # {} THEN 0 ELSE kept[w]]
  BY DEF Delete, Spared
<1> HIDE DEF gone
<1>6. \A c \in Connections \ gone : ends'[c] = ends[c]
  BY <1>4 DEF EndsInv, Over
<1>7. \A m \in alive : m \in Nodes /\ m # Top /\ parent[m] \in alive \cup {Top}
  BY <1>2, NodeTreeAssumption DEF Tree, TreeTyped
<1>8. Living' = Living \ gone
  BY <1>1 DEF Living
<1>9. ASSUME NEW c \in Living \ gone, NEW e \in Ends, NEW m
      PROVE  Refers(c, e, m)' <=> Refers(c, e, m) /\ m \notin gone
  <2>1. /\ c \in alive /\ parent'[c] = parent[c] /\ parent[c] \in alive \cup {Top}
        /\ parent[c] \notin gone /\ ends'[c] = ends[c]
    BY <1>1, <1>3, <1>6, <1>7 DEF Living
  <2>2. PathOf(parent[c])' = PathOf(parent[c])
    BY <1>1, <1>7, <2>1 DEF PathOf
  <2> QED
    BY <1>1, <1>7, <2>1, <2>2 DEF Refers
<1>10. "sourcePath" \in Ends /\ "targetPath" \in Ends
  BY WiringAssumption
<1>11. ASSUME NEW w \in Pairs PROVE wires'[w] = Cardinality(Leading(w)') + kept'[w]
  <2> DEFINE less == {c \in Connections \cap gone : w \in Connected(c)}
  <2>1. /\ wires[w] = Cardinality(Leading(w)) + kept[w] /\ kept[w] \in Nat
        /\ wires'[w] = IF {w[1], w[2]} \cap gone # {} THEN 0 ELSE Minus(wires[w], Cardinality(less))
        /\ kept'[w] = IF {w[1], w[2]} \cap gone # {} THEN 0 ELSE kept[w]
    BY <1>5, <1>12 DEF Wired
  <2>2. Leading(w)' = {c \in Living \ gone : w \in Connected(c)'}
    BY <1>8 DEF Leading
  <2>3. CASE {w[1], w[2]} \cap gone # {}
    <3>1. \A c \in Living \ gone : ~(w \in Connected(c)')
      BY <1>9, <1>10, <2>3, ConnectsWhatNext
    <3>2. Leading(w)' = {}
      BY <2>2, <3>1
    <3> QED
      BY <2>1, <2>3, <3>2, FS_EmptySet
  <2>4. CASE {w[1], w[2]} \cap gone = {}
    <3>1. \A c \in Living \ gone : w \in Connected(c)' <=> w \in Connected(c)
      BY <1>9, <1>10, <2>4, ConnectsWhat, ConnectsWhatNext
    <3>2. Leading(w)' = Leading(w) \ less
      BY <2>2, <3>1 DEF Leading, Living
    <3>3. less \subseteq Leading(w)
      BY <1>1 DEF Leading, Living
    <3>4. Leading(w) \subseteq alive /\ less \subseteq alive
      BY <1>1 DEF Leading, Living
    <3> HIDE DEF less
    <3>5. /\ IsFiniteSet(Leading(w)) /\ Cardinality(Leading(w)) \in Nat
          /\ IsFiniteSet(less) /\ Cardinality(less) \in Nat
      BY <1>2, <3>4, Finite
    <3>6. Cardinality(Leading(w) \ less) = Cardinality(Leading(w)) - Cardinality(Leading(w) \cap less)
      BY <3>5, FS_Difference
    <3>7. Leading(w) \cap less = less /\ Cardinality(less) <= Cardinality(Leading(w))
      BY <3>3, <3>5, FS_Subset
    <3>8. \A a, b, k \in Nat : b <= a => Minus(a + k, b) = a - b + k
      BY DEF Minus
    <3>9. /\ wires'[w] = Minus(Cardinality(Leading(w)) + kept[w], Cardinality(less))
          /\ kept'[w] = kept[w]
      BY <2>1, <2>4
    <3>10. Minus(Cardinality(Leading(w)) + kept[w], Cardinality(less))
             = Cardinality(Leading(w)) - Cardinality(less) + kept[w]
      BY <2>1, <3>5, <3>7, <3>8
    <3>11. Cardinality(Leading(w)') = Cardinality(Leading(w)) - Cardinality(less)
      BY <3>2, <3>6, <3>7
    <3> QED
      BY <3>9, <3>10, <3>11
  <2> QED
    BY <2>3, <2>4
<1>13. kept' \in [Pairs -> Nat]
  BY <1>12 DEF Wired
<1> QED
  BY <1>11, <1>13 DEF Wired, Pairs, Modules, OfKind

LEMMA SetWires ==
  ASSUME TreeInv, EndsInv, Wired, NEW c \in Living, NEW e \in Ends, NEW p,
         SetEnd(c, e, p), ~IsUnfit(c, e)
  PROVE  Wired'
<1>1. /\ ends' = [ends EXCEPT ![c][e] = p]
      /\ UNCHANGED <<alive, parent, name, path, children, byPath, byId>>
      /\ wires' = [w \in Pairs |->
           Minus(wires[w], IF w \in Connected(c) THEN 1 ELSE 0)
             + (IF w \in Connected(c)' THEN 1 ELSE 0)]
      /\ kept' = kept
  BY DEF SetEnd, SetPath, Rewire
<1>2. \A d \in Connections : d # c => ends'[d] = ends[d]
  BY <1>1 DEF EndsInv
<1>3. \A d \in Connections : d # c => \A f : \A m : Refers(d, f, m)' <=> Refers(d, f, m)
  BY <1>1, <1>2 DEF Refers, PathOf
<1>4. Living' = Living
  BY <1>1 DEF Living
<1>5. ASSUME NEW w \in Pairs PROVE wires'[w] = Cardinality(Leading(w)') + kept[w]
  <2> DEFINE rest == Leading(w) \ {c}
  <2>1. \A d \in Living : d # c => (w \in Connected(d)' <=> w \in Connected(d))
    BY <1>3, ConnectsWhat, ConnectsWhatNext DEF Living
  <2>2. /\ Leading(w) = IF w \in Connected(c) THEN rest \cup {c} ELSE rest
        /\ Leading(w)' = IF w \in Connected(c)' THEN rest \cup {c} ELSE rest
    BY <1>4, <2>1 DEF Leading
  <2>3. c \notin rest /\ IsFiniteSet(rest) /\ Cardinality(rest) \in Nat
    <3>1. rest \subseteq alive
      BY DEF Leading, Living
    <3> QED
      BY <3>1, Finite DEF TreeInv
  <2> HIDE DEF rest
  <2>4. Cardinality(rest \cup {c}) = Cardinality(rest) + 1
    BY <2>3, FS_AddElement
  <2>0. kept[w] \in Nat
    BY DEF Wired
  <2>5. Minus(wires[w], IF w \in Connected(c) THEN 1 ELSE 0) = Cardinality(rest) + kept[w]
    <3>1. wires[w] = Cardinality(Leading(w)) + kept[w]
      BY DEF Wired
    <3>2. \A k, j \in Nat : Minus(k + 1 + j, 1) = k + j /\ Minus(k + j, 0) = k + j
      BY DEF Minus
    <3>3. CASE w \in Connected(c)
      <4>1. Cardinality(Leading(w)) = Cardinality(rest) + 1
        BY <2>2, <2>4, <3>3
      <4>2. wires[w] = Cardinality(rest) + 1 + kept[w]
        BY <3>1, <4>1
      <4> QED
        BY <2>0, <2>3, <3>2, <3>3, <4>2
    <3>4. CASE ~(w \in Connected(c))
      BY <2>0, <2>2, <2>3, <3>1, <3>2, <3>4
    <3> QED
      BY <3>3, <3>4
  <2>6. wires'[w] = Cardinality(rest) + kept[w] + (IF w \in Connected(c)' THEN 1 ELSE 0)
    BY <1>1, <2>5
  <2>7. CASE w \in Connected(c)'
    BY <2>0, <2>2, <2>3, <2>4, <2>6, <2>7
  <2>8. CASE ~(w \in Connected(c)')
    BY <2>0, <2>2, <2>3, <2>6, <2>8
  <2> QED
    BY <2>7, <2>8
<1> QED
  BY <1>1, <1>5 DEF Wired, Pairs, Modules, OfKind

(* An unfit source connects nothing: the wire is left instead.             *)
LEMMA LeaveWires ==
  ASSUME TreeInv, EndsInv, Wired, NEW c \in Living, NEW e \in Ends, NEW p,
         SetEnd(c, e, p), IsUnfit(c, e)
  PROVE  Wired'
<1>1. /\ ends' = [ends EXCEPT ![c][e] = p]
      /\ UNCHANGED <<alive, parent, name, path, children, byPath, byId>>
      /\ wires' = wires
      /\ kept' = [w \in Pairs |-> IF w \in Connected(c) THEN kept[w] + 1 ELSE kept[w]]
  BY DEF SetEnd, SetPath, LeaveWire
<1>2. \A d \in Connections : d # c => ends'[d] = ends[d]
  BY <1>1 DEF EndsInv
<1>3. \A d \in Connections : d # c => \A f : \A m : Refers(d, f, m)' <=> Refers(d, f, m)
  BY <1>1, <1>2 DEF Refers, PathOf
<1>4. Living' = Living
  BY <1>1 DEF Living
<1>6. \A w \in Pairs : ~(w \in Connected(c)')
  <2>1. PICK u \in Unfit : u \in alive /\ path[u] = PathOf(parent[c])' \o ends'[c]["sourcePath"]
    BY <1>1 DEF IsUnfit, Referred
  <2>2. \A m : Refers(c, "sourcePath", m)' => m = u
    BY <1>1, <2>1, PathsDiffer DEF TreeInv, Refers
  <2>3. \A w \in Pairs : w[1] # u
    BY <2>1, WiringAssumption DEF Pairs
  <2> QED
    BY <2>2, <2>3, ConnectsWhatNext
<1>5. ASSUME NEW w \in Pairs PROVE wires'[w] = Cardinality(Leading(w)') + kept'[w]
  <2>1. \A d \in Living : d # c => (w \in Connected(d)' <=> w \in Connected(d))
    BY <1>3, ConnectsWhat, ConnectsWhatNext DEF Living
  <2>2. Leading(w)' = Leading(w) \ {c}
    BY <1>4, <1>6, <2>1 DEF Leading
  <2>3. IsFiniteSet(Leading(w)) /\ Cardinality(Leading(w)) \in Nat
    <3>1. Leading(w) \subseteq alive
      BY DEF Leading, Living
    <3> QED
      BY <3>1, Finite DEF TreeInv
  <2>4. wires[w] = Cardinality(Leading(w)) + kept[w] /\ kept[w] \in Nat
    BY DEF Wired
  <2>5. c \in Leading(w) <=> w \in Connected(c)
    BY DEF Leading
  <2>6. CASE w \in Connected(c)
    <3>1. Cardinality(Leading(w) \ {c}) = Cardinality(Leading(w)) - 1
      BY <2>3, <2>5, <2>6, FS_RemoveElement
    <3> QED
      BY <1>1, <2>2, <2>3, <2>4, <2>6, <3>1
  <2>7. CASE ~(w \in Connected(c))
    <3>1. Leading(w) \ {c} = Leading(w)
      BY <2>5, <2>7
    <3> QED
      BY <1>1, <2>2, <2>4, <2>7, <3>1
  <2> QED
    BY <2>6, <2>7
<1>7. kept' \in [Pairs -> Nat]
  BY <1>1 DEF Wired
<1> QED
  BY <1>5, <1>7 DEF Wired, Pairs, Modules, OfKind

(* A careful caller's renaming and moving leaves every connection as it is. *)
LEMMA RelocateWires ==
  ASSUME Wired, Living' = Living, wires' = wires, kept' = kept,
         \A c \in Living : Connected(c)' = Connected(c)
  PROVE  Wired'
<1>1. ASSUME NEW w \in Pairs PROVE wires'[w] = Cardinality(Leading(w)') + kept'[w]
  <2>1. Leading(w)' = Leading(w)
    BY DEF Leading
  <2> QED
    BY <2>1 DEF Wired
<1> QED
  BY <1>1 DEF Wired, Pairs, Modules, OfKind

-----------------------------------------------------------------------------
(* So wires and connections agree *)

WiringInv == TreeInv /\ EndsInv /\ Wired

LEMMA InitWiring ==
  ASSUME WiringInit
  PROVE  WiringInv
<1>1. TreeInv /\ EndsInv
  BY InitTree, InitEnds DEF WiringInit
<1>2. \A w \in Pairs : Leading(w) = {} /\ wires[w] = 0 /\ kept[w] = 0
  BY DEF WiringInit, NoWires, Init, Leading, Living
<1>3. kept \in [Pairs -> Nat]
  BY DEF WiringInit, NoWires
<1>4. \A w \in Pairs : wires[w] = Cardinality(Leading(w)) + kept[w]
  <2>1. Cardinality({}) = 0
    BY FS_EmptySet
  <2> QED
    BY <1>2, <2>1
<1> QED
  BY <1>1, <1>3, <1>4 DEF WiringInv, Wired

LEMMA NextWiring ==
  ASSUME WiringInv, [CarefulNext]_wiring
  PROVE  WiringInv'
<1>0. TreeInv /\ EndsInv /\ Wired
  BY DEF WiringInv
<1>1. ASSUME NEW n \in Nodes, NEW p \in Places, NEW nm \in Names, Create(n, p, nm)
      PROVE  WiringInv'
  <2>1. NewCommand(n, p, nm)
    BY <1>1 DEF Create
  <2> QED
    BY <1>0, <1>1, <2>1, NewTree, NewEnds, CreateWires DEF WiringInv
<1>2. ASSUME NEW n \in Nodes, Delete(n) PROVE WiringInv'
  <2>1. DeleteCommand(n)
    BY <1>2 DEF Delete
  <2> QED
    BY <1>0, <1>2, <2>1, DeleteTree, DeleteEnds, DeleteWires DEF WiringInv
<1>3. ASSUME NEW c \in Living, NEW e \in Ends, NEW p, SetEnd(c, e, p)
      PROVE  WiringInv'
  <2>1. SetPath(c, e, p) /\ c \in Connections \cap alive
    BY <1>3 DEF SetEnd, Living
  <2>2. TreeInv'
    BY <1>0, <2>1, UnchangedTree DEF SetPath
  <2> QED
    BY <1>0, <1>3, <2>1, <2>2, SetEnds, SetWires, LeaveWires DEF WiringInv
<1>4. ASSUME NEW n \in Nodes, NEW nm \in Names, Rename(n, nm), KeepsConnections
      PROVE  WiringInv'
  <2>1. RenameCommand(n, nm) /\ wires' = wires /\ kept' = kept /\ alive' = alive
    BY <1>4 DEF Rename, RenameCommand
  <2>2. Wired'
    BY <1>0, <1>4, <2>1, RelocateWires DEF Living, KeepsConnections
  <2>3. TreeInv'
    BY <1>0, <2>1, RenameTree
  <2> QED
    BY <1>0, <2>1, <2>2, <2>3, RenameEnds DEF WiringInv
<1>5. ASSUME NEW n \in Nodes, NEW p \in Places, GoodMove(n, p), Move(n, p), KeepsConnections
      PROVE  WiringInv'
  <2>0. Moved(n, p) /\ ~Crashes(n, p)
    BY <1>5, GoodMoves DEF Move
  <2>1. Moved(n, p) /\ wires' = wires /\ kept' = kept /\ alive' = alive
    BY <1>5, <2>0 DEF Move, Moved, MoveTo
  <2>2. Wired'
    BY <1>0, <1>5, <2>1, RelocateWires DEF Living, KeepsConnections
  <2>3. TreeInv'
    BY <1>0, <2>1, MoveTree
  <2> QED
    BY <1>0, <2>1, <2>2, <2>3, MoveEnds DEF WiringInv
<1>6. CASE UNCHANGED wiring
  <2>1. TreeInv'
    BY <1>0, <1>6, UnchangedTree DEF wiring
  <2>2. EndsInv'
    BY <1>0, <1>6 DEF EndsInv, wiring
  <2>3. \A c : Connected(c)' = Connected(c)
    BY <1>6 DEF wiring, Connected, Referred, PathOf, Pairs, Modules, OfKind
  <2>4. Wired'
    BY <1>0, <1>6, <2>3, RelocateWires DEF wiring, Living
  <2> QED
    BY <2>1, <2>2, <2>4 DEF WiringInv
<1> QED
  BY <1>1, <1>2, <1>3, <1>4, <1>5, <1>6
     DEF CarefulNext, CreateAny, DeleteAny, SetAny, RenameAny, MoveGood

LEMMA SpecWiring == CarefulSpec => []WiringInv
BY InitWiring, NextWiring, PTL DEF CarefulSpec

(* A connection whose ends exist has its wire, whichever came first ...    *)
THEOREM SignalsFlow == CarefulSpec => []ConnectionsHaveWires
<1>1. WiringInv => ConnectionsHaveWires
  <2> SUFFICES ASSUME WiringInv, NEW w \in Pairs PROVE wires[w] >= Wanted(w)
    BY DEF ConnectionsHaveWires
  <2>1. /\ wires[w] = Cardinality(Leading(w)) + kept[w] /\ kept[w] \in Nat
        /\ Wanted(w) = Cardinality(Leading(w))
    BY DEF WiringInv, Wired, Wanted, Leading
  <2>2. Leading(w) \subseteq alive /\ Tree
    BY DEF Leading, Living, WiringInv, TreeInv
  <2> QED
    BY <2>1, <2>2, Finite
<1> QED
  BY <1>1, SpecWiring, PTL

(* ... and but for those that unfit sources leave, no wire outlasts its    *)
(* connection or an end of it.                                             *)
THEOREM NothingElseFlows == CarefulSpec => []WiresHaveConnections
<1>1. WiringInv => WiresHaveConnections
  <2> SUFFICES ASSUME WiringInv, NEW w \in Pairs PROVE wires[w] <= Wanted(w) + kept[w]
    BY DEF WiresHaveConnections
  <2>1. /\ wires[w] = Cardinality(Leading(w)) + kept[w] /\ kept[w] \in Nat
        /\ Wanted(w) = Cardinality(Leading(w))
    BY DEF WiringInv, Wired, Wanted, Leading
  <2>2. Leading(w) \subseteq alive /\ Tree
    BY DEF Leading, Living, WiringInv, TreeInv
  <2> QED
    BY <2>1, <2>2, Finite
<1> QED
  BY <1>1, SpecWiring, PTL

-----------------------------------------------------------------------------
(* Sequences that continue others, are joined to and cut out of others *)

LEMMA SameSeq ==
  ASSUME NEW S, NEW s \in Seq(S), NEW t \in Seq(S), Len(s) = Len(t),
         \A i \in 1..Len(t) : s[i] = t[i]
  PROVE  s = t
OBVIOUS

LEMMA ContinuesChain ==
  ASSUME NEW S, NEW s \in Seq(S), NEW t \in Seq(S), NEW u \in Seq(S),
         Continues(s, t), Continues(t, u)
  PROVE  Continues(s, u)
<1>1. Len(s) \in Nat /\ Len(t) \in Nat /\ Len(u) \in Nat
  OBVIOUS
<1>2. Len(u) <= Len(t) /\ Len(t) <= Len(s)
  BY DEF Continues
<1>3. \A i \in 1..Len(u) : i \in 1..Len(t)
  BY <1>1, <1>2
<1>4. \A i \in 1..Len(u) : s[i] = u[i]
  BY <1>3 DEF Continues
<1> QED
  BY <1>1, <1>2, <1>4 DEF Continues

(* Of two beginnings of one sequence the longer continues the shorter.     *)
LEMMA ContinuesBoth ==
  ASSUME NEW S, NEW s \in Seq(S), NEW t \in Seq(S), NEW u \in Seq(S),
         Continues(s, t), Continues(s, u), Len(u) <= Len(t)
  PROVE  Continues(t, u)
<1>1. Len(s) \in Nat /\ Len(t) \in Nat /\ Len(u) \in Nat
  OBVIOUS
<1>2. \A i \in 1..Len(u) : i \in 1..Len(t)
  BY <1>1
<1>3. \A i \in 1..Len(u) : t[i] = u[i]
  BY <1>2 DEF Continues
<1> QED
  BY <1>3 DEF Continues

(* What is above a place has a path that the place's continues.            *)
LEMMA AboveIsPrefix ==
  ASSUME Tree, NEW p \in alive \cup {Top}, NEW q \in AtOrAbove(p)
  PROVE  q \in alive \cup {Top} /\ Continues(PathOf(p), PathOf(q))
<1> DEFINE S == alive \cup {Top}
           Good == {a \in S : Continues(PathOf(p), PathOf(a))}
<1>1. PICK R, level :
        /\ R = {e \in S \X S : e[1] # Top /\ e[2] = parent[e[1]]}
        /\ IsLevels(level, S, R, p)
        /\ AtOrAbove(p) = level[Cardinality(Nodes)]
  BY AboveLevels
<1> DEFINE bad == {d \in Nat : ~(level[d] \subseteq Good)}
<1>2. \A a \in S : PathOf(a) \in Seq(Names) /\ Len(PathOf(a)) \in Nat
  BY PathTyped
<1>3. bad = {}
  <2> SUFFICES ASSUME bad # {} PROVE FALSE
    OBVIOUS
  <2>1. bad \in SUBSET Nat
    OBVIOUS
  <2>2. PICK d \in bad : \A j \in bad : d <= j
    <3> HIDE DEF bad
    <3> QED
      BY <2>1, LeastNumber
  <2>3. d \in Nat /\ ~(level[d] \subseteq Good)
    OBVIOUS
  <2>4. d # 0
    <3>1. p \in Good
      BY <1>2 DEF Continues
    <3> HIDE DEF Good
    <3> QED
      BY <1>1, <2>3, <3>1 DEF IsLevels
  <2>5. d - 1 \in Nat /\ ~(d <= d - 1) /\ (d - 1) + 1 = d
    BY <2>3, <2>4
  <2>6. d - 1 \notin bad
    <3> HIDE DEF bad
    <3> QED
      BY <2>2, <2>5
  <2>7. level[d - 1] \subseteq Good
    BY <2>5, <2>6
  <2>8. level[d] = Step(S, R, level[d - 1])
    BY <1>1, <2>5 DEF IsLevels
  <2>9. PICK m \in level[d] : m \notin Good
    BY <2>3
  <2>10. m \in S /\ \E a \in Good : <<a, m>> \in R
    <3> HIDE DEF Good, S
    <3> QED
      BY <2>7, <2>8, <2>9 DEF Step
  <2>11. PICK a \in Good : <<a, m>> \in R
    BY <2>10
  <2>12. a \in alive /\ m = parent[a] /\ PathOf(a) = path[a] /\ Continues(PathOf(p), PathOf(a))
    BY <1>1, <2>11 DEF PathOf
  <2>13. Continues(PathOf(a), PathOf(m))
    <3>1. /\ Len(path[a]) = Len(PathOf(m)) + 1
          /\ \A i \in 1..Len(PathOf(m)) : path[a][i] = PathOf(m)[i]
      BY <2>12, PathParts
    <3>2. Len(PathOf(m)) <= Len(path[a])
      BY <1>2, <2>10, <3>1
    <3> QED
      BY <2>12, <3>1, <3>2 DEF Continues
  <2>14. Continues(PathOf(p), PathOf(m))
    BY <1>2, <2>10, <2>12, <2>13, ContinuesChain
  <2> QED
    BY <2>9, <2>10, <2>14
<1>4. Cardinality(Nodes) \in Nat
  BY NodeTreeAssumption, FS_CardinalityType
<1>5. level[Cardinality(Nodes)] \subseteq Good
  BY <1>3, <1>4
<1> QED
  BY <1>1, <1>5

(* On the way to a node there is one at each depth.                        *)
LEMMA AncestorAt ==
  ASSUME Tree, NEW m \in alive, NEW d \in 1..Len(path[m])
  PROVE  \E a \in alive : Len(path[a]) = d /\ Continues(path[m], path[a])
<1> DEFINE Here(a, k) == a \in alive /\ Len(path[a]) + k = Len(path[m]) /\ Continues(path[m], path[a])
           bad == {k \in Nat : k < Len(path[m]) /\ ~ \E a : Here(a, k)}
<1>1. path[m] \in Seq(Names) /\ Len(path[m]) \in Nat
  BY PathParts
<1>2. bad = {}
  <2> SUFFICES ASSUME bad # {} PROVE FALSE
    OBVIOUS
  <2>1. bad \in SUBSET Nat
    OBVIOUS
  <2>2. PICK k \in bad : \A j \in bad : k <= j
    <3> HIDE DEF bad
    <3> QED
      BY <2>1, LeastNumber
  <2>3. k \in Nat /\ k < Len(path[m]) /\ ~ \E a : Here(a, k)
    OBVIOUS
  <2>4. k # 0
    <3>1. Here(m, 0)
      BY <1>1 DEF Continues
    <3> QED
      BY <2>3, <3>1
  <2>5. k - 1 \in Nat /\ ~(k <= k - 1) /\ (k - 1) + 1 = k /\ k - 1 < Len(path[m])
    BY <1>1, <2>3, <2>4
  <2>6. k - 1 \notin bad
    <3> HIDE DEF bad
    <3> QED
      BY <2>2, <2>5
  <2>7. PICK a : Here(a, k - 1)
    BY <2>5, <2>6
  <2>8. path[a] \in Seq(Names) /\ Len(path[a]) \in Nat
    BY <2>7, PathParts
  <2>9. Len(path[a]) # 1
    <3>1. \A l, x \in Nat : x < l /\ 1 + (x - 1) = l => FALSE
      OBVIOUS
    <3> QED
      BY <1>1, <2>3, <2>7, <3>1
  <2>10. /\ parent[a] \in alive /\ PathOf(parent[a]) = path[parent[a]]
         /\ Len(path[parent[a]]) = Len(path[a]) - 1 /\ Len(path[parent[a]]) \in Nat
    BY <2>7, <2>9, ParentAlive
  <2>11. Continues(path[a], path[parent[a]])
    <3>0. \A i \in 1..Len(PathOf(parent[a])) : path[a][i] = PathOf(parent[a])[i]
      BY <2>7, PathParts
    <3>1. \A i \in 1..Len(path[parent[a]]) : path[a][i] = path[parent[a]][i]
      BY <2>10, <3>0
    <3> QED
      BY <2>8, <2>10, <3>1 DEF Continues
  <2>12. Continues(path[m], path[parent[a]])
    <3>1. path[parent[a]] \in Seq(Names)
      BY <2>10, PathParts
    <3> QED
      BY <1>1, <2>7, <2>8, <2>11, <3>1, ContinuesChain
  <2>13. Len(path[parent[a]]) + k = Len(path[m])
    <3>1. \A l, x, y \in Nat : x + (k - 1) = l /\ y = x - 1 => y + k = l
      BY <2>3
    <3> QED
      BY <1>1, <2>7, <2>8, <2>10, <3>1
  <2>14. Here(parent[a], k)
    BY <2>10, <2>12, <2>13
  <2> QED
    BY <2>3, <2>14
<1> DEFINE k == Len(path[m]) - d
<1>3. k \in Nat /\ k < Len(path[m]) /\ d + k = Len(path[m])
  BY <1>1
<1>4. PICK a : Here(a, k)
  BY <1>2, <1>3
<1>5. Len(path[a]) \in Nat
  BY <1>4, PathParts
<1>6. Len(path[a]) = d
  <2>1. \A x, l \in Nat : x + (l - d) = l => x = d
    OBVIOUS
  <2> QED
    BY <1>1, <1>4, <1>5, <2>1
<1> QED
  BY <1>4, <1>6

(* k is s followed by t, and g is t followed by s but for its beginning.   *)
Joined(S, s, t, k) ==
  /\ k \in Seq(S) /\ Len(k) = Len(s) + Len(t)
  /\ \A i \in 1..Len(s) : k[i] = s[i]
  /\ \A i \in 1..Len(t) : k[Len(s) + i] = t[i]

Grafted(S, t, s, c, g) ==
  /\ g \in Seq(S) /\ Len(g) = Len(t) + (Len(s) - c)
  /\ \A i \in 1..Len(t) : g[i] = t[i]
  /\ \A i \in 1..(Len(s) - c) : g[Len(t) + i] = s[c + i]

LEMMA Concat ==
  ASSUME NEW S, NEW s \in Seq(S), NEW t \in Seq(S), NEW k, k = s \o t
  PROVE  Joined(S, s, t, k)
BY DEF Joined

LEMMA RestIs ==
  ASSUME NEW S, NEW s \in Seq(S), NEW c \in 0..Len(s), NEW r, r = SubSeq(s, c + 1, Len(s))
  PROVE  /\ r \in Seq(S) /\ Len(r) = Len(s) - c
         /\ \A i \in 1..Len(r) : r[i] = s[c + i]
OBVIOUS

LEMMA GraftParts ==
  ASSUME NEW S, NEW t \in Seq(S), NEW s \in Seq(S), NEW c \in 0..Len(s),
         NEW g, g = Graft(t, s, c)
  PROVE  Grafted(S, t, s, c, g)
<1>1. Len(t) \in Nat /\ Len(s) \in Nat /\ c \in Nat /\ c <= Len(s)
  OBVIOUS
<1> DEFINE l == Len(t) + (Len(s) - c)
<1>2. l \in Nat
  BY <1>1
<1>3. ASSUME NEW i \in 1..l, ~(i <= Len(t))
      PROVE  (i - Len(t)) + c \in 1..Len(s)
  BY <1>1, <1>3
<1>4. \A i \in 1..l : (IF i <= Len(t) THEN t[i] ELSE s[(i - Len(t)) + c]) \in S
  <2>1. \A i \in 1..l : i <= Len(t) => i \in 1..Len(t)
    BY <1>1
  <2> HIDE DEF l
  <2> QED
    BY <1>3, <2>1
<1>5. g = [i \in 1..l |-> IF i <= Len(t) THEN t[i] ELSE s[(i - Len(t)) + c]]
  BY DEF Graft
<1> HIDE DEF l
<1>6. g \in Seq(S) /\ Len(g) = l
  BY <1>2, <1>4, <1>5
<1>7. ASSUME NEW i \in 1..Len(t) PROVE g[i] = t[i]
  <2>1. i \in 1..l /\ i <= Len(t)
    BY <1>1 DEF l
  <2> QED
    BY <1>5, <2>1
<1>8. ASSUME NEW i \in 1..(Len(s) - c) PROVE g[Len(t) + i] = s[c + i]
  <2>1. /\ Len(t) + i \in 1..l /\ ~(Len(t) + i <= Len(t))
        /\ ((Len(t) + i) - Len(t)) + c = c + i
    BY <1>1 DEF l
  <2> QED
    BY <1>5, <2>1
<1> QED
  BY <1>6, <1>7, <1>8 DEF l, Grafted

(* Taking apart what continues b, and putting it together.                 *)
LEMMA Apart ==
  ASSUME NEW S, NEW s \in Seq(S), NEW b \in Seq(S), NEW p \in Seq(S), s = b \o p
  PROVE  Continues(s, b) /\ SubSeq(s, Len(b) + 1, Len(s)) = p
<1>0. \A k : k = b \o p => Joined(S, b, p, k)
  BY Concat
<1>0a. Joined(S, b, p, s)
  BY <1>0
<1>1. /\ Len(s) = Len(b) + Len(p) /\ Len(b) \in Nat /\ Len(p) \in Nat
      /\ \A i \in 1..Len(b) : s[i] = b[i]
      /\ \A i \in 1..Len(p) : s[Len(b) + i] = p[i]
  BY <1>0a DEF Joined
<1>2. Len(b) \in 0..Len(s) /\ Len(s) - Len(b) = Len(p)
  BY <1>1
<1>3. PICK r : r = SubSeq(s, Len(b) + 1, Len(s))
  OBVIOUS
<1>4. r \in Seq(S) /\ Len(r) = Len(p) /\ \A i \in 1..Len(r) : r[i] = s[Len(b) + i]
  BY <1>2, <1>3, RestIs
<1>5. r = p
  BY <1>1, <1>4, SameSeq
<1> QED
  BY <1>1, <1>2, <1>3, <1>5 DEF Continues

LEMMA Together ==
  ASSUME NEW S, NEW s \in Seq(S), NEW b \in Seq(S), Continues(s, b),
         NEW p, p = SubSeq(s, Len(b) + 1, Len(s))
  PROVE  p \in Seq(S) /\ s = b \o p /\ Len(p) = Len(s) - Len(b)
<1>1. Len(b) \in 0..Len(s) /\ Len(b) \in Nat /\ Len(s) \in Nat
  BY DEF Continues
<1>2. p \in Seq(S) /\ Len(p) = Len(s) - Len(b) /\ \A i \in 1..Len(p) : p[i] = s[Len(b) + i]
  BY <1>1, RestIs
<1>3. PICK t : t = b \o p
  OBVIOUS
<1>4a. Joined(S, b, p, t)
  BY <1>2, <1>3, Concat
<1>4. /\ t \in Seq(S) /\ Len(t) = Len(b) + Len(p)
      /\ \A i \in 1..Len(b) : t[i] = b[i]
      /\ \A i \in 1..Len(p) : t[Len(b) + i] = p[i]
  BY <1>4a DEF Joined
<1>5. Len(t) = Len(s)
  BY <1>1, <1>2, <1>4
<1>6. ASSUME NEW i \in 1..Len(s) PROVE t[i] = s[i]
  <2>1. CASE i \in 1..Len(b)
    BY <1>4, <2>1 DEF Continues
  <2>2. CASE i \notin 1..Len(b)
    <3>1. i - Len(b) \in 1..Len(p) /\ Len(b) + (i - Len(b)) = i
      BY <1>1, <1>2, <2>2
    <3> QED
      BY <1>2, <1>4, <3>1
  <2> QED
    BY <2>1, <2>2
<1> QED
  BY <1>2, <1>3, <1>4, <1>5, <1>6, SameSeq

LEMMA GraftBelow ==
  ASSUME NEW S, NEW b \in Seq(S), NEW w \in Seq(S), NEW p \in Seq(S), NEW c \in 0..Len(p)
  PROVE  b \o Graft(w, p, c) = Graft(b \o w, b \o p, Len(b) + c)
<1>1. PICK g : g = Graft(w, p, c)
  OBVIOUS
<1>2. PICK bw, bp : bw = b \o w /\ bp = b \o p
  OBVIOUS
<1>3. PICK h : h = Graft(bw, bp, Len(b) + c)
  OBVIOUS
<1>4. PICK k : k = b \o g
  OBVIOUS
<1>5. Len(b) \in Nat /\ Len(w) \in Nat /\ Len(p) \in Nat /\ c \in Nat /\ c <= Len(p)
  OBVIOUS
<1>6a. Grafted(S, w, p, c, g)
  BY <1>1, GraftParts
<1>6. /\ g \in Seq(S) /\ Len(g) = Len(w) + (Len(p) - c)
      /\ \A i \in 1..Len(w) : g[i] = w[i]
      /\ \A i \in 1..(Len(p) - c) : g[Len(w) + i] = p[c + i]
  BY <1>6a DEF Grafted
<1>7a. Joined(S, b, w, bw)
  BY <1>2, Concat
<1>7. /\ bw \in Seq(S) /\ Len(bw) = Len(b) + Len(w)
      /\ \A i \in 1..Len(b) : bw[i] = b[i]
      /\ \A i \in 1..Len(w) : bw[Len(b) + i] = w[i]
  BY <1>7a DEF Joined
<1>8a. Joined(S, b, p, bp)
  BY <1>2, Concat
<1>8. /\ bp \in Seq(S) /\ Len(bp) = Len(b) + Len(p)
      /\ \A i \in 1..Len(p) : bp[Len(b) + i] = p[i]
  BY <1>8a DEF Joined
<1>9. Len(b) + c \in 0..Len(bp)
  BY <1>5, <1>8
<1>10a. Grafted(S, bw, bp, (Len(b) + c), h)
  BY <1>3, <1>7, <1>8, <1>9, GraftParts
<1>10. /\ h \in Seq(S) /\ Len(h) = Len(bw) + (Len(bp) - (Len(b) + c))
       /\ \A i \in 1..Len(bw) : h[i] = bw[i]
       /\ \A i \in 1..(Len(bp) - (Len(b) + c)) : h[Len(bw) + i] = bp[(Len(b) + c) + i]
  BY <1>10a DEF Grafted
<1>11a. Joined(S, b, g, k)
  BY <1>4, <1>6, Concat
<1>11. /\ k \in Seq(S) /\ Len(k) = Len(b) + Len(g)
       /\ \A i \in 1..Len(b) : k[i] = b[i]
       /\ \A i \in 1..Len(g) : k[Len(b) + i] = g[i]
  BY <1>11a DEF Joined
<1>12. Len(k) = Len(h) /\ Len(k) = Len(b) + (Len(w) + (Len(p) - c))
  BY <1>5, <1>6, <1>7, <1>8, <1>10, <1>11
<1>13. ASSUME NEW i \in 1..Len(k) PROVE k[i] = h[i]
  <2>1. CASE i <= Len(b)
    <3>1. i \in 1..Len(b) /\ i \in 1..Len(bw)
      BY <1>5, <1>7, <1>12, <2>1
    <3> QED
      BY <1>7, <1>10, <1>11, <3>1
  <2>2. CASE ~(i <= Len(b)) /\ i <= Len(b) + Len(w)
    <3>0. PICK j : j = i - Len(b)
      OBVIOUS
    <3>1. j \in 1..Len(w) /\ j \in 1..Len(g) /\ i \in 1..Len(bw) /\ Len(b) + j = i
      BY <1>5, <1>6, <1>7, <1>12, <2>2, <3>0
    <3>2. k[i] = w[j]
      BY <1>6, <1>11, <3>1
    <3>3. h[i] = w[j]
      BY <1>7, <1>10, <3>1
    <3> QED
      BY <3>2, <3>3
  <2>3. CASE ~(i <= Len(b) + Len(w))
    <3>1. PICK j : j = i - (Len(b) + Len(w))
      OBVIOUS
    <3>2. /\ j \in 1..(Len(p) - c) /\ j \in 1..(Len(bp) - (Len(b) + c))
          /\ Len(w) + j \in 1..Len(g) /\ Len(b) + (Len(w) + j) = i /\ Len(bw) + j = i
          /\ c + j \in 1..Len(p) /\ Len(b) + (c + j) = (Len(b) + c) + j
      BY <1>5, <1>6, <1>7, <1>8, <1>12, <2>3, <3>1
    <3>3. k[i] = p[c + j]
      BY <1>6, <1>11, <3>2
    <3>4. h[i] = p[c + j]
      BY <1>8, <1>10, <3>2
    <3> QED
      BY <3>3, <3>4
  <2> QED
    BY <2>1, <2>2, <2>3
<1>14. k = h
  <2>1. \A i \in 1..Len(h) : k[i] = h[i]
    BY <1>12, <1>13
  <2> QED
    BY <1>10, <1>11, <1>12, <2>1, SameSeq
<1> QED
  BY <1>1, <1>2, <1>3, <1>4, <1>14

(* Where a place past the graft is.                                        *)
LEMMA PastGraft ==
  ASSUME NEW lt \in Nat, NEW lb \in Nat, NEW lp \in Nat, NEW c \in 0..lb,
         NEW i \in 1..((lt + (lb - c)) + lp), ~(i <= lt + (lb - c)),
         NEW j, j = i - (lt + (lb - c))
  PROVE  /\ j \in 1..lp /\ (lt + (lb - c)) + j = i
         /\ (lb - c) + j \in 1..((lb + lp) - c) /\ lt + ((lb - c) + j) = i
         /\ c + ((lb - c) + j) = lb + j
OBVIOUS

LEMMA GraftAbove ==
  ASSUME NEW S, NEW t \in Seq(S), NEW b \in Seq(S), NEW p \in Seq(S), NEW c \in 0..Len(b)
  PROVE  Graft(t, b \o p, c) = Graft(t, b, c) \o p
<1>1. PICK g : g = Graft(t, b, c)
  OBVIOUS
<1>2. PICK bp : bp = b \o p
  OBVIOUS
<1>3. PICK h : h = Graft(t, bp, c)
  OBVIOUS
<1>4. PICK k : k = g \o p
  OBVIOUS
<1>5. Len(b) \in Nat /\ Len(t) \in Nat /\ Len(p) \in Nat /\ c \in Nat /\ c <= Len(b)
  OBVIOUS
<1>6a. Grafted(S, t, b, c, g)
  BY <1>1, GraftParts
<1>6. /\ g \in Seq(S) /\ Len(g) = Len(t) + (Len(b) - c)
      /\ \A i \in 1..Len(t) : g[i] = t[i]
      /\ \A i \in 1..(Len(b) - c) : g[Len(t) + i] = b[c + i]
  BY <1>6a DEF Grafted
<1>7a. Joined(S, b, p, bp)
  BY <1>2, Concat
<1>7. /\ bp \in Seq(S) /\ Len(bp) = Len(b) + Len(p)
      /\ \A i \in 1..Len(b) : bp[i] = b[i]
      /\ \A i \in 1..Len(p) : bp[Len(b) + i] = p[i]
  BY <1>7a DEF Joined
<1>8. c \in 0..Len(bp)
  BY <1>5, <1>7
<1>9a. Grafted(S, t, bp, c, h)
  BY <1>3, <1>7, <1>8, GraftParts
<1>9. /\ h \in Seq(S) /\ Len(h) = Len(t) + (Len(bp) - c)
      /\ \A i \in 1..Len(t) : h[i] = t[i]
      /\ \A i \in 1..(Len(bp) - c) : h[Len(t) + i] = bp[c + i]
  BY <1>9a DEF Grafted
<1>10a. Joined(S, g, p, k)
  BY <1>4, <1>6, Concat
<1>10. /\ k \in Seq(S) /\ Len(k) = Len(g) + Len(p)
       /\ \A i \in 1..Len(g) : k[i] = g[i]
       /\ \A i \in 1..Len(p) : k[Len(g) + i] = p[i]
  BY <1>10a DEF Joined
<1>11. Len(k) = Len(h) /\ Len(k) = (Len(t) + (Len(b) - c)) + Len(p)
  BY <1>5, <1>6, <1>7, <1>9, <1>10
<1>12. ASSUME NEW i \in 1..Len(k) PROVE k[i] = h[i]
  <2>1. CASE i <= Len(t)
    <3>1. i \in 1..Len(t) /\ i \in 1..Len(g)
      BY <1>5, <1>6, <1>11, <2>1
    <3> QED
      BY <1>6, <1>9, <1>10, <3>1
  <2>2. CASE ~(i <= Len(t)) /\ i <= Len(g)
    <3>1. PICK j : j = i - Len(t)
      OBVIOUS
    <3>2. /\ j \in 1..(Len(b) - c) /\ j \in 1..(Len(bp) - c) /\ i \in 1..Len(g)
          /\ Len(t) + j = i /\ c + j \in 1..Len(b)
      BY <1>5, <1>6, <1>7, <1>11, <2>2, <3>1
    <3> QED
      BY <1>6, <1>7, <1>9, <1>10, <3>2
  <2>3. CASE ~(i <= Len(g))
    <3>1. PICK j : j = i - Len(g)
      OBVIOUS
    <3>2. /\ j \in 1..Len(p) /\ Len(g) + j = i
          /\ (Len(b) - c) + j \in 1..(Len(bp) - c) /\ Len(t) + ((Len(b) - c) + j) = i
          /\ c + ((Len(b) - c) + j) = Len(b) + j
      <4>1. PICK lt, lb, lp : lt = Len(t) /\ lb = Len(b) /\ lp = Len(p)
        OBVIOUS
      <4>2. /\ lt \in Nat /\ lb \in Nat /\ lp \in Nat /\ c \in 0..lb
            /\ Len(g) = lt + (lb - c) /\ Len(bp) = lb + lp
            /\ Len(k) = (lt + (lb - c)) + lp
        BY <1>5, <1>6, <1>7, <1>11, <4>1
      <4>3. i \in 1..((lt + (lb - c)) + lp) /\ ~(i <= lt + (lb - c)) /\ j = i - (lt + (lb - c))
        BY <2>3, <3>1, <4>2
      <4>4. /\ j \in 1..lp /\ (lt + (lb - c)) + j = i
            /\ (lb - c) + j \in 1..((lb + lp) - c) /\ lt + ((lb - c) + j) = i
            /\ c + ((lb - c) + j) = lb + j
        BY <4>2, <4>3, PastGraft
      <4> QED
        BY <4>1, <4>2, <4>4
    <3>3. k[i] = p[j]
      BY <1>10, <3>2
    <3>4. PICK x \in 1..(Len(bp) - c) : x = (Len(b) - c) + j
      BY <3>2
    <3>5. h[Len(t) + x] = bp[c + x]
      BY <1>9
    <3>6. Len(t) + x = i /\ c + x = Len(b) + j
      BY <3>2, <3>4
    <3>7. h[i] = bp[Len(b) + j]
      BY <3>5, <3>6
    <3> QED
      BY <1>7, <3>2, <3>3, <3>7
  <2> QED
    BY <1>5, <1>6, <2>1, <2>2, <2>3
<1>13. k = h
  <2>1. \A i \in 1..Len(h) : k[i] = h[i]
    BY <1>11, <1>12
  <2> QED
    BY <1>9, <1>10, <1>11, <2>1, SameSeq
<1> QED
  BY <1>1, <1>2, <1>3, <1>4, <1>13

-----------------------------------------------------------------------------
(* Prefixes of strings *)

(* The names of r are those that p begins with, but for the last, which    *)
(* may go on in p.                                                         *)
BeginsNames(p, r) ==
  /\ Len(r) <= Len(p)
  /\ \A i \in 1..(Len(r) - 1) : p[i] = r[i]
  /\ p[Len(r)].base = r[Len(r)].base /\ p[Len(r)].extra >= r[Len(r)].extra

LEMMA BeginsIs ==
  ASSUME NEW S, NEW p \in Seq(S), NEW r \in Seq(S), r # <<>>
  PROVE  BeginsWith(p, r) <=> BeginsNames(p, r)
<1>1. Len(r) \in Nat \ {0} /\ Len(p) \in Nat
  OBVIOUS
<1>2. PICK n \in Nat : Len(r) = n + 1
  <2>1. Len(r) - 1 \in Nat /\ Len(r) = (Len(r) - 1) + 1
    BY <1>1
  <2> QED
    BY <2>1
<1>3. Len(r) - 1 = n
  BY <1>2
<1>4. Last(r) = r[Len(r)] /\ Front(r) = SubSeq(r, 1, n)
  BY <1>3 DEF Last, Front
<1>5. ASSUME Len(r) <= Len(p)
      PROVE  SubSeq(r, 1, n) = SubSeq(p, 1, n) <=> \A i \in 1..n : p[i] = r[i]
  <2>1. n <= Len(r) /\ n <= Len(p)
    BY <1>1, <1>2, <1>5
  <2>2. PICK x, y : x = SubSeq(r, 1, n) /\ y = SubSeq(p, 1, n)
    OBVIOUS
  <2>3. /\ x \in Seq(S) /\ Len(x) = n /\ \A i \in 1..n : x[i] = r[i]
        /\ y \in Seq(S) /\ Len(y) = n /\ \A i \in 1..n : y[i] = p[i]
    BY <2>1, <2>2
  <2>4. x = y <=> \A i \in 1..n : x[i] = y[i]
    BY <2>3, SameSeq
  <2> QED
    BY <2>2, <2>3, <2>4
<1> QED
  BY <1>3, <1>4, <1>5 DEF BeginsWith, BeginsNames

LEMMA BeginsBelow ==
  ASSUME NEW S, NEW b \in Seq(S), NEW p \in Seq(S), NEW r \in Seq(S), r # <<>>
  PROVE  BeginsWith(b \o p, b \o r) <=> BeginsWith(p, r)
<1>1. PICK bp, br : bp = b \o p /\ br = b \o r
  OBVIOUS
<1>2. Len(b) \in Nat /\ Len(p) \in Nat /\ Len(r) \in Nat \ {0}
  OBVIOUS
<1>3a. Joined(S, b, p, bp)
  BY <1>1, Concat
<1>3. /\ bp \in Seq(S) /\ Len(bp) = Len(b) + Len(p)
      /\ \A i \in 1..Len(b) : bp[i] = b[i]
      /\ \A i \in 1..Len(p) : bp[Len(b) + i] = p[i]
  BY <1>3a DEF Joined
<1>4a. Joined(S, b, r, br)
  BY <1>1, Concat
<1>4. /\ br \in Seq(S) /\ Len(br) = Len(b) + Len(r)
      /\ \A i \in 1..Len(b) : br[i] = b[i]
      /\ \A i \in 1..Len(r) : br[Len(b) + i] = r[i]
  BY <1>4a DEF Joined
<1>5. br # <<>>
  BY <1>2, <1>4
<1>6a. BeginsWith(p, r) <=> BeginsNames(p, r)
  BY BeginsIs
<1>6. BeginsWith(p, r) <=>
           /\ Len(r) <= Len(p)
           /\ \A i \in 1..(Len(r) - 1) : p[i] = r[i]
           /\ p[Len(r)].base = r[Len(r)].base /\ p[Len(r)].extra >= r[Len(r)].extra
  BY <1>6a DEF BeginsNames
<1>7a. BeginsWith(bp, br) <=> BeginsNames(bp, br)
  BY <1>3, <1>4, <1>5, BeginsIs
<1>7. BeginsWith(bp, br) <=>
           /\ Len(br) <= Len(bp)
           /\ \A i \in 1..(Len(br) - 1) : bp[i] = br[i]
           /\ bp[Len(br)].base = br[Len(br)].base /\ bp[Len(br)].extra >= br[Len(br)].extra
  BY <1>7a DEF BeginsNames
<1>8. Len(br) <= Len(bp) <=> Len(r) <= Len(p)
  BY <1>2, <1>3, <1>4
<1>9. SUFFICES ASSUME Len(r) <= Len(p) PROVE BeginsWith(bp, br) <=> BeginsWith(p, r)
  BY <1>1, <1>6, <1>7, <1>8
<1>10. bp[Len(br)] = p[Len(r)] /\ br[Len(br)] = r[Len(r)]
  <2>1. Len(r) \in 1..Len(p) /\ Len(r) \in 1..Len(r) /\ Len(br) = Len(b) + Len(r)
    BY <1>2, <1>4, <1>9
  <2> QED
    BY <1>3, <1>4, <2>1
<1>11. (\A i \in 1..(Len(br) - 1) : bp[i] = br[i]) <=> \A i \in 1..(Len(r) - 1) : p[i] = r[i]
  <2>1. ASSUME \A i \in 1..(Len(br) - 1) : bp[i] = br[i], NEW i \in 1..(Len(r) - 1)
        PROVE  p[i] = r[i]
    <3>1. Len(b) + i \in 1..(Len(br) - 1) /\ i \in 1..Len(p) /\ i \in 1..Len(r)
      BY <1>2, <1>4, <1>9
    <3> QED
      BY <1>3, <1>4, <2>1, <3>1
  <2>2. ASSUME \A i \in 1..(Len(r) - 1) : p[i] = r[i], NEW i \in 1..(Len(br) - 1)
        PROVE  bp[i] = br[i]
    <3>1. CASE i \in 1..Len(b)
      BY <1>3, <1>4, <3>1
    <3>2. CASE i \notin 1..Len(b)
      <4>1. PICK j : j = i - Len(b)
        OBVIOUS
      <4>2. j \in 1..(Len(r) - 1) /\ j \in 1..Len(p) /\ j \in 1..Len(r) /\ Len(b) + j = i
        BY <1>2, <1>4, <1>9, <3>2, <4>1
      <4> QED
        BY <1>3, <1>4, <2>2, <4>2
    <3> QED
      BY <3>1, <3>2
  <2> QED
    BY <2>1, <2>2
<1> QED
  BY <1>6, <1>7, <1>8, <1>10, <1>11

LEMMA ReprefixedIs ==
  ASSUME NEW p \in Seq(Names), NEW r \in Seq(Names), NEW t \in Seq(Names),
         r # <<>>, t # <<>>, Continues(p, r)
  PROVE  Reprefixed(p, r, t) = Graft(t, p, Len(r))
<1>1. /\ Len(r) \in Nat \ {0} /\ Len(t) \in Nat \ {0} /\ Len(p) \in Nat
      /\ Len(r) \in 0..Len(p) /\ Len(r) \in 1..Len(r) /\ Len(t) \in 1..Len(t)
  BY DEF Continues
<1>2. p[Len(r)] = r[Len(r)] /\ r[Len(r)] \in Names /\ t[Len(t)] \in Names
  BY <1>1 DEF Continues
<1>3. Last(t).extra + p[Len(r)].extra - Last(r).extra = t[Len(t)].extra
  <2>1. \A a, b \in Names : a.extra + b.extra - b.extra = a.extra
    BY NodeTreeAssumption DEF Names
  <2> QED
    BY <1>2, <2>1 DEF Last
<1>4. [Last(t) EXCEPT !.extra = t[Len(t)].extra] = t[Len(t)]
  <2>1. \A a \in Names : [a EXCEPT !.extra = a.extra] = a
    BY DEF Names
  <2> QED
    BY <1>2, <2>1 DEF Last
<1>5. Front(t) \o <<t[Len(t)]>> = t
  <2>1. PICK f : f = Front(t)
    OBVIOUS
  <2>2. f = SubSeq(t, 1, Len(t) - 1)
    BY <2>1 DEF Front
  <2>3. f \in Seq(Names) /\ Len(f) = Len(t) - 1 /\ \A i \in 1..Len(f) : f[i] = t[i]
    <3>1. PICK n : n = Len(t) - 1
      OBVIOUS
    <3>2. n \in Nat /\ n <= Len(t)
      BY <1>1, <3>1
    <3>3. f = SubSeq(t, 1, n)
      BY <2>2, <3>1
    <3>4. f \in Seq(Names) /\ Len(f) = n /\ \A i \in 1..n : f[i] = t[i]
      BY <3>2, <3>3
    <3> QED
      BY <3>1, <3>4
  <2>4. PICK o : o = <<t[Len(t)]>>
    OBVIOUS
  <2>5. o \in Seq(Names) /\ Len(o) = 1 /\ o[1] = t[Len(t)]
    BY <1>2, <2>4
  <2>6. PICK g : g = f \o o
    OBVIOUS
  <2>7a. Joined(Names, f, o, g)
    BY <2>3, <2>5, <2>6, Concat
  <2>7. /\ g \in Seq(Names) /\ Len(g) = Len(f) + Len(o)
        /\ \A i \in 1..Len(f) : g[i] = f[i]
        /\ \A i \in 1..Len(o) : g[Len(f) + i] = o[i]
    BY <2>7a DEF Joined
  <2>8. Len(g) = Len(t) /\ \A i \in 1..Len(t) : i \in 1..Len(f) \/ i = Len(f) + 1
    BY <1>1, <2>3, <2>5, <2>7
  <2>9. \A i \in 1..Len(t) : g[i] = t[i]
    <3>0. 1 \in 1..Len(o)
      BY <2>5
    <3>1. g[Len(f) + 1] = t[Len(t)] /\ Len(f) + 1 = Len(t)
      <4>0. PICK x \in 1..Len(o) : x = 1
        BY <3>0
      <4>2. g[Len(f) + x] = o[x]
        BY <2>7
      <4>1. g[Len(f) + 1] = o[1]
        BY <4>0, <4>2
      <4> QED
        BY <1>1, <2>3, <2>5, <4>1
    <3> QED
      BY <2>3, <2>7, <2>8, <3>1
  <2> QED
    BY <2>1, <2>4, <2>6, <2>7, <2>8, <2>9, SameSeq
<1>6. PICK rest : rest = SubSeq(p, Len(r) + 1, Len(p))
  OBVIOUS
<1>7. /\ rest \in Seq(Names) /\ Len(rest) = Len(p) - Len(r)
      /\ \A i \in 1..Len(rest) : rest[i] = p[Len(r) + i]
  BY <1>1, <1>6, RestIs
<1>8. Reprefixed(p, r, t) = t \o rest
  BY <1>3, <1>4, <1>5, <1>6 DEF Reprefixed
<1>9. PICK g, h : g = Graft(t, p, Len(r)) /\ h = t \o rest
  OBVIOUS
<1>10a. Grafted(Names, t, p, Len(r), g)
  BY <1>1, <1>9, GraftParts
<1>10. /\ g \in Seq(Names) /\ Len(g) = Len(t) + (Len(p) - Len(r))
       /\ \A i \in 1..Len(t) : g[i] = t[i]
       /\ \A i \in 1..(Len(p) - Len(r)) : g[Len(t) + i] = p[Len(r) + i]
  BY <1>10a DEF Grafted
<1>11a. Joined(Names, t, rest, h)
  BY <1>7, <1>9, Concat
<1>11. /\ h \in Seq(Names) /\ Len(h) = Len(t) + Len(rest)
       /\ \A i \in 1..Len(t) : h[i] = t[i]
       /\ \A i \in 1..Len(rest) : h[Len(t) + i] = rest[i]
  BY <1>11a DEF Joined
<1>12. Len(h) = Len(g)
  BY <1>7, <1>10, <1>11
<1>13. ASSUME NEW i \in 1..Len(g) PROVE h[i] = g[i]
  <2>1. CASE i \in 1..Len(t)
    BY <1>10, <1>11, <2>1
  <2>2. CASE i \notin 1..Len(t)
    <3>1. PICK j : j = i - Len(t)
      OBVIOUS
    <3>2. j \in 1..Len(rest) /\ j \in 1..(Len(p) - Len(r)) /\ Len(t) + j = i
      BY <1>1, <1>7, <1>10, <2>2, <3>1
    <3> QED
      BY <1>7, <1>10, <1>11, <3>2
  <2> QED
    BY <2>1, <2>2
<1> QED
  BY <1>8, <1>9, <1>10, <1>11, <1>12, <1>13, SameSeq

-----------------------------------------------------------------------------
(* Paths from a connection's owner *)

(* The path of a relocated node, taken as a whole.                         *)
LEMMA PathAfter ==
  ASSUME Tree, NEW n \in alive, NEW q \in alive \cup {Top}, NEW nm \in Names,
         NEW new, PathsAt(new, n, q, nm), NEW m \in Subtree(n)
  PROVE  new[m] = Graft(Append(PathOf(q), nm), path[m], Len(path[n]))
<1>0. PICK t : t = Append(PathOf(q), nm)
  OBVIOUS
<1>1. t \in Seq(Names)
  BY <1>0, PathTyped
<1> DEFINE bad == {d \in Nat : \E k \in Subtree(n) :
                     Len(path[k]) = d /\ new[k] # Graft(t, path[k], Len(path[n]))}
<1>2. n \in Subtree(n) /\ Subtree(n) \subseteq alive
  BY Subtrees
<1>3. bad = {}
  <2> SUFFICES ASSUME bad # {} PROVE FALSE
    OBVIOUS
  <2>1. bad \in SUBSET Nat
    OBVIOUS
  <2>2. PICK d \in bad : \A j \in bad : d <= j
    <3> HIDE DEF bad
    <3> QED
      BY <2>1, LeastNumber
  <2>3. PICK k \in Subtree(n) : Len(path[k]) = d /\ new[k] # Graft(t, path[k], Len(path[n]))
    OBVIOUS
  <2>4. k # n
    <3>1. path[n] \in Seq(Names) /\ new[n] = t
      BY <1>0, PathParts DEF PathsAt
    <3>2. Graft(t, path[n], Len(path[n])) = t
      BY <1>1, <3>1, GraftNone
    <3> QED
      BY <2>3, <3>1, <3>2
  <2>5. k \in alive /\ parent[k] \in Subtree(n) /\ parent[k] \in alive
    BY <1>2, <2>4, Subtrees
  <2>6. PathOf(parent[k]) = path[parent[k]]
    BY <2>5, NodeTreeAssumption DEF Tree, TreeTyped, PathOf
  <2>7. /\ Len(path[parent[k]]) \in Nat /\ d = Len(path[parent[k]]) + 1 /\ name[k] \in Names
        /\ path[parent[k]] \in Seq(Names) /\ Len(path[n]) \in Nat
        /\ Len(path[n]) <= Len(path[parent[k]])
    BY <2>3, <2>5, <2>6, PathParts, Subtrees
  <2>8. path[k] = Append(path[parent[k]], name[k])
    BY <2>5, <2>6 DEF Tree, PathsChained
  <2>9. Len(path[parent[k]]) \notin bad
    <3>1. ~(d <= Len(path[parent[k]]))
      BY <2>7
    <3> HIDE DEF bad
    <3> QED
      BY <2>2, <3>1
  <2>10. new[parent[k]] = Graft(t, path[parent[k]], Len(path[n]))
    BY <2>5, <2>7, <2>9
  <2>11. new[k] = Append(new[parent[k]], name[k])
    BY <2>4 DEF PathsAt
  <2>12. \A c \in Nat : \A s \in Seq(Names) : \A x \in Names :
           c <= Len(s) => Graft(t, Append(s, x), c) = Append(Graft(t, s, c), x)
    BY <1>1, GraftOne
  <2>13. Graft(t, Append(path[parent[k]], name[k]), Len(path[n]))
           = Append(Graft(t, path[parent[k]], Len(path[n])), name[k])
    BY <2>7, <2>12
  <2> QED
    BY <2>3, <2>8, <2>10, <2>11, <2>13
<1>4. Len(path[m]) \in Nat
  BY <1>2, PathParts
<1> QED
  BY <1>0, <1>3, <1>4

(* Where names on the way are no beginnings of their siblings', a path     *)
(* that begins with another as a string does so name by name.              *)
LEMMA OnTheWay ==
  ASSUME Tree, NEW n \in alive, NEW m \in alive, BeginsWith(path[m], path[n]), Unambiguous(m)
  PROVE  m \in Subtree(n)
<1>1. PICK d : d = Len(path[n])
  OBVIOUS
<1>2. /\ path[n] \in Seq(Names) /\ path[m] \in Seq(Names) /\ d \in Nat /\ Len(path[m]) \in Nat
      /\ d = Len(PathOf(parent[n])) + 1 /\ path[n][d] = name[n]
      /\ PathOf(parent[n]) \in Seq(Names) /\ Len(PathOf(parent[n])) \in Nat
      /\ parent[n] \in alive \cup {Top} /\ name[n] \in Names
      /\ \A i \in 1..Len(PathOf(parent[n])) : path[n][i] = PathOf(parent[n])[i]
  BY <1>1, PathParts, PathTyped
<1>3. path[n] # <<>>
  <2>1. Len(path[n]) # 0
    BY <1>1, <1>2
  <2>2. \A s : s = <<>> => Len(s) = 0
    OBVIOUS
  <2> QED
    BY <2>1, <2>2
<1>4a. BeginsNames(path[m], path[n])
  BY <1>2, <1>3, BeginsIs
<1>4. /\ d <= Len(path[m])
      /\ \A i \in 1..(d - 1) : path[m][i] = path[n][i]
      /\ path[m][d].base = name[n].base /\ path[m][d].extra >= name[n].extra
  BY <1>1, <1>2, <1>4a DEF BeginsNames
<1>5. d \in 1..Len(path[m])
  BY <1>2, <1>4
<1>6. PICK a \in alive : Len(path[a]) = d /\ Continues(path[m], path[a])
  BY <1>5, AncestorAt
<1>7. /\ path[a] \in Seq(Names) /\ parent[a] \in alive \cup {Top} /\ name[a] \in Names
      /\ d = Len(PathOf(parent[a])) + 1 /\ path[a][d] = name[a]
      /\ PathOf(parent[a]) \in Seq(Names) /\ Len(PathOf(parent[a])) \in Nat
      /\ \A i \in 1..Len(PathOf(parent[a])) : path[a][i] = PathOf(parent[a])[i]
  BY <1>6, PathParts, PathTyped
<1>8. \A i \in 1..d : path[m][i] = path[a][i]
  BY <1>6 DEF Continues
<1>9. d \in 1..d
  BY <1>5
<1>10. path[m][d] = name[a]
  BY <1>7, <1>8, <1>9
<1>11. parent[a] = parent[n]
  <2>1. Len(PathOf(parent[a])) = Len(PathOf(parent[n])) /\ Len(PathOf(parent[n])) = d - 1
    BY <1>2, <1>7
  <2>2. ASSUME NEW i \in 1..Len(PathOf(parent[n])) PROVE PathOf(parent[a])[i] = PathOf(parent[n])[i]
    <3>1. i \in 1..(d - 1) /\ i \in 1..d /\ i \in 1..Len(PathOf(parent[a]))
      BY <1>2, <2>1
    <3> QED
      BY <1>2, <1>4, <1>7, <1>8, <3>1
  <2>3. PathOf(parent[a]) = PathOf(parent[n])
    BY <1>2, <1>7, <2>1, <2>2, SameSeq
  <2> QED
    BY <1>2, <1>7, <2>3, EqualPaths
<1>12. /\ m # Top /\ a # Top /\ a \in Nodes
       /\ PathOf(m) = path[m] /\ PathOf(a) = path[a]
  BY NodeTreeAssumption DEF Tree, TreeTyped, PathOf
<1>13. a \in AtOrAbove(m)
  BY <1>6, <1>12, PrefixIsAbove
<1>14. BeginsWith(<<name[a]>>, <<name[n]>>)
  <2>1. PICK x, y : x = <<name[a]>> /\ y = <<name[n]>>
    OBVIOUS
  <2>2. x \in Seq(Names) /\ y \in Seq(Names) /\ Len(x) = 1 /\ Len(y) = 1 /\ x[1] = name[a] /\ y[1] = name[n]
    BY <1>2, <1>7, <2>1
  <2>3. y # <<>>
    BY <2>1
  <2>4. BeginsNames(x, y)
    BY <1>4, <1>10, <2>2 DEF BeginsNames
  <2>5. BeginsWith(x, y)
    BY <2>2, <2>3, <2>4, BeginsIs
  <2> QED
    BY <2>1, <2>5
<1>15. a = n
  BY <1>11, <1>12, <1>13, <1>14 DEF Unambiguous
<1> QED
  BY <1>6, <1>15, UnderIn DEF Under

Follows(s, b, p) == s = b \o p

At(new, o) == IF o = Top THEN <<>> ELSE new[o]

(* What a path from o to m becomes when n is relocated.                    *)
LEMMA CarriedOutside ==
  ASSUME Tree, NEW n \in alive, NEW q \in alive \cup {Top}, NEW nm \in Names,
         NEW new, PathsAt(new, n, q, nm), NEW o \in alive \cup {Top}, o \notin Subtree(n)
  PROVE  At(new, o) = PathOf(o)
BY DEF At, PathOf, PathsAt, Tree, TreeTyped

LEMMA CarriedApart ==
  ASSUME Tree, NEW n \in alive, NEW o \in alive \cup {Top}, NEW m \in alive,
         NEW p \in Seq(Names), path[m] = PathOf(o) \o p, m \notin Subtree(n)
  PROVE  o \notin Subtree(n)
<1> SUFFICES ASSUME o \in Subtree(n) PROVE FALSE
  OBVIOUS
<1>1. o \in alive /\ Continues(path[o], path[n])
  BY InUnder DEF Under
<1>2. PathOf(o) = path[o]
  BY <1>1, NodeTreeAssumption DEF Tree, TreeTyped, PathOf
<1>3. /\ path[o] \in Seq(Names) /\ path[n] \in Seq(Names) /\ path[m] \in Seq(Names)
  BY <1>1, PathParts
<1>4. Continues(path[m], path[o])
  <2>1. \A s, b \in Seq(Names) : \A r \in Seq(Names) : s = b \o r => Continues(s, b)
    BY Apart
  <2> QED
    BY <1>2, <1>3, <2>1
<1>5. Continues(path[m], path[n])
  BY <1>1, <1>3, <1>4, ContinuesChain
<1> QED
  BY <1>5, UnderIn DEF Under

LEMMA CarriedWithin ==
  ASSUME Tree, NEW n \in alive, NEW q \in alive \cup {Top}, NEW nm \in Names,
         NEW new, PathsAt(new, n, q, nm), NEW o \in Subtree(n), NEW m \in alive,
         NEW p \in Seq(Names), Follows(path[m], PathOf(o), p)
  PROVE  Follows(new[m], At(new, o), p)
<1>0. path[m] = PathOf(o) \o p
  BY DEF Follows
<1>1. m \in Subtree(n)
  BY <1>0, CarriedApart, Subtrees
<1>2. o \in alive /\ o # Top /\ PathOf(o) = path[o] /\ At(new, o) = new[o]
  BY Subtrees, NodeTreeAssumption DEF Tree, TreeTyped, PathOf, At
<1>3. PICK t : t = Append(PathOf(q), nm)
  OBVIOUS
<1>4. t \in Seq(Names)
  BY <1>3, PathTyped
<1>5. new[m] = Graft(t, path[m], Len(path[n])) /\ new[o] = Graft(t, path[o], Len(path[n]))
  BY <1>1, <1>3, PathAfter
<1>6. path[o] \in Seq(Names) /\ Len(path[n]) \in 0..Len(path[o])
  BY <1>2, PathParts, Subtrees
<1>7. PICK b, c : b = path[o] /\ c = Len(path[n])
  OBVIOUS
<1>8. b \in Seq(Names) /\ c \in 0..Len(b)
  BY <1>6, <1>7
<1>9. Graft(t, b \o p, c) = Graft(t, b, c) \o p
  BY <1>4, <1>8, GraftAbove
<1>10. path[m] = b \o p /\ new[m] = Graft(t, path[m], c) /\ At(new, o) = Graft(t, b, c)
  BY <1>0, <1>2, <1>5, <1>7
<1> QED
  BY <1>9, <1>10 DEF Follows

LEMMA CarriedAcross ==
  ASSUME Tree, NEW n \in alive, NEW o \in alive \cup {Top}, o \notin Subtree(n),
         NEW m \in Subtree(n), NEW p \in Seq(Names), path[m] = PathOf(o) \o p
  PROVE  /\ Len(PathOf(o)) < Len(path[n]) /\ Continues(path[n], PathOf(o))
         /\ Continues(path[m], path[n])
         /\ o \in AtOrAbove(parent[n])
<1>1. m \in alive /\ Continues(path[m], path[n])
  BY InUnder DEF Under
<1>2. /\ path[m] \in Seq(Names) /\ path[n] \in Seq(Names) /\ PathOf(o) \in Seq(Names)
      /\ Len(path[n]) \in Nat /\ Len(PathOf(o)) \in Nat
  BY <1>1, PathParts, PathTyped
<1>3. Continues(path[m], PathOf(o))
  <2>1. \A s, b \in Seq(Names) : \A r \in Seq(Names) : s = b \o r => Continues(s, b)
    BY Apart
  <2> QED
    BY <1>2, <2>1
<1>4. Len(PathOf(o)) < Len(path[n])
  <2> SUFFICES ASSUME Len(path[n]) <= Len(PathOf(o)) PROVE FALSE
    BY <1>2
  <2>1. Continues(PathOf(o), path[n])
    BY <1>1, <1>2, <1>3, ContinuesBoth
  <2>2. o # Top
    <3>1. Len(path[n]) # 0
      BY PathParts, PathTyped
    <3>2. o = Top => Len(PathOf(o)) = 0
      BY DEF PathOf
    <3> QED
      BY <1>2, <3>1, <3>2
  <2>3. o \in alive /\ Continues(path[o], path[n])
    BY <2>1, <2>2 DEF PathOf
  <2> QED
    BY <2>3, UnderIn DEF Under
<1>5. Continues(path[n], PathOf(o))
  <2>1. Len(PathOf(o)) <= Len(path[n])
    BY <1>2, <1>4
  <2> QED
    BY <1>1, <1>2, <1>3, <2>1, ContinuesBoth
<1>6. /\ parent[n] \in alive \cup {Top} /\ PathOf(parent[n]) \in Seq(Names)
      /\ Len(PathOf(parent[n])) \in Nat /\ Len(path[n]) = Len(PathOf(parent[n])) + 1
      /\ \A i \in 1..Len(PathOf(parent[n])) : path[n][i] = PathOf(parent[n])[i]
  BY PathParts, PathTyped
<1>7. Len(PathOf(o)) <= Len(PathOf(parent[n])) /\ Len(PathOf(parent[n])) <= Len(path[n])
  BY <1>2, <1>4, <1>6
<1>8. Continues(path[n], PathOf(parent[n]))
  BY <1>6, <1>7 DEF Continues
<1>9. Continues(PathOf(parent[n]), PathOf(o))
  BY <1>2, <1>5, <1>6, <1>7, <1>8, ContinuesBoth
<1> QED
  BY <1>1, <1>4, <1>5, <1>6, <1>9, PrefixIsAbove

(* What continues another goes on to do so without what both begin with.   *)
LEMMA ContinuesBelow ==
  ASSUME NEW S, NEW b \in Seq(S), NEW p \in Seq(S), NEW r \in Seq(S),
         NEW s, NEW t, s = b \o p, t = b \o r, Continues(s, t)
  PROVE  Continues(p, r)
<1>1. Joined(S, b, p, s) /\ Joined(S, b, r, t)
  BY Concat
<1>2. /\ Len(s) = Len(b) + Len(p) /\ Len(t) = Len(b) + Len(r)
      /\ Len(b) \in Nat /\ Len(p) \in Nat /\ Len(r) \in Nat
  BY <1>1 DEF Joined
<1>3. Len(r) <= Len(p)
  BY <1>2 DEF Continues
<1>4. ASSUME NEW i \in 1..Len(r) PROVE p[i] = r[i]
  <2>1. PICK j : j = Len(b) + i
    OBVIOUS
  <2>2. j \in 1..Len(t) /\ i \in 1..Len(p)
    BY <1>2, <1>3, <2>1
  <2>3. s[j] = t[j]
    BY <2>2 DEF Continues
  <2>4. s[j] = p[i] /\ t[j] = r[i]
    BY <1>1, <2>1, <2>2 DEF Joined
  <2> QED
    BY <2>3, <2>4
<1> QED
  BY <1>3, <1>4 DEF Continues

(* Names that continue others begin with them as strings too.              *)
LEMMA ContinuesBegins ==
  ASSUME NEW p \in Seq(Names), NEW r \in Seq(Names), r # <<>>, Continues(p, r)
  PROVE  BeginsWith(p, r)
<1>1. Len(r) \in Nat \ {0} /\ Len(r) \in 1..Len(r)
  OBVIOUS
<1>2. p[Len(r)] = r[Len(r)] /\ r[Len(r)] \in Names
  BY <1>1 DEF Continues
<1>3. \A i \in 1..(Len(r) - 1) : i \in 1..Len(r)
  BY <1>1
<1>4. r[Len(r)].extra >= r[Len(r)].extra
  <2>1. \A x \in Names : x.extra >= x.extra
    BY NodeTreeAssumption DEF Names
  <2> QED
    BY <1>2, <2>1
<1>5. BeginsNames(p, r)
  BY <1>2, <1>3, <1>4 DEF BeginsNames, Continues
<1> QED
  BY <1>5, BeginsIs

(* An end that refers to m refers to it still.                             *)
LEMMA RefersStill ==
  ASSUME NEW c, NEW e, NEW m, Refers(c, e, m), m \in alive',
         parent'[c] = parent[c], ends'[c][e] = ends[c][e],
         path'[m] = At(path', parent[c]) \o ends[c][e]
  PROVE  Refers(c, e, m)'
BY DEF Refers, At, PathOf

(* What has longer paths than a place above it.                            *)
LEMMA StrictlyAbove ==
  ASSUME Tree, NEW n \in alive, NEW o \in AtOrAbove(parent[n])
  PROVE  /\ o \in alive \cup {Top} /\ Continues(PathOf(parent[n]), PathOf(o))
         /\ Continues(path[n], PathOf(o)) /\ Len(PathOf(o)) < Len(path[n])
<1>1. /\ parent[n] \in alive \cup {Top} /\ PathOf(parent[n]) \in Seq(Names)
      /\ Len(PathOf(parent[n])) \in Nat /\ Len(path[n]) = Len(PathOf(parent[n])) + 1
      /\ \A i \in 1..Len(PathOf(parent[n])) : path[n][i] = PathOf(parent[n])[i]
      /\ path[n] \in Seq(Names)
  BY PathParts, PathTyped
<1>2. o \in alive \cup {Top} /\ Continues(PathOf(parent[n]), PathOf(o))
  BY <1>1, AboveIsPrefix
<1>3. PathOf(o) \in Seq(Names) /\ Len(PathOf(o)) \in Nat
  BY <1>2, PathTyped
<1>4. Len(PathOf(parent[n])) <= Len(path[n])
  BY <1>1
<1>5. Continues(path[n], PathOf(parent[n]))
  BY <1>1, <1>4 DEF Continues
<1>6. Continues(path[n], PathOf(o))
  BY <1>1, <1>2, <1>3, <1>5, ContinuesChain
<1>7. Len(PathOf(o)) < Len(path[n])
  BY <1>1, <1>2, <1>3 DEF Continues
<1> QED
  BY <1>2, <1>6, <1>7

(* Rename: an end is rewritten only where n is on the way from the owner   *)
(* to what the end refers to, and then to what its path has become.        *)
LEMMA RenameFollows ==
  ASSUME TreeInv, EndsInv, NEW n \in Nodes, NEW wanted \in Names, RenameCommand(n, wanted),
         NEW c \in Connections \cap alive, NEW e \in Ends, NEW m,
         Refers(c, e, m), Unambiguous(m)
  PROVE  Refers(c, e, m)'
<1>1. PICK q \in alive \cup {Top}, nm \in Names :
        n \in alive /\ q \notin Subtree(n) /\ Relocated(n, q, nm)
  BY RenameRelocates
<1>2. UNCHANGED <<alive, parent>> /\ q = parent[n] /\ Tree
  BY <1>1 DEF RenameCommand, Relocated, TreeInv
<1>3. ends' = EndsRenamed(n, path'[n])
  BY DEF RenameCommand
<1>4. PICK o, p, r, t : /\ o = parent[c] /\ p = ends[c][e]
                        /\ r = Below(o, path[n]) /\ t = path'[n]
  OBVIOUS
<1>5. /\ m \in alive /\ p # <<>> /\ path[m] = PathOf(o) \o p
      /\ o \in alive \cup {Top} /\ p \in Seq(Names)
  BY <1>2, <1>4, PathParts DEF Refers, EndsInv
<1>6. ends'[c][e] = IF o \in AtOrAbove(q) /\ BeginsWith(p, r)
                      THEN Reprefixed(p, r, Below(o, t)) ELSE p
  BY <1>2, <1>3, <1>4 DEF EndsRenamed
<1>7. /\ PathsAt(path', n, q, nm) /\ t = Append(PathOf(q), nm)
      /\ PathOf(q) \in Seq(Names) /\ Len(PathOf(q)) \in Nat
      /\ t \in Seq(Names) /\ Len(t) = Len(PathOf(q)) + 1
      /\ \A i \in 1..Len(PathOf(q)) : t[i] = PathOf(q)[i]
  <2>1. PathsAt(path', n, q, nm) /\ t = Append(PathOf(q), nm)
    BY <1>1, <1>4 DEF Relocated, PathsAt
  <2>2. PathOf(q) \in Seq(Names) /\ Len(PathOf(q)) \in Nat
    BY <1>2, PathTyped
  <2>3. \A s \in Seq(Names) : \A x \in Names :
          /\ Append(s, x) \in Seq(Names) /\ Len(Append(s, x)) = Len(s) + 1
          /\ \A i \in 1..Len(s) : Append(s, x)[i] = s[i]
    OBVIOUS
  <2> QED
    BY <2>1, <2>2, <2>3
<1>8. /\ path[n] \in Seq(Names) /\ path[m] \in Seq(Names) /\ PathOf(o) \in Seq(Names)
      /\ Len(PathOf(o)) \in Nat /\ Len(path[n]) \in Nat
  BY <1>1, <1>2, <1>5, PathParts, PathTyped
(* What is on the way to n, seen from a place above it. *)
<1>8a. PICK b, new : b = PathOf(o) /\ new = path'
  OBVIOUS
<1>8b. b \in Seq(Names) /\ Len(b) \in Nat /\ PathsAt(new, n, q, nm)
  BY <1>7, <1>8, <1>8a
<1>8c. ASSUME NEW s \in Seq(Names), Continues(s, b)
       PROVE  /\ Below(o, s) \in Seq(Names) /\ s = b \o Below(o, s)
              /\ Len(Below(o, s)) = Len(s) - Len(b)
  <2>1. PICK x : x = SubSeq(s, Len(b) + 1, Len(s))
    OBVIOUS
  <2>2. x \in Seq(Names) /\ s = b \o x /\ Len(x) = Len(s) - Len(b)
    BY <1>8b, <1>8c, <2>1, Together
  <2>3. Below(o, s) = x
    BY <1>8a, <2>1 DEF Below
  <2> QED
    BY <2>2, <2>3
<1>8d. o \notin Subtree(n) => At(path', o) = PathOf(o)
  <2>1. o \notin Subtree(n) => At(new, o) = PathOf(o)
    <3>0. Tree /\ n \in alive /\ o \in alive \cup {Top}
      BY <1>1, <1>2, <1>5
    <3>1. ASSUME NEW x, PathsAt(x, n, q, nm), o \notin Subtree(n) PROVE At(x, o) = PathOf(o)
      BY <3>0, <3>1, CarriedOutside
    <3> QED
      BY <1>8b, <3>1
  <2> QED
    BY <1>8a, <2>1
<1>9. ASSUME o \in AtOrAbove(q)
      PROVE  /\ Continues(PathOf(q), PathOf(o))
             /\ path[n] = PathOf(o) \o r /\ r \in Seq(Names) /\ r # <<>>
             /\ Len(path[n]) = Len(PathOf(o)) + Len(r)
  <2>1. /\ Continues(PathOf(q), PathOf(o))
        /\ Continues(path[n], PathOf(o)) /\ Len(PathOf(o)) < Len(path[n])
    BY <1>1, <1>2, <1>9, StrictlyAbove
  <2>3. path[n] = PathOf(o) \o r /\ r \in Seq(Names) /\ Len(r) = Len(path[n]) - Len(PathOf(o))
    BY <1>4, <1>8, <1>8a, <1>8c, <2>1
  <2>4. Len(r) # 0 /\ Len(path[n]) = Len(PathOf(o)) + Len(r)
    BY <1>8, <2>1, <2>3
  <2>5. \A s : s = <<>> => Len(s) = 0
    OBVIOUS
  <2> QED
    BY <2>1, <2>3, <2>4, <2>5
<1>10. m \in alive' /\ parent'[c] = parent[c]
  BY <1>2, <1>5
<1>11. CASE m \notin Subtree(n)
  <2>1. o \notin Subtree(n)
    BY <1>1, <1>2, <1>5, <1>11, CarriedApart
  <2>2. At(path', o) = PathOf(o) /\ path'[m] = path[m]
    <3>1. At(path', o) = PathOf(o)
      BY <1>8d, <2>1
    <3>2. m \in Nodes
      BY <1>2, <1>5 DEF Tree, TreeTyped
    <3> QED
      BY <1>7, <1>11, <3>1, <3>2 DEF PathsAt
  <2>3. ~(o \in AtOrAbove(q) /\ BeginsWith(p, r))
    <3> SUFFICES ASSUME o \in AtOrAbove(q), BeginsWith(p, r) PROVE FALSE
      OBVIOUS
    <3>1. BeginsWith(PathOf(o) \o p, PathOf(o) \o r)
      BY <1>5, <1>8, <1>9, BeginsBelow
    <3>2. BeginsWith(path[m], path[n])
      BY <1>5, <1>9, <3>1
    <3> QED
      BY <1>1, <1>2, <1>5, <1>11, <3>2, OnTheWay
  <2>4. ends'[c][e] = ends[c][e]
    BY <1>4, <1>6, <2>3
  <2> QED
    BY <1>4, <1>5, <1>10, <2>2, <2>4, RefersStill
<1>12. CASE m \in Subtree(n) /\ o \in Subtree(n)
  <2>1. o \notin AtOrAbove(q)
    <3> SUFFICES ASSUME o \in AtOrAbove(q) PROVE FALSE
      OBVIOUS
    <3>1. Len(PathOf(o)) < Len(path[n])
      BY <1>1, <1>2, StrictlyAbove
    <3>2. o \in alive /\ PathOf(o) = path[o] /\ Len(path[n]) <= Len(path[o])
      BY <1>1, <1>2, <1>12, Subtrees, NodeTreeAssumption DEF Tree, TreeTyped, PathOf
    <3> QED
      BY <1>8, <3>1, <3>2
  <2>2. ends'[c][e] = ends[c][e]
    BY <1>4, <1>6, <2>1
  <2>3. path'[m] = At(path', o) \o p
    <3>1. /\ Tree /\ n \in alive /\ m \in alive /\ o \in Subtree(n)
          /\ p \in Seq(Names) /\ Follows(path[m], PathOf(o), p)
      BY <1>1, <1>2, <1>5, <1>12 DEF Follows
    <3>2. Follows(new[m], At(new, o), p)
      BY <1>8b, <3>1, CarriedWithin
    <3> QED
      BY <1>8a, <3>2 DEF Follows
  <2> QED
    BY <1>4, <1>5, <1>10, <2>2, <2>3, RefersStill
<1>13. CASE m \in Subtree(n) /\ o \notin Subtree(n)
  <2>1. Continues(path[m], path[n]) /\ o \in AtOrAbove(q)
    BY <1>1, <1>2, <1>5, <1>13, CarriedAcross
  <2>2. /\ Continues(PathOf(q), PathOf(o))
        /\ path[n] = PathOf(o) \o r /\ r \in Seq(Names) /\ r # <<>>
        /\ Len(path[n]) = Len(PathOf(o)) + Len(r)
    BY <1>9, <2>1
  <2>3. Continues(p, r)
    BY <1>5, <1>8, <2>1, <2>2, ContinuesBelow
  <2>4. BeginsWith(p, r)
    BY <1>5, <2>2, <2>3, ContinuesBegins
  <2>5. PICK w : w = Below(o, t)
    OBVIOUS
  <2>6. Continues(t, PathOf(o)) /\ Len(PathOf(o)) < Len(t)
    <3>1. Continues(t, PathOf(q))
      BY <1>7 DEF Continues
    <3>2. Continues(t, PathOf(o))
      BY <1>7, <1>8, <2>2, <3>1, ContinuesChain
    <3> QED
      BY <1>7, <1>8, <2>2, <3>2 DEF Continues
  <2>7. w \in Seq(Names) /\ t = PathOf(o) \o w /\ Len(w) = Len(t) - Len(PathOf(o))
    BY <1>7, <1>8a, <1>8c, <2>5, <2>6
  <2>8. w # <<>>
    <3>1. Len(w) # 0
      BY <1>7, <1>8, <2>6, <2>7
    <3>2. \A s : s = <<>> => Len(s) = 0
      OBVIOUS
    <3> QED
      BY <3>1, <3>2
  <2>9. PICK g : g = Graft(w, p, Len(r))
    OBVIOUS
  <2>10. ends'[c][e] = g
    BY <1>5, <1>6, <2>1, <2>2, <2>3, <2>4, <2>5, <2>7, <2>8, <2>9, ReprefixedIs
  <2>11. Len(r) \in 0..Len(p)
    BY <1>5, <2>2, <2>3 DEF Continues
  <2>12. g # <<>>
    <3>1. Grafted(Names, w, p, Len(r), g)
      BY <1>5, <2>7, <2>9, <2>11, GraftParts
    <3>2. Len(g) # 0
      <4>1. Len(g) = Len(w) + (Len(p) - Len(r)) /\ Len(w) # 0
        BY <1>7, <1>8, <2>6, <2>7, <3>1 DEF Grafted
      <4>2. Len(w) \in Nat /\ Len(p) - Len(r) \in Nat
        BY <1>5, <2>7, <2>11
      <4> QED
        BY <4>1, <4>2
    <3>3. \A s : s = <<>> => Len(s) = 0
      OBVIOUS
    <3> QED
      BY <3>2, <3>3
  <2>13. PathOf(o) \o g = Graft(PathOf(o) \o w, PathOf(o) \o p, Len(PathOf(o)) + Len(r))
    <3>1. PICK k : k = Len(r)
      OBVIOUS
    <3>2. k \in 0..Len(p)
      BY <2>11, <3>1
    <3>3. b \o Graft(w, p, k) = Graft(b \o w, b \o p, Len(b) + k)
      BY <1>5, <1>8b, <2>7, <3>2, GraftBelow
    <3> QED
      BY <1>8a, <2>9, <3>1, <3>3
  <2>14. path'[m] = Graft(t, path[m], Len(path[n]))
    BY <1>1, <1>2, <1>7, <1>13, PathAfter
  <2>15. path'[m] = PathOf(o) \o g
    BY <1>5, <2>2, <2>7, <2>13, <2>14
  <2>16. At(path', o) = PathOf(o)
    BY <1>8d, <1>13
  <2>17. PathOf(parent[c])' = At(path', o)
    BY <1>4, <1>10 DEF PathOf, At
  <2> QED
    BY <1>10, <2>10, <2>12, <2>15, <2>16, <2>17 DEF Refers
<1> QED
  BY <1>11, <1>12, <1>13

LEMMA MoveFacts ==
  ASSUME TreeInv, NEW n \in Nodes, NEW q \in Places, Moved(n, q)
  PROVE  /\ n \in alive /\ q \in alive \cup {Top} /\ q \notin Subtree(n)
         /\ q # parent[n] => name[n] \notin DOMAIN children[q]
         /\ Relocated(n, q, name[n]) /\ ends' = EndsMoved(n, q, path'[n])
         /\ UNCHANGED <<alive, name>> /\ parent' = [parent EXCEPT ![n] = q]
         /\ DOMAIN parent = Nodes /\ Tree /\ Tree'
<1>1. PICK p \in alive \cup {Top}, k \in Names : Relocated(n, p, k)
  BY MoveRelocates
<1>2. Tree /\ DOMAIN parent = Nodes
  BY DEF TreeInv, Tree, TreeTyped
<1>3. Tree'
  BY MoveTree DEF TreeInv
<1>4. /\ n \in alive /\ q \in alive \cup {Top} /\ q \notin Subtree(n)
      /\ q # parent[n] => name[n] \notin DOMAIN children[q]
  BY DEF Moved, GoodMove, NameTaken
<1>5. /\ ends' = EndsMoved(n, q, path'[n])
      /\ UNCHANGED <<alive, name>> /\ parent' = [parent EXCEPT ![n] = q]
  BY DEF Moved, MoveTo
<1>6. parent'[n] = q /\ name'[n] = name[n]
  BY <1>2, <1>5
<1>7. p = q /\ k = name[n]
  BY <1>1, <1>6 DEF Relocated
<1> QED
  BY <1>1, <1>2, <1>3, <1>4, <1>5, <1>7

(* A node that is moved into reach comes below what is at or above its     *)
(* new place: a node at the path it takes would have had its name there.   *)
LEMMA MovedBelow ==
  ASSUME Tree, NEW n \in alive, NEW q \in alive \cup {Top},
         name[n] \notin DOMAIN children[q],
         NEW o \in alive \cup {Top}, NEW s \in Seq(Names),
         Continues(s, Append(PathOf(q), name[n])), Continues(s, PathOf(o))
  PROVE  Continues(PathOf(q), PathOf(o))
<1>1. PICK b, t : b = PathOf(q) /\ t = Append(b, name[n])
  OBVIOUS
<1>2. /\ b \in Seq(Names) /\ Len(b) \in Nat /\ name[n] \in Names
      /\ PathOf(o) \in Seq(Names) /\ Len(PathOf(o)) \in Nat
  BY <1>1, PathTyped, PathParts
<1>3. /\ t \in Seq(Names) /\ Len(t) = Len(b) + 1 /\ t[Len(t)] = name[n]
      /\ \A i \in 1..Len(b) : t[i] = b[i]
  BY <1>1, <1>2
<1>4. Continues(s, t) /\ Continues(s, PathOf(o)) /\ Continues(t, b)
  BY <1>1, <1>2, <1>3 DEF Continues
<1>5. CASE Len(PathOf(o)) <= Len(b)
  <2>1. Continues(s, b)
    BY <1>2, <1>3, <1>4, ContinuesChain
  <2> QED
    BY <1>1, <1>2, <1>4, <1>5, <2>1, ContinuesBoth
<1>6. CASE ~(Len(PathOf(o)) <= Len(b))
  <2>1. Len(t) <= Len(PathOf(o)) /\ Len(t) \in Nat \ {0}
    BY <1>2, <1>3, <1>6
  <2>2. Continues(PathOf(o), t)
    BY <1>2, <1>3, <1>4, <2>1, ContinuesBoth
  <2>3. o \in alive /\ PathOf(o) = path[o]
    <3>1. o # Top
      BY <2>1 DEF PathOf
    <3> QED
      BY <3>1 DEF PathOf
  <2>4. Len(t) \in 1..Len(path[o])
    BY <1>2, <2>1, <2>3
  <2>5. PICK a \in alive : Len(path[a]) = Len(t) /\ Continues(path[o], path[a])
    BY <2>3, <2>4, AncestorAt
  <2>6. path[a] \in Seq(Names)
    BY PathParts
  <2>7. path[a] = t
    <3>1. ASSUME NEW i \in 1..Len(t) PROVE path[a][i] = t[i]
      BY <2>2, <2>3, <2>5 DEF Continues
    <3> QED
      BY <1>3, <2>5, <2>6, <3>1, SameSeq
  <2>8. /\ path[a][Len(path[a])] = name[a] /\ parent[a] \in alive \cup {Top}
        /\ Len(path[a]) = Len(PathOf(parent[a])) + 1
        /\ \A i \in 1..Len(PathOf(parent[a])) : path[a][i] = PathOf(parent[a])[i]
        /\ PathOf(parent[a]) \in Seq(Names) /\ Len(PathOf(parent[a])) \in Nat
    BY PathParts, PathTyped
  <2>9. PathOf(parent[a]) = PathOf(q)
    <3>1. Len(PathOf(parent[a])) = Len(b)
      BY <1>2, <1>3, <2>7, <2>8
    <3>2. ASSUME NEW i \in 1..Len(b) PROVE PathOf(parent[a])[i] = b[i]
      BY <1>3, <2>7, <2>8, <3>1
    <3> QED
      BY <1>1, <1>2, <2>8, <3>1, <3>2, SameSeq
  <2>10. parent[a] = q /\ name[a] = name[n]
    BY <1>3, <2>7, <2>8, <2>9, EqualPaths
  <2>11. name[n] \in DOMAIN children[q]
    <3>1. a \in Nodes
      BY DEF Tree, TreeTyped
    <3> QED
      BY <1>2, <2>10, <3>1 DEF Tree, MapsListChildren
  <2> QED
    BY <2>11
<1> QED
  BY <1>5, <1>6

(* The same of the tree that a step leads to. *)
LEMMA StrictlyAboveHere ==
  ASSUME Tree
  PROVE  \A n \in alive : \A o \in AtOrAbove(parent[n]) :
           Continues(path[n], PathOf(o)) /\ Len(PathOf(o)) < Len(path[n])
BY StrictlyAbove

LEMMA StrictlyAboveNext ==
  ASSUME Tree', NEW m \in alive', NEW p, (p \in AtOrAbove(parent[m]))'
  PROVE  Continues(path[m], PathOf(p))' /\ (Len(PathOf(p)) < Len(path[m]))'
<1>1. (\A n \in alive : \A o \in AtOrAbove(parent[n]) :
         Continues(path[n], PathOf(o)) /\ Len(PathOf(o)) < Len(path[n]))'
  BY StrictlyAboveHere, PTL
<1> QED
  BY <1>1

(* Also of nodes that do not exist. *)
ParentsTyped == parent \in [Nodes -> Places]

(* Move: the same, and where n comes into the reach of the owner.          *)
LEMMA MoveFollows ==
  ASSUME TreeInv, EndsInv, ParentsTyped,
         NEW n \in Nodes, NEW q \in Places, Moved(n, q), NEW c \in Connections \cap alive, NEW e \in Ends, NEW m,
         Refers(c, e, m), InReach(c, m), Unambiguous(m)
  PROVE  Refers(c, e, m)'
<1>1. /\ n \in alive /\ q \in alive \cup {Top} /\ q \notin Subtree(n)
      /\ q # parent[n] => name[n] \notin DOMAIN children[q]
      /\ Relocated(n, q, name[n]) /\ ends' = EndsMoved(n, q, path'[n])
      /\ UNCHANGED <<alive, name>> /\ parent' = [parent EXCEPT ![n] = q]
      /\ DOMAIN parent = Nodes /\ Tree /\ Tree'
  BY MoveFacts
<1>2. /\ q # parent[n] /\ c # n /\ parent'[c] = parent[c] /\ m \in alive'
      /\ (parent[c] \in AtOrAbove(parent[m]))'
  <2>1. InReach(c, m)
    OBVIOUS
  <2>2. /\ {c, m} \subseteq alive' /\ parent'[c] = parent[c]
        /\ <<alive, parent, name>> # <<alive, parent, name>>'
        /\ (parent[c] \in AtOrAbove(parent[m]))'
    BY <2>1 DEF InReach
  <2>3. parent' # parent
    BY <1>1, <2>2
  <2>4. q # parent[n]
    BY <1>1, <2>3 DEF ParentsTyped
  <2>5. c # n
    BY <1>1, <2>2, <2>4
  <2> QED
    BY <2>2, <2>4, <2>5
<1>3. PICK o, p, r, t : o = parent[c] /\ p = ends[c][e] /\ r = path[n] /\ t = path'[n]
  OBVIOUS
<1>4. /\ m \in alive /\ p # <<>> /\ path[m] = PathOf(o) \o p
      /\ o \in alive \cup {Top} /\ p \in Seq(Names)
  BY <1>1, <1>3, PathParts DEF Refers, EndsInv
<1>5. ends'[c][e] = IF /\ o \in AtOrAbove(q) /\ BeginsWith(path[m], r)
                       /\ IsPrefix(PathOf(o), t)
                      THEN Below(o, Reprefixed(path[m], r, t)) ELSE p
  <2>1. ends'[c][e] = IF /\ o \in AtOrAbove(q) /\ BeginsWith(PathOf(o) \o p, r)
                         /\ IsPrefix(PathOf(o), t)
                        THEN Below(o, Reprefixed(PathOf(o) \o p, r, t)) ELSE p
    BY <1>1, <1>2, <1>3 DEF EndsMoved
  <2> QED
    BY <1>4, <2>1
<1>6. /\ PathsAt(path', n, q, name[n]) /\ t = Append(PathOf(q), name[n])
      /\ PathOf(q) \in Seq(Names) /\ Len(PathOf(q)) \in Nat /\ name[n] \in Names
      /\ t \in Seq(Names) /\ Len(t) = Len(PathOf(q)) + 1
      /\ \A i \in 1..Len(PathOf(q)) : t[i] = PathOf(q)[i]
  <2>1. PathsAt(path', n, q, name[n]) /\ t = Append(PathOf(q), name[n])
    BY <1>1, <1>3 DEF Relocated, PathsAt
  <2>2. PathOf(q) \in Seq(Names) /\ Len(PathOf(q)) \in Nat /\ name[n] \in Names
    BY <1>1, PathTyped, PathParts
  <2>3. \A s \in Seq(Names) : \A x \in Names :
          /\ Append(s, x) \in Seq(Names) /\ Len(Append(s, x)) = Len(s) + 1
          /\ \A i \in 1..Len(s) : Append(s, x)[i] = s[i]
    OBVIOUS
  <2> QED
    BY <2>1, <2>2, <2>3
<1>7. /\ r \in Seq(Names) /\ path[m] \in Seq(Names)
      /\ Len(r) \in Nat \ {0} /\ Len(path[m]) \in Nat
  <2>1. /\ path[n] \in Seq(Names) /\ path[m] \in Seq(Names)
        /\ Len(path[n]) \in Nat /\ Len(path[m]) \in Nat
        /\ Len(path[n]) = Len(PathOf(parent[n])) + 1 /\ Len(PathOf(parent[n])) \in Nat
    BY <1>1, <1>4, PathParts, PathTyped
  <2> QED
    BY <1>3, <2>1
<1>8. PICK b, new : b = PathOf(o) /\ new = path'
  OBVIOUS
<1>9. b \in Seq(Names) /\ Len(b) \in Nat /\ PathsAt(new, n, q, name[n]) /\ path[m] = b \o p
  BY <1>1, <1>4, <1>6, <1>8, PathTyped
<1>10. o \notin Subtree(n) => At(path', o) = PathOf(o)
  <2>0. Tree /\ n \in alive /\ q \in alive \cup {Top} /\ name[n] \in Names /\ o \in alive \cup {Top}
    BY <1>1, <1>4, <1>6
  <2>1. ASSUME NEW x, PathsAt(x, n, q, name[n]), o \notin Subtree(n) PROVE At(x, o) = PathOf(o)
    BY <2>0, <2>1 DEF At, PathOf, PathsAt, Tree, TreeTyped
  <2> QED
    BY <1>8, <1>9, <2>1
<1>11. CASE m \notin Subtree(n)
  <2>1. o \notin Subtree(n)
    BY <1>1, <1>4, <1>11, CarriedApart
  <2>2. At(path', o) = PathOf(o) /\ path'[m] = path[m]
    <3>1. m \in Nodes
      BY <1>1, <1>4 DEF Tree, TreeTyped
    <3> QED
      BY <1>6, <1>10, <1>11, <2>1, <3>1 DEF PathsAt
  <2>3. ~BeginsWith(path[m], r)
    <3> SUFFICES ASSUME BeginsWith(path[m], path[n]) PROVE FALSE
      BY <1>3
    <3> QED
      BY <1>1, <1>4, <1>11, OnTheWay
  <2>4. ends'[c][e] = ends[c][e]
    BY <1>3, <1>5, <2>3
  <2> QED
    BY <1>2, <1>3, <1>4, <2>2, <2>4, RefersStill
<1>12. CASE m \in Subtree(n) /\ o \in Subtree(n)
  <2>1. o \notin AtOrAbove(q)
    <3> SUFFICES ASSUME o \in AtOrAbove(q) PROVE FALSE
      OBVIOUS
    <3>1. Continues(PathOf(q), PathOf(o))
      BY <1>1, AboveIsPrefix
    <3>2. /\ o \in alive /\ PathOf(o) = path[o] /\ Continues(path[o], path[n])
          /\ path[o] \in Seq(Names)
      BY <1>1, <1>12, InUnder, PathParts, NodeTreeAssumption DEF Under, Tree, TreeTyped, PathOf
    <3>3. Continues(PathOf(q), path[n])
      BY <1>3, <1>6, <1>7, <3>1, <3>2, ContinuesChain
    <3>4. q # Top
      <4>1. Len(path[n]) <= Len(PathOf(q))
        BY <3>3 DEF Continues
      <4>2. Len(PathOf(Top)) = 0
        BY DEF PathOf
      <4> QED
        BY <1>3, <1>7, <4>1, <4>2
    <3>5. q \in Under(n)
      BY <1>1, <3>3, <3>4 DEF Under, PathOf
    <3> QED
      BY <1>1, <3>5, UnderIn
  <2>2. ends'[c][e] = ends[c][e]
    BY <1>3, <1>5, <2>1
  <2>3. path'[m] = At(path', o) \o p
    <3>1. /\ Tree /\ n \in alive /\ m \in alive /\ o \in Subtree(n) /\ q \in alive \cup {Top}
          /\ name[n] \in Names
          /\ p \in Seq(Names) /\ Follows(path[m], PathOf(o), p)
      BY <1>1, <1>4, <1>6, <1>12 DEF Follows
    <3>2. Follows(new[m], At(new, o), p)
      BY <1>9, <3>1, CarriedWithin
    <3> QED
      BY <1>8, <3>2 DEF Follows
  <2> QED
    BY <1>2, <1>3, <1>4, <2>2, <2>3, RefersStill
<1>13. CASE m \in Subtree(n) /\ o \notin Subtree(n)
  <2>1. Continues(path[m], r)
    BY <1>1, <1>3, <1>4, <1>13, CarriedAcross
  <2>2. PICK s : s = path'[m]
    OBVIOUS
  <2>3. s = Graft(t, path[m], Len(r)) /\ s \in Seq(Names) /\ Len(s) = Len(t) + (Len(path[m]) - Len(r))
    <3>1. s = Graft(t, path[m], Len(r))
      BY <1>1, <1>3, <1>6, <1>13, <2>2, PathAfter
    <3>2. Len(r) \in 0..Len(path[m])
      BY <1>7, <2>1 DEF Continues
    <3>3. Grafted(Names, t, path[m], Len(r), s)
      BY <1>6, <1>7, <3>1, <3>2, GraftParts
    <3> QED
      BY <3>1, <3>3 DEF Grafted
  <2>4. Continues(s, t)
    <3>1. Len(r) \in 0..Len(path[m])
      BY <1>7, <2>1 DEF Continues
    <3>2. Grafted(Names, t, path[m], Len(r), s)
      BY <1>6, <1>7, <2>3, <3>1, GraftParts
    <3>3. Len(t) <= Len(s)
      BY <1>6, <1>7, <2>3, <3>1
    <3> QED
      BY <3>2, <3>3 DEF Grafted, Continues
  (* The owner is at or above the parent of m in the tree that is new. *)
  <2>5. Continues(s, b) /\ Len(b) < Len(s)
    <3>1. /\ Tree' /\ m \in alive' /\ (parent[c] \in AtOrAbove(parent[m]))'
      BY <1>1, <1>2
    <3>2. Continues(path[m], PathOf(parent[c]))' /\ (Len(PathOf(parent[c])) < Len(path[m]))'
      BY <3>1, StrictlyAboveNext
    <3>3. PathOf(parent[c])' = At(path', o)
      BY <1>2, <1>3 DEF PathOf, At
    <3>4. At(path', o) = b
      BY <1>8, <1>10, <1>13
    <3> QED
      BY <2>2, <3>2, <3>3, <3>4 DEF Continues
  <2>6. Continues(PathOf(q), PathOf(o))
    <3>1. /\ Tree /\ n \in alive /\ q \in alive \cup {Top} /\ name[n] \notin DOMAIN children[q]
          /\ o \in alive \cup {Top} /\ s \in Seq(Names)
          /\ Continues(s, Append(PathOf(q), name[n])) /\ Continues(s, PathOf(o))
      BY <1>1, <1>2, <1>4, <1>6, <1>8, <2>3, <2>4, <2>5
    <3> QED
      BY <3>1, MovedBelow
  <2>7. o \in AtOrAbove(q)
    BY <1>1, <1>4, <2>6, PrefixIsAbove
  <2>8. IsPrefix(PathOf(o), t)
    <3>1. Continues(t, PathOf(q))
      BY <1>6 DEF Continues
    <3>2. Continues(t, b)
      BY <1>6, <1>8, <1>9, <2>6, <3>1, ContinuesChain
    <3>3. Len(b) <= Len(t) /\ \A i \in 1..Len(b) : t[i] = b[i]
      BY <3>2 DEF Continues
    <3>4. PICK x, y : x = SubSeq(b, 1, Len(b)) /\ y = SubSeq(t, 1, Len(b))
      OBVIOUS
    <3>5. /\ x \in Seq(Names) /\ Len(x) = Len(b) /\ \A i \in 1..Len(b) : x[i] = b[i]
          /\ y \in Seq(Names) /\ Len(y) = Len(b) /\ \A i \in 1..Len(b) : y[i] = t[i]
      BY <1>6, <1>9, <3>3, <3>4
    <3>6. x = y
      BY <3>3, <3>5, SameSeq
    <3> QED
      BY <1>8, <3>3, <3>4, <3>6 DEF IsPrefix
  <2>9. r # <<>> /\ t # <<>>
    <3>1. Len(r) # 0 /\ Len(t) # 0
      BY <1>6, <1>7
    <3>2. \A u : u = <<>> => Len(u) = 0
      OBVIOUS
    <3> QED
      BY <3>1, <3>2
  <2>10. BeginsWith(path[m], r)
    BY <1>7, <2>1, <2>9, ContinuesBegins
  <2>11. Reprefixed(path[m], r, t) = s
    BY <1>6, <1>7, <2>1, <2>3, <2>9, ReprefixedIs
  <2>12. PICK w : w = Below(o, s)
    OBVIOUS
  <2>13. ends'[c][e] = w
    BY <1>5, <2>7, <2>8, <2>10, <2>11, <2>12
  <2>14. s = b \o w /\ Len(w) = Len(s) - Len(b)
    <3>1. w = SubSeq(s, Len(b) + 1, Len(s))
      BY <1>8, <2>12 DEF Below
    <3>2. s \in Seq(Names) /\ b \in Seq(Names) /\ Continues(s, b)
      BY <1>9, <2>3, <2>5
    <3> QED
      BY <3>1, <3>2, Together
  <2>15. w # <<>>
    <3>1. Len(s) \in Nat
      BY <2>3
    <3>2. Len(w) # 0
      BY <1>9, <2>5, <2>14, <3>1
    <3>3. \A u : u = <<>> => Len(u) = 0
      OBVIOUS
    <3> QED
      BY <3>2, <3>3
  <2>16. PathOf(parent[c])' = b
    <3>1. PathOf(parent[c])' = At(path', o)
      BY <1>2, <1>3 DEF PathOf, At
    <3> QED
      BY <1>8, <1>10, <1>13, <3>1
  <2> QED
    BY <1>2, <2>2, <2>13, <2>14, <2>15, <2>16 DEF Refers
<1> QED
  BY <1>11, <1>12, <1>13

(* New and delete change no path of what stays, and no end.                *)
LEMMA NewFollows ==
  ASSUME TreeInv, EndsInv, NEW n \in Nodes, NEW q \in Places, NEW wanted \in Names,
         NewCommand(n, q, wanted), NEW c \in Connections \cap alive, NEW e \in Ends, NEW m,
         Refers(c, e, m)
  PROVE  Refers(c, e, m)'
<1>1. /\ n \notin alive /\ alive' = alive \cup {n} /\ parent' = [parent EXCEPT ![n] = q]
      /\ \E nm : path' = [path EXCEPT ![n] = Append(PathOf(q), nm)]
  BY DEF NewCommand
<1>2. ends' = ends
  BY DEF NewCommand
<1>3. /\ m \in alive /\ path[m] = PathOf(parent[c]) \o ends[c][e]
      /\ parent[c] \in alive \cup {Top} /\ n # c
      /\ alive \subseteq Nodes /\ DOMAIN path = Nodes /\ DOMAIN parent = Nodes
  BY <1>1, PathParts DEF Refers, TreeInv, Tree, TreeTyped
<1>4. At(path', parent[c]) = PathOf(parent[c]) /\ path'[m] = path[m] /\ parent'[c] = parent[c]
  BY <1>1, <1>3 DEF At, PathOf
<1> QED
  BY <1>1, <1>2, <1>3, <1>4, RefersStill

LEMMA DeleteFollows ==
  ASSUME TreeInv, EndsInv, NEW n \in Nodes, DeleteCommand(n),
         NEW c \in Connections \cap alive, NEW e \in Ends, NEW m,
         Refers(c, e, m), {c, m} \subseteq alive'
  PROVE  Refers(c, e, m)'
<1>1. /\ n \in alive /\ alive' = alive \ Subtree(n)
      /\ \A k \in Nodes \ Subtree(n) : parent'[k] = parent[k] /\ path'[k] = path[k]
  BY DeleteFacts
<1>2. ends' = Over([d \in Subtree(n) \cap Connections |-> [x \in Ends |-> <<>>]], ends)
  BY DEF DeleteCommand
<1>3. /\ m \in alive /\ path[m] = PathOf(parent[c]) \o ends[c][e]
      /\ alive \subseteq Nodes /\ parent[c] \in alive \cup {Top} /\ Tree
  BY PathParts DEF Refers, TreeInv, Tree, TreeTyped
<1>4. c \notin Subtree(n) /\ m \notin Subtree(n) /\ m \in alive'
  BY <1>1
<1>5. parent[c] \notin Subtree(n)
  BY <1>1, <1>3, <1>4, Subtrees
<1>6. ends'[c][e] = ends[c][e]
  BY <1>2, <1>4 DEF EndsInv, Over
<1>7. At(path', parent[c]) = PathOf(parent[c]) /\ path'[m] = path[m] /\ parent'[c] = parent[c]
  BY <1>1, <1>3, <1>4, <1>5 DEF At, PathOf
<1> QED
  BY <1>3, <1>4, <1>6, <1>7, RefersStill

(* What the commands preserve.                                             *)
FollowInv == TreeInv /\ EndsInv /\ ParentsTyped

LEMMA InitFollow ==
  ASSUME Init
  PROVE  FollowInv
<1>1. ParentsTyped
  BY DEF Init, ParentsTyped, Places
<1> QED
  BY <1>1, InitTree, InitEnds DEF FollowInv

LEMMA CommandParents ==
  ASSUME TreeInv, ParentsTyped, Command, Intact'
  PROVE  ParentsTyped'
<1>1. ASSUME NEW n \in Nodes, NEW p \in Places, NEW nm \in Names, NewCommand(n, p, nm)
      PROVE  ParentsTyped'
  BY <1>1 DEF NewCommand, ParentsTyped, Places
<1>2. ASSUME NEW n \in Nodes, DeleteCommand(n) PROVE ParentsTyped'
  <2>1. parent' = Over([m \in Subtree(n) |-> Top], parent)
    BY <1>2 DEF DeleteCommand
  <2>2. Subtree(n) \subseteq Nodes
    BY <1>2, DeleteFacts DEF TreeInv, Tree, TreeTyped
  <2> QED
    BY <2>1, <2>2 DEF Over, ParentsTyped, Places
<1>3. ASSUME NEW n \in Nodes, NEW nm \in Names, RenameCommand(n, nm) PROVE ParentsTyped'
  BY <1>3 DEF RenameCommand, ParentsTyped, Places
<1>4. ASSUME NEW n \in Nodes, NEW p \in Places, MoveCommand(n, p) PROVE ParentsTyped'
  <2>1. CASE Moved(n, p)
    BY <2>1 DEF Moved, MoveTo, ParentsTyped, Places
  <2>2. CASE Restart
    BY <2>2 DEF Restart, ParentsTyped, Places
  <2> QED
    BY <1>4, <2>1, <2>2, MoveCases
<1>5. ASSUME NEW c, NEW e, NEW p, SetPath(c, e, p) PROVE ParentsTyped'
  BY <1>5 DEF SetPath, ParentsTyped, Places
<1> QED
  BY <1>1, <1>2, <1>3, <1>4, <1>5 DEF Command

LEMMA CommandEnds ==
  ASSUME TreeInv, EndsInv, Command, Intact'
  PROVE  EndsInv'
<1>1. ASSUME NEW n \in Nodes, NEW p \in Places, NEW nm \in Names, NewCommand(n, p, nm)
      PROVE  EndsInv'
  BY <1>1, NewEnds
<1>2. ASSUME NEW n \in Nodes, DeleteCommand(n) PROVE EndsInv'
  BY <1>2, DeleteEnds
<1>3. ASSUME NEW n \in Nodes, NEW nm \in Names, RenameCommand(n, nm) PROVE EndsInv'
  BY <1>3, RenameEnds
<1>4. ASSUME NEW n \in Nodes, NEW p \in Places, MoveCommand(n, p) PROVE EndsInv'
  <2>1. CASE Moved(n, p)
    BY <2>1, MoveEnds
  <2>2. CASE Restart
    <3>1. Init'
      BY <2>2, RestartInit
    <3> QED
      BY <3>1, InitEnds, PTL
  <2> QED
    BY <1>4, <2>1, <2>2, MoveCases
<1>5. ASSUME NEW c \in Connections \cap alive, NEW e \in Ends, NEW p, SetPath(c, e, p)
      PROVE  EndsInv'
  BY <1>5, SetEnds
<1> QED
  BY <1>1, <1>2, <1>3, <1>4, <1>5 DEF Command

(* As long as nothing is lost. *)
FollowWhole == Intact => FollowInv

LEMMA NextFollow ==
  ASSUME FollowWhole, [Next]_vars
  PROVE  FollowWhole'
<1>1. CASE Intact /\ Command
  <2>1. TreeInv /\ EndsInv /\ ParentsTyped
    BY <1>1 DEF FollowWhole, FollowInv
  <2> QED
    BY <1>1, <2>1, CommandTree, CommandEnds, CommandParents DEF FollowWhole, FollowInv
<1>2. CASE UNCHANGED vars
  <2>1. Intact' = Intact
    BY <1>2 DEF vars, Intact
  <2>2. TreeInv => TreeInv'
    BY <1>2, UnchangedTree DEF vars
  <2>3. EndsInv' = EndsInv /\ ParentsTyped' = ParentsTyped
    BY <1>2 DEF vars, EndsInv, ParentsTyped, Places
  <2> QED
    BY <2>1, <2>2, <2>3 DEF FollowWhole, FollowInv
<1> QED
  BY <1>1, <1>2 DEF Next

(* In any step an end keeps referring to what is in its reach ...          *)
LEMMA RefersOn ==
  ASSUME FollowInv, Command, NEW c \in Connections \cap alive, NEW e \in Ends, NEW m,
         Refers(c, e, m), InReach(c, m), Unambiguous(m)
  PROVE  Refers(c, e, m)'
<1>0. TreeInv /\ EndsInv /\ ParentsTyped
  BY DEF FollowInv
<1>1. ASSUME NEW n \in Nodes, NEW p \in Places, NEW nm \in Names, NewCommand(n, p, nm)
      PROVE  Refers(c, e, m)'
  BY <1>0, <1>1, NewFollows
<1>2. ASSUME NEW n \in Nodes, DeleteCommand(n) PROVE Refers(c, e, m)'
  <2>1. {c, m} \subseteq alive'
    BY DEF InReach
  <2> QED
    BY <1>0, <1>2, <2>1, DeleteFollows
<1>3. ASSUME NEW n \in Nodes, NEW nm \in Names, RenameCommand(n, nm) PROVE Refers(c, e, m)'
  BY <1>0, <1>3, RenameFollows
<1>4. ASSUME NEW n \in Nodes, NEW p \in Places, MoveCommand(n, p) PROVE Refers(c, e, m)'
  <2>1. CASE Moved(n, p)
    BY <1>0, <2>1, MoveFollows
  <2>2. CASE Restart
    BY <2>2 DEF Restart, InReach
  <2>3. Intact'
    BY DEF InReach
  <2> QED
    BY <1>0, <1>4, <2>1, <2>2, <2>3, MoveCases
<1>5. ASSUME NEW d, NEW x, NEW p, SetPath(d, x, p) PROVE FALSE
  BY <1>5 DEF SetPath, InReach
<1> QED
  BY <1>1, <1>2, <1>3, <1>4, <1>5 DEF Command

(* ... and to nothing else: wherever nodes go by the commands, unless a    *)
(* name on the way begins with a sibling's, connections follow them.       *)
THEOREM EndsFollow == Spec => ConnectionsFollow
<1>1. Init => FollowWhole
  BY InitFollow DEF FollowWhole
<1>2. FollowWhole /\ [Next]_vars => FollowWhole'
  BY NextFollow
<1>3. ASSUME FollowWhole, Intact, Command, NEW c \in Connections \cap alive, NEW e \in Ends,
             NEW m \in Referred(c, e), InReach(c, m), Unambiguous(m)
      PROVE  Referred(c, e)' = {m}
  <2>0. FollowInv /\ Intact'
    BY <1>3 DEF FollowWhole, InReach
  <2>1. Refers(c, e, m)
    BY DEF Referred, Refers
  <2>2. Refers(c, e, m)'
    BY <1>3, <2>0, <2>1, RefersOn
  <2>3. Tree'
    BY <1>3, <2>0, CommandTree DEF FollowInv, TreeInv
  <2>4. \A k, l \in alive' : path'[k] = path'[l] => k = l
    BY <2>3, PathsDifferNext
  <2>5. /\ m \in alive' /\ (ends[c][e] # <<>>)'
        /\ path'[m] = (PathOf(parent[c]) \o ends[c][e])'
    BY <2>2 DEF Refers
  <2>6. Referred(c, e)' = {k \in alive' : (ends[c][e] # <<>>)'
                                            /\ path'[k] = (PathOf(parent[c]) \o ends[c][e])'}
    BY DEF Referred
  <2> QED
    BY <2>4, <2>5, <2>6
<1>4. FollowWhole /\ [Next]_vars =>
        [\A c \in Connections \cap alive, e \in Ends : \A m \in Referred(c, e) :
           InReach(c, m) /\ Unambiguous(m) => Referred(c, e)' = {m}]_vars
  BY <1>3 DEF Next
<1> QED
  BY <1>1, <1>2, <1>4, PTL DEF Spec, ConnectionsFollow
=============================================================================
