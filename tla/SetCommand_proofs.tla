--------------------------- MODULE SetCommand_proofs ---------------------------
(***************************************************************************)
(* For any tree, any connections and any values: what CReentranceChecker   *)
(* knows of the commands under way, that none of them recurs, that every   *)
(* value conforms to the constraint of its endpoint, and what the host has *)
(* of it while modules change values of their own.  Where connections form *)
(* no circle, containers switch what is in them, and what a connection     *)
(* sets follows the connection's source, that of a node activated together *)
(* with the connection included.                                           *)
(***************************************************************************)
EXTENDS SetCommand, SequenceTheorems, WellFoundedInduction, TLAPS

(* A stack of commands, whatever is in them.                               *)
IsFrame(f) ==
  \E A, B, C, D : f \in [endpoint : A, source : B, todo : C, again : D]

IsStack(s) == (\E S : s \in Seq(S)) /\ \A i \in 1..Len(s) : IsFrame(s[i])

(* Only the outermost command comes from outside: its entry in the map is  *)
(* the only one that a command from within may overwrite and erase.        *)
OutermostFromOutside == \A i \in 1..Len(stack) : i > 1 => Caused(stack[i].source)

StackInv ==
  IsStack(stack) /\ OutermostFromOutside /\ NoRecursion /\ CheckerKnowsStack

(* A stack of the same commands as now, which may have less or more to do. *)
SameCommands(s) ==
  /\ IsStack(s)
  /\ Len(s) = Len(stack)
  /\ \A i \in 1..Len(stack) : /\ s[i].endpoint = stack[i].endpoint
                             /\ s[i].source = stack[i].source

-----------------------------------------------------------------------------
(* Stacks *)

LEMMA StackLength ==
  ASSUME NEW s, IsStack(s)
  PROVE  /\ Len(s) \in Nat /\ DOMAIN s = 1..Len(s)
         /\ s # <<>> => Len(s) \in 1..Len(s)
BY DEF IsStack

(* Changing what the innermost command has to do. *)
Rewritten(s, todo, again) ==
  [s EXCEPT ![Len(s)] = [s[Len(s)] EXCEPT !.todo = todo, !.again = again]]

LEMMA Rewriting ==
  ASSUME NEW s, IsStack(s), s # <<>>, NEW todo, NEW again,
         NEW t, t = Rewritten(s, todo, again)
  PROVE  /\ IsStack(t) /\ Len(t) = Len(s)
         /\ \A i \in 1..Len(s) : t[i].endpoint = s[i].endpoint /\ t[i].source = s[i].source
<1> DEFINE n == Len(s)
           f == [s[n] EXCEPT !.todo = todo, !.again = again]
<1>0. t = [s EXCEPT ![n] = f]
  BY DEF Rewritten
<1>1. PICK S : s \in Seq(S)
  BY DEF IsStack
<1>2. n \in 1..Len(s) /\ IsFrame(s[n])
  BY StackLength DEF IsStack
<1>3. PICK A, B, C, D : s[n] \in [endpoint : A, source : B, todo : C, again : D]
  BY <1>2 DEF IsFrame
<1>4. IsFrame(f) /\ f.endpoint = s[n].endpoint /\ f.source = s[n].source
  <2>1. f \in [endpoint : A, source : B, todo : C \cup {todo}, again : D \cup {again}]
    BY <1>3
  <2>2. f.endpoint = s[n].endpoint /\ f.source = s[n].source
    BY <1>3
  <2> QED
    BY <2>1, <2>2 DEF IsFrame
<1> HIDE DEF f
<1>5. t \in Seq(S \cup {f}) /\ Len(t) = Len(s)
  BY <1>0, <1>1, <1>2
<1>6. \A i \in 1..Len(s) : t[i] = IF i = n THEN f ELSE s[i]
  BY <1>0, <1>1, <1>2
<1>7. \A i \in 1..Len(s) : IsFrame(t[i])
  BY <1>4, <1>6 DEF IsStack
<1>8. IsStack(t)
  BY <1>5, <1>7 DEF IsStack
<1>9. \A i \in 1..Len(s) : t[i].endpoint = s[i].endpoint /\ t[i].source = s[i].source
  BY <1>4, <1>6
<1> QED
  BY <1>5, <1>8, <1>9

(* What the steps of the innermost command leave to do. *)
LEMMA Proceeding ==
  ASSUME IsStack(stack), stack # <<>>, NEW items
  PROVE  SameCommands(Proceed(items))
<1> DEFINE n == Len(stack)
           todo == items \o Tail(stack[n].todo)
           again == stack[n].again
<1>1. n \in 1..Len(stack) /\ DOMAIN stack = 1..Len(stack) /\ IsFrame(stack[n])
  BY StackLength DEF IsStack
<1>2. PICK A, B, C, D : stack[n] \in [endpoint : A, source : B, todo : C, again : D]
  BY <1>1 DEF IsFrame
<1>3. [stack[n] EXCEPT !.todo = todo]
        = [stack[n] EXCEPT !.todo = todo, !.again = again]
  BY <1>2
<1>4. Proceed(items) = [stack EXCEPT ![n] = [stack[n] EXCEPT !.todo = todo]]
  BY <1>1 DEF Proceed, Running
<1> HIDE DEF todo, again
<1>5. Proceed(items) = Rewritten(stack, todo, again)
  BY <1>3, <1>4 DEF Rewritten
<1> QED
  BY <1>5, Rewriting DEF SameCommands

LEMMA Switching ==
  ASSUME IsStack(stack), stack # <<>>, NEW s, SameCommands(s), NEW again
  PROVE  SameCommands([s EXCEPT ![Running].again = again])
<1> DEFINE n == Len(s)
           todo == s[n].todo
<1>1. n = Running /\ s # <<>>
  BY StackLength DEF SameCommands, Running
<1>2. n \in 1..Len(s) /\ DOMAIN s = 1..Len(s) /\ IsFrame(s[n])
  BY <1>1, StackLength DEF SameCommands, IsStack
<1>3. PICK A, B, C, D : s[n] \in [endpoint : A, source : B, todo : C, again : D]
  BY <1>2 DEF IsFrame
<1>4. [s[n] EXCEPT !.again = again] = [s[n] EXCEPT !.todo = todo, !.again = again]
  BY <1>3
<1>5. [s EXCEPT ![Running].again = again] = Rewritten(s, todo, again)
  BY <1>1, <1>2, <1>4 DEF Rewritten
<1> QED
  BY <1>1, <1>5, Rewriting DEF SameCommands

(* The invariant depends on which commands there are only. *)
LEMMA SameStep ==
  ASSUME StackInv, SameCommands(stack'), UNCHANGED checker
  PROVE  StackInv'
<1>1. Len(stack') = Len(stack) /\ IsStack(stack')
  BY DEF SameCommands
<1>2. \A i \in 1..Len(stack) : /\ stack'[i].endpoint = stack[i].endpoint
                               /\ stack'[i].source = stack[i].source
  BY DEF SameCommands
<1>3. OutermostFromOutside'
  BY <1>1, <1>2 DEF StackInv, OutermostFromOutside, Caused
<1>4. NoRecursion'
  BY <1>1, <1>2 DEF StackInv, NoRecursion, Caused
<1>5. CheckerKnowsStack'
  BY <1>1, <1>2 DEF StackInv, CheckerKnowsStack, Caused
<1> QED
  BY <1>1, <1>3, <1>4, <1>5 DEF StackInv

-----------------------------------------------------------------------------
(* Commands *)

LEMMA SetStep ==
  ASSUME StackInv, NEW e, NEW v, NEW source, NEW caller,
         SameCommands(caller), caller = <<>> \/ Caused(source),
         Set(e, v, source, caller)
  PROVE  StackInv'
<1>1. CASE Refused(e, v, source)
  BY <1>1, SameStep DEF Set
<1>2. CASE ~Refused(e, v, source)
  <2> DEFINE f == [endpoint |-> e, source |-> source, todo |-> Todo(e), again |-> <<>>]
             n == Len(stack)
  <2>1. /\ stack' = Append(caller, f)
        /\ checker' = [g \in DOMAIN checker \cup {e} |-> IF g = e THEN source ELSE checker[g]]
    BY <1>2 DEF Set
  <2>2. IsFrame(f) /\ f.endpoint = e /\ f.source = source
    <3>1. f \in [endpoint : {e}, source : {source}, todo : {Todo(e)}, again : {<<>>}]
      OBVIOUS
    <3> QED
      BY <3>1 DEF IsFrame
  <2> HIDE DEF f
  <2>3. PICK S : caller \in Seq(S)
    BY DEF SameCommands, IsStack
  <2>4. n \in Nat /\ Len(caller) = n
    BY StackLength DEF StackInv, SameCommands
  <2>5. /\ stack' \in Seq(S \cup {f}) /\ Len(stack') = n + 1 /\ stack'[n + 1] = f
        /\ \A i \in 1..n : stack'[i] = caller[i]
    BY <2>1, <2>3, <2>4
  <2>6. \A i \in 1..n : /\ stack'[i].endpoint = stack[i].endpoint
                        /\ stack'[i].source = stack[i].source
    BY <2>5 DEF SameCommands
  <2>7. \A i \in 1..n + 1 : i \in 1..n \/ i = n + 1
    BY <2>4
  <2>8. IsStack(stack')
    <3>1. \A i \in 1..n : IsFrame(caller[i])
      BY <2>4 DEF SameCommands, IsStack
    <3>2. \A i \in 1..n + 1 : IsFrame(stack'[i])
      BY <2>2, <2>5, <2>7, <3>1
    <3> QED
      BY <2>5, <3>2 DEF IsStack
  <2>9. n = 0 \/ Caused(source)
    BY <2>3, <2>4
  <2>10. OutermostFromOutside'
    <3>1. \A i \in 1..n + 1 : i > 1 => Caused(stack'[i].source)
      BY <2>2, <2>4, <2>5, <2>6, <2>7, <2>9 DEF StackInv, OutermostFromOutside
    <3> QED
      BY <2>5, <3>1 DEF OutermostFromOutside, Caused
  <2>11. ASSUME Caused(source), NEW i \in 1..n, Caused(stack[i].source)
         PROVE  stack[i].endpoint # e
    BY <1>2, <2>11 DEF Refused, Reentrance, CaresAboutSource, Caused, StackInv, CheckerKnowsStack
  <2>12. NoRecursion'
    <3>1. ASSUME NEW i \in 1..n + 1, NEW j \in 1..n + 1,
                 Caused(stack'[i].source), Caused(stack'[j].source),
                 stack'[i].endpoint = stack'[j].endpoint
          PROVE  i = j
      <4>1. CASE i \in 1..n /\ j \in 1..n
        BY <2>6, <3>1, <4>1 DEF StackInv, NoRecursion
      <4>2. CASE i \in 1..n /\ j = n + 1
        BY <2>2, <2>5, <2>6, <2>11, <3>1, <4>2
      <4>3. CASE i = n + 1 /\ j \in 1..n
        BY <2>2, <2>5, <2>6, <2>11, <3>1, <4>3
      <4> QED
        BY <2>7, <4>1, <4>2, <4>3
    <3> QED
      BY <2>5, <3>1 DEF NoRecursion, Caused
  <2>13. CheckerKnowsStack'
    <3>1. ASSUME NEW i \in 1..n + 1, Caused(stack'[i].source)
          PROVE  stack'[i].endpoint \in DOMAIN checker' /\ Caused(checker'[stack'[i].endpoint])
      <4>1. CASE i = n + 1
        BY <2>1, <2>2, <2>5, <3>1, <4>1
      <4>2. CASE i \in 1..n
        <5>1. Caused(source)
          BY <2>4, <2>9, <4>2
        <5>2. Caused(stack[i].source)
          BY <2>6, <3>1, <4>2
        <5>3. stack[i].endpoint # e
          BY <2>11, <4>2, <5>1, <5>2
        <5>4. stack[i].endpoint \in DOMAIN checker /\ Caused(checker[stack[i].endpoint])
          BY <4>2, <5>2 DEF StackInv, CheckerKnowsStack
        <5> QED
          BY <2>1, <2>6, <4>2, <5>3, <5>4
      <4> QED
        BY <2>7, <4>1, <4>2
    <3>2. ASSUME NEW g \in DOMAIN checker' PROVE \E i \in 1..n + 1 : stack'[i].endpoint = g
      <4>1. CASE g = e
        BY <2>2, <2>4, <2>5, <4>1
      <4>2. CASE g \in DOMAIN checker
        <5>1. PICK i \in 1..n : stack[i].endpoint = g
          BY <4>2 DEF StackInv, CheckerKnowsStack
        <5> QED
          BY <2>4, <2>6, <5>1
      <4> QED
        BY <2>1, <4>1, <4>2
    <3> QED
      BY <2>5, <3>1, <3>2 DEF CheckerKnowsStack, Caused
  <2> QED
    BY <2>8, <2>10, <2>12, <2>13 DEF StackInv
<1> QED
  BY <1>1, <1>2

(* A command that begins when there is no other. *)
LEMMA OutermostStep ==
  ASSUME StackInv, NEW e, NEW v, NEW source, stack = <<>>, Set(e, v, source, <<>>)
  PROVE  StackInv'
<1>1. SameCommands(<<>>)
  BY DEF StackInv, SameCommands
<1> QED
  BY <1>1, SetStep

LEMMA PopStep ==
  ASSUME StackInv, Pop
  PROVE  StackInv'
<1> DEFINE n == Len(stack)
           e == stack[n].endpoint
<1>1. PICK S : stack \in Seq(S)
  BY DEF StackInv, IsStack
<1>2. n \in Nat /\ n \in 1..n /\ n - 1 \in Nat
  BY StackLength DEF StackInv, Pop
<1>3. stack' = SubSeq(stack, 1, n - 1) /\ checker' = [f \in DOMAIN checker \ {e} |-> checker[f]]
  BY DEF Pop, Running, Command
<1>4. /\ stack' \in Seq(S) /\ Len(stack') = n - 1
      /\ \A i \in 1..n - 1 : stack'[i] = stack[i]
  <2> DEFINE m == n - 1
  <2>1. \A i \in 1..m : stack[i] \in S
    BY <1>1, <1>2
  <2>2. 1 \in Int /\ m \in Int
    BY <1>2
  <2> HIDE DEF m
  <2>3. /\ SubSeq(stack, 1, m) \in Seq(S)
        /\ Len(SubSeq(stack, 1, m)) = IF 1 <= m THEN m - 1 + 1 ELSE 0
        /\ \A i \in 1..m - 1 + 1 : SubSeq(stack, 1, m)[i] = stack[1 + i - 1]
    BY <2>1, <2>2, SubSeqProperties
  <2>4. m = n - 1
    BY DEF m
  <2> QED
    BY <1>2, <1>3, <2>3, <2>4
<1>5. 1..n - 1 \subseteq 1..n /\ n \notin 1..n - 1
  BY <1>2
<1>6. IsStack(stack')
  <2>1. \A i \in 1..n - 1 : IsFrame(stack'[i])
    BY <1>4, <1>5 DEF StackInv, IsStack
  <2> QED
    BY <1>4, <2>1 DEF IsStack
<1>7. OutermostFromOutside'
  <2>1. \A i \in 1..n - 1 : i > 1 => Caused(stack'[i].source)
    BY <1>4, <1>5 DEF StackInv, OutermostFromOutside
  <2> QED
    BY <1>4, <2>1 DEF OutermostFromOutside, Caused
<1>8. NoRecursion'
  <2>1. \A i, j \in 1..n - 1 :
          /\ Caused(stack'[i].source) /\ Caused(stack'[j].source)
          /\ stack'[i].endpoint = stack'[j].endpoint
          => i = j
    BY <1>4, <1>5 DEF StackInv, NoRecursion
  <2> QED
    BY <1>4, <2>1 DEF NoRecursion, Caused
<1>9. CheckerKnowsStack'
  <2>1. ASSUME NEW i \in 1..n - 1, Caused(stack'[i].source)
        PROVE  stack'[i].endpoint \in DOMAIN checker' /\ Caused(checker'[stack'[i].endpoint])
    <3>1. i \in 1..n /\ i # n /\ n > 1 /\ stack'[i] = stack[i]
      BY <1>2, <1>4, <1>5
    <3>2. Caused(stack[n].source)
      BY <1>2, <3>1 DEF StackInv, OutermostFromOutside
    <3>3. stack[i].endpoint # e
      BY <1>2, <2>1, <3>1, <3>2 DEF StackInv, NoRecursion
    <3>4. stack[i].endpoint \in DOMAIN checker /\ Caused(checker[stack[i].endpoint])
      BY <2>1, <3>1 DEF StackInv, CheckerKnowsStack
    <3> QED
      BY <1>3, <3>1, <3>3, <3>4
  <2>2. ASSUME NEW f \in DOMAIN checker' PROVE \E i \in 1..n - 1 : stack'[i].endpoint = f
    <3>1. f \in DOMAIN checker /\ f # e
      BY <1>3
    <3>2. PICK i \in 1..n : stack[i].endpoint = f
      BY <3>1 DEF StackInv, CheckerKnowsStack
    <3>3. i \in 1..n - 1
      BY <1>2, <3>1, <3>2
    <3> QED
      BY <1>4, <3>2, <3>3
  <2> QED
    BY <1>4, <2>1, <2>2 DEF CheckerKnowsStack, Caused
<1> QED
  BY <1>6, <1>7, <1>8, <1>9 DEF StackInv

(* A step of a command that issues none. *)
LEMMA ContinueStep ==
  ASSUME StackInv, stack # <<>>, NEW items, Continue(items)
  PROVE  StackInv'
<1>1. SameCommands(Proceed(items))
  BY Proceeding DEF StackInv
<1> QED
  BY <1>1, SameStep DEF Continue

LEMMA StepsWithin ==
  ASSUME StackInv, Step
  PROVE  StackInv'
<1>1. CASE FireConnection
  <2>1. stack # <<>>
    BY <1>1 DEF FireConnection, Doing
  <2>2. SameCommands(Proceed(<<>>)) /\ Caused("CONNECTION")
    BY <2>1, Proceeding DEF StackInv, Caused
  <2>3. Set(wiring[First.node].target, Converted(Command.endpoint, wiring[First.node].target),
            "CONNECTION", Proceed(<<>>))
    BY <1>1 DEF FireConnection, Issue
  <2> QED
    BY <2>2, <2>3, SetStep
<1>2. CASE SkipConnection
  BY <1>2, ContinueStep DEF SkipConnection, Doing
<1>3. CASE BeginActivation
  BY <1>3, ContinueStep DEF BeginActivation, Doing
<1>4. CASE Descend
  BY <1>4, ContinueStep DEF Descend, Doing
<1>5. CASE LeaveNode
  BY <1>5, ContinueStep DEF LeaveNode, Doing
<1>6. CASE ActivateNode
  <2> DEFINE s == Proceed(EachChild("activate", First.node, Flag))
             again == IF Flag THEN Append(s[Running].again, First.node) ELSE s[Running].again
             caller == [s EXCEPT ![Running].again = again]
             to == IF Flag THEN 1 ELSE 0
  <2>1. stack # <<>> /\ Set(ActiveOf[First.node], to, "SYSTEM", caller)
    BY <1>6 DEF ActivateNode, Doing, Issue
  <2>2. SameCommands(s)
    BY <2>1, Proceeding DEF StackInv
  <2> HIDE DEF s, again, to
  <2>3. SameCommands(caller)
    BY <2>1, <2>2, Switching DEF StackInv
  <2> HIDE DEF caller
  <2> QED
    BY <2>1, <2>3, SetStep DEF Caused
<1>7. CASE ActivateAgain
  <2> DEFINE again == Tail(stack[Running].again)
             caller == [stack EXCEPT ![Running].again = again]
             n == ActiveOf[Head(Command.again)]
  <2>1. stack # <<>> /\ Set(n, values[n], "SYSTEM", caller)
    BY <1>7 DEF ActivateAgain, Issue
  <2>2. SameCommands(stack)
    BY DEF StackInv, SameCommands
  <2> HIDE DEF again, n
  <2>3. SameCommands(caller)
    BY <2>1, <2>2, Switching DEF StackInv
  <2> HIDE DEF caller
  <2> QED
    BY <2>1, <2>3, SetStep DEF Caused
<1>8. CASE Pop
  BY <1>8, PopStep
<1> QED
  BY <1>1, <1>2, <1>3, <1>4, <1>5, <1>6, <1>7, <1>8 DEF Step

(* What else happens while commands come and go leaves the tree alone.     *)
LEMMA InTree ==
  ASSUME [Next]_vars
  PROVE  \/ \E e \in Settable : \E v : ApiSet(e, v)
         \/ ModuleSet \/ Step \/ UNCHANGED tree
BY DEF Next, vars, ModuleChanges, HandleQueueItems, MergeChange

LEMMA StackInductive ==
  ASSUME StackInv, [Next]_vars
  PROVE  StackInv'
<1>1. ASSUME NEW e, NEW v, ApiSet(e, v) PROVE StackInv'
  BY <1>1, OutermostStep DEF ApiSet
<1>2. CASE ModuleSet
  BY <1>2, OutermostStep DEF ModuleSet
<1>3. CASE UNCHANGED tree
  <2>1. SameCommands(stack')
    BY <1>3 DEF tree, StackInv, SameCommands
  <2> QED
    BY <1>3, <2>1, SameStep DEF tree
<1> QED
  BY <1>1, <1>2, <1>3, StepsWithin, InTree

LEMMA StackInitially == Init => StackInv
<1> SUFFICES ASSUME Init PROVE StackInv
  OBVIOUS
<1>1. stack = <<>> /\ DOMAIN checker = {} /\ stack \in Seq({}) /\ Len(stack) = 0
  BY DEF Init
<1> QED
  BY <1>1 DEF StackInv, IsStack, OutermostFromOutside, NoRecursion, CheckerKnowsStack

-----------------------------------------------------------------------------
(* Values *)

LEMMA ValuesSet ==
  ASSUME TypeOK, NEW e, NEW v, NEW source, NEW caller, Set(e, v, source, caller)
  PROVE  DOMAIN values' = Endpoints /\ \A f \in Endpoints \ Bangs : values'[f] \in Allowed[f]
<1>1. CASE Refused(e, v, source)
  BY <1>1 DEF Set, TypeOK
<1>2. CASE ~Refused(e, v, source) /\ v = None
  BY <1>2 DEF Set, TypeOK
<1>3. CASE ~Refused(e, v, source) /\ v # None
  <2>1. e \notin Bangs /\ v \in Allowed[e]
    BY <1>3 DEF Refused, Conforms
  <2>2. values' = [values EXCEPT ![e] = v]
    BY <1>3 DEF Set
  <2> QED
    BY <2>1, <2>2 DEF TypeOK
<1> QED
  BY <1>1, <1>2, <1>3

(* A user's command and what it sets off do not wait for the queue.        *)
LEMMA QueueWaits ==
  ASSUME Step \/ \E e, v : ApiSet(e, v)
  PROVE  UNCHANGED queue
BY DEF Step, ApiSet, FireConnection, SkipConnection, BeginActivation, Descend, LeaveNode,
       ActivateNode, ActivateAgain, Pop, Continue, Issue

LEMMA HostStays ==
  ASSUME [Next]_vars
  PROVE  DOMAIN host' = DOMAIN host
<1>1. ASSUME NEW e, NEW v, NEW source, SendValue(e, v, source) PROVE DOMAIN host' = DOMAIN host
  BY <1>1 DEF SendValue
<1>2. ASSUME Step PROVE DOMAIN host' = DOMAIN host
  BY <1>1, <1>2 DEF Step, FireConnection, SkipConnection, BeginActivation, Descend, LeaveNode,
       ActivateNode, ActivateAgain, Pop, Continue, Issue
<1> QED
  BY <1>1, <1>2 DEF Next, vars, ApiSet, ModuleChanges, HandleQueueItems, MergeChange, ModuleSet

Changes == [endpoint : Played, value : UNION {Allowed[e] : e \in Played}]

QueueOK == feedback \in Seq(Changes) /\ batched \in 0..Len(feedback)

LEMMA QueueStep ==
  ASSUME QueueOK, [Next]_vars
  PROVE  QueueOK'
<1>1. ASSUME NEW e \in Played, NEW v \in Allowed[e], ModuleChanges(e, v) PROVE QueueOK'
  <2>1. feedback \in Seq(Changes) /\ batched \in 0..Len(feedback)
    BY DEF QueueOK
  <2>2. PICK m : m = [endpoint |-> e, value |-> v]
    OBVIOUS
  <2>3. m \in Changes
    BY <2>2 DEF Changes
  <2>4. feedback' = Append(feedback, m) /\ batched' = batched
    BY <1>1, <2>2 DEF ModuleChanges
  <2> QED
    BY <2>1, <2>3, <2>4 DEF QueueOK
<1>2. CASE HandleQueueItems
  BY <1>2 DEF QueueOK, HandleQueueItems
<1>3. CASE MergeChange \/ ModuleSet
  <2>1. /\ feedback \in Seq(Changes) /\ batched \in 0..Len(feedback) /\ batched > 0
        /\ feedback' = Tail(feedback) /\ batched' = batched - 1
    BY <1>3 DEF QueueOK, MergeChange, ModuleSet, ChangeDone
  <2> QED
    BY <2>1 DEF QueueOK
<1>4. ASSUME UNCHANGED queue PROVE QueueOK'
  BY <1>4 DEF QueueOK, queue
<1> QED
  BY <1>1, <1>2, <1>3, <1>4, QueueWaits DEF Next, vars

TreeOK == DOMAIN values = Endpoints /\ \A e \in Endpoints \ Bangs : values[e] \in Allowed[e]

(* A module sets an endpoint of its own. *)
LEMMA ModuleSets ==
  ASSUME TypeOK, ModuleSet
  PROVE  \E e \in Played : \E v : stack = <<>> /\ Set(e, v, "MODULE_IMPLEMENTATION", <<>>)
<1>1. feedback \in Seq(Changes) /\ Len(feedback) > 0
  BY DEF TypeOK, Changes, ModuleSet
<1>2. Head(feedback) \in Changes
  BY <1>1
<1> QED
  BY <1>2 DEF ModuleSet, NextChange, Changes

LEMMA TypeInitially == Init => TypeOK
<1> SUFFICES ASSUME Init PROVE TypeOK
  OBVIOUS
<1>1. feedback \in Seq(Changes) /\ batched = 0 /\ Len(feedback) = 0
  BY DEF Init
<1> QED
  BY <1>1, SetCommandAssumption DEF Init, TypeOK, Changes

LEMMA TypeInductive ==
  ASSUME TypeOK, [Next]_vars
  PROVE  TypeOK'
<1>1. ASSUME NEW e, NEW v, NEW source, NEW caller, Set(e, v, source, caller) PROVE TreeOK'
  BY <1>1, ValuesSet DEF TreeOK
<1>2. ASSUME UNCHANGED values PROVE TreeOK'
  BY <1>2 DEF TypeOK, TreeOK
<1>3. ASSUME Step PROVE TreeOK'
  <2>1. CASE FireConnection
    BY <1>1, <2>1 DEF FireConnection, Issue
  <2>2. CASE ActivateNode
    BY <1>1, <2>2 DEF ActivateNode, Issue
  <2>3. CASE ActivateAgain
    BY <1>1, <2>3 DEF ActivateAgain, Issue
  <2>4. CASE SkipConnection \/ BeginActivation \/ Descend \/ LeaveNode \/ Pop
    BY <1>2, <2>4 DEF SkipConnection, BeginActivation, Descend, LeaveNode, Pop, Continue
  <2> QED
    BY <1>3, <2>1, <2>2, <2>3, <2>4 DEF Step
<1>4. ASSUME ModuleSet PROVE TreeOK'
  BY <1>1, <1>4 DEF ModuleSet
<1>5. ASSUME NEW e, NEW v, ApiSet(e, v) PROVE TreeOK'
  BY <1>1, <1>5 DEF ApiSet
<1>6. TreeOK'
  BY <1>2, <1>3, <1>4, <1>5, InTree DEF tree
<1>7. QueueOK'
  BY QueueStep DEF TypeOK, QueueOK, Changes
<1> QED
  BY <1>6, <1>7, HostStays DEF TypeOK, TreeOK, QueueOK, Changes

-----------------------------------------------------------------------------
(* What the host has: the last of a module's own changes, while there is   *)
(* one under way, and the value of the node when there is none.            *)

IsUnderWay(q, e) == \E i \in DOMAIN q : q[i].endpoint = e

IsLast(q, e, v) ==
  \E i \in DOMAIN q : /\ q[i].endpoint = e /\ q[i].value = v
                      /\ \A j \in DOMAIN q : q[j].endpoint = e => j <= i

HostHas(v, h, q, e) == IF IsUnderWay(q, e) THEN IsLast(q, e, h[e]) ELSE h[e] = v[e]

HostInv == \A e \in Hosted \ Bangs : e \in astray \/ HostHas(values, host, feedback, e)

(* One more change in the queue. *)
LEMMA Appending ==
  ASSUME NEW q \in Seq(Changes), NEW e \in Played, NEW v \in Allowed[e],
         NEW t, t = Append(q, [endpoint |-> e, value |-> v])
  PROVE  /\ IsUnderWay(t, e) /\ IsLast(t, e, v)
         /\ \A f : f # e => /\ IsUnderWay(t, f) <=> IsUnderWay(q, f)
                            /\ \A x : IsLast(q, f, x) => IsLast(t, f, x)
<1>1. PICK m : m = [endpoint |-> e, value |-> v]
  OBVIOUS
<1>2. PICK n \in Nat : n = Len(q) /\ DOMAIN q = 1..n
  OBVIOUS
<1>3. /\ DOMAIN t = 1..n + 1 /\ t[n + 1] = m
      /\ \A i \in 1..n : t[i] = q[i]
  <2>1. m \in Changes
    BY <1>1 DEF Changes
  <2>2. t = Append(q, m)
    BY <1>1
  <2> QED
    BY <1>2, <2>1, <2>2
<1>4. n + 1 \in 1..n + 1 /\ \A i \in 1..n + 1 : i <= n + 1 /\ (i \in 1..n \/ i = n + 1)
  BY <1>2
<1>5. 1..n \subseteq 1..n + 1
  BY <1>2
<1>6. m.endpoint = e /\ m.value = v
  BY <1>1
<1>7. IsUnderWay(t, e) /\ IsLast(t, e, v)
  BY <1>3, <1>4, <1>6 DEF IsUnderWay, IsLast
<1>8. ASSUME NEW f, f # e PROVE IsUnderWay(t, f) <=> IsUnderWay(q, f)
  BY <1>2, <1>3, <1>4, <1>5, <1>6, <1>8 DEF IsUnderWay
<1>9. ASSUME NEW f, f # e, NEW x, IsLast(q, f, x) PROVE IsLast(t, f, x)
  <2>1. PICK i \in 1..n : /\ q[i].endpoint = f /\ q[i].value = x
                          /\ \A j \in 1..n : q[j].endpoint = f => j <= i
    BY <1>2, <1>9 DEF IsLast
  <2>2. \A j \in 1..n + 1 : t[j].endpoint = f => j <= i
    BY <1>3, <1>4, <1>6, <1>9, <2>1
  <2> QED
    BY <1>3, <1>5, <2>1, <2>2 DEF IsLast
<1> QED
  BY <1>7, <1>8, <1>9

(* The first change in the queue is dealt with. *)
LEMMA Dropping ==
  ASSUME NEW q \in Seq(Changes), q # <<>>, NEW t, t = Tail(q)
  PROVE  /\ q[1] \in Changes /\ Head(q) = q[1] /\ IsUnderWay(q, q[1].endpoint)
         /\ \A f : /\ IsUnderWay(t, f) => IsUnderWay(q, f)
                   /\ IsUnderWay(q, f) => IsUnderWay(t, f) \/ f = q[1].endpoint
                   /\ \A x : IsLast(q, f, x) => IF IsUnderWay(t, f) THEN IsLast(t, f, x)
                                                                    ELSE x = q[1].value
<1>1. PICK n \in Nat : n = Len(q) /\ DOMAIN q = 1..n /\ n > 0
  OBVIOUS
<1>2. DOMAIN t = 1..n - 1 /\ \A i \in 1..n - 1 : t[i] = q[i + 1]
  BY <1>1
<1>3. /\ \A i \in 1..n - 1 : i + 1 \in 1..n
      /\ \A i \in 1..n : i = 1 \/ (i - 1 \in 1..n - 1 /\ (i - 1) + 1 = i)
  BY <1>1
<1>4. 1 \in 1..n /\ q[1] \in Changes /\ Head(q) = q[1]
  BY <1>1
<1>5. \A i \in 1..n : i = 1 \/ t[i - 1] = q[i]
  BY <1>2, <1>3
<1>6. ASSUME NEW f, IsUnderWay(t, f) PROVE IsUnderWay(q, f)
  <2>1. PICK i \in 1..n - 1 : t[i].endpoint = f
    BY <1>2, <1>6 DEF IsUnderWay
  <2>2. i + 1 \in DOMAIN q /\ q[i + 1].endpoint = f
    BY <1>1, <1>2, <1>3, <2>1
  <2> QED
    BY <2>2 DEF IsUnderWay
<1>7. ASSUME NEW f, IsUnderWay(q, f), f # q[1].endpoint PROVE IsUnderWay(t, f)
  <2>1. PICK i \in 1..n : q[i].endpoint = f
    BY <1>1, <1>7 DEF IsUnderWay
  <2>2. i - 1 \in DOMAIN t /\ t[i - 1].endpoint = f
    BY <1>2, <1>3, <1>5, <1>7, <2>1
  <2> QED
    BY <2>2 DEF IsUnderWay
<1>8. ASSUME NEW f, NEW x, IsLast(q, f, x)
      PROVE  IF IsUnderWay(t, f) THEN IsLast(t, f, x) ELSE x = q[1].value
  <2>1. PICK i \in 1..n : /\ q[i].endpoint = f /\ q[i].value = x
                          /\ \A j \in 1..n : q[j].endpoint = f => j <= i
    BY <1>1, <1>8 DEF IsLast
  <2>2. ASSUME IsUnderWay(t, f) PROVE IsLast(t, f, x)
    <3>1. PICK k \in 1..n - 1 : t[k].endpoint = f
      BY <1>2, <2>2 DEF IsUnderWay
    <3>2. k + 1 <= i
      BY <1>2, <1>3, <2>1, <3>1
    <3>3. i # 1
      BY <1>1, <3>2
    <3>4. i - 1 \in 1..n - 1 /\ t[i - 1] = q[i]
      BY <1>3, <1>5, <3>3
    <3>5. \A j \in 1..n - 1 : t[j].endpoint = f => j <= i - 1
      <4>1. ASSUME NEW j \in 1..n - 1, t[j].endpoint = f PROVE j <= i - 1
        <5>1. j + 1 <= i
          BY <1>2, <1>3, <2>1, <4>1
        <5> QED
          BY <1>1, <5>1
      <4> QED
        BY <4>1
    <3> QED
      BY <1>2, <2>1, <3>4, <3>5 DEF IsLast
  <2>3. ASSUME ~IsUnderWay(t, f) PROVE x = q[1].value
    <3>1. i = 1
      BY <1>2, <1>3, <1>5, <2>1, <2>3 DEF IsUnderWay
    <3> QED
      BY <2>1, <3>1
  <2> QED
    BY <2>2, <2>3
<1> QED
  BY <1>1, <1>4, <1>6, <1>7, <1>8 DEF IsUnderWay

(* A set command that is carried out, and the value that goes with it.     *)
LEMMA SendingKeeps ==
  ASSUME TypeOK, HostInv, NEW e, NEW v, NEW source, NEW caller,
         Set(e, v, source, caller), SendValue(e, v, source), UNCHANGED queue,
         source # "MODULE_IMPLEMENTATION"
  PROVE  HostInv'
<1>1. feedback' = feedback
  BY DEF queue
<1>2. ASSUME NEW f \in Hosted \ Bangs, f # e PROVE f \in astray' \/ HostHas(values', host', feedback', f)
  <2>1. values'[f] = values[f]
    <3>1. values' = values \/ values' = [values EXCEPT ![e] = v]
      BY DEF Set
    <3> QED
      BY <1>2, <3>1, SetCommandAssumption DEF TypeOK
  <2>2. host'[f] = host[f] /\ (f \in astray' <=> f \in astray)
    BY <1>2 DEF SendValue, TypeOK
  <2> QED
    BY <1>1, <1>2, <2>1, <2>2 DEF HostInv, HostHas
<1>3. ASSUME e \in Hosted \ Bangs PROVE e \in astray' \/ HostHas(values', host', feedback', e)
  <2>1. CASE Refused(e, v, source)
    BY <1>1, <1>3, <2>1 DEF Set, SendValue, HostInv, HostHas
  <2>2. CASE ~Refused(e, v, source)
    <3>1. v \in Allowed[e] /\ e \in Endpoints
      BY <1>3, <2>2, SetCommandAssumption DEF Refused, Conforms
    <3>2. v # None
      BY <3>1, SetCommandAssumption
    <3>3. values' = [values EXCEPT ![e] = v] /\ host' = [host EXCEPT ![e] = v]
      BY <1>3, <2>2, <3>2 DEF Set, SendValue, ShouldSendToHost
    <3>4. values'[e] = v /\ host'[e] = v
      BY <1>3, <3>1, <3>3 DEF TypeOK
    <3>5. IsUnderWay(feedback, e) => e \in astray'
      BY <1>3, <2>2 DEF SendValue, ShouldSendToHost, UnderWay, IsUnderWay
    <3> QED
      BY <1>1, <3>4, <3>5 DEF HostHas
  <2> QED
    BY <2>1, <2>2
<1> QED
  BY <1>2, <1>3 DEF HostInv

(* A change by a module that arrives. *)
LEMMA ArrivingKeeps ==
  ASSUME TypeOK, HostInv, MergeChange \/ ModuleSet
  PROVE  HostInv'
<1>1. /\ feedback \in Seq(Changes) /\ batched \in 0..Len(feedback) /\ batched > 0
      /\ feedback' = Tail(feedback) /\ host' = host
  BY DEF TypeOK, MergeChange, ModuleSet, ChangeDone, Changes
<1>2. PICK q, t, m : q = feedback /\ t = feedback' /\ m = q[1]
  OBVIOUS
<1>3. q \in Seq(Changes) /\ q # <<>> /\ t = Tail(q)
  BY <1>1, <1>2
<1>4. /\ m \in Changes /\ NextChange = m /\ IsUnderWay(q, m.endpoint)
      /\ \A f : /\ IsUnderWay(t, f) => IsUnderWay(q, f)
                /\ IsUnderWay(q, f) => IsUnderWay(t, f) \/ f = m.endpoint
                /\ \A x : IsLast(q, f, x) => IF IsUnderWay(t, f) THEN IsLast(t, f, x) ELSE x = m.value
  BY <1>2, <1>3, Dropping DEF NextChange
<1>5. ASSUME NEW f \in Hosted \ Bangs, f \notin astray, values'[f] = values[f],
             f # m.endpoint \/ IsUnderWay(t, f)
      PROVE  HostHas(values', host', t, f)
  BY <1>1, <1>2, <1>4, <1>5 DEF HostInv, HostHas
<1>6. CASE MergeChange
  <2>1. values' = values /\ astray' = astray
    BY <1>6 DEF MergeChange, tree
  <2>2. IsUnderWay(t, m.endpoint)
    <3>1. PICK i \in 2..batched : q[i].endpoint = m.endpoint
      BY <1>2, <1>4, <1>6 DEF MergeChange, Overtaken
    <3>2. i - 1 \in DOMAIN t /\ t[i - 1] = q[i]
      BY <1>1, <1>2, <1>3
    <3> QED
      BY <3>1, <3>2 DEF IsUnderWay
  <2> QED
    BY <1>2, <1>5, <2>1, <2>2 DEF HostInv
<1>7. CASE ModuleSet
  <2> DEFINE e == m.endpoint
             v == m.value
  <2>1. /\ Set(e, v, "MODULE_IMPLEMENTATION", <<>>)
        /\ astray' = IF Refused(e, v, "MODULE_IMPLEMENTATION") THEN astray \cup {e} ELSE astray
    BY <1>4, <1>7 DEF ModuleSet
  <2>2. e \in Hosted \ Bangs /\ e \in Endpoints
    BY <1>4, SetCommandAssumption DEF Changes
  <2> HIDE DEF e, v
  <2>3. ASSUME NEW f \in Hosted \ Bangs, f # e, f \notin astray PROVE HostHas(values', host', t, f)
    <3>1. values' = values \/ values' = [values EXCEPT ![e] = v]
      BY <2>1 DEF Set
    <3>2. values'[f] = values[f]
      BY <2>3, <3>1, SetCommandAssumption DEF TypeOK
    <3> QED
      BY <1>5, <2>3, <3>2 DEF e
  <2>4. ASSUME e \notin astray' PROVE HostHas(values', host', t, e)
    <3>1. ~Refused(e, v, "MODULE_IMPLEMENTATION") /\ e \notin astray
      BY <2>1, <2>4
    <3>2. v \in Allowed[e]
      BY <2>2, <3>1 DEF Refused, Conforms
    <3>3. v # None
      BY <2>2, <3>2, SetCommandAssumption
    <3>4. values'[e] = v
      BY <2>1, <2>2, <3>1, <3>3 DEF Set, TypeOK
    <3>5. IsLast(q, e, host[e])
      BY <1>2, <1>4, <2>2, <3>1 DEF HostInv, HostHas, e
    <3>6. IF IsUnderWay(t, e) THEN IsLast(t, e, host[e]) ELSE host[e] = v
      BY <1>4, <3>5 DEF v
    <3> QED
      BY <1>1, <3>4, <3>6 DEF HostHas
  <2>5. astray \subseteq astray'
    BY <2>1
  <2> QED
    BY <1>2, <2>3, <2>4, <2>5 DEF HostInv
<1> QED
  BY <1>6, <1>7

LEMMA HostInductive ==
  ASSUME TypeOK, HostInv, [Next]_vars
  PROVE  HostInv'
<1>1. ASSUME NEW e, NEW v, ApiSet(e, v) PROVE HostInv'
  BY <1>1, SendingKeeps DEF ApiSet
<1>2. ASSUME NEW e \in Played, NEW v \in Allowed[e], ModuleChanges(e, v) PROVE HostInv'
  <2>1. PICK q, t : q = feedback /\ t = feedback' /\ q \in Seq(Changes)
    BY DEF TypeOK, Changes
  <2>2. /\ IsUnderWay(t, e) /\ IsLast(t, e, v)
        /\ \A f : f # e => /\ IsUnderWay(t, f) <=> IsUnderWay(q, f)
                           /\ \A x : IsLast(q, f, x) => IsLast(t, f, x)
    <3>1. t = Append(q, [endpoint |-> e, value |-> v])
      BY <1>2, <2>1 DEF ModuleChanges
    <3> QED
      BY <2>1, <3>1, Appending
  <2>3. /\ values' = values /\ astray' = astray \ {e} /\ host' = [host EXCEPT ![e] = v]
        /\ e \in DOMAIN host
    BY <1>2, SetCommandAssumption DEF ModuleChanges, tree, TypeOK
  <2>4. HostHas(values', host', t, e)
    BY <2>2, <2>3 DEF HostHas
  <2>5. ASSUME NEW f \in Hosted \ Bangs, f # e, f \notin astray PROVE HostHas(values', host', t, f)
    BY <2>1, <2>2, <2>3, <2>5 DEF HostInv, HostHas
  <2> QED
    BY <2>1, <2>3, <2>4, <2>5 DEF HostInv
<1>3. ASSUME NEW e, NEW v, NEW source \in {"SYSTEM", "CONNECTION"}, NEW caller,
             Issue(e, v, source, caller)
      PROVE  HostInv'
  BY <1>3, SendingKeeps DEF Issue
<1>4. ASSUME UNCHANGED <<values, feedback, host, astray>> PROVE HostInv'
  BY <1>4 DEF HostInv, HostHas
<1>5. ASSUME Step PROVE HostInv'
  <2>1. CASE FireConnection
    BY <1>3, <2>1 DEF FireConnection
  <2>2. CASE ActivateNode
    BY <1>3, <2>2 DEF ActivateNode
  <2>3. CASE ActivateAgain
    BY <1>3, <2>3 DEF ActivateAgain
  <2>4. CASE SkipConnection \/ BeginActivation \/ Descend \/ LeaveNode \/ Pop
    BY <1>4, <2>4 DEF SkipConnection, BeginActivation, Descend, LeaveNode, Pop, Continue, queue
  <2> QED
    BY <1>5, <2>1, <2>2, <2>3, <2>4 DEF Step
<1>6. CASE HandleQueueItems \/ UNCHANGED vars
  BY <1>4, <1>6 DEF HandleQueueItems, vars, tree, queue
<1> QED
  BY <1>1, <1>2, <1>5, <1>6, ArrivingKeeps DEF Next

-----------------------------------------------------------------------------
(* Nodes in order, and what is above them *)

(* In place of induction: a set of counterexamples has a least one. *)
LEMMA LeastNumber ==
  ASSUME NEW T \in SUBSET Nat, T # {}
  PROVE  \E n \in T : \A m \in T : n <= m
<1> DEFINE Less == {ss \in Nat \X Nat : ss[1] < ss[2]}
<1>0. Less = OpToRel(<, Nat)
  BY DEF OpToRel
<1>1. IsWellFoundedOn(Less, Nat)
  BY NatLessThanWellFounded, <1>0
<1>2. \E n \in T : \A m \in T : ~(<<m, n>> \in Less)
  <2> HIDE DEF Less
  <2> QED BY <1>1, WFMin
<1>3. PICK n \in T : \A m \in T : ~(<<m, n>> \in Less)
  BY <1>2
<1>4. ASSUME NEW m \in T PROVE n <= m
  <2>1. n \in Nat /\ m \in Nat
    OBVIOUS
  <2>2. ~(<<m, n>> \in Less)
    BY <1>3
  <2>3. ~(m < n)
    BY <2>1, <2>2
  <2> QED
    BY <2>1, <2>3
<1> QED
  BY <1>4

(* Those of the first i nodes of all that are in a set.                    *)
Chosen(f, some, i) ==
  /\ f[i] \in Seq(Nodes)
  /\ \A n : (\E j \in 1..Len(f[i]) : f[i][j] = n) <=> (n \in some /\ \E j \in 1..i : Order[j] = n)

Chooses(f, some, i) ==
  f[i] = IF i = 0 THEN <<>>
         ELSE IF Order[i] \in some THEN Append(f[i - 1], Order[i]) ELSE f[i - 1]

LEMMA ChosenStep ==
  ASSUME NEW f, NEW some, NEW i \in 0..Len(Order), Chooses(f, some, i),
         i > 0 => Chosen(f, some, i - 1)
  PROVE  Chosen(f, some, i)
<1>0. Order \in Seq(Nodes) /\ Len(Order) \in Nat /\ i \in Nat
  BY SetCommandAssumption
<1>1. CASE i = 0
  <2>1. f[i] = <<>>
    BY <1>1 DEF Chooses
  <2> QED
    BY <1>1, <2>1 DEF Chosen
<1>2. CASE i > 0
  <2>1. PICK p : p = f[i - 1]
    OBVIOUS
  <2>2. /\ p \in Seq(Nodes) /\ Len(p) \in Nat /\ Order[i] \in Nodes
        /\ \A n : (\E j \in 1..Len(p) : p[j] = n) <=> (n \in some /\ \E j \in 1..i - 1 : Order[j] = n)
    <3>1. Chosen(f, some, i - 1)
      BY <1>2
    <3>2. /\ p \in Seq(Nodes)
          /\ \A n : (\E j \in 1..Len(p) : p[j] = n) <=> (n \in some /\ \E j \in 1..i - 1 : Order[j] = n)
      BY <2>1, <3>1 DEF Chosen
    <3>3. i \in 1..Len(Order)
      BY <1>0, <1>2
    <3>4. Len(p) \in Nat /\ Order[i] \in Nodes
      BY <1>0, <3>2, <3>3
    <3> QED
      BY <3>2, <3>4
  <2>3. \A j : j \in 1..i <=> j \in 1..i - 1 \/ j = i
    BY <1>0, <1>2
  <2>4. CASE Order[i] \notin some
    <3>1. f[i] = p
      BY <1>2, <2>1, <2>4 DEF Chooses
    <3> QED
      BY <2>2, <2>3, <2>4, <3>1 DEF Chosen
  <2>5. CASE Order[i] \in some
    <3>1. f[i] = Append(p, Order[i])
      BY <1>2, <2>1, <2>5 DEF Chooses
    <3>2. PICK g, x : g = f[i] /\ x = Order[i]
      OBVIOUS
    <3>3. /\ g \in Seq(Nodes) /\ Len(g) = Len(p) + 1 /\ g[Len(p) + 1] = x
          /\ \A j \in 1..Len(p) : g[j] = p[j]
      BY <2>2, <3>1, <3>2
    <3>4. \A j : j \in 1..Len(g) <=> j \in 1..Len(p) \/ j = Len(p) + 1
      BY <2>2, <3>3
    <3>5. \A n : (\E j \in 1..Len(g) : g[j] = n) <=> (\E j \in 1..Len(p) : p[j] = n) \/ n = x
      BY <3>3, <3>4
    <3>6. \A n : (\E j \in 1..i : Order[j] = n) <=> (\E j \in 1..i - 1 : Order[j] = n) \/ n = x
      BY <2>3, <3>2
    <3>7. \A n : (\E j \in 1..Len(g) : g[j] = n) <=> (n \in some /\ \E j \in 1..i : Order[j] = n)
      BY <2>2, <2>5, <3>2, <3>5, <3>6
    <3> QED
      BY <3>2, <3>3, <3>7 DEF Chosen
  <2> QED
    BY <2>4, <2>5
<1> QED
  BY <1>0, <1>1, <1>2

LEMMA ChosenAlways ==
  ASSUME NEW f, NEW some, NEW k \in 0..Len(Order), \A i \in 0..k : Chooses(f, some, i)
  PROVE  \A i \in 0..k : Chosen(f, some, i)
<1>0. Len(Order) \in Nat
  BY SetCommandAssumption
<1> DEFINE bad == {i \in 0..k : ~Chosen(f, some, i)}
<1>1. bad = {}
  <2> SUFFICES ASSUME bad # {} PROVE FALSE
    OBVIOUS
  <2>1. bad \in SUBSET Nat
    BY <1>0
  <2>2. PICK i \in bad : \A j \in bad : i <= j
    <3> HIDE DEF bad
    <3> QED
      BY <2>1, LeastNumber
  <2>3. i \in 0..k /\ ~Chosen(f, some, i)
    OBVIOUS
  <2>4. i > 0 => i - 1 \in 0..k /\ ~(i <= i - 1)
    BY <1>0, <2>3
  <2>5. i > 0 => i - 1 \notin bad
    <3> HIDE DEF bad
    <3> QED
      BY <2>2, <2>4
  <2>6. i > 0 => Chosen(f, some, i - 1)
    BY <2>4, <2>5
  <2>7. i \in 0..Len(Order)
    BY <1>0, <2>3
  <2> QED
    BY <2>3, <2>6, <2>7, ChosenStep
<1> QED
  BY <1>1

LEMMA ChooserExists ==
  ASSUME NEW some
  PROVE  \E f : f = [i \in 0..Len(Order) |->
                       IF i = 0 THEN <<>>
                       ELSE IF Order[i] \in some THEN Append(f[i - 1], Order[i]) ELSE f[i - 1]]
<1>0. Len(Order) \in Nat
  BY SetCommandAssumption
<1> DEFINE Body(f, i) == IF i = 0 THEN <<>>
                         ELSE IF Order[i] \in some THEN Append(f[i - 1], Order[i]) ELSE f[i - 1]
           Made(f, k) == f = [i \in 0..k |-> Body(f, i)]
           bad == {k \in 0..Len(Order) : ~ \E f : Made(f, k)}
<1>1. bad = {}
  <2> SUFFICES ASSUME bad # {} PROVE FALSE
    OBVIOUS
  <2>1. bad \in SUBSET Nat
    BY <1>0
  <2>2. PICK k \in bad : \A j \in bad : k <= j
    <3> HIDE DEF bad
    <3> QED
      BY <2>1, LeastNumber
  <2>3. k \in 0..Len(Order) /\ ~ \E f : Made(f, k)
    OBVIOUS
  <2>4. k # 0
    <3> SUFFICES ASSUME k = 0 PROVE FALSE
      OBVIOUS
    <3>1. PICK g : g = [i \in 0..0 |-> <<>>]
      OBVIOUS
    <3>2. g = [i \in 0..0 |-> Body(g, i)]
      BY <3>1
    <3> QED
      BY <2>3, <3>2
  <2>5. k - 1 \in 0..Len(Order) /\ ~(k <= k - 1)
    BY <1>0, <2>3, <2>4
  <2>6. k - 1 \notin bad
    <3> HIDE DEF bad
    <3> QED
      BY <2>2, <2>5
  <2>7. PICK f : Made(f, k - 1)
    BY <2>5, <2>6
  <2>8. PICK g : g = [i \in 0..k |-> IF i = k THEN Body(f, k) ELSE f[i]]
    OBVIOUS
  <2>9. ASSUME NEW i \in 0..k PROVE g[i] = Body(g, i)
    <3>1. i # 0 => i - 1 \in 0..k /\ i - 1 # k
      BY <2>3
    <3>2. i # 0 => g[i - 1] = f[i - 1]
      BY <2>8, <3>1
    <3>3. CASE i = k
      <4>1. g[i] = Body(f, i)
        BY <2>8, <3>3
      <4> QED
        BY <3>2, <4>1
    <3>4. CASE i # k
      <4>1. i \in 0..(k - 1)
        BY <2>3, <3>4
      <4>2. f[i] = Body(f, i)
        BY <2>7, <4>1
      <4>3. g[i] = f[i]
        BY <2>8, <3>4
      <4> QED
        BY <3>2, <4>2, <4>3
    <3> QED
      BY <3>3, <3>4
  <2>10. g = [i \in 0..k |-> Body(g, i)]
    <3> HIDE DEF Body
    <3>1. g = [i \in 0..k |-> g[i]]
      BY <2>8
    <3> QED
      BY <2>9, <3>1
  <2> QED
    BY <2>3, <2>10
<1>2. Len(Order) \in 0..Len(Order)
  BY <1>0
<1> QED
  BY <1>1, <1>2

LEMMA InOrderIs ==
  ASSUME NEW some \in SUBSET Nodes, NEW s, s = InOrder(some)
  PROVE  s \in Seq(Nodes) /\ \A n : (\E j \in 1..Len(s) : s[j] = n) <=> n \in some
<1> DEFINE F(f) == f = [i \in 0..Len(Order) |->
                       IF i = 0 THEN <<>>
                       ELSE IF Order[i] \in some THEN Append(f[i - 1], Order[i]) ELSE f[i - 1]]
<1>1. PICK f : f = CHOOSE g : F(g)
  OBVIOUS
<1>2. F(f)
  <2>1. \E g : F(g)
    BY ChooserExists
  <2> HIDE DEF F
  <2> QED
    BY <1>1, <2>1
<1>3. s = f[Len(Order)]
  BY <1>1 DEF InOrder
<1>4. Len(Order) \in Nat
  BY SetCommandAssumption
<1>5. \A i \in 0..Len(Order) : Chooses(f, some, i)
  BY <1>2 DEF Chooses
<1>6. Len(Order) \in 0..Len(Order)
  BY <1>4
<1>7. Chosen(f, some, Len(Order))
  BY <1>5, <1>6, ChosenAlways
<1> QED
  BY <1>3, <1>7, TreeAssumption DEF Chosen

LEMMA AboveIs ==
  \A n \in Nodes : \/ Parent[n] = None /\ Above[n] = {}
                   \/ /\ Parent[n] # None /\ Parent[n] \in Nodes
                      /\ Above[n] = {Parent[n]} \cup Above[Parent[n]]
<1>1. \A n \in Nodes : Above[n] = IF Parent[n] = None THEN {} ELSE {Parent[n]} \cup Above[Parent[n]]
  BY SetCommandAssumption
<1>2. \A n \in Nodes : Parent[n] \in Nodes \cup {None}
  BY TreeAssumption
<1> QED
  BY <1>1, <1>2

(* What is a container or can be switched is in containers only, all the   *)
(* way up.                                                                 *)
LEMMA Holders ==
  ASSUME NEW n \in Nodes, Kind[n] = "container" \/ ActiveOf[n] # None
  PROVE  \A a \in Above[n] : a \in Nodes /\ Kind[a] = "container"
<1> DEFINE bad == {m \in Nodes : /\ Kind[m] = "container" \/ ActiveOf[m] # None
                                 /\ \E a \in Above[m] : ~(a \in Nodes /\ Kind[a] = "container")}
<1>1. bad = {}
  <2> SUFFICES ASSUME bad # {} PROVE FALSE
    OBVIOUS
  <2>1. PICK m \in bad : Parent[m] \notin bad
    BY TreeAssumption
  <2>2. PICK a \in Above[m] : ~(a \in Nodes /\ Kind[a] = "container")
    OBVIOUS
  <2>3. Parent[m] # None /\ Above[m] = {Parent[m]} \cup Above[Parent[m]]
    BY <2>2, AboveIs
  <2>4. Parent[m] \in Nodes /\ Kind[Parent[m]] = "container"
    BY <2>3, TreeAssumption
  <2> QED
    BY <2>1, <2>2, <2>3, <2>4
<1> QED
  BY <1>1

(* Below a node there is a child of it on the way to what is below.        *)
LEMMA WayDown ==
  ASSUME NEW n \in Nodes, NEW c \in Nodes, c \in Above[n]
  PROVE  \E k \in Nodes : Parent[k] = c /\ k \in {n} \cup Above[n]
<1> DEFINE bad == {m \in Nodes : /\ c \in Above[m]
                                 /\ ~ \E k \in Nodes : Parent[k] = c /\ k \in {m} \cup Above[m]}
<1>1. bad = {}
  <2> SUFFICES ASSUME bad # {} PROVE FALSE
    OBVIOUS
  <2>1. PICK m \in bad : Parent[m] \notin bad
    BY TreeAssumption
  <2>2. /\ c \in Above[m] /\ Parent[m] # c
        /\ ~ \E k \in Nodes : Parent[k] = c /\ k \in {m} \cup Above[m]
    OBVIOUS
  <2>3. Above[m] = {Parent[m]} \cup Above[Parent[m]] /\ Parent[m] \in Nodes
    <3>1. m \in Nodes
      OBVIOUS
    <3> HIDE DEF bad
    <3> QED
      BY <2>2, <3>1, AboveIs
  <2>4. c \in Above[Parent[m]]
    BY <2>2, <2>3
  <2>5. PICK k \in Nodes : Parent[k] = c /\ k \in {Parent[m]} \cup Above[Parent[m]]
    BY <2>1, <2>3, <2>4
  <2> QED
    BY <2>2, <2>3, <2>5
<1> QED
  BY <1>1

LEMMA ChildrenAre ==
  ASSUME NEW c, NEW s, s = Children(c)
  PROVE  s \in Seq(Nodes) /\ \A n : (\E j \in 1..Len(s) : s[j] = n) <=> n \in Nodes /\ Parent[n] = c
<1>1. PICK some \in SUBSET Nodes : some = {m \in Nodes : Parent[m] = c}
  OBVIOUS
<1>2. s = InOrder(some)
  BY <1>1 DEF Children
<1>3. s \in Seq(Nodes) /\ \A n : (\E j \in 1..Len(s) : s[j] = n) <=> n \in some
  BY <1>2, InOrderIs
<1> QED
  BY <1>1, <1>3

-----------------------------------------------------------------------------
(* What is left to do of a command *)

Items == [do : {"fire", "handler", "child", "activate"}, node : Nodes, flag : BOOLEAN]
Sources == {"PUBLIC_API", "MODULE_IMPLEMENTATION", "CONNECTION", "SYSTEM"}
Frames == [endpoint : Endpoints, source : Sources, todo : Seq(Items), again : Seq(Nodes)]

OfTree(item) == item.do \in {"child", "activate"}

(* With values v: n is active, and the containers above it are.            *)
On(v, n) == ActiveOf[n] = None \/ v[ActiveOf[n]] # 0
AllOn(v, n) == \A a \in Above[n] : Kind[a] = "container" => On(v, a)

(* What a command on e may have to do: to fire its connections or, of a    *)
(* container, to pass on what the nodes in it are to be.                   *)
ItemOK(w, v, e, item) ==
  /\ item.do = "fire" => item.node \in DOMAIN w /\ w[item.node].source = e
  /\ item.do # "fire" => IsActiveOf(e, {"container"})
  /\ item.do = "handler" => item.node = OwnerOf[e]
  /\ item.do = "child" => Parent[item.node] = OwnerOf[e] /\ item.flag = On(v, OwnerOf[e])
  /\ item.do = "activate" => OwnerOf[e] \in Above[item.node] /\ item.flag = AllOn(v, item.node)

(* The tree is gone through downwards, and not before the last connection  *)
(* has fired.                                                              *)
Sorted(todo) ==
  \A i, j \in 1..Len(todo) :
    /\ OfTree(todo[i]) => OfTree(todo[j])
    /\ OfTree(todo[i]) /\ i < j => Above[todo[j].node] \subseteq Above[todo[i].node]
    /\ todo[i].do = "handler" => i = Len(todo)

(* The endpoint e switches what n is in. *)
LeadsDown(e, n) ==
  /\ ActiveOf[n] # None /\ Kind[n] # "container"
  /\ IsActiveOf(e, {"container"}) /\ OwnerOf[e] \in Above[n]

FrameOK(w, v, f) ==
  /\ f \in Frames
  /\ \A i \in 1..Len(f.todo) : ItemOK(w, v, f.endpoint, f.todo[i])
  /\ Sorted(f.todo)
  /\ \A i \in 1..Len(f.again) : LeadsDown(f.endpoint, f.again[i])

LeadsBy(w, e, f) ==
  \/ \E c \in DOMAIN w : w[c] = [source |-> e, target |-> f]
  \/ /\ IsActiveOf(e, {"container"}) /\ ActiveOf[OwnerOf[f]] = f
     /\ OwnerOf[e] \in Above[OwnerOf[f]] /\ Kind[OwnerOf[f]] # "container"

(* A command has led to one that sets e.  If it is on its way through the  *)
(* tree, it has switched a node that is below all that is left to do.      *)
Link(w, f, e) ==
  /\ LeadsBy(w, f.endpoint, e)
  /\ \A i \in 1..Len(f.todo) : OfTree(f.todo[i]) =>
       /\ Kind[OwnerOf[e]] # "container" /\ ActiveOf[OwnerOf[e]] = e
       /\ \A a \in Above[f.todo[i].node] : Kind[a] = "container" => a \in Above[OwnerOf[e]]

StackOK(w, v, s) ==
  /\ s \in Seq(Frames)
  /\ \A i \in 1..Len(s) : FrameOK(w, v, s[i])
  /\ \A i \in 1..Len(s), j \in 1..Len(s) : j = i + 1 => Link(w, s[i], s[j].endpoint)

(* n will come to be what it is to be. *)
Reaches(item, n) ==
  \/ item.do = "handler" /\ item.node \in Above[n]
  \/ OfTree(item) /\ item.node \in {n} \cup Above[n]
Covers(f, n) == \E i \in 1..Len(f.todo) : Reaches(f.todo[i], n)
Covered(s, n) == \E i \in 1..Len(s) : Covers(s[i], n)

-----------------------------------------------------------------------------
(* What a step does to the innermost command and to the stack *)

Replaced(S, s, items, t) ==
  /\ t \in Seq(S) /\ Len(t) = Len(items) + (Len(s) - 1) /\ Len(s) \in Nat \ {0} /\ Len(items) \in Nat
  /\ \A i \in 1..Len(items) : t[i] = items[i]
  /\ \A i \in 1..(Len(s) - 1) : t[Len(items) + i] = s[i + 1]

LEMMA ReplacedIs ==
  ASSUME NEW S, NEW s \in Seq(S), s # <<>>, NEW items \in Seq(S), NEW t, t = items \o Tail(s)
  PROVE  Replaced(S, s, items, t)
<1>1. PICK r : r = Tail(s)
  OBVIOUS
<1>2. /\ r \in Seq(S) /\ Len(r) = Len(s) - 1 /\ Len(s) \in Nat \ {0} /\ Len(items) \in Nat
      /\ \A i \in 1..(Len(s) - 1) : r[i] = s[i + 1]
  BY <1>1
<1>3. /\ t \in Seq(S) /\ Len(t) = Len(items) + Len(r)
      /\ \A i \in 1..Len(items) : t[i] = items[i]
      /\ \A i \in 1..Len(r) : t[Len(items) + i] = r[i]
  BY <1>1, <1>2
<1> QED
  BY <1>2, <1>3 DEF Replaced

(* What may take the place of the first thing to do. *)
MayReplace(w, v, e, head, items) ==
  \A i, j \in 1..Len(items) :
    /\ ItemOK(w, v, e, items[i]) /\ OfTree(items[i])
    /\ Above[items[i].node] = Above[items[j].node]
    /\ head.do = "handler" \/ (OfTree(head) /\ Above[head.node] \subseteq Above[items[i].node])

LEMMA TodoSorted ==
  ASSUME NEW w, NEW v, NEW e, NEW s \in Seq(Items), s # <<>>, NEW items \in Seq(Items),
         Sorted(s), MayReplace(w, v, e, s[1], items), NEW t, Replaced(Items, s, items, t)
  PROVE  Sorted(t)
<1>0. /\ Len(s) \in Nat \ {0} /\ Len(items) \in Nat /\ Len(t) = Len(items) + (Len(s) - 1)
      /\ \A i \in 1..Len(items) : t[i] = items[i]
      /\ \A i \in 1..(Len(s) - 1) : t[Len(items) + i] = s[i + 1]
  BY DEF Replaced
<1>1. \A i \in 1..Len(t) : i \in 1..Len(items) \/ \E k \in 1..(Len(s) - 1) : i = Len(items) + k
  <2> SUFFICES ASSUME NEW i \in 1..Len(t), i \notin 1..Len(items)
               PROVE  \E k \in 1..(Len(s) - 1) : i = Len(items) + k
    OBVIOUS
  <2>1. i - Len(items) \in 1..(Len(s) - 1) /\ i = Len(items) + (i - Len(items))
    BY <1>0
  <2> QED
    BY <2>1
<1>2. \A k \in 1..(Len(s) - 1) : k + 1 \in 1..Len(s) /\ 1 < k + 1
  BY <1>0
<1>2a. 1 \in 1..Len(s)
  BY <1>0
<1>3. ASSUME Len(items) > 0 PROVE s[1].do = "handler" => Len(s) = 1
  BY <1>0, <1>2a DEF Sorted
<1> SUFFICES ASSUME NEW i \in 1..Len(t), NEW j \in 1..Len(t)
             PROVE  /\ OfTree(t[i]) => OfTree(t[j])
                    /\ OfTree(t[i]) /\ i < j => Above[t[j].node] \subseteq Above[t[i].node]
                    /\ t[i].do = "handler" => i = Len(t)
  BY DEF Sorted
<1>4. CASE i \in 1..Len(items) /\ j \in 1..Len(items)
  BY <1>0, <1>4 DEF MayReplace, OfTree
<1>5. CASE i \in 1..Len(items) /\ j \notin 1..Len(items)
  <2>1. PICK k \in 1..(Len(s) - 1) : j = Len(items) + k
    BY <1>1, <1>5
  <2>2. t[i] = items[i] /\ t[j] = s[k + 1] /\ k + 1 \in 1..Len(s) /\ 1 < k + 1
    BY <1>0, <1>2, <1>5, <2>1
  <2>3. OfTree(items[i]) /\ (s[1].do = "handler" \/ (OfTree(s[1]) /\ Above[s[1].node] \subseteq Above[items[i].node]))
    BY <1>5 DEF MayReplace
  <2>4. s[1].do # "handler"
    <3>1. PICK m, n : m = Len(s) /\ n = Len(items)
      OBVIOUS
    <3>2. m \in Nat /\ n \in Nat /\ k \in 1..(m - 1) /\ i \in 1..n
      BY <1>0, <1>5, <3>1
    <3>3. n > 0 /\ m # 1
      BY <3>2
    <3> QED
      BY <1>3, <3>1, <3>3
  <2>5. OfTree(s[k + 1]) /\ Above[s[k + 1].node] \subseteq Above[s[1].node]
    BY <1>2a, <2>2, <2>3, <2>4 DEF Sorted
  <2> QED
    BY <2>2, <2>3, <2>4, <2>5 DEF OfTree
<1>6. CASE i \notin 1..Len(items) /\ j \in 1..Len(items)
  <2>1. PICK k \in 1..(Len(s) - 1) : i = Len(items) + k
    BY <1>1, <1>6
  <2>2. t[i] = s[k + 1] /\ t[j] = items[j] /\ k + 1 \in 1..Len(s) /\ ~(i < j)
    BY <1>0, <1>2, <1>6, <2>1
  <2>3. OfTree(items[j])
    BY <1>6 DEF MayReplace
  <2>4. s[k + 1].do = "handler" => k + 1 = Len(s)
    BY <2>2 DEF Sorted
  <2>5. k + 1 = Len(s) => i = Len(t)
    <3>1. PICK m, n, l : m = Len(s) /\ n = Len(items) /\ l = Len(t)
      OBVIOUS
    <3>2. m \in Nat /\ n \in Nat /\ l = n + (m - 1) /\ k \in Int /\ i = n + k
      BY <1>0, <2>1, <3>1
    <3>3. k + 1 = m => i = l
      BY <3>2
    <3> QED
      BY <3>1, <3>3
  <2> QED
    BY <2>2, <2>3, <2>4, <2>5
<1>7. CASE i \notin 1..Len(items) /\ j \notin 1..Len(items)
  <2>1. PICK k \in 1..(Len(s) - 1) : i = Len(items) + k
    BY <1>1, <1>7
  <2>2. PICK l \in 1..(Len(s) - 1) : j = Len(items) + l
    BY <1>1, <1>7
  <2>3. /\ t[i] = s[k + 1] /\ t[j] = s[l + 1] /\ k + 1 \in 1..Len(s) /\ l + 1 \in 1..Len(s)
        /\ i < j => k + 1 < l + 1
    BY <1>0, <1>2, <2>1, <2>2
  <2>4. s[k + 1].do = "handler" => k + 1 = Len(s)
    BY <2>3 DEF Sorted
  <2>5. k + 1 = Len(s) => i = Len(t)
    <3>1. PICK m, n, l1 : m = Len(s) /\ n = Len(items) /\ l1 = Len(t)
      OBVIOUS
    <3>2. m \in Nat /\ n \in Nat /\ l1 = n + (m - 1) /\ k \in Int /\ i = n + k
      BY <1>0, <2>1, <3>1
    <3>3. k + 1 = m => i = l1
      BY <3>2
    <3> QED
      BY <3>1, <3>3
  <2>6. t[i].do = "handler" => i = Len(t)
    BY <2>3, <2>4, <2>5
  <2> QED
    BY <2>3, <2>6 DEF Sorted
<1> QED
  BY <1>4, <1>5, <1>6, <1>7

(* A command gets on. *)
GotOn(f, items, again, g) ==
  g = [f EXCEPT !.todo = items \o Tail(f.todo), !.again = again]

LEMMA FrameProceeds ==
  ASSUME NEW w, NEW v, NEW f, FrameOK(w, v, f), f.todo # <<>>, NEW items \in Seq(Items),
         MayReplace(w, v, f.endpoint, f.todo[1], items),
         NEW again \in Seq(Nodes), \A i \in 1..Len(again) : LeadsDown(f.endpoint, again[i]),
         NEW g, GotOn(f, items, again, g)
  PROVE  /\ FrameOK(w, v, g) /\ g.endpoint = f.endpoint /\ g.source = f.source
         /\ Replaced(Items, f.todo, items, g.todo)
<1>1. f \in Frames /\ f.todo \in Seq(Items)
  BY DEF FrameOK, Frames
<1>2. PICK s, t : s = f.todo /\ t = items \o Tail(s)
  OBVIOUS
<1>3. s \in Seq(Items) /\ s # <<>>
  BY <1>1, <1>2
<1>4. Replaced(Items, s, items, t)
  BY <1>2, <1>3, ReplacedIs
<1>5. t \in Seq(Items)
  BY <1>4 DEF Replaced
<1>6. g \in Frames /\ g.endpoint = f.endpoint /\ g.source = f.source /\ g.todo = t /\ g.again = again
  BY <1>1, <1>2, <1>5 DEF Frames, GotOn
<1>7. Sorted(t)
  <2>1. Sorted(s) /\ MayReplace(w, v, f.endpoint, s[1], items)
    BY <1>2 DEF FrameOK
  <2> QED
    BY <1>3, <1>4, <2>1, TodoSorted
<1>8. ASSUME NEW i \in 1..Len(t) PROVE ItemOK(w, v, f.endpoint, t[i])
  <2>1. /\ Len(s) \in Nat \ {0} /\ Len(items) \in Nat /\ Len(t) = Len(items) + (Len(s) - 1)
        /\ \A k \in 1..Len(items) : t[k] = items[k]
        /\ \A k \in 1..(Len(s) - 1) : t[Len(items) + k] = s[k + 1]
    BY <1>4 DEF Replaced
  <2>2. CASE i \in 1..Len(items)
    BY <2>1, <2>2 DEF MayReplace
  <2>3. CASE i \notin 1..Len(items)
    <3>1. PICK k : k = i - Len(items)
      OBVIOUS
    <3>2. k \in 1..(Len(s) - 1) /\ i = Len(items) + k /\ k + 1 \in 1..Len(s)
      BY <2>1, <2>3, <3>1
    <3>3. t[i] = s[k + 1]
      BY <2>1, <3>2
    <3> QED
      BY <1>2, <3>2, <3>3 DEF FrameOK
  <2> QED
    BY <2>2, <2>3
<1> QED
  BY <1>2, <1>4, <1>6, <1>7, <1>8 DEF FrameOK

(* It goes on covering what it covered, but for what the first thing to do *)
(* reached, and covers what the new things reach.                          *)
LEMMA StillCovers ==
  ASSUME NEW f, NEW g, NEW items, Replaced(Items, f.todo, items, g.todo), NEW n
  PROVE  /\ Covers(f, n) => Covers(g, n) \/ Reaches(f.todo[1], n)
         /\ (\E i \in 1..Len(items) : Reaches(items[i], n)) => Covers(g, n)
<1>1. PICK s, t : s = f.todo /\ t = g.todo
  OBVIOUS
<1>2. /\ Len(s) \in Nat \ {0} /\ Len(items) \in Nat /\ Len(t) = Len(items) + (Len(s) - 1)
      /\ \A k \in 1..Len(items) : t[k] = items[k]
      /\ \A k \in 1..(Len(s) - 1) : t[Len(items) + k] = s[k + 1]
  BY <1>1 DEF Replaced
<1>3. ASSUME NEW i \in 1..Len(s), i # 1 PROVE \E j \in 1..Len(t) : t[j] = s[i]
  <2>1. PICK k : k = i - 1
    OBVIOUS
  <2>2. k \in 1..(Len(s) - 1) /\ k + 1 = i /\ Len(items) + k \in 1..Len(t)
    BY <1>2, <1>3, <2>1
  <2> QED
    BY <1>2, <2>2
<1>4. \A k \in 1..Len(items) : k \in 1..Len(t)
  BY <1>2
<1> QED
  BY <1>1, <1>2, <1>3, <1>4 DEF Covers

(* Stacks whose innermost command has got on, has caused another, or is    *)
(* over.                                                                   *)
LEMMA TopOf ==
  ASSUME NEW w, NEW v, NEW s, StackOK(w, v, s)
  PROVE  /\ s \in Seq(Frames) /\ Len(s) \in Nat
         /\ \A i \in 1..Len(s) : s[i] \in Frames
         /\ s # <<>> => Len(s) \in 1..Len(s)
BY DEF StackOK

TopBecomes(s, g, t) == t = [s EXCEPT ![Len(s)] = g]

(* The stack covers what it covered, if its innermost command does. *)
CoversStill(s, g, t) ==
  \A n : Covered(s, n) /\ (Covers(s[Len(s)], n) => Covers(g, n)) => Covered(t, n)

LEMMA TopReplaced ==
  ASSUME NEW w, NEW v, NEW s, StackOK(w, v, s), s # <<>>,
         NEW g, FrameOK(w, v, g), g.endpoint = s[Len(s)].endpoint,
         NEW t, TopBecomes(s, g, t)
  PROVE  StackOK(w, v, t) /\ t # <<>> /\ Len(t) = Len(s) /\ t[Len(t)] = g /\ CoversStill(s, g, t)
<1>0. s \in Seq(Frames) /\ Len(s) \in Nat /\ Len(s) \in 1..Len(s) /\ g \in Frames
  BY TopOf DEF FrameOK
<1>1. t \in Seq(Frames) /\ Len(t) = Len(s) /\ t[Len(s)] = g /\ \A i \in 1..Len(s) : i # Len(s) => t[i] = s[i]
  BY <1>0 DEF TopBecomes
<1>2. \A i \in 1..Len(s) : t[i].endpoint = s[i].endpoint
  BY <1>1
<1>3. \A i \in 1..Len(t) : FrameOK(w, v, t[i])
  BY <1>1 DEF StackOK
<1>4. ASSUME NEW i \in 1..Len(t), NEW j \in 1..Len(t), j = i + 1 PROVE Link(w, t[i], t[j].endpoint)
  <2>1. i \in 1..Len(s) /\ j \in 1..Len(s) /\ i # Len(s)
    <3>1. i \in 1..Len(s) /\ j \in 1..Len(s)
      BY <1>1
    <3>2. PICK m : m = Len(s)
      OBVIOUS
    <3>3. m \in Nat /\ i \in 1..m /\ j \in 1..m
      BY <1>0, <3>1, <3>2
    <3>4. i # m
      BY <1>4, <3>3
    <3> QED
      BY <3>1, <3>2, <3>4
  <2>2. Link(w, s[i], s[j].endpoint)
    BY <1>4, <2>1 DEF StackOK
  <2> QED
    BY <1>1, <1>2, <2>1, <2>2
<1>5. StackOK(w, v, t)
  BY <1>1, <1>3, <1>4 DEF StackOK
<1>6. ASSUME NEW n, Covered(s, n), Covers(s[Len(s)], n) => Covers(g, n) PROVE Covered(t, n)
  <2>1. PICK i \in 1..Len(s) : Covers(s[i], n)
    BY <1>6 DEF Covered
  <2>2. Covers(t[i], n)
    BY <1>1, <1>6, <2>1
  <2> QED
    BY <1>1, <2>2 DEF Covered
<1>7. t # <<>>
  <2>1. \A x : x = <<>> => Len(x) = 0
    OBVIOUS
  <2>2. Len(t) # 0
    <3>1. Len(s) \in 1..Len(s) /\ Len(t) = Len(s)
      BY <1>0, <1>1
    <3>2. PICK m : m = Len(s)
      OBVIOUS
    <3>3. m \in Nat /\ m \in 1..m
      BY <1>0, <3>2
    <3>4. m # 0
      BY <3>3
    <3> QED
      BY <3>1, <3>2, <3>4
  <2> QED
    BY <2>1, <2>2
<1> QED
  BY <1>1, <1>5, <1>6, <1>7 DEF CoversStill

LEMMA TopPushed ==
  ASSUME NEW w, NEW v, NEW s, StackOK(w, v, s), NEW f, FrameOK(w, v, f),
         s # <<>> => Link(w, s[Len(s)], f.endpoint),
         NEW t, t = Append(s, f)
  PROVE  /\ StackOK(w, v, t)
         /\ \A n : Covered(s, n) \/ Covers(f, n) => Covered(t, n)
<1>0. s \in Seq(Frames) /\ Len(s) \in Nat /\ f \in Frames
  BY TopOf DEF FrameOK
<1>1. t \in Seq(Frames) /\ Len(t) = Len(s) + 1 /\ t[Len(s) + 1] = f /\ \A i \in 1..Len(s) : t[i] = s[i]
  BY <1>0
<1>2. \A i \in 1..Len(t) : i \in 1..Len(s) \/ i = Len(s) + 1
  BY <1>0, <1>1
<1>3. \A i \in 1..Len(t) : FrameOK(w, v, t[i])
  BY <1>1, <1>2 DEF StackOK
<1>4. ASSUME NEW i \in 1..Len(t), NEW j \in 1..Len(t), j = i + 1 PROVE Link(w, t[i], t[j].endpoint)
  <2>1. i \in 1..Len(s)
    BY <1>0, <1>1, <1>4
  <2>2. CASE j \in 1..Len(s)
    BY <1>1, <1>4, <2>1, <2>2 DEF StackOK
  <2>3. CASE j = Len(s) + 1
    <3>1. i = Len(s) /\ s # <<>>
      BY <1>0, <1>4, <2>1, <2>3
    <3> QED
      BY <1>1, <2>1, <2>3, <3>1
  <2> QED
    BY <1>2, <2>2, <2>3
<1>5. StackOK(w, v, t)
  BY <1>1, <1>3, <1>4 DEF StackOK
<1>6. Len(s) + 1 \in 1..Len(t) /\ \A i \in 1..Len(s) : i \in 1..Len(t)
  BY <1>0, <1>1
<1> QED
  BY <1>1, <1>5, <1>6 DEF Covered

TopGoes(s, t) == t = SubSeq(s, 1, Len(s) - 1)

CoversTheRest(s, t) == \A n : Covered(s, n) /\ ~Covers(s[Len(s)], n) => Covered(t, n)

LEMMA TopPopped ==
  ASSUME NEW w, NEW v, NEW s, StackOK(w, v, s), s # <<>>, NEW t, TopGoes(s, t)
  PROVE  StackOK(w, v, t) /\ CoversTheRest(s, t)
<1>0. s \in Seq(Frames) /\ Len(s) \in Nat /\ Len(s) \in 1..Len(s)
  BY TopOf
<1>1. PICK m : m = Len(s) - 1
  OBVIOUS
<1>2. m \in Nat /\ m \in Int /\ 1 \in Int /\ \A i \in 1..m : i \in 1..Len(s) /\ s[i] \in Frames
  BY <1>0, <1>1
<1>3. t = SubSeq(s, 1, m)
  BY <1>1 DEF TopGoes
<1>4. /\ SubSeq(s, 1, m) \in Seq(Frames)
      /\ Len(SubSeq(s, 1, m)) = IF 1 <= m THEN m - 1 + 1 ELSE 0
      /\ \A i \in 1..m - 1 + 1 : SubSeq(s, 1, m)[i] = s[1 + i - 1]
  BY <1>2, SubSeqProperties
<1>5. t \in Seq(Frames) /\ Len(t) = m /\ \A i \in 1..m : t[i] = s[i]
  BY <1>2, <1>3, <1>4
<1>6. \A i \in 1..Len(t) : FrameOK(w, v, t[i])
  BY <1>2, <1>5 DEF StackOK
<1>7. ASSUME NEW i \in 1..Len(t), NEW j \in 1..Len(t), j = i + 1 PROVE Link(w, t[i], t[j].endpoint)
  BY <1>2, <1>5, <1>7 DEF StackOK
<1>8. StackOK(w, v, t)
  BY <1>5, <1>6, <1>7 DEF StackOK
<1>9. ASSUME NEW n, Covered(s, n), ~Covers(s[Len(s)], n) PROVE Covered(t, n)
  <2>1. PICK i \in 1..Len(s) : Covers(s[i], n)
    BY <1>9 DEF Covered
  <2>2. i # Len(s)
    BY <1>9, <2>1
  <2>3. i \in 1..m
    BY <1>0, <1>1, <2>2
  <2> QED
    BY <1>5, <2>1, <2>3 DEF Covered
<1> QED
  BY <1>8, <1>9 DEF CoversTheRest

-----------------------------------------------------------------------------
(* Where commands lead to *)

AcyclicBy(w) ==
  \A some \in SUBSET Endpoints :
    some # {} => \E f \in some : \A e \in some : ~LeadsBy(w, e, f)

(* None of the commands under way sets what the innermost leads to, or is  *)
(* led to from there.                                                      *)
LEMMA NoWayBack ==
  ASSUME NEW w, NEW v, NEW s, StackOK(w, v, s), AcyclicBy(w), s # <<>>,
         NEW e \in Endpoints, LeadsBy(w, s[Len(s)].endpoint, e)
  PROVE  \A i \in 1..Len(s) : s[i].endpoint # e /\ ~LeadsBy(w, e, s[i].endpoint)
<1> SUFFICES ASSUME NEW i \in 1..Len(s), s[i].endpoint = e \/ LeadsBy(w, e, s[i].endpoint)
             PROVE  FALSE
  OBVIOUS
<1>0. Len(s) \in Nat /\ Len(s) \in 1..Len(s) /\ \A j \in 1..Len(s) : s[j].endpoint \in Endpoints
  BY TopOf DEF Frames
<1> DEFINE some == {s[j].endpoint : j \in i..Len(s)} \cup {e}
<1>1. \A j \in i..Len(s) : j \in 1..Len(s)
  BY <1>0
<1>2. some \in SUBSET Endpoints /\ some # {}
  BY <1>0, <1>1
<1>3. PICK f \in some : \A d \in some : ~LeadsBy(w, d, f)
  <2> HIDE DEF some
  <2> QED
    BY <1>2 DEF AcyclicBy
<1>4. e \in some /\ \A j \in i..Len(s) : s[j].endpoint \in some
  OBVIOUS
<1>5. Len(s) \in i..Len(s) /\ i \in i..Len(s)
  BY <1>0
<1>6. f # e
  BY <1>3, <1>4, <1>5
<1>7. PICK j \in i..Len(s) : f = s[j].endpoint
  BY <1>6
<1>8. CASE j = i
  BY <1>3, <1>4, <1>6, <1>7, <1>8
<1>9. CASE j # i
  <2>1. PICK k : k = j - 1
    OBVIOUS
  <2>2. k \in i..Len(s) /\ k \in 1..Len(s) /\ j \in 1..Len(s) /\ j = k + 1
    BY <1>0, <1>9, <2>1
  <2>3. Link(w, s[k], s[j].endpoint)
    BY <2>2 DEF StackOK
  <2> QED
    BY <1>3, <1>4, <1>7, <2>2, <2>3 DEF Link
<1> QED
  BY <1>8, <1>9

LEMMA AboveNodes == \A n \in Nodes : \A a \in Above[n] : a \in Nodes
<1> DEFINE bad == {n \in Nodes : \E a \in Above[n] : a \notin Nodes}
<1>1. bad = {}
  <2> SUFFICES ASSUME bad # {} PROVE FALSE
    OBVIOUS
  <2>1. PICK n \in bad : Parent[n] \notin bad
    BY TreeAssumption
  <2>2. PICK a \in Above[n] : a \notin Nodes
    OBVIOUS
  <2>3. Parent[n] \in Nodes /\ Above[n] = {Parent[n]} \cup Above[Parent[n]]
    BY <2>2, AboveIs
  <2> QED
    BY <2>1, <2>2, <2>3
<1> QED
  BY <1>1

(* The value of an endpoint that is not above what is left to do.          *)
LEMMA ItemStays ==
  ASSUME NEW w, NEW v, NEW u, NEW e, \A f \in Endpoints : f # e => u[f] = v[f],
         NEW d \in Endpoints, d # e, NEW item \in Items, ItemOK(w, v, d, item),
         OfTree(item) => \A a \in Above[item.node] : Kind[a] = "container" => ActiveOf[a] # e
  PROVE  ItemOK(w, u, d, item)
<1>0. item.node \in Nodes /\ ActiveOf \in [Nodes -> Endpoints \cup {None}] /\ OwnerOf \in [Endpoints -> Nodes]
  BY SetCommandAssumption DEF Items
<1>1. \A a \in Nodes : ActiveOf[a] # e => (On(u, a) <=> On(v, a))
  BY <1>0 DEF On
<1>2. item.do # "fire" => (On(u, OwnerOf[d]) <=> On(v, OwnerOf[d]))
  BY <1>0, <1>1 DEF ItemOK, IsActiveOf
<1>3. item.do = "activate" => (AllOn(u, item.node) <=> AllOn(v, item.node))
  BY <1>0, <1>1, AboveNodes DEF AllOn, OfTree
<1>4. On(u, OwnerOf[d]) \in BOOLEAN /\ On(v, OwnerOf[d]) \in BOOLEAN
  BY DEF On
<1>5. AllOn(u, item.node) \in BOOLEAN /\ AllOn(v, item.node) \in BOOLEAN
  BY DEF AllOn
<1>6. item.do = "child" => item.flag = On(u, OwnerOf[d])
  BY <1>2, <1>4 DEF ItemOK
<1>7. item.do = "activate" => item.flag = AllOn(u, item.node)
  BY <1>3, <1>5 DEF ItemOK
<1> QED
  BY <1>6, <1>7 DEF ItemOK

LEMMA StackStays ==
  ASSUME NEW w, NEW v, NEW s, StackOK(w, v, s), AcyclicBy(w), NEW e \in Endpoints,
         s # <<>> => Link(w, s[Len(s)], e),
         NEW u, \A f \in Endpoints : f # e => u[f] = v[f]
  PROVE  StackOK(w, u, s)
<1>0. /\ s \in Seq(Frames) /\ Len(s) \in Nat /\ \A i \in 1..Len(s) : s[i] \in Frames
      /\ s # <<>> => Len(s) \in 1..Len(s)
  BY TopOf
<1> SUFFICES ASSUME NEW i \in 1..Len(s) PROVE FrameOK(w, u, s[i])
  BY <1>0 DEF StackOK
<1>1. s # <<>>
  BY <1>0
<1>2. LeadsBy(w, s[Len(s)].endpoint, e) /\ Link(w, s[Len(s)], e)
  BY <1>1 DEF Link
<1>3. \A j \in 1..Len(s) : s[j].endpoint # e /\ ~LeadsBy(w, e, s[j].endpoint)
  BY <1>1, <1>2, NoWayBack
<1>4. s[i] \in Frames /\ FrameOK(w, v, s[i])
  BY <1>0 DEF StackOK
<1>5. \A k \in 1..Len(s[i].todo) : s[i].todo[k] \in Items
  BY <1>4 DEF Frames
<1>6. OwnerOf \in [Endpoints -> Nodes] /\ \A n \in Nodes : ActiveOf[n] # None => OwnerOf[ActiveOf[n]] = n
  BY SetCommandAssumption, TreeAssumption
<1>7. None \notin Endpoints
  BY SetCommandAssumption
<1>8. ASSUME NEW k \in 1..Len(s[i].todo), OfTree(s[i].todo[k]),
             NEW a \in Above[s[i].todo[k].node], Kind[a] = "container"
      PROVE  ActiveOf[a] # e
  <2> SUFFICES ASSUME ActiveOf[a] = e PROVE FALSE
    OBVIOUS
  <2>1. a \in Nodes /\ OwnerOf[e] = a
    <3>1. s[i].todo[k].node \in Nodes
      BY <1>5 DEF Items
    <3> QED
      BY <1>6, <1>7, <3>1, AboveNodes
  <2>2. CASE i = Len(s)
    BY <1>2, <1>8, <2>1, <2>2 DEF Link
  <2>3. CASE i # Len(s)
    <3>1. i + 1 \in 1..Len(s)
      BY <1>0, <2>3
    <3>2. PICK j : j = i + 1
      OBVIOUS
    <3>3. Link(w, s[i], s[j].endpoint)
      BY <3>1, <3>2 DEF StackOK
    <3>4. PICK f : f = s[j].endpoint
      OBVIOUS
    <3>5. Kind[OwnerOf[f]] # "container" /\ ActiveOf[OwnerOf[f]] = f /\ a \in Above[OwnerOf[f]]
      BY <1>8, <3>3, <3>4 DEF Link
    <3>6. LeadsBy(w, e, f)
      BY <1>8, <2>1, <3>5 DEF LeadsBy, IsActiveOf
    <3> QED
      BY <1>3, <3>1, <3>2, <3>4, <3>6
  <2> QED
    BY <2>2, <2>3
<1>9. ASSUME NEW k \in 1..Len(s[i].todo) PROVE ItemOK(w, u, s[i].endpoint, s[i].todo[k])
  <2>1. PICK item, d : item = s[i].todo[k] /\ d = s[i].endpoint
    OBVIOUS
  <2>2. d \in Endpoints /\ d # e /\ item \in Items /\ ItemOK(w, v, d, item)
    BY <1>3, <1>4, <1>5, <2>1 DEF Frames, FrameOK
  <2>3. OfTree(item) => \A a \in Above[item.node] : Kind[a] = "container" => ActiveOf[a] # e
    BY <1>8, <2>1
  <2>4. ItemOK(w, u, d, item)
    BY <2>2, <2>3, ItemStays
  <2> QED
    BY <2>1, <2>4
<1> QED
  BY <1>4, <1>9 DEF FrameOK

(* What a command has to do to begin with. *)
FiresFrom(s, e) ==
  /\ s \in Seq(Items)
  /\ \A i \in 1..Len(s) : s[i].do = "fire" /\ s[i].node \in DOMAIN wiring /\ wiring[s[i].node].source = e
  /\ \A c \in DOMAIN wiring : wiring[c].source = e =>
       \E i \in 1..Len(s) : s[i].do = "fire" /\ s[i].node = c

LEMMA FiredIs ==
  ASSUME wiring \in Wirings, NEW e
  PROVE  FiresFrom(Fired(e), e)
<1>1. PICK some : some = {c \in DOMAIN wiring : wiring[c].source = e}
  OBVIOUS
<1>2. some \in SUBSET Nodes
  <2>1. \A c \in DOMAIN wiring : c \in Nodes
    BY SetCommandAssumption
  <2> QED
    BY <1>1, <2>1
<1>3. PICK found : found = InOrder(some)
  OBVIOUS
<1>4. found \in Seq(Nodes) /\ \A n : (\E j \in 1..Len(found) : found[j] = n) <=> n \in some
  BY <1>2, <1>3, InOrderIs
<1>5. Fired(e) = [i \in 1..Len(found) |-> Item("fire", found[i], FALSE)]
  BY <1>1, <1>3 DEF Fired
<1>6. Len(found) \in Nat /\ \A i \in 1..Len(found) : found[i] \in some /\ found[i] \in Nodes
  BY <1>2, <1>4
<1>7. PICK s : s = [i \in 1..Len(found) |-> Item("fire", found[i], FALSE)]
  OBVIOUS
<1>8. s \in Seq(Items) /\ Len(s) = Len(found)
  <2>1. \A i \in 1..Len(found) : Item("fire", found[i], FALSE) \in Items
    BY <1>6 DEF Item, Items
  <2>2. s \in [1..Len(found) -> Items]
    BY <1>7, <2>1
  <2> QED
    BY <1>6, <2>2
<1>9. \A i \in 1..Len(s) : s[i].do = "fire" /\ s[i].node \in DOMAIN wiring /\ wiring[s[i].node].source = e
  BY <1>1, <1>6, <1>7, <1>8 DEF Item
<1>10. ASSUME NEW c \in DOMAIN wiring, wiring[c].source = e
       PROVE  \E i \in 1..Len(s) : s[i].do = "fire" /\ s[i].node = c
  <2>1. PICK i \in 1..Len(found) : found[i] = c
    BY <1>1, <1>4, <1>10
  <2>2. s[i] = Item("fire", c, FALSE) /\ i \in 1..Len(s)
    BY <1>7, <1>8, <2>1
  <2> QED
    BY <2>2 DEF Item
<1>11. FiresFrom(s, e)
  BY <1>8, <1>9, <1>10 DEF FiresFrom
<1> QED
  BY <1>5, <1>7, <1>11

BeginsWith(s, e) ==
  /\ s \in Seq(Items)
  /\ \A i \in 1..Len(s) :
       \/ s[i].do = "fire" /\ s[i].node \in DOMAIN wiring /\ wiring[s[i].node].source = e
       \/ /\ i = Len(s) /\ s[i].do = "handler" /\ s[i].node = OwnerOf[e]
          /\ IsActiveOf(e, {"container"})
  /\ IsActiveOf(e, {"container"}) =>
       \E i \in 1..Len(s) : s[i].do = "handler" /\ s[i].node = OwnerOf[e]
  /\ \A c \in DOMAIN wiring : wiring[c].source = e =>
       \E i \in 1..Len(s) : s[i].do = "fire" /\ s[i].node = c

LEMMA TodoIs ==
  ASSUME wiring \in Wirings, NEW e \in Endpoints
  PROVE  BeginsWith(Todo(e), e)
<1>1. PICK r : r = Fired(e)
  OBVIOUS
<1>2. FiresFrom(r, e)
  BY <1>1, FiredIs
<1>3. OwnerOf[e] \in Nodes
  BY SetCommandAssumption
<1>4. CASE IsActiveOf(e, {"container"})
  <2>1. PICK h : h = Item("handler", OwnerOf[e], FALSE)
    OBVIOUS
  <2>2. h \in Items /\ h.do = "handler" /\ h.node = OwnerOf[e]
    BY <1>3, <2>1 DEF Item, Items
  <2>3. Todo(e) = r \o <<h>>
    BY <1>1, <1>4, <2>1 DEF Todo
  <2>4. PICK s : s = r \o <<h>>
    OBVIOUS
  <2>5. r \in Seq(Items) /\ Len(r) \in Nat
    BY <1>2 DEF FiresFrom
  <2>6. s \in Seq(Items) /\ Len(s) = Len(r) + 1 /\ s[Len(r) + 1] = h /\ \A i \in 1..Len(r) : s[i] = r[i]
    BY <2>2, <2>4, <2>5
  <2>7. \A i \in 1..Len(s) : i \in 1..Len(r) \/ i = Len(s)
    BY <2>5, <2>6
  <2>8. Len(s) \in 1..Len(s) /\ s[Len(s)] = h
    BY <2>5, <2>6
  <2>9. \A c \in DOMAIN wiring : wiring[c].source = e =>
          \E i \in 1..Len(s) : s[i].do = "fire" /\ s[i].node = c
    <3>1. \A i \in 1..Len(r) : i \in 1..Len(s)
      BY <2>5, <2>6
    <3> QED
      BY <1>2, <2>6, <3>1 DEF FiresFrom
  <2>10. BeginsWith(s, e)
    BY <1>2, <1>4, <2>2, <2>6, <2>7, <2>8, <2>9 DEF BeginsWith, FiresFrom
  <2> QED
    BY <2>3, <2>4, <2>10
<1>5. CASE ~IsActiveOf(e, {"container"})
  <2>1. Todo(e) = r \o <<>>
    BY <1>1, <1>5 DEF Todo
  <2>2. r \o <<>> = r
    BY <1>2 DEF FiresFrom
  <2>3. BeginsWith(r, e)
    BY <1>2, <1>5 DEF BeginsWith, FiresFrom
  <2> QED
    BY <2>1, <2>2, <2>3
<1> QED
  BY <1>4, <1>5

LEMMA BeginningOK ==
  ASSUME wiring \in Wirings, NEW e \in Endpoints, NEW source \in Sources, NEW v,
         NEW f, f = [endpoint |-> e, source |-> source, todo |-> Todo(e), again |-> <<>>]
  PROVE  /\ FrameOK(wiring, v, f) /\ f.endpoint = e
         /\ \A n : IsActiveOf(e, {"container"}) /\ OwnerOf[e] \in Above[n] => Covers(f, n)
<1>1. PICK s : s = Todo(e)
  OBVIOUS
<1>2. BeginsWith(s, e)
  BY <1>1, TodoIs
<1>3. s \in Seq(Items) /\ <<>> \in Seq(Nodes) /\ Len(<<>>) = 0
  BY <1>2 DEF BeginsWith
<1>4. f \in Frames /\ f.endpoint = e /\ f.todo = s /\ f.again = <<>>
  BY <1>1, <1>3 DEF Frames
<1>5. \A i \in 1..Len(s) : ItemOK(wiring, v, e, s[i])
  BY <1>2 DEF BeginsWith, ItemOK
<1>6. Sorted(s)
  BY <1>2 DEF BeginsWith, Sorted, OfTree
<1>7. \A i \in 1..Len(f.again) : LeadsDown(e, f.again[i])
  BY <1>3, <1>4
<1>8. FrameOK(wiring, v, f)
  BY <1>4, <1>5, <1>6, <1>7 DEF FrameOK
<1>9. ASSUME NEW n, IsActiveOf(e, {"container"}), OwnerOf[e] \in Above[n] PROVE Covers(f, n)
  BY <1>2, <1>4, <1>9 DEF BeginsWith, Covers, Reaches
<1> QED
  BY <1>4, <1>8, <1>9

ItemsOfChildren(items, do, m, flag) ==
  /\ items \in Seq(Items)
  /\ \A i \in 1..Len(items) :
       /\ items[i].do = do /\ items[i].flag = flag /\ items[i].node \in Nodes
       /\ Parent[items[i].node] = m /\ Above[items[i].node] = {m} \cup Above[m]
  /\ \A k \in Nodes : Parent[k] = m => \E i \in 1..Len(items) : items[i].node = k

LEMMA EachChildIs ==
  ASSUME NEW do \in {"child", "activate"}, NEW m \in Nodes, NEW flag \in BOOLEAN
  PROVE  ItemsOfChildren(EachChild(do, m, flag), do, m, flag)
<1>1. PICK c : c = Children(m)
  OBVIOUS
<1>2. c \in Seq(Nodes) /\ \A n : (\E j \in 1..Len(c) : c[j] = n) <=> n \in Nodes /\ Parent[n] = m
  BY <1>1, ChildrenAre
<1>3. EachChild(do, m, flag) = [i \in 1..Len(c) |-> Item(do, c[i], flag)]
  BY <1>1 DEF EachChild
<1>4. Len(c) \in Nat /\ \A i \in 1..Len(c) : c[i] \in Nodes /\ Parent[c[i]] = m
  BY <1>2
<1>5. PICK s : s = [i \in 1..Len(c) |-> Item(do, c[i], flag)]
  OBVIOUS
<1>6. s \in Seq(Items) /\ Len(s) = Len(c)
  <2>1. \A i \in 1..Len(c) : Item(do, c[i], flag) \in Items
    BY <1>4 DEF Item, Items
  <2>2. s \in [1..Len(c) -> Items]
    BY <1>5, <2>1
  <2> QED
    BY <1>4, <2>2
<1>7. \A i \in 1..Len(s) : s[i].do = do /\ s[i].flag = flag /\ s[i].node = c[i]
  BY <1>5, <1>6 DEF Item
<1>8. \A i \in 1..Len(c) : Above[c[i]] = {m} \cup Above[m]
  <2>1. None \notin Nodes
    BY SetCommandAssumption
  <2> QED
    BY <1>4, <2>1, AboveIs
<1>9. ItemsOfChildren(s, do, m, flag)
  BY <1>2, <1>4, <1>6, <1>7, <1>8 DEF ItemsOfChildren
<1> QED
  BY <1>3, <1>5, <1>9

-----------------------------------------------------------------------------
(* What the nodes are to be *)

SwitchedBy(w, e) == e \in Settable \cup Played \/ \E c \in DOMAIN w : w[c].target = e

(* Nodes that nothing but activation switches. *)
Switched(those, w) ==
  {n \in Nodes \cap those :
     /\ ActiveOf[n] # None /\ Kind[n] # "container" /\ Above[n] # {}
     /\ ~SwitchedBy(w, ActiveOf[n])}

Right(v, n) == On(v, n) <=> AllOn(v, n)

(* Each of them is what it is to be, or will be. *)
Kept(those, w, v, s) == StackOK(w, v, s) /\ \A n \in Switched(those, w) : Right(v, n) \/ Covered(s, n)

(* A command begins that sets e, on a stack s. *)
LEMMA CommandBegins ==
  ASSUME NEW those, wiring \in Wirings, AcyclicBy(wiring), NEW v, NEW s, StackOK(wiring, v, s),
         NEW e \in Endpoints, NEW source \in Sources, s # <<>> => Link(wiring, s[Len(s)], e),
         NEW u, \A f \in Endpoints : f # e => u[f] = v[f],
         \A n \in Switched(those, wiring) :
           Covered(s, n) \/ (ActiveOf[n] # e /\ Right(v, n)) \/ Right(u, n),
         NEW t, t = Append(s, [endpoint |-> e, source |-> source, todo |-> Todo(e), again |-> <<>>])
  PROVE  Kept(those, wiring, u, t)
<1>1. PICK f : f = [endpoint |-> e, source |-> source, todo |-> Todo(e), again |-> <<>>]
  OBVIOUS
<1>2. /\ FrameOK(wiring, u, f) /\ f.endpoint = e
      /\ \A n : IsActiveOf(e, {"container"}) /\ OwnerOf[e] \in Above[n] => Covers(f, n)
  BY <1>1, BeginningOK
<1>3. StackOK(wiring, u, s)
  BY StackStays
<1>4. StackOK(wiring, u, t) /\ \A n : Covered(s, n) \/ Covers(f, n) => Covered(t, n)
  <2>1. FrameOK(wiring, u, f) /\ (s # <<>> => Link(wiring, s[Len(s)], f.endpoint)) /\ t = Append(s, f)
    BY <1>1, <1>2
  <2> QED
    BY <1>3, <2>1, TopPushed
<1>5. ASSUME NEW n \in Switched(those, wiring), ActiveOf[n] # e, Right(v, n), ~Covered(t, n)
      PROVE  Right(u, n)
  <2>1. /\ ActiveOf \in [Nodes -> Endpoints \cup {None}] /\ None \notin Endpoints
        /\ \A a \in Nodes : ActiveOf[a] # None => OwnerOf[ActiveOf[a]] = a
    BY SetCommandAssumption, TreeAssumption
  <2>2. n \in Nodes
    BY DEF Switched
  <2>3. On(u, n) <=> On(v, n)
    BY <1>5, <2>1, <2>2 DEF On
  <2>4. ASSUME NEW a \in Above[n], Kind[a] = "container" PROVE On(u, a) <=> On(v, a)
    <3>1. a \in Nodes
      BY <2>2, AboveNodes
    <3>2. CASE ActiveOf[a] = e
      BY <1>2, <1>4, <1>5, <2>1, <2>4, <3>1, <3>2 DEF IsActiveOf
    <3>3. CASE ActiveOf[a] # e
      BY <2>1, <3>1, <3>3 DEF On
    <3> QED
      BY <3>2, <3>3
  <2>5. AllOn(u, n) <=> AllOn(v, n)
    BY <2>4 DEF AllOn
  <2> QED
    BY <1>5, <2>3, <2>5 DEF Right
<1> QED
  BY <1>4, <1>5 DEF Kept

(* The innermost command gets on *)

LEMMA FirstIs ==
  ASSUME StackOK(wiring, values, stack), stack # <<>>, Command.todo # <<>>
  PROVE  /\ FrameOK(wiring, values, Command) /\ Command \in Frames /\ Len(stack) \in 1..Len(stack)
         /\ First = Command.todo[1] /\ 1 \in 1..Len(Command.todo)
         /\ First \in Items /\ ItemOK(wiring, values, Command.endpoint, First)
<1>1. Len(stack) \in 1..Len(stack) /\ Command = stack[Len(stack)]
  BY TopOf DEF Command, Running
<1>2. FrameOK(wiring, values, Command)
  BY <1>1 DEF StackOK
<1>3. Command \in Frames
  BY <1>2 DEF FrameOK
<1>4. PICK todo : todo = Command.todo
  OBVIOUS
<1>5. todo \in Seq(Items) /\ todo # <<>>
  BY <1>3, <1>4 DEF Frames
<1>6. Head(todo) = todo[1] /\ 1 \in 1..Len(todo) /\ todo[1] \in Items
  BY <1>5
<1>7. ItemOK(wiring, values, Command.endpoint, todo[1])
  BY <1>2, <1>4, <1>6 DEF FrameOK
<1> QED
  BY <1>1, <1>2, <1>3, <1>4, <1>6, <1>7 DEF First

GoneOn(t, items) ==
  /\ StackOK(wiring, values, t) /\ t # <<>> /\ Len(t) = Len(stack)
  /\ t[Len(t)].endpoint = Command.endpoint
  /\ Replaced(Items, Command.todo, items, t[Len(t)].todo)
  /\ \A n : Covered(stack, n) =>
       \/ Covered(t, n)
       \/ Reaches(First, n) /\ \A i \in 1..Len(items) : ~Reaches(items[i], n)

GoingOn(items, again) ==
  [stack EXCEPT ![Len(stack)] =
     [Command EXCEPT !.todo = items \o Tail(Command.todo), !.again = again]]

LEMMA GoesOn ==
  ASSUME StackOK(wiring, values, stack), stack # <<>>, Command.todo # <<>>,
         NEW items \in Seq(Items),
         MayReplace(wiring, values, Command.endpoint, First, items),
         NEW again \in Seq(Nodes), \A i \in 1..Len(again) : LeadsDown(Command.endpoint, again[i])
  PROVE  GoneOn(GoingOn(items, again), items)
<1>1. PICK f : f = Command
  OBVIOUS
<1>2. PICK g : g = [f EXCEPT !.todo = items \o Tail(f.todo), !.again = again]
  OBVIOUS
<1>3. PICK t : t = [stack EXCEPT ![Len(stack)] = g]
  OBVIOUS
<1>4. t = GoingOn(items, again)
  BY <1>1, <1>2, <1>3 DEF GoingOn
<1>5. FrameOK(wiring, values, f) /\ f.todo # <<>> /\ First = f.todo[1] /\ f = stack[Len(stack)]
  BY <1>1, FirstIs DEF Command, Running
<1>6. /\ MayReplace(wiring, values, f.endpoint, f.todo[1], items)
      /\ \A i \in 1..Len(again) : LeadsDown(f.endpoint, again[i])
  BY <1>1, <1>5
<1>7. /\ FrameOK(wiring, values, g) /\ g.endpoint = f.endpoint
      /\ Replaced(Items, f.todo, items, g.todo)
  <2>1. /\ FrameOK(wiring, values, f) /\ f.todo # <<>> /\ items \in Seq(Items)
        /\ MayReplace(wiring, values, f.endpoint, f.todo[1], items)
        /\ again \in Seq(Nodes) /\ \A i \in 1..Len(again) : LeadsDown(f.endpoint, again[i])
        /\ GotOn(f, items, again, g)
    BY <1>2, <1>5, <1>6 DEF GotOn
  <2> QED
    BY <2>1, FrameProceeds
<1>8. g.endpoint = stack[Len(stack)].endpoint
  BY <1>5, <1>7
<1>9. /\ StackOK(wiring, values, t) /\ t # <<>> /\ Len(t) = Len(stack) /\ t[Len(t)] = g
      /\ \A n : Covered(stack, n) /\ (Covers(f, n) => Covers(g, n)) => Covered(t, n)
  <2>1. TopBecomes(stack, g, t)
    BY <1>3 DEF TopBecomes
  <2>2. /\ StackOK(wiring, values, t) /\ t # <<>> /\ Len(t) = Len(stack) /\ t[Len(t)] = g
        /\ CoversStill(stack, g, t)
    BY <1>7, <1>8, <2>1, TopReplaced
  <2> QED
    BY <1>5, <2>2 DEF CoversStill
<1>10. ASSUME NEW n, Covered(stack, n), ~Covered(t, n)
       PROVE  Reaches(First, n) /\ \A i \in 1..Len(items) : ~Reaches(items[i], n)
  <2>1. Covers(f, n) /\ ~Covers(g, n)
    BY <1>9, <1>10
  <2>2. /\ Covers(f, n) => Covers(g, n) \/ Reaches(f.todo[1], n)
        /\ (\E i \in 1..Len(items) : Reaches(items[i], n)) => Covers(g, n)
    BY <1>7, StillCovers
  <2> QED
    BY <1>5, <2>1, <2>2
<1> QED
  BY <1>1, <1>4, <1>7, <1>9, <1>10 DEF GoneOn

(* The stacks of the actions are of that form. *)
LEMMA ProceedIs ==
  ASSUME stack \in Seq(Frames), stack # <<>>, NEW items
  PROVE  Proceed(items) = GoingOn(items, Command.again)
<1>1. PICK f : f = Command
  OBVIOUS
<1>2. /\ Running = Len(stack) /\ Len(stack) \in 1..Len(stack)
      /\ f = stack[Len(stack)] /\ f \in Frames /\ DOMAIN stack = 1..Len(stack)
  BY <1>1 DEF Command, Running
<1>3. PICK todo : todo = items \o Tail(f.todo)
  OBVIOUS
<1>4. [f EXCEPT !.todo = todo, !.again = f.again] = [f EXCEPT !.todo = todo]
  BY <1>2 DEF Frames
<1>5. Proceed(items) = [stack EXCEPT ![Len(stack)] = [f EXCEPT !.todo = todo]]
  BY <1>2, <1>3 DEF Proceed
<1>6. GoingOn(items, f.again) = [stack EXCEPT ![Len(stack)] = [f EXCEPT !.todo = todo, !.again = f.again]]
  BY <1>1, <1>3 DEF GoingOn
<1> QED
  BY <1>1, <1>4, <1>5, <1>6

LEMMA ProceedAgainIs ==
  ASSUME stack \in Seq(Frames), stack # <<>>, NEW items, NEW flag \in BOOLEAN, NEW n
  PROVE  [Proceed(items) EXCEPT ![Running].again = IF flag THEN Append(@, n) ELSE @]
           = GoingOn(items, IF flag THEN Append(Command.again, n) ELSE Command.again)
<1>1. PICK f : f = Command
  OBVIOUS
<1>2. /\ Running = Len(stack) /\ Len(stack) \in 1..Len(stack)
      /\ f = stack[Len(stack)] /\ f \in Frames /\ DOMAIN stack = 1..Len(stack)
  BY <1>1 DEF Command, Running
<1>3. PICK todo, again : /\ todo = items \o Tail(f.todo)
                         /\ again = IF flag THEN Append(f.again, n) ELSE f.again
  OBVIOUS
<1>4. PICK g : g = [f EXCEPT !.todo = todo, !.again = f.again]
  OBVIOUS
<1>5. PICK s : s = Proceed(items)
  OBVIOUS
<1>6. s = [stack EXCEPT ![Len(stack)] = g]
  BY <1>1, <1>3, <1>4, <1>5, ProceedIs DEF GoingOn
<1>7. s[Running] = g /\ g.again = f.again /\ DOMAIN s = DOMAIN stack
  BY <1>2, <1>4, <1>6 DEF Frames
<1>8. [s EXCEPT ![Running].again = IF flag THEN Append(@, n) ELSE @]
        = [s EXCEPT ![Running] = [g EXCEPT !.again = again]]
  BY <1>2, <1>3, <1>7
<1>9. [g EXCEPT !.again = again] = [f EXCEPT !.todo = todo, !.again = again]
  BY <1>2, <1>4 DEF Frames
<1>10. PICK h : h = [g EXCEPT !.again = again]
  OBVIOUS
<1>11. [s EXCEPT ![Running] = h] = [stack EXCEPT ![Len(stack)] = h]
  BY <1>2, <1>6
<1>12. GoingOn(items, again) = [stack EXCEPT ![Len(stack)] = h]
  BY <1>1, <1>3, <1>9, <1>10 DEF GoingOn
<1> QED
  BY <1>1, <1>3, <1>5, <1>8, <1>10, <1>11, <1>12

-----------------------------------------------------------------------------
(* Steps that issue no command *)

LEMMA ContinueKeeps ==
  ASSUME NEW those, Kept(those, wiring, values, stack), stack # <<>>, Command.todo # <<>>,
         NEW items \in Seq(Items), Continue(items),
         MayReplace(wiring, values, Command.endpoint, First, items),
         \A n \in Switched(those, wiring) : Reaches(First, n) =>
           Right(values, n) \/ \E i \in 1..Len(items) : Reaches(items[i], n)
  PROVE  Kept(those, wiring, values, stack)'
<1>1. StackOK(wiring, values, stack) /\ stack \in Seq(Frames)
  BY DEF Kept, StackOK
<1>2. PICK again : again = Command.again
  OBVIOUS
<1>3. again \in Seq(Nodes) /\ \A i \in 1..Len(again) : LeadsDown(Command.endpoint, again[i])
  BY <1>1, <1>2, FirstIs DEF FrameOK, Frames
<1>4. GoneOn(GoingOn(items, again), items)
  BY <1>1, <1>3, GoesOn
<1>5. stack' = GoingOn(items, again) /\ values' = values /\ wiring' = wiring
  BY <1>1, <1>2, ProceedIs DEF Continue
<1>6. GoneOn(stack', items)
  BY <1>4, <1>5
<1>7. StackOK(wiring, values, stack')
  BY <1>6 DEF GoneOn
<1>8. ASSUME NEW n \in Switched(those, wiring) PROVE Right(values, n) \/ Covered(stack', n)
  <2>1. Right(values, n) \/ Covered(stack, n)
    BY DEF Kept
  <2>2. Covered(stack, n) =>
       \/ Covered(stack', n)
       \/ Reaches(First, n) /\ \A i \in 1..Len(items) : ~Reaches(items[i], n)
    BY <1>6 DEF GoneOn
  <2> QED
    BY <2>1, <2>2
<1>9. Kept(those, wiring, values, stack')
  BY <1>7, <1>8 DEF Kept
<1>10. Kept(those, wiring', values', stack')
  BY <1>5, <1>9
<1> QED
  BY <1>10 DEF Kept, StackOK, Covered

LEMMA SkipKeeps ==
  ASSUME NEW those, Kept(those, wiring, values, stack), SkipConnection
  PROVE  Kept(those, wiring, values, stack)'
<1>1. PICK items : items = <<>>
  OBVIOUS
<1>2. items \in Seq(Items) /\ Len(items) = 0
  BY <1>1
<1>3. stack # <<>> /\ Command.todo # <<>> /\ First.do = "fire" /\ Continue(items)
  BY <1>1 DEF SkipConnection, Doing
<1>4. MayReplace(wiring, values, Command.endpoint, First, items)
  BY <1>2 DEF MayReplace
<1>5. \A n \in Switched(those, wiring) : ~Reaches(First, n)
  BY <1>3 DEF Reaches, OfTree
<1> QED
  BY <1>2, <1>3, <1>4, <1>5, ContinueKeeps

(* The children of what was first take its place. *)
LEMMA ChildrenMay ==
  ASSUME NEW do \in {"child", "activate"}, NEW m, NEW flag, NEW items, NEW head, NEW w, NEW v, NEW e,
         ItemsOfChildren(items, do, m, flag), head.node = m,
         head.do = "handler" \/ OfTree(head),
         \A k \in Nodes : Parent[k] = m => ItemOK(w, v, e, Item(do, k, flag))
  PROVE  /\ MayReplace(w, v, e, head, items)
         /\ \A n \in Nodes : m \in Above[n] => \E i \in 1..Len(items) : Reaches(items[i], n)
<1>1. ASSUME NEW i \in 1..Len(items)
      PROVE  ItemOK(w, v, e, items[i]) /\ OfTree(items[i]) /\ Above[items[i].node] = {m} \cup Above[m]
  <2>1. /\ items[i].do = do /\ items[i].flag = flag /\ items[i].node \in Nodes
        /\ Parent[items[i].node] = m /\ Above[items[i].node] = {m} \cup Above[m]
        /\ items[i] \in Items
    BY DEF ItemsOfChildren
  <2>2. items[i] = Item(do, items[i].node, flag)
    BY <2>1 DEF Item, Items
  <2>3. ItemOK(w, v, e, Item(do, items[i].node, flag))
    BY <2>1
  <2> QED
    BY <2>1, <2>2, <2>3 DEF OfTree
<1>2. MayReplace(w, v, e, head, items)
  BY <1>1 DEF MayReplace
<1>3. ASSUME NEW n \in Nodes, m \in Above[n] PROVE \E i \in 1..Len(items) : Reaches(items[i], n)
  <2>1. m \in Nodes
    BY <1>3, AboveNodes
  <2>2. PICK k \in Nodes : Parent[k] = m /\ k \in {n} \cup Above[n]
    BY <1>3, <2>1, WayDown
  <2>3. PICK i \in 1..Len(items) : items[i].node = k
    BY <2>2 DEF ItemsOfChildren
  <2> QED
    BY <1>1, <2>2, <2>3 DEF Reaches
<1> QED
  BY <1>2, <1>3

LEMMA BeginKeeps ==
  ASSUME NEW those, Kept(those, wiring, values, stack), BeginActivation
  PROVE  Kept(those, wiring, values, stack)'
<1>1. PICK e, m, flag : e = Command.endpoint /\ m = First.node /\ flag = (values[e] # 0)
  OBVIOUS
<1>2. stack # <<>> /\ Command.todo # <<>> /\ First.do = "handler" /\ StackOK(wiring, values, stack)
  BY DEF BeginActivation, Doing, Kept
<1>3. /\ Command \in Frames /\ First \in Items /\ ItemOK(wiring, values, e, First)
      /\ None \notin Endpoints
  BY <1>1, <1>2, FirstIs, SetCommandAssumption
<1>4. e \in Endpoints /\ m \in Nodes /\ flag \in BOOLEAN /\ IsActiveOf(e, {"container"}) /\ m = OwnerOf[e]
  BY <1>1, <1>2, <1>3 DEF Frames, Items, ItemOK
<1>5. flag = On(values, OwnerOf[e])
  BY <1>1, <1>3, <1>4 DEF On, IsActiveOf
<1>6. PICK items : items = EachChild("child", m, flag)
  OBVIOUS
<1>7. ItemsOfChildren(items, "child", m, flag) /\ Continue(items)
  BY <1>1, <1>4, <1>6, EachChildIs DEF BeginActivation
<1>8. \A k \in Nodes : Parent[k] = m => ItemOK(wiring, values, e, Item("child", k, flag))
  BY <1>4, <1>5 DEF ItemOK, Item
<1>9. /\ MayReplace(wiring, values, e, First, items)
      /\ \A n \in Nodes : m \in Above[n] => \E i \in 1..Len(items) : Reaches(items[i], n)
  BY <1>1, <1>2, <1>7, <1>8, ChildrenMay
<1>10. \A n \in Switched(those, wiring) : Reaches(First, n) => \E i \in 1..Len(items) : Reaches(items[i], n)
  BY <1>1, <1>2, <1>9 DEF Reaches, Switched, OfTree
<1>11. items \in Seq(Items)
  BY <1>7 DEF ItemsOfChildren
<1> QED
  BY <1>1, <1>2, <1>7, <1>9, <1>10, <1>11, ContinueKeeps

(* What a node in the tree is to be is what the containers above it are. *)
LEMMA FlagIs ==
  ASSUME StackOK(wiring, values, stack), Doing("child") \/ Doing("activate")
  PROVE  Flag \in BOOLEAN /\ (Flag <=> AllOn(values, First.node))
<1>1. PICK e, m : e = Command.endpoint /\ m = First.node
  OBVIOUS
<1>2. stack # <<>> /\ Command.todo # <<>> /\ (First.do = "child" \/ First.do = "activate")
  BY DEF Doing
<1>3. /\ Command \in Frames /\ First \in Items /\ ItemOK(wiring, values, e, First)
      /\ None \notin Nodes
  BY <1>1, <1>2, FirstIs, SetCommandAssumption
<1>4. /\ e \in Endpoints /\ m \in Nodes /\ IsActiveOf(e, {"container"}) /\ OwnerOf[e] \in Nodes
      /\ First.flag \in BOOLEAN
  BY <1>1, <1>2, <1>3, SetCommandAssumption DEF Frames, Items, ItemOK
<1>5. Flag \in BOOLEAN
  BY <1>4 DEF Flag
<1>6. CASE First.do = "activate"
  BY <1>1, <1>3, <1>6 DEF ItemOK, Flag
<1>7. CASE First.do = "child"
  <2>1. Parent[m] = OwnerOf[e] /\ First.flag = On(values, OwnerOf[e])
    BY <1>1, <1>3, <1>7 DEF ItemOK
  <2>2. Above[m] = {OwnerOf[e]} \cup Above[OwnerOf[e]]
    BY <1>3, <1>4, <2>1, AboveIs
  <2>3. Kind[OwnerOf[e]] = "container"
    BY <1>4 DEF IsActiveOf
  <2>4. \A a \in Above[OwnerOf[e]] : Kind[a] = "container"
    BY <1>4, <2>3, Holders
  <2>5. AllOn(values, m) <=> On(values, OwnerOf[e]) /\ \A a \in Above[OwnerOf[e]] : On(values, a)
    BY <2>2, <2>3, <2>4 DEF AllOn
  <2>6. \A a : NodeIsActive(a) <=> On(values, a)
    BY DEF NodeIsActive, On
  <2>7. Flag <=> On(values, OwnerOf[e]) /\ \A a \in Above[OwnerOf[e]] : On(values, a)
    BY <1>1, <1>7, <2>1, <2>6 DEF Flag, AllAncestorsActive
  <2> QED
    BY <1>1, <1>5, <2>5, <2>7
<1> QED
  BY <1>2, <1>5, <1>6, <1>7

(* What is passed on to the children of a node in the tree. *)
LEMMA PassedOn ==
  ASSUME StackOK(wiring, values, stack), Doing("child") \/ Doing("activate"),
         NEW flag \in BOOLEAN, NEW items, items = EachChild("activate", First.node, flag),
         flag <=> Flag /\ (Kind[First.node] = "container" => On(values, First.node))
  PROVE  /\ items \in Seq(Items) /\ First.node \in Nodes
         /\ ItemsOfChildren(items, "activate", First.node, flag)
         /\ MayReplace(wiring, values, Command.endpoint, First, items)
         /\ \A n \in Nodes : First.node \in Above[n] => \E i \in 1..Len(items) : Reaches(items[i], n)
<1>1. PICK e, m : e = Command.endpoint /\ m = First.node
  OBVIOUS
<1>2. stack # <<>> /\ Command.todo # <<>> /\ (First.do = "child" \/ First.do = "activate")
  BY DEF Doing
<1>3. /\ First \in Items /\ ItemOK(wiring, values, e, First) /\ None \notin Nodes
  BY <1>1, <1>2, FirstIs, SetCommandAssumption
<1>4. m \in Nodes /\ IsActiveOf(e, {"container"}) /\ OfTree(First)
  BY <1>1, <1>2, <1>3 DEF Items, ItemOK, OfTree
<1>5. ItemsOfChildren(items, "activate", m, flag)
  BY <1>1, <1>4, EachChildIs
<1>6. OwnerOf[e] \in {m} \cup Above[m]
  <2>1. OwnerOf[e] \in Nodes
    <3>1. Command \in Frames
      BY <1>2, FirstIs
    <3> QED
      BY <1>1, <3>1, SetCommandAssumption DEF Frames
  <2>2. CASE First.do = "child"
    BY <1>1, <1>3, <1>4, <2>1, <2>2, AboveIs DEF ItemOK
  <2>3. CASE First.do = "activate"
    BY <1>1, <1>3, <2>3 DEF ItemOK
  <2> QED
    BY <1>2, <2>2, <2>3
<1>7. ASSUME NEW k \in Nodes, Parent[k] = m PROVE ItemOK(wiring, values, e, Item("activate", k, flag))
  <2>1. Above[k] = {m} \cup Above[m]
    BY <1>3, <1>4, <1>7, AboveIs
  <2>2. Flag <=> AllOn(values, m)
    BY <1>1, FlagIs
  <2>3. flag <=> AllOn(values, k)
    BY <1>1, <2>1, <2>2 DEF AllOn
  <2>4. AllOn(values, k) \in BOOLEAN
    BY DEF AllOn
  <2>5. flag = AllOn(values, k)
    BY <2>3, <2>4
  <2> QED
    BY <1>4, <1>6, <2>1, <2>5 DEF ItemOK, Item
<1>8. /\ MayReplace(wiring, values, e, First, items)
      /\ \A n \in Nodes : m \in Above[n] => \E i \in 1..Len(items) : Reaches(items[i], n)
  BY <1>1, <1>4, <1>5, <1>7, ChildrenMay
<1>9. items \in Seq(Items)
  BY <1>5 DEF ItemsOfChildren
<1> QED
  BY <1>1, <1>4, <1>5, <1>8, <1>9

LEMMA DescendKeeps ==
  ASSUME NEW those, Kept(those, wiring, values, stack), Descend
  PROVE  Kept(those, wiring, values, stack)'
<1>1. /\ stack # <<>> /\ Command.todo # <<>> /\ StackOK(wiring, values, stack)
      /\ OfTree(First) /\ Kind[First.node] = "container"
  BY DEF Descend, Doing, Kept, OfTree
<1>2. PICK flag : flag = (Flag /\ NodeIsActive(First.node))
  OBVIOUS
<1>3. flag \in BOOLEAN /\ (flag <=> Flag /\ On(values, First.node))
  BY <1>2 DEF NodeIsActive, On
<1>4. PICK items : items = EachChild("activate", First.node, flag)
  OBVIOUS
<1>5. Continue(items) /\ (Doing("child") \/ Doing("activate"))
  BY <1>2, <1>4 DEF Descend
<1>6. /\ items \in Seq(Items) /\ MayReplace(wiring, values, Command.endpoint, First, items)
      /\ \A n \in Nodes : First.node \in Above[n] => \E i \in 1..Len(items) : Reaches(items[i], n)
  BY <1>1, <1>3, <1>4, <1>5, PassedOn
<1>7. \A n \in Switched(those, wiring) : Reaches(First, n) => \E i \in 1..Len(items) : Reaches(items[i], n)
  BY <1>1, <1>6 DEF Reaches, Switched, OfTree
<1> QED
  BY <1>1, <1>5, <1>6, <1>7, ContinueKeeps

(* Only containers are above what is switched. *)
LEMMA SwitchedIsBelow ==
  ASSUME NEW those, NEW w, NEW n \in Switched(those, w), NEW m, Kind[m] # "container", NEW item, item.node = m,
         OfTree(item), Reaches(item, n)
  PROVE  m = n
<1>1. n \in Nodes /\ ActiveOf[n] # None
  BY DEF Switched
<1>2. \A a \in Above[n] : Kind[a] = "container"
  BY <1>1, Holders
<1> QED
  BY <1>2 DEF Reaches, OfTree

LEMMA LeaveKeeps ==
  ASSUME NEW those, Kept(those, wiring, values, stack), LeaveNode
  PROVE  Kept(those, wiring, values, stack)'
<1>1. /\ stack # <<>> /\ Command.todo # <<>> /\ StackOK(wiring, values, stack)
      /\ OfTree(First) /\ Kind[First.node] # "container" /\ HasFlag(First.node, Flag)
  BY DEF LeaveNode, Doing, Kept, OfTree
<1>2. PICK items : items = EachChild("activate", First.node, Flag)
  OBVIOUS
<1>3. Continue(items) /\ (Doing("child") \/ Doing("activate"))
  BY <1>2 DEF LeaveNode
<1>4. Flag \in BOOLEAN /\ (Flag <=> AllOn(values, First.node))
  BY <1>1, <1>3, FlagIs
<1>5. /\ items \in Seq(Items) /\ MayReplace(wiring, values, Command.endpoint, First, items)
  BY <1>1, <1>2, <1>3, <1>4, PassedOn
<1>6. ASSUME NEW n \in Switched(those, wiring), Reaches(First, n) PROVE Right(values, n)
  <2>1. n = First.node /\ ActiveOf[n] # None
    <3>1. n = First.node
      BY <1>1, <1>6, SwitchedIsBelow
    <3> QED
      BY <3>1 DEF Switched
  <2>2. values[ActiveOf[n]] = IF Flag THEN 1 ELSE 0
    BY <1>1, <2>1 DEF HasFlag
  <2>3. On(values, n) <=> Flag
    BY <1>4, <2>1, <2>2 DEF On
  <2> QED
    BY <1>4, <2>1, <2>3 DEF Right
<1> QED
  BY <1>1, <1>3, <1>5, <1>6, ContinueKeeps

LEMMA PopKeeps ==
  ASSUME NEW those, Kept(those, wiring, values, stack), Pop
  PROVE  Kept(those, wiring, values, stack)'
<1>1. PICK t : TopGoes(stack, t)
  BY DEF TopGoes
<1>2. /\ stack # <<>> /\ Command.todo = <<>> /\ StackOK(wiring, values, stack)
      /\ stack' = t /\ values' = values /\ wiring' = wiring
  BY <1>1 DEF Pop, Kept, Running, TopGoes
<1>3. /\ StackOK(wiring, values, t)
      /\ \A n : Covered(stack, n) /\ ~Covers(stack[Len(stack)], n) => Covered(t, n)
  <2>1. StackOK(wiring, values, t) /\ CoversTheRest(stack, t)
    BY <1>1, <1>2, TopPopped
  <2> QED
    BY <2>1 DEF CoversTheRest
<1>4. \A n : ~Covers(stack[Len(stack)], n)
  <2>1. stack[Len(stack)].todo = <<>> /\ Len(<<>>) = 0
    BY <1>2 DEF Command, Running
  <2> QED
    BY <2>1 DEF Covers
<1>5. Kept(those, wiring, values, t)
  BY <1>3, <1>4 DEF Kept
<1>6. Kept(those, wiring', values', stack')
  BY <1>2, <1>5
<1> QED
  BY <1>6 DEF Kept, StackOK, Covered

-----------------------------------------------------------------------------
(* Steps that issue a command *)

LEMMA IssueKeeps ==
  ASSUME NEW those, TypeOK, wiring \in Wirings, AcyclicBy(wiring),
         NEW t, StackOK(wiring, values, t), NEW e \in Endpoints, NEW x, NEW source \in Sources,
         Set(e, x, source, t), t # <<>> => Link(wiring, t[Len(t)], e),
         Refused(e, x, source) => \A n \in Switched(those, wiring) : Covered(t, n) \/ Right(values, n),
         ~Refused(e, x, source) =>
           \A n \in Switched(those, wiring) :
             Covered(t, n) \/ (ActiveOf[n] # e /\ Right(values, n)) \/ Right(values', n)
  PROVE  Kept(those, wiring, values, stack)'
<1>1. PICK u, s : u = values' /\ s = stack'
  OBVIOUS
<1>2. wiring' = wiring
  BY DEF Set
<1>3. Kept(those, wiring, u, s)
  <2>1. CASE Refused(e, x, source)
    BY <1>1, <2>1 DEF Set, Kept
  <2>2. CASE ~Refused(e, x, source)
    <3>1. \A f \in Endpoints : f # e => u[f] = values[f]
      BY <1>1, <2>2 DEF Set, TypeOK
    <3>2. s = Append(t, [endpoint |-> e, source |-> source, todo |-> Todo(e), again |-> <<>>])
      BY <1>1, <2>2 DEF Set
    <3>3. \A n \in Switched(those, wiring) :
            Covered(t, n) \/ (ActiveOf[n] # e /\ Right(values, n)) \/ Right(u, n)
      BY <1>1, <2>2 DEF Right, On, AllOn
    <3> QED
      BY <3>1, <3>2, <3>3, CommandBegins
  <2> QED
    BY <2>1, <2>2
<1>4. Kept(those, wiring', values', stack')
  BY <1>1, <1>2, <1>3
<1> QED
  BY <1>4 DEF Kept, StackOK, Covered

(* What is left to do of what there was is no further up than the first.   *)
LEMMA LeftToDo ==
  ASSUME NEW s, NEW items, NEW r, Replaced(Items, s, items, r), Sorted(s), NEW i \in 1..Len(r)
  PROVE  \/ \E j \in 1..Len(items) : r[i] = items[j]
         \/ OfTree(r[i]) => OfTree(s[1]) /\ Above[r[i].node] \subseteq Above[s[1].node]
<1>0. /\ Len(s) \in Nat \ {0} /\ Len(items) \in Nat /\ Len(r) = Len(items) + (Len(s) - 1)
      /\ \A k \in 1..Len(items) : r[k] = items[k]
      /\ \A k \in 1..(Len(s) - 1) : r[Len(items) + k] = s[k + 1]
  BY DEF Replaced
<1>1. CASE i \in 1..Len(items)
  BY <1>0, <1>1
<1>2. CASE i \notin 1..Len(items)
  <2>1. PICK k : k = i - Len(items)
    OBVIOUS
  <2>2. k \in 1..(Len(s) - 1) /\ i = Len(items) + k /\ k + 1 \in 1..Len(s) /\ 1 \in 1..Len(s) /\ 1 < k + 1
    BY <1>0, <1>2, <2>1
  <2>3. r[i] = s[k + 1]
    BY <1>0, <2>2
  <2> QED
    BY <2>2, <2>3 DEF Sorted
<1> QED
  BY <1>1, <1>2

LEMMA FireKeeps ==
  ASSUME NEW those, TypeOK, wiring \in Wirings, AcyclicBy(wiring), Kept(those, wiring, values, stack), FireConnection
  PROVE  Kept(those, wiring, values, stack)'
<1>1. PICK e, c, f, x, again, items :
        /\ e = Command.endpoint /\ c = First.node /\ f = wiring[c].target /\ x = Converted(e, f)
        /\ again = Command.again /\ items = <<>>
  OBVIOUS
<1>2. /\ stack # <<>> /\ Command.todo # <<>> /\ First.do = "fire" /\ f # None
      /\ Set(f, x, "CONNECTION", Proceed(items))
  BY <1>1 DEF FireConnection, Doing, Issue
<1>3. StackOK(wiring, values, stack) /\ stack \in Seq(Frames) /\ items \in Seq(Items) /\ Len(items) = 0
  BY <1>1 DEF Kept, StackOK
<1>4. /\ FrameOK(wiring, values, Command) /\ Command \in Frames /\ First \in Items
      /\ First = Command.todo[1] /\ ItemOK(wiring, values, e, First)
  BY <1>1, <1>2, <1>3, FirstIs
<1>5. /\ again \in Seq(Nodes) /\ \A i \in 1..Len(again) : LeadsDown(Command.endpoint, again[i])
      /\ Sorted(Command.todo)
  BY <1>1, <1>4 DEF FrameOK, Frames
<1>6. c \in DOMAIN wiring /\ wiring[c].source = e /\ wiring[c] = [source |-> e, target |-> f] /\ f \in Endpoints
  <2>1. c \in DOMAIN wiring /\ wiring[c].source = e
    BY <1>1, <1>2, <1>4 DEF ItemOK
  <2>2. wiring[c] \in [source : Endpoints, target : Endpoints \cup {None}]
    BY <2>1, SetCommandAssumption
  <2> QED
    BY <1>1, <1>2, <2>1, <2>2
<1>7. PICK t : t = GoingOn(items, again)
  OBVIOUS
<1>8. GoneOn(t, items) /\ t = Proceed(items)
  <2>1. MayReplace(wiring, values, Command.endpoint, First, items)
    BY <1>3 DEF MayReplace
  <2>2. GoneOn(GoingOn(items, again), items)
    BY <1>2, <1>3, <1>5, <2>1, GoesOn
  <2>3. t = Proceed(items)
    BY <1>1, <1>2, <1>3, <1>7, ProceedIs
  <2> QED
    BY <1>7, <2>2, <2>3
<1>9. Link(wiring, t[Len(t)], f)
  <2>1. PICK g : g = t[Len(t)]
    OBVIOUS
  <2>2. g.endpoint = e /\ Replaced(Items, Command.todo, items, g.todo)
    BY <1>1, <1>8, <2>1 DEF GoneOn
  <2>3. ASSUME NEW i \in 1..Len(g.todo) PROVE ~OfTree(g.todo[i])
    <3>1. PICK s, r : s = Command.todo /\ r = g.todo
      OBVIOUS
    <3>2. Replaced(Items, s, items, r) /\ Sorted(s) /\ i \in 1..Len(r)
      BY <1>5, <2>2, <3>1
    <3>3. \/ \E j \in 1..Len(items) : r[i] = items[j]
          \/ OfTree(r[i]) => OfTree(s[1]) /\ Above[r[i].node] \subseteq Above[s[1].node]
      BY <3>2, LeftToDo
    <3> QED
      BY <1>2, <1>3, <1>4, <3>1, <3>3 DEF OfTree
  <2>4. LeadsBy(wiring, e, f)
    BY <1>6 DEF LeadsBy
  <2> QED
    BY <2>1, <2>2, <2>3, <2>4 DEF Link
<1>10. ASSUME NEW n \in Switched(those, wiring)
       PROVE  Covered(t, n) \/ (ActiveOf[n] # f /\ Right(values, n))
  <2>1. Covered(stack, n) \/ Right(values, n)
    BY DEF Kept
  <2>2. Covered(stack, n) => Covered(t, n)
    BY <1>2, <1>8 DEF GoneOn, Reaches, OfTree
  <2>3. ActiveOf[n] # f
    BY <1>1, <1>6 DEF Switched, SwitchedBy
  <2> QED
    BY <2>1, <2>2, <2>3
<1>11. StackOK(wiring, values, t) /\ "CONNECTION" \in Sources /\ Set(f, x, "CONNECTION", t)
  BY <1>2, <1>8 DEF GoneOn, Sources
<1> QED
  BY <1>6, <1>9, <1>10, <1>11, IssueKeeps

(* A command from outside. *)
LEMMA OutsideKeeps ==
  ASSUME NEW those, TypeOK, wiring \in Wirings, AcyclicBy(wiring), Kept(those, wiring, values, stack), stack = <<>>,
         NEW e \in Settable \cup Played, NEW x, NEW source \in Sources, Set(e, x, source, <<>>)
  PROVE  Kept(those, wiring, values, stack)'
<1>1. e \in Endpoints
  BY SetCommandAssumption
<1>2. PICK t : t = stack
  OBVIOUS
<1>3. StackOK(wiring, values, t) /\ t = <<>> /\ Len(t) = 0 /\ Set(e, x, source, t)
  BY <1>2 DEF Kept
<1>4. \A n \in Switched(those, wiring) : ActiveOf[n] # e /\ Right(values, n)
  <2>1. \A n : ~Covered(stack, n)
    BY <1>2, <1>3 DEF Covered
  <2> QED
    BY <2>1 DEF Kept, Switched, SwitchedBy
<1> QED
  BY <1>1, <1>3, <1>4, IssueKeeps

LEMMA SwitchLeads ==
  ASSUME NEW w, NEW e, NEW m \in Nodes, LeadsDown(e, m)
  PROVE  ActiveOf[m] \in Endpoints /\ OwnerOf[ActiveOf[m]] = m /\ LeadsBy(w, e, ActiveOf[m])
<1>1. ActiveOf[m] \in Endpoints /\ OwnerOf[ActiveOf[m]] = m
  BY SetCommandAssumption, TreeAssumption DEF LeadsDown
<1> QED
  BY <1>1 DEF LeadsDown, LeadsBy

(* A node is switched once its turn has come. *)
LEMMA TurnComes ==
  ASSUME StackOK(wiring, values, stack), Doing("child") \/ Doing("activate"),
         Kind[First.node] # "container", ActiveOf[First.node] # None
  PROVE  First.node \in Nodes /\ LeadsDown(Command.endpoint, First.node)
<1>1. PICK e, m : e = Command.endpoint /\ m = First.node
  OBVIOUS
<1>2. stack # <<>> /\ Command.todo # <<>> /\ (First.do = "child" \/ First.do = "activate")
  BY DEF Doing
<1>3. /\ Command \in Frames /\ First \in Items /\ ItemOK(wiring, values, e, First)
      /\ None \notin Nodes
  BY <1>1, <1>2, FirstIs, SetCommandAssumption
<1>4. m \in Nodes /\ IsActiveOf(e, {"container"}) /\ OwnerOf[e] \in Nodes
  BY <1>1, <1>2, <1>3, SetCommandAssumption DEF Frames, Items, ItemOK
<1>5. CASE First.do = "child"
  BY <1>1, <1>3, <1>4, <1>5, AboveIs DEF ItemOK, LeadsDown
<1>6. CASE First.do = "activate"
  BY <1>1, <1>3, <1>4, <1>6 DEF ItemOK, LeadsDown
<1> QED
  BY <1>1, <1>2, <1>4, <1>5, <1>6

(* A command from within to switch a node is not refused. *)
LEMMA NotRefused ==
  ASSUME StackOK(wiring, values, stack), AcyclicBy(wiring), CheckerKnowsStack, stack # <<>>,
         NEW m \in Nodes, LeadsDown(Command.endpoint, m), NEW x \in {0, 1}
  PROVE  ~Refused(ActiveOf[m], x, "SYSTEM")
<1>1. PICK f : f = ActiveOf[m]
  OBVIOUS
<1>2. f \in Endpoints /\ LeadsBy(wiring, stack[Len(stack)].endpoint, f)
  BY <1>1, SwitchLeads DEF Command, Running
<1>3. \A i \in 1..Len(stack) : stack[i].endpoint # f
  BY <1>2, NoWayBack
<1>4. f \notin DOMAIN checker
  BY <1>3 DEF CheckerKnowsStack
<1>5. Conforms(f, x)
  BY <1>1, TreeAssumption DEF Conforms, LeadsDown
<1> QED
  BY <1>1, <1>4, <1>5 DEF Refused, Reentrance

LEMMA ActivateKeeps ==
  ASSUME NEW those, TypeOK, wiring \in Wirings, AcyclicBy(wiring), Kept(those, wiring, values, stack),
         CheckerKnowsStack, ActivateNode
  PROVE  Kept(those, wiring, values, stack)'
<1>1. PICK e, m, f, x, items, again :
        /\ e = Command.endpoint /\ m = First.node /\ f = ActiveOf[m] /\ x = (IF Flag THEN 1 ELSE 0)
        /\ items = EachChild("activate", m, Flag)
        /\ again = IF Flag THEN Append(Command.again, m) ELSE Command.again
  OBVIOUS
<1>2. /\ stack # <<>> /\ Command.todo # <<>> /\ OfTree(First) /\ StackOK(wiring, values, stack)
      /\ stack \in Seq(Frames)
      /\ Doing("child") \/ Doing("activate")
      /\ Kind[m] # "container" /\ ~HasFlag(m, Flag)
  BY <1>1 DEF ActivateNode, Doing, Kept, OfTree, StackOK
<1>3. ActiveOf[m] # None
  BY <1>2 DEF HasFlag
<1>4. Flag \in BOOLEAN /\ (Flag <=> AllOn(values, m))
  BY <1>1, <1>2, FlagIs
<1>5. m \in Nodes /\ LeadsDown(e, m)
  BY <1>1, <1>2, <1>3, TurnComes
<1>6. f \in Endpoints /\ OwnerOf[f] = m /\ LeadsBy(wiring, e, f)
  BY <1>1, <1>5, SwitchLeads
<1>7. /\ items \in Seq(Items) /\ ItemsOfChildren(items, "activate", m, Flag)
      /\ MayReplace(wiring, values, e, First, items)
  BY <1>1, <1>2, <1>4, PassedOn
<1>8. Command \in Frames /\ FrameOK(wiring, values, Command) /\ First = Command.todo[1]
  BY <1>2, FirstIs
<1>9. /\ again \in Seq(Nodes) /\ \A i \in 1..Len(again) : LeadsDown(Command.endpoint, again[i])
      /\ Sorted(Command.todo)
  <2>1. PICK a : a = Command.again
    OBVIOUS
  <2>2. a \in Seq(Nodes) /\ \A i \in 1..Len(a) : LeadsDown(e, a[i])
    BY <1>1, <1>8, <2>1 DEF FrameOK, Frames
  <2>3. Append(a, m) \in Seq(Nodes) /\ \A i \in 1..Len(Append(a, m)) : LeadsDown(e, Append(a, m)[i])
    <3>1. PICK b : b = Append(a, m)
      OBVIOUS
    <3>2. /\ b \in Seq(Nodes) /\ Len(b) = Len(a) + 1 /\ Len(a) \in Nat /\ b[Len(a) + 1] = m
          /\ \A i \in 1..Len(a) : b[i] = a[i]
      BY <1>5, <2>2, <3>1
    <3>3. \A i \in 1..Len(b) : i \in 1..Len(a) \/ i = Len(a) + 1
      BY <3>2
    <3>4. \A i \in 1..Len(b) : LeadsDown(e, b[i])
      BY <1>5, <2>2, <3>2, <3>3
    <3> QED
      BY <3>1, <3>2, <3>4
  <2>4. again = Append(a, m) \/ again = a
    BY <1>1, <2>1
  <2>5. again \in Seq(Nodes) /\ \A i \in 1..Len(again) : LeadsDown(e, again[i])
    BY <2>2, <2>3, <2>4
  <2>6. Sorted(Command.todo)
    BY <1>8 DEF FrameOK
  <2> QED
    BY <1>1, <2>5, <2>6
<1>10. PICK t : t = GoingOn(items, again)
  OBVIOUS
<1>11. GoneOn(t, items)
  BY <1>1, <1>2, <1>7, <1>9, <1>10, GoesOn
<1>12. Set(f, x, "SYSTEM", t)
  <2>1. Set(f, x, "SYSTEM", [Proceed(items) EXCEPT ![Running].again = IF Flag THEN Append(@, m) ELSE @])
    BY <1>1 DEF ActivateNode, Issue
  <2>2. [Proceed(items) EXCEPT ![Running].again = IF Flag THEN Append(@, m) ELSE @] = t
    <3>1. PICK flag : flag = Flag
      OBVIOUS
    <3>2. flag \in BOOLEAN /\ stack \in Seq(Frames) /\ stack # <<>>
      BY <1>2, <1>4, <3>1
    <3>3. [Proceed(items) EXCEPT ![Running].again = IF flag THEN Append(@, m) ELSE @]
            = GoingOn(items, IF flag THEN Append(Command.again, m) ELSE Command.again)
      BY <3>2, ProceedAgainIs
    <3>4. again = IF flag THEN Append(Command.again, m) ELSE Command.again
      BY <1>1, <3>1
    <3> QED
      BY <1>10, <3>1, <3>3, <3>4
  <2> QED
    BY <2>1, <2>2
<1>13. Link(wiring, t[Len(t)], f)
  <2>1. PICK g : g = t[Len(t)]
    OBVIOUS
  <2>2. g.endpoint = e /\ Replaced(Items, Command.todo, items, g.todo)
    BY <1>1, <1>11, <2>1 DEF GoneOn
  <2>3. ASSUME NEW i \in 1..Len(g.todo), OfTree(g.todo[i]),
               NEW a \in Above[g.todo[i].node], Kind[a] = "container"
        PROVE  a \in Above[m]
    <3>1. PICK s, r : s = Command.todo /\ r = g.todo
      OBVIOUS
    <3>2. Replaced(Items, s, items, r) /\ Sorted(s) /\ i \in 1..Len(r)
      BY <1>9, <2>2, <3>1
    <3>3. \/ \E j \in 1..Len(items) : r[i] = items[j]
          \/ OfTree(r[i]) => OfTree(s[1]) /\ Above[r[i].node] \subseteq Above[s[1].node]
      BY <3>2, LeftToDo
    <3>4. CASE \E j \in 1..Len(items) : r[i] = items[j]
      <4>1. Above[r[i].node] = {m} \cup Above[m]
        BY <1>7, <3>4 DEF ItemsOfChildren
      <4> QED
        BY <1>2, <2>3, <3>1, <4>1
    <3>5. CASE OfTree(r[i]) => OfTree(s[1]) /\ Above[r[i].node] \subseteq Above[s[1].node]
      BY <1>1, <1>8, <2>3, <3>1, <3>5
    <3> QED
      BY <3>3, <3>4, <3>5
  <2> QED
    BY <1>1, <1>2, <1>6, <2>1, <2>2, <2>3 DEF Link
<1>14. ~Refused(f, x, "SYSTEM")
  BY <1>1, <1>2, <1>5, NotRefused
<1>15. PICK u : u = values'
  OBVIOUS
<1>16. u[f] = x /\ \A d \in Endpoints : d # f => u[d] = values[d]
  <2>1. x # None
    <3>1. x \in Allowed[f]
      BY <1>1, <1>3, <1>5, TreeAssumption
    <3> QED
      BY <1>6, <3>1, SetCommandAssumption
  <2> QED
    BY <1>6, <1>12, <1>14, <1>15, <2>1 DEF Set, TypeOK
<1>17. Right(u, m)
  <2>1. On(u, m) <=> Flag
    BY <1>1, <1>3, <1>4, <1>16 DEF On
  <2>2. ASSUME NEW a \in Above[m], Kind[a] = "container" PROVE On(u, a) <=> On(values, a)
    <3>1. a \in Nodes /\ a # m
      BY <1>2, <1>5, <2>2, AboveNodes
    <3>2. ActiveOf[a] \in Endpoints \cup {None} /\ ActiveOf[a] # f
      BY <1>3, <1>1, <1>6, <3>1, SetCommandAssumption, TreeAssumption
    <3> QED
      BY <1>16, <3>2 DEF On
  <2>3. AllOn(u, m) <=> AllOn(values, m)
    BY <2>2 DEF AllOn
  <2> QED
    BY <1>4, <2>1, <2>3 DEF Right
<1>18. ASSUME NEW n \in Switched(those, wiring)
       PROVE  Covered(t, n) \/ (ActiveOf[n] # f /\ Right(values, n)) \/ Right(u, n)
  <2>1. Covered(stack, n) \/ Right(values, n)
    BY DEF Kept
  <2>2. CASE n = m
    BY <1>17, <2>2
  <2>3. CASE n # m
    <3>1. ActiveOf[n] # f
      BY <1>1, <1>6, <2>3, TreeAssumption DEF Switched
    <3>2. ~Reaches(First, n)
      BY <1>1, <1>2, <2>3, SwitchedIsBelow
    <3>3. Covered(stack, n) => Covered(t, n)
      BY <1>11, <3>2 DEF GoneOn
    <3> QED
      BY <2>1, <3>1, <3>3
  <2> QED
    BY <2>2, <2>3
<1>19. StackOK(wiring, values, t) /\ "SYSTEM" \in Sources
  BY <1>11 DEF GoneOn, Sources
<1>20. \A n \in Switched(those, wiring) :
         Covered(t, n) \/ (ActiveOf[n] # f /\ Right(values, n)) \/ Right(values', n)
  BY <1>15, <1>18 DEF Right, On, AllOn
<1> QED
  BY <1>6, <1>12, <1>13, <1>14, <1>19, <1>20, IssueKeeps

LEMMA AgainKeeps ==
  ASSUME NEW those, TypeOK, wiring \in Wirings, AcyclicBy(wiring), Kept(those, wiring, values, stack), ActivateAgain
  PROVE  Kept(those, wiring, values, stack)'
<1>1. PICK m, f, h : m = Head(Command.again) /\ f = ActiveOf[m] /\ h = Command
  OBVIOUS
<1>2. PICK g : g = [h EXCEPT !.again = Tail(h.again)]
  OBVIOUS
<1>3. PICK t : t = [stack EXCEPT ![Len(stack)] = g]
  OBVIOUS
<1>4. /\ stack # <<>> /\ h.todo = <<>> /\ h.again # <<>> /\ StackOK(wiring, values, stack)
      /\ stack \in Seq(Frames) /\ Len(stack) \in 1..Len(stack) /\ h = stack[Len(stack)]
  BY <1>1, TopOf DEF ActivateAgain, Kept, StackOK, Command, Running
<1>5. h \in Frames /\ FrameOK(wiring, values, h)
  BY <1>4 DEF StackOK
<1>6. PICK a, b : a = h.again /\ b = Tail(a)
  OBVIOUS
<1>7. a \in Seq(Nodes) /\ a # <<>> /\ \A i \in 1..Len(a) : LeadsDown(h.endpoint, a[i])
  BY <1>4, <1>5, <1>6 DEF FrameOK, Frames
<1>8. b \in Seq(Nodes) /\ m \in Nodes /\ LeadsDown(h.endpoint, m) /\ \A i \in 1..Len(b) : LeadsDown(h.endpoint, b[i])
  <2>1. Len(a) \in Nat /\ 1 \in 1..Len(a) /\ Head(a) = a[1] /\ a[1] \in Nodes
    BY <1>7
  <2>2. b \in Seq(Nodes) /\ Len(b) = Len(a) - 1 /\ \A i \in 1..Len(b) : b[i] = a[i + 1]
    BY <1>6, <1>7
  <2>3. \A i \in 1..Len(b) : i + 1 \in 1..Len(a)
    BY <2>1, <2>2
  <2> QED
    BY <1>1, <1>6, <1>7, <2>1, <2>2, <2>3
<1>9. g \in Frames /\ g.endpoint = h.endpoint /\ g.todo = h.todo /\ g.again = b
  BY <1>2, <1>5, <1>6, <1>8 DEF Frames
<1>10. FrameOK(wiring, values, g)
  BY <1>5, <1>8, <1>9 DEF FrameOK
<1>11. /\ StackOK(wiring, values, t) /\ t # <<>> /\ Len(t) = Len(stack) /\ t[Len(t)] = g
       /\ CoversStill(stack, g, t)
  <2>1. TopBecomes(stack, g, t)
    BY <1>3 DEF TopBecomes
  <2>2. g.endpoint = stack[Len(stack)].endpoint
    BY <1>4, <1>9
  <2> QED
    BY <1>4, <1>10, <2>1, <2>2, TopReplaced
<1>12. \A n : Covered(stack, n) => Covered(t, n)
  <2>1. \A n : Covers(h, n) => Covers(g, n)
    BY <1>9 DEF Covers
  <2> QED
    BY <1>4, <1>11, <2>1 DEF CoversStill
<1>13. f \in Endpoints /\ LeadsBy(wiring, h.endpoint, f)
  BY <1>1, <1>8, SwitchLeads
<1>14. Link(wiring, g, f)
  <2>1. Len(g.todo) = 0
    BY <1>4, <1>9
  <2> QED
    BY <1>9, <1>13, <2>1 DEF Link
<1>15. Set(f, values[f], "SYSTEM", t)
  <2>1. [stack EXCEPT ![Running].again = Tail(@)] = t
    BY <1>2, <1>3, <1>4 DEF Running
  <2> QED
    BY <1>1, <2>1 DEF ActivateAgain, Issue
<1>16. ASSUME NEW n \in Switched(those, wiring), Right(values, n) PROVE Right(values', n)
  <2>1. \A d \in Endpoints : values'[d] = values[d]
    BY <1>13, <1>15 DEF Set, TypeOK
  <2>2. n \in Nodes /\ ActiveOf \in [Nodes -> Endpoints \cup {None}]
    BY SetCommandAssumption DEF Switched
  <2>3. PICK u : u = values'
    OBVIOUS
  <2>4. \A k \in Nodes : On(u, k) <=> On(values, k)
    BY <2>1, <2>2, <2>3 DEF On
  <2>5. AllOn(u, n) <=> AllOn(values, n)
    BY <2>2, <2>4, AboveNodes DEF AllOn
  <2>6. Right(u, n)
    BY <1>16, <2>2, <2>4, <2>5 DEF Right
  <2> QED
    BY <2>3, <2>6 DEF Right, On, AllOn
<1>17. \A n \in Switched(those, wiring) : Covered(t, n) \/ Right(values, n)
  BY <1>12 DEF Kept
<1>18. "SYSTEM" \in Sources /\ Link(wiring, t[Len(t)], f)
  BY <1>11, <1>14 DEF Sources
<1> QED
  BY <1>11, <1>13, <1>15, <1>16, <1>17, <1>18, IssueKeeps

-----------------------------------------------------------------------------

SeriesInv(those) == wiring \in Wirings /\ (Acyclic => Kept(those, wiring, values, stack))

LEMMA AcyclicIs == Acyclic <=> AcyclicBy(wiring)
BY DEF Acyclic, AcyclicBy, Leads, LeadsBy

LEMMA SeriesStep ==
  ASSUME NEW those, SeriesInv(those), StackInv, TypeOK, [Next]_vars
  PROVE  SeriesInv(those)'
<1>1. wiring' = wiring
  BY InTree DEF tree, Step, ApiSet, ModuleSet, FireConnection, SkipConnection, BeginActivation,
     Descend, LeaveNode, ActivateNode, ActivateAgain, Pop, Continue, Issue, Set
<1>2. wiring' \in Wirings /\ (Acyclic' <=> Acyclic)
  BY <1>1 DEF SeriesInv, Acyclic, Leads
<1>3. ASSUME Acyclic PROVE Kept(those, wiring, values, stack)'
  <2>1. AcyclicBy(wiring) /\ Kept(those, wiring, values, stack) /\ wiring \in Wirings /\ CheckerKnowsStack
    BY <1>3, AcyclicIs DEF SeriesInv, StackInv
  <2>2. ASSUME NEW e \in Settable, NEW x, ApiSet(e, x) PROVE Kept(those, wiring, values, stack)'
    BY <2>1, <2>2, OutsideKeeps DEF ApiSet, Sources
  <2>3. ASSUME ModuleSet PROVE Kept(those, wiring, values, stack)'
    <3>1. PICK e, x : e \in Played /\ stack = <<>> /\ Set(e, x, "MODULE_IMPLEMENTATION", <<>>)
      BY <2>3, ModuleSets
    <3> QED
      BY <2>1, <3>1, OutsideKeeps, SetCommandAssumption DEF Sources
  <2>4. CASE Step
    BY <2>1, <2>4, FireKeeps, SkipKeeps, BeginKeeps, DescendKeeps, LeaveKeeps, ActivateKeeps,
       AgainKeeps, PopKeeps DEF Step
  <2>5. CASE UNCHANGED tree
    BY <2>1, <2>5 DEF tree, Kept, StackOK, Covered
  <2> QED
    BY <2>2, <2>3, <2>4, <2>5, InTree
<1> QED
  BY <1>2, <1>3 DEF SeriesInv

(* Once a command is over, nothing is left to do.                          *)
LEMMA InSeriesIs ==
  ASSUME stack = <<>>, NEW n \in Nodes, ActiveOf[n] # None
  PROVE  (NodeIsActive(n) <=> AllAncestorsActive(n)) <=> Right(values, n)
<1>1. \A a \in Above[n] : Kind[a] = "container"
  BY Holders
<1>2. \A a : NodeIsActive(a) <=> On(values, a)
  BY DEF NodeIsActive, On
<1>3. AllAncestorsActive(n) <=> AllOn(values, n)
  BY <1>1, <1>2 DEF AllAncestorsActive, AllOn
<1> QED
  BY <1>2, <1>3 DEF Right

LEMMA SeriesAtRest ==
  ASSUME SeriesInv(Nodes)
  PROVE  SwitchesInSeries
<1> SUFFICES ASSUME stack = <<>>, Acyclic, NEW n \in Switched(Nodes, wiring)
             PROVE  NodeIsActive(n) <=> AllAncestorsActive(n)
  BY DEF SwitchesInSeries, Idle, Switched, SwitchedBy, SwitchedOtherwise
<1>1. ~Covered(stack, n)
  <2>1. Len(stack) = 0
    OBVIOUS
  <2> QED
    BY <2>1 DEF Covered
<1>2. Right(values, n) /\ n \in Nodes /\ ActiveOf[n] # None
  <2>1. Right(values, n)
    BY <1>1 DEF SeriesInv, Kept
  <2> QED
    BY <2>1 DEF Switched
<1> QED
  BY <1>2, InSeriesIs

LEMMA SeriesInitially ==
  ASSUME NEW those, Init, SwitchesInSeries
  PROVE  SeriesInv(those)
<1>1. stack = <<>> /\ wiring \in Wirings /\ Len(stack) = 0 /\ stack \in Seq(Frames)
  BY DEF Init
<1>2. StackOK(wiring, values, stack)
  BY <1>1 DEF StackOK
<1>3. ASSUME Acyclic, NEW n \in Switched(those, wiring) PROVE Right(values, n)
  <2>1. n \in Nodes /\ ActiveOf[n] # None /\ (NodeIsActive(n) <=> AllAncestorsActive(n))
    BY <1>1, <1>3 DEF SwitchesInSeries, Idle, Switched, SwitchedBy, SwitchedOtherwise
  <2> QED
    BY <1>1, <2>1, InSeriesIs
<1> QED
  BY <1>1, <1>2, <1>3 DEF SeriesInv, Kept

-----------------------------------------------------------------------------
(* Targets *)

(* What a connection does to its target, where both ends have values. *)
ConvertedBy(v, s, t) == v[s]

FollowedBy(w, v, c) ==
  Conforms(w[c].target, ConvertedBy(v, w[c].source, w[c].target)) =>
    v[w[c].target] = ConvertedBy(v, w[c].source, w[c].target)

(* Connections that alone set their targets. *)
Alone(w) ==
  {c \in DOMAIN w : /\ w[c].source \notin Bangs /\ w[c].target \notin {None} \cup Bangs
                    /\ \A d \in DOMAIN w : w[d].target = w[c].target => d = c
                    /\ ~IsActiveOf(w[c].target, {"module", "connection"})}

(* A command on the stack has yet to fire the connection. *)
Pending(s, c) ==
  \E i \in 1..Len(s) : \E j \in 1..Len(s[i].todo) :
    s[i].todo[j].do = "fire" /\ s[i].todo[j].node = c

(* Of the endpoints in which, connections that were active all along are   *)
(* followed by their targets, or will be; but for d.                       *)
FollowedBut(d, w, v, which, switched, s) ==
  \A c \in Alone(w) :
    w[c].source \in which /\ On(v, c) /\ ActiveOf[c] \notin switched /\ c # d
    => FollowedBy(w, v, c) \/ Pending(s, c)

FollowInv == FollowedBut(None, wiring, values, changed, changed, stack)

LEMMA AloneIs ==
  ASSUME wiring \in Wirings, NEW c \in Alone(wiring)
  PROVE  /\ c \in DOMAIN wiring /\ c \in Nodes /\ c # None
         /\ wiring[c].source \in Endpoints \ Bangs /\ wiring[c].target \in Endpoints \ Bangs
         /\ \A d \in DOMAIN wiring : wiring[d].target = wiring[c].target => d = c
         /\ ~IsActiveOf(wiring[c].target, {"module", "connection"})
<1>1. c \in DOMAIN wiring
  BY DEF Alone
<1>2. c \in Nodes /\ wiring[c] \in [source : Endpoints, target : Endpoints \cup {None}] /\ None \notin Nodes
  BY <1>1, SetCommandAssumption
<1> QED
  BY <1>1, <1>2 DEF Alone

(* What is left to fire of a connection. *)
LEMMA StillPending ==
  ASSUME StackOK(wiring, values, stack), stack # <<>>, Command.todo # <<>>,
         NEW items \in Seq(Items), NEW again, NEW c, Pending(stack, c)
  PROVE  Pending(GoingOn(items, again), c) \/ (First.do = "fire" /\ First.node = c)
<1>1. PICK f : f = Command
  OBVIOUS
<1>2. PICK todo, r : todo = f.todo /\ r = items \o Tail(todo)
  OBVIOUS
<1>3. PICK g : g = [f EXCEPT !.todo = r, !.again = again]
  OBVIOUS
<1>4. PICK t : t = [stack EXCEPT ![Len(stack)] = g]
  OBVIOUS
<1>5. t = GoingOn(items, again)
  BY <1>1, <1>2, <1>3, <1>4 DEF GoingOn
<1>6. f \in Frames /\ First = todo[1] /\ f = stack[Len(stack)] /\ Len(stack) \in 1..Len(stack) /\ todo # <<>>
  BY <1>1, <1>2, FirstIs DEF Command, Running
<1>7. stack \in Seq(Frames) /\ todo \in Seq(Items)
  BY <1>2, <1>6 DEF StackOK, Frames
<1>8. g.todo = r
  BY <1>3, <1>6 DEF Frames
<1>9. Len(t) = Len(stack) /\ t[Len(stack)] = g /\ \A i \in 1..Len(stack) : i # Len(stack) => t[i] = stack[i]
  BY <1>4, <1>6, <1>7
<1>10. Replaced(Items, todo, items, r)
  BY <1>2, <1>6, <1>7, ReplacedIs
<1>11. PICK i \in 1..Len(stack) : \E j \in 1..Len(stack[i].todo) :
         stack[i].todo[j].do = "fire" /\ stack[i].todo[j].node = c
  BY DEF Pending
<1>12. CASE i # Len(stack)
  <2>1. Pending(t, c)
    BY <1>9, <1>11, <1>12 DEF Pending
  <2> QED
    BY <1>5, <2>1
<1>13. CASE i = Len(stack)
  <2>1. PICK j \in 1..Len(todo) : todo[j].do = "fire" /\ todo[j].node = c
    BY <1>2, <1>6, <1>11, <1>13
  <2>2. CASE j = 1
    BY <1>6, <2>1, <2>2
  <2>3. CASE j # 1
    <3>1. /\ Len(todo) \in Nat \ {0} /\ Len(items) \in Nat /\ Len(r) = Len(items) + (Len(todo) - 1)
          /\ \A k \in 1..(Len(todo) - 1) : r[Len(items) + k] = todo[k + 1]
      BY <1>10 DEF Replaced
    <3>2. PICK k : k = j - 1
      OBVIOUS
    <3>3. k \in 1..(Len(todo) - 1) /\ k + 1 = j /\ Len(items) + k \in 1..Len(r)
      BY <2>3, <3>1, <3>2
    <3>4. \E l \in 1..Len(r) : r[l] = todo[j]
      BY <3>1, <3>3
    <3>5. Pending(t, c)
      BY <1>6, <1>8, <1>9, <2>1, <3>4 DEF Pending
    <3> QED
      BY <1>5, <3>5
  <2> QED
    BY <2>2, <2>3
<1> QED
  BY <1>12, <1>13

(* A step that issues no command. *)
LEMMA ContinueFollows ==
  ASSUME NEW which, NEW switched, FollowedBut(None, wiring, values, which, switched, stack),
         StackOK(wiring, values, stack), stack # <<>>, Command.todo # <<>>,
         NEW items \in Seq(Items), Continue(items),
         First.do = "fire" => ~On(values, First.node) \/ wiring[First.node].target = None
  PROVE  FollowedBut(None, wiring, values', which, switched, stack')
<1>1. stack \in Seq(Frames)
  BY DEF StackOK
<1>2. stack' = GoingOn(items, Command.again) /\ values' = values
  BY <1>1, ProceedIs DEF Continue
<1>3. PICK t : t = stack'
  OBVIOUS
<1>4. FollowedBut(None, wiring, values, which, switched, t)
  <2> SUFFICES ASSUME NEW c \in Alone(wiring), wiring[c].source \in which, On(values, c),
                      ActiveOf[c] \notin switched, c # None
               PROVE  FollowedBy(wiring, values, c) \/ Pending(t, c)
    BY DEF FollowedBut
  <2>1. FollowedBy(wiring, values, c) \/ Pending(stack, c)
    BY DEF FollowedBut
  <2>2. ~(First.do = "fire" /\ First.node = c)
    BY DEF Alone
  <2>3. Pending(stack, c) => Pending(t, c)
    BY <1>2, <1>3, <2>2, StillPending
  <2> QED
    BY <2>1, <2>3
<1> QED
  BY <1>2, <1>3, <1>4

(* A command is issued, by a connection d or by something else: to be      *)
(* followed are more endpoints then, if it is not refused.                 *)
LEMMA IssueFollows ==
  ASSUME TypeOK, wiring \in Wirings, NEW t \in Seq(Frames), NEW e \in Endpoints, NEW x, NEW source,
         Set(e, x, source, t), NEW d, NEW which, NEW switched,
         FollowedBut(d, wiring, values, which, switched, t),
         NEW more, more \subseteq which \cup {e},
         Refused(e, x, source) =>
           more \subseteq which /\ (d \notin Alone(wiring) \/ FollowedBy(wiring, values, d)),
         ~Refused(e, x, source) =>
           /\ e \in switched \/ values'[e] = values[e]
           /\ \A c \in Alone(wiring) :
                /\ c = d => wiring[c].target = e
                /\ wiring[c].target = e =>
                     which = {} \/ (c = d /\ x = ConvertedBy(values, wiring[c].source, e))
  PROVE  FollowedBut(None, wiring, values', more, switched, stack')
<1>1. PICK u, s : u = values' /\ s = stack'
  OBVIOUS
<1>2. FollowedBut(None, wiring, u, more, switched, s)
  <2> SUFFICES ASSUME NEW c \in Alone(wiring), wiring[c].source \in more, On(u, c),
                      ActiveOf[c] \notin switched, c # None
               PROVE  FollowedBy(wiring, u, c) \/ Pending(s, c)
    BY DEF FollowedBut
  <2>1. CASE Refused(e, x, source)
    <3>1. u = values /\ s = t
      BY <1>1, <2>1 DEF Set
    <3>2. FollowedBy(wiring, values, c) \/ Pending(t, c)
      BY <2>1, <3>1 DEF FollowedBut
    <3> QED
      BY <3>1, <3>2
  <2>2. CASE ~Refused(e, x, source)
    <3>1. /\ \A f \in Endpoints : f # e => u[f] = values[f]
          /\ ActiveOf[c] # e \/ u[e] = values[e]
      BY <1>1, <2>2 DEF Set, TypeOK
    <3>2. PICK f : f = [endpoint |-> e, source |-> source, todo |-> Todo(e), again |-> <<>>]
      OBVIOUS
    <3>3. s = Append(t, f)
      BY <1>1, <2>2, <3>2 DEF Set
    <3>4. Len(t) \in Nat /\ Len(s) = Len(t) + 1 /\ s[Len(t) + 1] = f /\ \A i \in 1..Len(t) : s[i] = t[i]
      <4>1. t \in Seq(Frames \cup {f})
        OBVIOUS
      <4> QED
        BY <3>3, <4>1
    <3>5. Len(t) + 1 \in 1..Len(s) /\ \A i \in 1..Len(t) : i \in 1..Len(s)
      BY <3>4
    <3>6. /\ c \in DOMAIN wiring /\ c \in Nodes
          /\ wiring[c].source \in Endpoints \ Bangs /\ wiring[c].target \in Endpoints \ Bangs
      BY AloneIs
    <3>7. CASE wiring[c].source = e
      <4>1. BeginsWith(Todo(e), e)
        BY TodoIs
      <4>2. PICK j \in 1..Len(f.todo) : f.todo[j].do = "fire" /\ f.todo[j].node = c
        BY <3>2, <3>6, <3>7, <4>1 DEF BeginsWith
      <4> QED
        BY <3>4, <3>5, <4>2 DEF Pending
    <3>8. CASE wiring[c].source # e
      <4>1. wiring[c].source \in which /\ which # {}
        BY <3>8
      <4>2. On(values, c)
        <5>1. ActiveOf[c] \in Endpoints \cup {None}
          BY <3>6, SetCommandAssumption
        <5> QED
          BY <3>1, <5>1 DEF On
      <4>3. Pending(t, c) => Pending(s, c)
        BY <3>4, <3>5 DEF Pending
      <4>4. ConvertedBy(u, wiring[c].source, wiring[c].target)
              = ConvertedBy(values, wiring[c].source, wiring[c].target)
        BY <3>1, <3>6, <3>8 DEF ConvertedBy
      <4>5. CASE wiring[c].target # e
        <5>1. u[wiring[c].target] = values[wiring[c].target]
          BY <3>1, <3>6, <4>5
        <5>2. c # d
          BY <2>2, <4>5
        <5>3. FollowedBy(wiring, values, c) \/ Pending(t, c)
          BY <4>1, <4>2, <5>2 DEF FollowedBut
        <5> QED
          BY <4>3, <4>4, <5>1, <5>3 DEF FollowedBy, Conforms
      <4>6. CASE wiring[c].target = e
        <5>1. x = ConvertedBy(values, wiring[c].source, e)
          BY <2>2, <4>1, <4>6
        <5>2. x \in Allowed[e] /\ x # None
          <6>1. x \in Allowed[e]
            BY <2>2, <3>6, <4>6 DEF Refused, Conforms
          <6> QED
            BY <6>1, SetCommandAssumption
        <5>3. u[e] = x
          BY <1>1, <2>2, <5>2 DEF Set, TypeOK
        <5> QED
          BY <4>4, <4>6, <5>1, <5>3 DEF FollowedBy
      <4> QED
        BY <4>5, <4>6
    <3> QED
      BY <3>7, <3>8
  <2> QED
    BY <2>1, <2>2
<1> QED
  BY <1>1, <1>2

(* The stack as it is when a command from within is issued. *)
LEMMA RestFollows ==
  ASSUME wiring \in Wirings, StackOK(wiring, values, stack), stack # <<>>, Command.todo # <<>>,
         NEW which, NEW switched, FollowedBut(None, wiring, values, which, switched, stack),
         NEW items \in Seq(Items), NEW again, NEW d, First.do = "fire" => First.node = d
  PROVE  FollowedBut(d, wiring, values, which, switched, GoingOn(items, again))
<1> SUFFICES ASSUME NEW c \in Alone(wiring), wiring[c].source \in which, On(values, c),
                    ActiveOf[c] \notin switched, c # d
             PROVE  FollowedBy(wiring, values, c) \/ Pending(GoingOn(items, again), c)
  BY DEF FollowedBut
<1>1. c # None
  BY AloneIs
<1>2. FollowedBy(wiring, values, c) \/ Pending(stack, c)
  BY <1>1 DEF FollowedBut
<1>3. Pending(stack, c) => Pending(GoingOn(items, again), c) \/ (First.do = "fire" /\ First.node = c)
  BY StillPending
<1> QED
  BY <1>2, <1>3

LEMMA FireFollows ==
  ASSUME TypeOK, wiring \in Wirings, AcyclicBy(wiring), StackOK(wiring, values, stack),
         CheckerKnowsStack, FireConnection,
         NEW f, f = wiring[First.node].target, NEW x, x = Converted(Command.endpoint, f),
         NEW which, NEW switched, FollowedBut(None, wiring, values, which, switched, stack),
         NEW more, more \subseteq which \cup {f}, Refused(f, x, "CONNECTION") => more \subseteq which,
         ~Refused(f, x, "CONNECTION") => f \in switched
  PROVE  FollowedBut(None, wiring, values', more, switched, stack')
<1>1. PICK e, d, again, items :
        /\ e = Command.endpoint /\ d = First.node /\ f = wiring[d].target /\ x = Converted(e, f)
        /\ again = Command.again /\ items = <<>>
  OBVIOUS
<1>2. /\ stack # <<>> /\ Command.todo # <<>> /\ First.do = "fire" /\ f # None
      /\ Set(f, x, "CONNECTION", Proceed(items))
  BY <1>1 DEF FireConnection, Doing, Issue
<1>3. stack \in Seq(Frames) /\ items \in Seq(Items) /\ Len(items) = 0
  BY <1>1 DEF StackOK
<1>4. /\ FrameOK(wiring, values, Command) /\ Command \in Frames
      /\ ItemOK(wiring, values, e, First) /\ Len(stack) \in 1..Len(stack)
  BY <1>1, <1>2, FirstIs
<1>5. again \in Seq(Nodes) /\ \A i \in 1..Len(again) : LeadsDown(Command.endpoint, again[i])
  BY <1>1, <1>4 DEF FrameOK, Frames
<1>6. /\ d \in DOMAIN wiring /\ wiring[d].source = e /\ wiring[d] = [source |-> e, target |-> f]
      /\ f \in Endpoints
  <2>1. d \in DOMAIN wiring /\ wiring[d].source = e
    BY <1>1, <1>2, <1>4 DEF ItemOK
  <2>2. wiring[d] \in [source : Endpoints, target : Endpoints \cup {None}]
    BY <2>1, SetCommandAssumption
  <2> QED
    BY <1>1, <1>2, <2>1, <2>2
<1>7. PICK t : t = GoingOn(items, again)
  OBVIOUS
<1>8. GoneOn(t, items) /\ t = Proceed(items)
  <2>1. MayReplace(wiring, values, Command.endpoint, First, items)
    BY <1>3 DEF MayReplace
  <2>2. GoneOn(GoingOn(items, again), items)
    BY <1>2, <1>3, <1>5, <2>1, GoesOn
  <2>3. t = Proceed(items)
    BY <1>1, <1>2, <1>3, <1>7, ProceedIs
  <2> QED
    BY <1>7, <2>2, <2>3
<1>9. t \in Seq(Frames) /\ t # <<>>
  BY <1>8 DEF GoneOn, StackOK
<1>10. FollowedBut(d, wiring, values, which, switched, t)
  BY <1>1, <1>2, <1>3, <1>7, RestFollows
<1>11. ASSUME d \in Alone(wiring)
       PROVE  /\ x = ConvertedBy(values, e, f)
              /\ Refused(f, x, "CONNECTION") => FollowedBy(wiring, values, d)
  <2>1. e \notin Bangs /\ f \notin Bangs
    BY <1>6, <1>11, AloneIs
  <2>2. x = ConvertedBy(values, e, f)
    BY <1>1, <2>1 DEF Converted, ConvertedBy
  <2>3. LeadsBy(wiring, stack[Len(stack)].endpoint, f)
    BY <1>1, <1>6 DEF LeadsBy, Command, Running
  <2>4. \A i \in 1..Len(stack) : stack[i].endpoint # f
    BY <1>2, <1>6, <2>3, NoWayBack
  <2>5. f \notin DOMAIN checker
    BY <2>4 DEF CheckerKnowsStack
  <2>6. Refused(f, x, "CONNECTION") => ~Conforms(f, x)
    BY <2>5 DEF Refused, Reentrance
  <2> QED
    BY <1>6, <2>2, <2>6 DEF FollowedBy
<1>12. ASSUME NEW c \in Alone(wiring), wiring[c].target = f
       PROVE  c = d /\ x = ConvertedBy(values, wiring[c].source, f)
  <2>1. c = d
    BY <1>6, <1>12, AloneIs
  <2> QED
    BY <1>6, <1>11, <2>1
<1>13. Set(f, x, "CONNECTION", t)
  BY <1>2, <1>8
<1>14. Refused(f, x, "CONNECTION") =>
         more \subseteq which /\ (d \notin Alone(wiring) \/ FollowedBy(wiring, values, d))
  BY <1>11
<1>15. ~Refused(f, x, "CONNECTION") =>
         /\ f \in switched \/ values'[f] = values[f]
         /\ \A c \in Alone(wiring) :
              /\ c = d => wiring[c].target = f
              /\ wiring[c].target = f =>
                   which = {} \/ (c = d /\ x = ConvertedBy(values, wiring[c].source, f))
  BY <1>6, <1>12
<1> QED
  BY <1>6, <1>9, <1>10, <1>13, <1>14, <1>15, IssueFollows

(* What only activation switches is no target of these connections. *)
LEMMA SwitchIsApart ==
  ASSUME wiring \in Wirings, NEW m \in Nodes, NEW e, LeadsDown(e, m), NEW c \in Alone(wiring)
  PROVE  wiring[c].target # ActiveOf[m]
<1>1. OwnerOf[ActiveOf[m]] = m /\ Kind[m] \in {"module", "connection"}
  BY SetCommandAssumption, TreeAssumption DEF LeadsDown
<1>2. IsActiveOf(ActiveOf[m], {"module", "connection"})
  BY <1>1 DEF IsActiveOf
<1> QED
  BY <1>2, AloneIs

(* A node is switched, with the stack t as that leaves it. *)
MayFollow(f, x, which, switched, more) ==
  /\ more \subseteq which \cup {f} /\ (Refused(f, x, "SYSTEM") => more \subseteq which)
  /\ Refused(f, x, "SYSTEM") \/ f \in switched \/ values'[f] = values[f]

LEMMA SwitchFollows ==
  ASSUME TypeOK, wiring \in Wirings, NEW t \in Seq(Frames), NEW m \in Nodes, NEW x,
         NEW e, LeadsDown(e, m), NEW f, f = ActiveOf[m], Set(f, x, "SYSTEM", t),
         NEW which, NEW switched, FollowedBut(None, wiring, values, which, switched, t),
         NEW more, MayFollow(f, x, which, switched, more)
  PROVE  FollowedBut(None, wiring, values', more, switched, stack')
<1>1. PICK d : d = None
  OBVIOUS
<1>2. f \in Endpoints
  BY SwitchLeads
<1>3. FollowedBut(d, wiring, values, which, switched, t)
  BY <1>1
<1>4. d \notin Alone(wiring)
  BY <1>1, AloneIs
<1>5. /\ more \subseteq which \cup {f}
      /\ Refused(f, x, "SYSTEM") =>
           more \subseteq which /\ (d \notin Alone(wiring) \/ FollowedBy(wiring, values, d))
  BY <1>4 DEF MayFollow
<1>6. ~Refused(f, x, "SYSTEM") =>
        /\ f \in switched \/ values'[f] = values[f]
        /\ \A c \in Alone(wiring) :
             /\ c = d => wiring[c].target = f
             /\ wiring[c].target = f =>
                  which = {} \/ (c = d /\ x = ConvertedBy(values, wiring[c].source, f))
  BY <1>4, SwitchIsApart DEF MayFollow
<1> QED
  BY <1>2, <1>3, <1>5, <1>6, IssueFollows

(* What ActivateNode does: m is switched to x, and the command goes on with *)
(* items and with those to activate again.                                 *)
Switches(m, x, items, again) ==
  /\ stack # <<>> /\ Command.todo # <<>> /\ First.do # "fire"
  /\ m \in Nodes /\ LeadsDown(Command.endpoint, m) /\ items \in Seq(Items)
  /\ again \in Seq(Nodes) /\ Command.again \in Seq(Nodes)
  /\ \/ x = 1 /\ again = Append(Command.again, m)
     \/ x = 0 /\ again = Command.again
  /\ GoingOn(items, again) \in Seq(Frames) /\ GoingOn(items, again) # <<>>
  /\ Set(ActiveOf[m], x, "SYSTEM", GoingOn(items, again))

LEMMA SwitchIs ==
  ASSUME StackOK(wiring, values, stack), ActivateNode
  PROVE  \E m, x, items, again : Switches(m, x, items, again)
<1>1. PICK e, m, flag, x, items, a, again :
        /\ e = Command.endpoint /\ m = First.node /\ flag = Flag /\ x = (IF flag THEN 1 ELSE 0)
        /\ items = EachChild("activate", m, flag) /\ a = Command.again
        /\ again = IF flag THEN Append(a, m) ELSE a
  OBVIOUS
<1>2. /\ stack # <<>> /\ Command.todo # <<>> /\ (First.do = "child" \/ First.do = "activate")
      /\ stack \in Seq(Frames) /\ (Doing("child") \/ Doing("activate"))
      /\ Kind[m] # "container" /\ ~HasFlag(m, flag)
  BY <1>1 DEF ActivateNode, Doing, StackOK
<1>3. ActiveOf[m] # None
  BY <1>2 DEF HasFlag
<1>4. flag \in BOOLEAN /\ (flag <=> Flag)
  BY <1>1, <1>2, FlagIs
<1>5. m \in Nodes /\ LeadsDown(e, m)
  BY <1>1, <1>2, <1>3, TurnComes
<1>6. items \in Seq(Items) /\ MayReplace(wiring, values, Command.endpoint, First, items)
  BY <1>1, <1>2, <1>4, PassedOn
<1>7. again \in Seq(Nodes) /\ a \in Seq(Nodes) /\ \A i \in 1..Len(again) : LeadsDown(Command.endpoint, again[i])
  <2>1. FrameOK(wiring, values, Command) /\ Command \in Frames
    BY <1>2, FirstIs
  <2>2. a \in Seq(Nodes) /\ \A i \in 1..Len(a) : LeadsDown(e, a[i])
    BY <1>1, <2>1 DEF FrameOK, Frames
  <2>3. PICK b : b = Append(a, m)
    OBVIOUS
  <2>4. /\ b \in Seq(Nodes) /\ Len(b) = Len(a) + 1 /\ Len(a) \in Nat /\ b[Len(a) + 1] = m
        /\ \A i \in 1..Len(a) : b[i] = a[i]
    BY <1>5, <2>2, <2>3
  <2>5. \A i \in 1..Len(b) : i \in 1..Len(a) \/ i = Len(a) + 1
    BY <2>4
  <2>6. \A i \in 1..Len(b) : LeadsDown(e, b[i])
    BY <1>5, <2>2, <2>4, <2>5
  <2> QED
    BY <1>1, <2>2, <2>3, <2>4, <2>6
<1>8. PICK t : t = GoingOn(items, again)
  OBVIOUS
<1>9. t \in Seq(Frames) /\ t # <<>>
  <2>1. GoneOn(t, items)
    BY <1>2, <1>6, <1>7, <1>8, GoesOn
  <2> QED
    BY <2>1 DEF GoneOn, StackOK
<1>10. Set(ActiveOf[m], x, "SYSTEM", t)
  <2>1. Set(ActiveOf[m], x, "SYSTEM",
            [Proceed(items) EXCEPT ![Running].again = IF flag THEN Append(@, m) ELSE @])
    BY <1>1 DEF ActivateNode, Issue
  <2>2. [Proceed(items) EXCEPT ![Running].again = IF flag THEN Append(@, m) ELSE @]
          = GoingOn(items, IF flag THEN Append(Command.again, m) ELSE Command.again)
    BY <1>2, <1>4, ProceedAgainIs
  <2> QED
    BY <1>1, <1>8, <2>1, <2>2
<1>11. First.do # "fire" /\ ((x = 1 /\ again = Append(a, m)) \/ (x = 0 /\ again = a))
  BY <1>1, <1>2
<1> QED
  BY <1>1, <1>2, <1>5, <1>6, <1>7, <1>8, <1>9, <1>10, <1>11 DEF Switches

(* What ActivateAgain does: m is set once more, with the stack t. *)
SwitchesAgain(m, t) ==
  /\ stack # <<>> /\ Command.todo = <<>>
  /\ m \in Nodes /\ LeadsDown(Command.endpoint, m)
  /\ Command.again \in Seq(Nodes) /\ Command.again # <<>> /\ m = Head(Command.again)
  /\ t \in Seq(Frames) /\ t # <<>> /\ Len(t) = Len(stack)
  /\ \A i \in 1..Len(stack) : i # Len(stack) => t[i] = stack[i]
  /\ t[Len(stack)].todo = <<>> /\ t[Len(stack)].again = Tail(Command.again)
  /\ \A c : Pending(stack, c) => Pending(t, c)
  /\ Set(ActiveOf[m], values[ActiveOf[m]], "SYSTEM", t)

LEMMA SwitchAgainIs ==
  ASSUME StackOK(wiring, values, stack), ActivateAgain
  PROVE  \E m, t : SwitchesAgain(m, t)
<1>1. PICK h, a, b, m : h = Command /\ a = h.again /\ b = Tail(a) /\ m = Head(a)
  OBVIOUS
<1>2. PICK g : g = [h EXCEPT !.again = b]
  OBVIOUS
<1>3. PICK t : t = [stack EXCEPT ![Len(stack)] = g]
  OBVIOUS
<1>4. /\ stack # <<>> /\ a # <<>> /\ stack \in Seq(Frames)
      /\ Len(stack) \in 1..Len(stack) /\ h = stack[Len(stack)]
  BY <1>1, TopOf DEF ActivateAgain, StackOK, Command, Running
<1>5. h \in Frames /\ FrameOK(wiring, values, h)
  BY <1>4 DEF StackOK
<1>6. a \in Seq(Nodes) /\ \A i \in 1..Len(a) : LeadsDown(h.endpoint, a[i])
  BY <1>1, <1>5 DEF FrameOK, Frames
<1>7. b \in Seq(Nodes) /\ m \in Nodes /\ LeadsDown(h.endpoint, m)
  <2>1. 1 \in 1..Len(a) /\ m = a[1] /\ a[1] \in Nodes /\ b \in Seq(Nodes)
    BY <1>1, <1>4, <1>6
  <2> QED
    BY <1>6, <2>1
<1>8. g \in Frames /\ g.todo = h.todo /\ g.again = b
  BY <1>2, <1>5, <1>7 DEF Frames
<1>9. /\ t \in Seq(Frames) /\ t # <<>> /\ Len(t) = Len(stack) /\ t[Len(stack)] = g
      /\ \A i \in 1..Len(stack) : i # Len(stack) => t[i] = stack[i]
  BY <1>3, <1>4, <1>8
<1>10. \A i \in 1..Len(stack) : t[i].todo = stack[i].todo
  BY <1>4, <1>8, <1>9
<1>11. \A c : Pending(stack, c) => Pending(t, c)
  BY <1>9, <1>10 DEF Pending
<1>12. Set(ActiveOf[m], values[ActiveOf[m]], "SYSTEM", t)
  <2>1. [stack EXCEPT ![Running].again = Tail(@)] = t
    BY <1>1, <1>2, <1>3, <1>4 DEF Running
  <2> QED
    BY <1>1, <2>1 DEF ActivateAgain, Issue
<1>13. h.todo = <<>>
  BY <1>1 DEF ActivateAgain
<1>14. t[Len(stack)].todo = <<>> /\ t[Len(stack)].again = Tail(Command.again)
  BY <1>1, <1>8, <1>9, <1>13
<1> QED
  BY <1>1, <1>4, <1>6, <1>7, <1>9, <1>11, <1>12, <1>13, <1>14 DEF SwitchesAgain

(* Steps that only go on with what there is to do. *)
LEMMA GoingOnFollows ==
  ASSUME TypeOK, wiring \in Wirings, StackOK(wiring, values, stack),
         NEW which, NEW switched, FollowedBut(None, wiring, values, which, switched, stack),
         SkipConnection \/ BeginActivation \/ Descend \/ LeaveNode
  PROVE  FollowedBut(None, wiring, values', which, switched, stack')
<1>1. PICK e, m, flag : e = Command.endpoint /\ m = First.node /\ flag = Flag
  OBVIOUS
<1>2. stack # <<>> /\ Command.todo # <<>>
  BY DEF SkipConnection, BeginActivation, Descend, LeaveNode, Doing
<1>3. First \in Items /\ m \in Nodes
  <2>1. First \in Items
    BY <1>2, FirstIs
  <2> QED
    BY <1>1, <2>1 DEF Items
<1>4. CASE SkipConnection
  <2>1. PICK items : items = <<>>
    OBVIOUS
  <2>2. items \in Seq(Items) /\ Continue(items)
    BY <1>4, <2>1 DEF SkipConnection
  <2>3. ~On(values, First.node) \/ wiring[First.node].target = None
    BY <1>4 DEF SkipConnection, Skipped, NodeIsActive, On
  <2> QED
    BY <1>2, <2>2, <2>3, ContinueFollows
<1>5. CASE BeginActivation
  <2>1. PICK on : on = (values[e] # 0)
    OBVIOUS
  <2>2. PICK items : items = EachChild("child", m, on)
    OBVIOUS
  <2>3. items \in Seq(Items)
    <3>1. on \in BOOLEAN
      BY <2>1
    <3>2. ItemsOfChildren(items, "child", m, on)
      BY <1>3, <2>2, <3>1, EachChildIs
    <3> QED
      BY <3>2 DEF ItemsOfChildren
  <2>4. Continue(items) /\ First.do # "fire"
    BY <1>1, <1>5, <2>1, <2>2 DEF BeginActivation, Doing
  <2> QED
    BY <1>2, <2>3, <2>4, ContinueFollows
<1>6. CASE Descend \/ LeaveNode
  <2>1. Doing("child") \/ Doing("activate")
    BY <1>6 DEF Descend, LeaveNode
  <2>2. flag \in BOOLEAN
    BY <1>1, <2>1, FlagIs
  <2>3. PICK on \in BOOLEAN : Continue(EachChild("activate", m, on))
    <3>1. CASE Descend
      <4>1. PICK on : on = (flag /\ NodeIsActive(m))
        OBVIOUS
      <4>2. on \in BOOLEAN /\ Continue(EachChild("activate", m, on))
        BY <1>1, <3>1, <4>1 DEF Descend
      <4> QED
        BY <4>2
    <3>2. CASE LeaveNode
      BY <1>1, <2>2, <3>2 DEF LeaveNode
    <3> QED
      BY <1>6, <3>1, <3>2
  <2>4. PICK items : items = EachChild("activate", m, on)
    OBVIOUS
  <2>5. items \in Seq(Items)
    <3>1. ItemsOfChildren(items, "activate", m, on)
      BY <1>3, <2>4, EachChildIs
    <3> QED
      BY <3>1 DEF ItemsOfChildren
  <2>6. First.do # "fire"
    BY <2>1 DEF Doing
  <2> QED
    BY <1>2, <2>3, <2>4, <2>5, <2>6, ContinueFollows
<1> QED
  BY <1>4, <1>5, <1>6

LEMMA PopFollows ==
  ASSUME StackOK(wiring, values, stack), Pop,
         NEW which, NEW switched, FollowedBut(None, wiring, values, which, switched, stack)
  PROVE  FollowedBut(None, wiring, values', which, switched, stack')
<1>1. PICK t : t = stack'
  OBVIOUS
<1>2. /\ stack # <<>> /\ stack[Len(stack)].todo = <<>> /\ t = SubSeq(stack, 1, Len(stack) - 1)
      /\ values' = values
  BY <1>1 DEF Pop, Command, Running
<1>3. PICK k : k = Len(stack) - 1
  OBVIOUS
<1>4. /\ k \in Nat /\ Len(stack) = k + 1 /\ Len(t) = k /\ \A i \in 1..k : t[i] = stack[i]
  <2>1. stack \in Seq(Frames) /\ Len(stack) \in Nat /\ Len(stack) # 0
    BY <1>2 DEF StackOK
  <2>2. k \in Nat /\ Len(stack) = k + 1
    BY <1>3, <2>1
  <2> QED
    BY <1>2, <1>3, <2>1, <2>2
<1>5. ASSUME NEW c, Pending(stack, c) PROVE Pending(t, c)
  <2>1. PICK i \in 1..Len(stack) : \E j \in 1..Len(stack[i].todo) :
          stack[i].todo[j].do = "fire" /\ stack[i].todo[j].node = c
    BY <1>5 DEF Pending
  <2>2. i # Len(stack)
    <3>1. Len(stack[Len(stack)].todo) = 0
      BY <1>2
    <3> QED
      BY <2>1, <3>1
  <2>3. i \in 1..k
    BY <1>4, <2>1, <2>2
  <2> QED
    BY <1>4, <2>1, <2>3 DEF Pending
<1>6. FollowedBut(None, wiring, values, which, switched, t)
  BY <1>5 DEF FollowedBut
<1> QED
  BY <1>1, <1>2, <1>6

(* After a command from outside, what it has set is to be followed. *)
LEMMA OutsideFollows ==
  ASSUME TypeOK, wiring \in Wirings, NEW e \in Settable \cup Played, NEW x, NEW source,
         Set(e, x, source, <<>>)
  PROVE  FollowedBut(None, wiring, values', changed', changed', stack')
<1>1. PICK t, d, which, more : t = <<>> /\ d = None /\ which = {} /\ more = changed'
  OBVIOUS
<1>2. e \in Endpoints /\ t \in Seq(Frames) /\ Set(e, x, source, t)
  BY <1>1, SetCommandAssumption
<1>3. FollowedBut(d, wiring, values, which, more, t)
  BY <1>1 DEF FollowedBut
<1>4. d \notin Alone(wiring)
  BY <1>1, AloneIs
<1>5. more = IF Refused(e, x, source) THEN {} ELSE {e}
  BY <1>1 DEF Set
<1>6. Refused(e, x, source) =>
        more \subseteq which /\ (d \notin Alone(wiring) \/ FollowedBy(wiring, values, d))
  BY <1>4, <1>5
<1>7. ~Refused(e, x, source) =>
        /\ e \in more \/ values'[e] = values[e]
        /\ \A c \in Alone(wiring) :
             /\ c = d => wiring[c].target = e
             /\ wiring[c].target = e =>
                  which = {} \/ (c = d /\ x = ConvertedBy(values, wiring[c].source, e))
  BY <1>1, <1>4, <1>5
<1>8. more \subseteq which \cup {e}
  BY <1>5
<1>9. FollowedBut(None, wiring, values', more, more, stack')
  BY <1>2, <1>3, <1>6, <1>7, <1>8, IssueFollows
<1> QED
  BY <1>1, <1>9

(* What a step leaves, as it was to be followed before. *)
LEMMA StepFollows ==
  ASSUME TypeOK, wiring \in Wirings, AcyclicBy(wiring), StackOK(wiring, values, stack),
         CheckerKnowsStack, FollowInv, Step
  PROVE  FollowedBut(None, wiring, values', changed', changed', stack')
<1>1. PICK ch : ch = changed'
  OBVIOUS
<1>2. changed \subseteq ch => FollowedBut(None, wiring, values, changed, ch, stack)
  BY DEF FollowInv, FollowedBut
<1>3. CASE SkipConnection \/ BeginActivation \/ Descend \/ LeaveNode
  <2>1. ch = changed
    BY <1>1, <1>3 DEF SkipConnection, BeginActivation, Descend, LeaveNode, Continue
  <2>2. FollowedBut(None, wiring, values', changed, ch, stack')
    BY <1>2, <1>3, <2>1, GoingOnFollows
  <2> QED
    BY <1>1, <2>1, <2>2
<1>4. CASE FireConnection
  <2>1. PICK f, x : f = wiring[First.node].target /\ x = Converted(Command.endpoint, f)
    OBVIOUS
  <2>2. stack # <<>> /\ Set(f, x, "CONNECTION", Proceed(<<>>))
    BY <1>4, <2>1 DEF FireConnection, Issue, Doing
  <2>3. Proceed(<<>>) # <<>>
    BY <2>2 DEF Proceed, StackOK
  <2>4. ch = changed \cup (IF Refused(f, x, "CONNECTION") THEN {} ELSE {f})
    BY <1>1, <2>2, <2>3 DEF Set
  <2>5. /\ changed \subseteq ch /\ ch \subseteq changed \cup {f}
        /\ Refused(f, x, "CONNECTION") => ch \subseteq changed
        /\ ~Refused(f, x, "CONNECTION") => f \in ch
    BY <2>4
  <2>6. FollowedBut(None, wiring, values', ch, ch, stack')
    BY <1>2, <1>4, <2>1, <2>5, FireFollows
  <2> QED
    BY <1>1, <2>6
<1>5. CASE ActivateNode
  <2>1. PICK m, x, items, again : Switches(m, x, items, again)
    BY <1>5, SwitchIs
  <2>2. PICK f, t : f = ActiveOf[m] /\ t = GoingOn(items, again)
    OBVIOUS
  <2>3. /\ stack # <<>> /\ Command.todo # <<>> /\ First.do # "fire" /\ items \in Seq(Items)
        /\ m \in Nodes /\ LeadsDown(Command.endpoint, m)
        /\ t \in Seq(Frames) /\ t # <<>> /\ Set(f, x, "SYSTEM", t)
    BY <2>1, <2>2 DEF Switches
  <2>4. ch = changed \cup (IF Refused(f, x, "SYSTEM") THEN {} ELSE {f})
    BY <1>1, <2>3 DEF Set
  <2>5. FollowedBut(None, wiring, values, changed, ch, t)
    <3>1. FollowedBut(None, wiring, values, changed, ch, stack)
      BY <1>2, <2>4
    <3> QED
      BY <2>2, <2>3, <3>1, RestFollows
  <2>6. MayFollow(f, x, changed, ch, ch)
    BY <2>4 DEF MayFollow
  <2>7. PICK e : e = Command.endpoint
    OBVIOUS
  <2>8. LeadsDown(e, m) /\ f = ActiveOf[m]
    BY <2>2, <2>3, <2>7
  <2>9. FollowedBut(None, wiring, values', ch, ch, stack')
    BY <2>3, <2>5, <2>6, <2>8, SwitchFollows
  <2> QED
    BY <1>1, <2>9
<1>6. CASE ActivateAgain
  <2>1. PICK m, t : SwitchesAgain(m, t)
    BY <1>6, SwitchAgainIs
  <2>2. PICK f, x : f = ActiveOf[m] /\ x = values[f]
    OBVIOUS
  <2>3. /\ m \in Nodes /\ LeadsDown(Command.endpoint, m) /\ t \in Seq(Frames) /\ t # <<>>
        /\ Set(f, x, "SYSTEM", t) /\ \A c : Pending(stack, c) => Pending(t, c)
    BY <2>1, <2>2 DEF SwitchesAgain
  <2>4. ch = changed \cup (IF Refused(f, x, "SYSTEM") THEN {} ELSE {f})
    BY <1>1, <2>3 DEF Set
  <2>5. FollowedBut(None, wiring, values, changed, ch, t)
    BY <1>2, <2>3, <2>4 DEF FollowedBut
  <2>6. MayFollow(f, x, changed, ch, ch)
    BY <2>4 DEF MayFollow
  <2>7. PICK e : e = Command.endpoint
    OBVIOUS
  <2>8. LeadsDown(e, m) /\ f = ActiveOf[m]
    BY <2>2, <2>3, <2>7
  <2>9. FollowedBut(None, wiring, values', ch, ch, stack')
    BY <2>3, <2>5, <2>6, <2>8, SwitchFollows
  <2> QED
    BY <1>1, <2>9
<1>7. CASE Pop
  <2>1. ch = changed
    BY <1>1, <1>7 DEF Pop
  <2>2. FollowedBut(None, wiring, values', changed, ch, stack')
    BY <1>2, <1>7, <2>1, PopFollows
  <2> QED
    BY <1>1, <2>1, <2>2
<1> QED
  BY <1>3, <1>4, <1>5, <1>6, <1>7 DEF Step

-----------------------------------------------------------------------------
(* Nodes that have been activated *)

(* The outermost command is to set n once more; it has other things to do  *)
(* before that.                                                            *)
Waits(s, n) == s # <<>> /\ \E k \in 1..Len(s[1].again) : s[1].again[k] = n
Going(s) == s # <<>> /\ s[1].todo # <<>>

(* Where connections leave containers alone, only the outermost command    *)
(* activates nodes.                                                        *)
OuterOnly(s) ==
  \A i \in 1..Len(s) : i > 1 => s[i].again = <<>> /\ ~IsActiveOf(s[i].endpoint, {"container"})

(* The "active" endpoints of nodes that have been activated, as nothing    *)
(* else does, and are not to be activated once more.                       *)
Roused(w, v, ch, s) ==
  {e \in ch : \E n \in Nodes : /\ ActiveOf[n] = e /\ Kind[n] # "container" /\ On(v, n)
                               /\ ~SwitchedBy(w, e) /\ ~Waits(s, n)}

(* Endpoints that have not been set, or that something else may set. *)
Elsewise(w, ch) == {e \in Endpoints \cup {None} : e \notin ch \/ SwitchedBy(w, e)}

(* While the outermost command goes through the tree, all nodes that it    *)
(* has activated wait for their second time.  After that, what waits no    *)
(* more is followed through the connections that have been activated.      *)
RousedWith(w, v, ch, s) ==
  /\ ch \subseteq Endpoints /\ OuterOnly(s)
  /\ \A n \in Nodes : Waits(s, n) => ActiveOf[n] \in ch
  /\ Going(s) => Roused(w, v, ch, s) = {}
  /\ FollowedBut(None, w, v, Roused(w, v, ch, s), Elsewise(w, ch), s)

RousedInv == RousedWith(wiring, values, changed, stack)

(* Steps that neither activate a node nor set one once more: what nothing  *)
(* but activation switches they do not touch.                              *)
Untouched(u, ch) ==
  /\ changed \subseteq ch /\ ch \subseteq Endpoints
  /\ \A e \in Endpoints : ~SwitchedBy(wiring, e) => (e \in ch <=> e \in changed) /\ u[e] = values[e]

SameWaiting(s) ==
  /\ OuterOnly(s) /\ (Going(s) => Going(stack))
  /\ \A n \in Nodes : Waits(s, n) <=> Waits(stack, n)

LEMMA WaitingStays ==
  ASSUME RousedInv, NEW u, NEW ch, NEW s, Untouched(u, ch), SameWaiting(s),
         NEW R, R = Roused(wiring, values, changed, stack), NEW E, E = Elsewise(wiring, changed),
         FollowedBut(None, wiring, u, R, E, s)
  PROVE  RousedWith(wiring, u, ch, s)
<1>1. changed \subseteq ch /\ ch \subseteq Endpoints /\ changed \subseteq Endpoints /\ None \notin Endpoints
  BY SetCommandAssumption DEF Untouched
<1>2. Roused(wiring, u, ch, s) = R
  <2>1. ASSUME NEW e \in Endpoints, NEW n \in Nodes, ActiveOf[n] = e, ~SwitchedBy(wiring, e)
        PROVE  /\ e \in ch <=> e \in changed
               /\ On(u, n) <=> On(values, n)
               /\ Waits(s, n) <=> Waits(stack, n)
    BY <1>1, <2>1 DEF Untouched, SameWaiting, On
  <2> QED
    BY <1>1, <2>1 DEF Roused
<1>3. Elsewise(wiring, ch) = E
  BY <1>1 DEF Elsewise, Untouched
<1>4. FollowedBut(None, wiring, u, Roused(wiring, u, ch, s), Elsewise(wiring, ch), s)
  BY <1>2, <1>3
<1>5. Going(s) => R = {}
  BY DEF SameWaiting, RousedInv, RousedWith
<1>6. \A n \in Nodes : Waits(s, n) => ActiveOf[n] \in ch
  BY <1>1 DEF SameWaiting, RousedInv, RousedWith
<1> QED
  BY <1>1, <1>2, <1>4, <1>5, <1>6 DEF RousedWith, SameWaiting

(* The stack of a command that goes on. *)
LEMMA GoingOnStack ==
  ASSUME stack \in Seq(Frames), stack # <<>>, NEW items, NEW again, NEW t, t = GoingOn(items, again)
  PROVE  /\ \E S : t \in Seq(S)
         /\ t # <<>> /\ Len(t) = Len(stack) /\ Len(stack) \in 1..Len(stack) /\ Command = stack[Len(stack)]
         /\ \A i \in 1..Len(stack) : i # Len(stack) => t[i] = stack[i]
         /\ t[Len(stack)].again = again /\ t[Len(stack)].endpoint = Command.endpoint
<1>1. Len(stack) \in 1..Len(stack) /\ Command = stack[Len(stack)] /\ Command \in Frames
  BY DEF Command, Running
<1>2. PICK f : f = Command
  OBVIOUS
<1>3. PICK g : g = [f EXCEPT !.todo = items \o Tail(f.todo), !.again = again]
  OBVIOUS
<1>4. g.again = again /\ g.endpoint = f.endpoint
  BY <1>1, <1>2, <1>3 DEF Frames
<1>5. t = [stack EXCEPT ![Len(stack)] = g]
  BY <1>2, <1>3 DEF GoingOn
<1>6. t \in Seq(Frames \cup {g})
  BY <1>1, <1>5
<1>7. /\ t # <<>> /\ Len(t) = Len(stack) /\ t[Len(stack)] = g
      /\ \A i \in 1..Len(stack) : i # Len(stack) => t[i] = stack[i]
  BY <1>1, <1>5, <1>6
<1> QED
  BY <1>1, <1>2, <1>4, <1>6, <1>7

LEMMA GoingOnWaits ==
  ASSUME OuterOnly(stack), stack \in Seq(Frames), stack # <<>>, Command.todo # <<>>,
         NEW items, NEW t, t = GoingOn(items, Command.again)
  PROVE  SameWaiting(t)
<1>1. PICK again : again = Command.again
  OBVIOUS
<1>2. /\ Len(t) = Len(stack) /\ Len(stack) \in 1..Len(stack) /\ Command = stack[Len(stack)]
      /\ \A i \in 1..Len(stack) : i # Len(stack) => t[i] = stack[i]
      /\ t[Len(stack)].again = again /\ t[Len(stack)].endpoint = Command.endpoint /\ t # <<>>
  BY <1>1, GoingOnStack
<1>3. \A i \in 1..Len(stack) : t[i].again = stack[i].again /\ t[i].endpoint = stack[i].endpoint
  BY <1>1, <1>2
<1>4. OuterOnly(t)
  BY <1>2, <1>3 DEF OuterOnly
<1>5. 1 \in 1..Len(stack) /\ Len(stack) \in Nat
  BY <1>2
<1>6. Going(t) => Going(stack)
  BY <1>2, <1>5 DEF Going
<1>7. \A n \in Nodes : Waits(t, n) <=> Waits(stack, n)
  BY <1>2, <1>3, <1>5 DEF Waits
<1> QED
  BY <1>4, <1>6, <1>7 DEF SameWaiting

(* A command on no container's "active" endpoint begins. *)
LEMMA PushedWaits ==
  ASSUME NEW t, SameWaiting(t), NEW S, t \in Seq(S), t # <<>>, NEW f, f.again = <<>>,
         ~IsActiveOf(f.endpoint, {"container"}), NEW s, s = Append(t, f)
  PROVE  SameWaiting(s)
<1>1. /\ Len(t) \in Nat \ {0} /\ Len(s) = Len(t) + 1 /\ s # <<>>
      /\ s[Len(t) + 1] = f /\ \A i \in 1..Len(t) : s[i] = t[i]
  <2>1. t \in Seq(S \cup {f}) /\ s \in Seq(S \cup {f})
    OBVIOUS
  <2> QED
    BY <2>1
<1>2. \A i \in 1..Len(s) : i \in 1..Len(t) \/ i = Len(t) + 1
  BY <1>1
<1>3. OuterOnly(s)
  BY <1>1, <1>2 DEF OuterOnly, SameWaiting
<1>4. s[1] = t[1]
  BY <1>1
<1>5. (Going(s) => Going(t)) /\ \A n \in Nodes : Waits(s, n) <=> Waits(t, n)
  BY <1>1, <1>4 DEF Going, Waits
<1> QED
  BY <1>3, <1>5 DEF SameWaiting

LEMMA GoingOnRouses ==
  ASSUME TypeOK, wiring \in Wirings, StackOK(wiring, values, stack), RousedInv,
         SkipConnection \/ BeginActivation \/ Descend \/ LeaveNode
  PROVE  RousedWith(wiring, values', changed', stack')
<1>1. stack # <<>> /\ Command.todo # <<>> /\ stack \in Seq(Frames)
  BY DEF SkipConnection, BeginActivation, Descend, LeaveNode, Doing, StackOK
<1>2. PICK items : Continue(items)
  BY DEF SkipConnection, BeginActivation, Descend, LeaveNode
<1>3. PICK t, u, ch : t = stack' /\ u = values' /\ ch = changed'
  OBVIOUS
<1>4. t = GoingOn(items, Command.again) /\ u = values /\ ch = changed
  BY <1>1, <1>2, <1>3, ProceedIs DEF Continue
<1>5. SameWaiting(t)
  BY <1>1, <1>4, GoingOnWaits DEF RousedInv, RousedWith
<1>6. Untouched(u, ch)
  BY <1>4 DEF Untouched, RousedInv, RousedWith
<1>7. PICK R, E : R = Roused(wiring, values, changed, stack) /\ E = Elsewise(wiring, changed)
  OBVIOUS
<1>8. FollowedBut(None, wiring, values, R, E, stack)
  BY <1>7 DEF RousedInv, RousedWith
<1>9. FollowedBut(None, wiring, values', R, E, stack')
  BY <1>8, GoingOnFollows
<1>10. FollowedBut(None, wiring, u, R, E, t)
  BY <1>3, <1>9
<1>11. RousedWith(wiring, u, ch, t)
  BY <1>5, <1>6, <1>7, <1>10, WaitingStays
<1> QED
  BY <1>3, <1>11

LEMMA FireRouses ==
  ASSUME TypeOK, wiring \in Wirings, AcyclicBy(wiring), StackOK(wiring, values, stack),
         CheckerKnowsStack, ContainersApart, RousedInv, FireConnection
  PROVE  RousedWith(wiring, values', changed', stack')
<1>1. PICK f, x, items : f = wiring[First.node].target /\ x = Converted(Command.endpoint, f) /\ items = <<>>
  OBVIOUS
<1>2. /\ stack # <<>> /\ Command.todo # <<>> /\ stack \in Seq(Frames) /\ First.do = "fire"
      /\ f # None /\ Set(f, x, "CONNECTION", Proceed(items))
  BY <1>1 DEF FireConnection, Issue, Doing, StackOK
<1>3. First.node \in DOMAIN wiring
  BY <1>2, FirstIs DEF ItemOK
<1>4. f \in Endpoints /\ SwitchedBy(wiring, f) /\ ~IsActiveOf(f, {"container"})
  <2>1. wiring[First.node] \in [source : Endpoints, target : Endpoints \cup {None}]
    BY <1>3, SetCommandAssumption
  <2> QED
    BY <1>1, <1>2, <1>3, <2>1 DEF SwitchedBy, ContainersApart
<1>5. PICK t, s, u, ch : t = Proceed(items) /\ s = stack' /\ u = values' /\ ch = changed'
  OBVIOUS
<1>6. t = GoingOn(items, Command.again)
  BY <1>2, <1>5, ProceedIs
<1>7. SameWaiting(t)
  BY <1>2, <1>6, GoingOnWaits DEF RousedInv, RousedWith
<1>8. t # <<>> /\ \E S : t \in Seq(S)
  BY <1>2, <1>6, GoingOnStack
<1>9. SameWaiting(s)
  <2>1. CASE Refused(f, x, "CONNECTION")
    BY <1>2, <1>5, <1>7, <2>1 DEF Set
  <2>2. CASE ~Refused(f, x, "CONNECTION")
    <3>1. PICK g : g = [endpoint |-> f, source |-> "CONNECTION", todo |-> Todo(f), again |-> <<>>]
      OBVIOUS
    <3>2. s = Append(t, g)
      BY <1>2, <1>5, <2>2, <3>1 DEF Set
    <3>3. g.again = <<>> /\ ~IsActiveOf(g.endpoint, {"container"})
      BY <1>4, <3>1
    <3>4. PICK S : t \in Seq(S)
      BY <1>8
    <3> QED
      BY <1>7, <1>8, <3>2, <3>3, <3>4, PushedWaits
  <2> QED
    BY <2>1, <2>2
<1>10. Untouched(u, ch)
  <2>1. changed \subseteq Endpoints
    BY DEF RousedInv, RousedWith
  <2>2. changed \subseteq ch /\ ch \subseteq changed \cup {f}
    BY <1>2, <1>5, <1>8 DEF Set
  <2>3. \A e \in Endpoints : e # f => u[e] = values[e]
    BY <1>2, <1>5 DEF Set, TypeOK
  <2> QED
    BY <1>4, <2>1, <2>2, <2>3 DEF Untouched
<1>11. PICK R, E : R = Roused(wiring, values, changed, stack) /\ E = Elsewise(wiring, changed)
  OBVIOUS
<1>12. FollowedBut(None, wiring, values, R, E, stack) /\ f \in E
  BY <1>4, <1>11 DEF RousedInv, RousedWith, Elsewise
<1>13. FollowedBut(None, wiring, values', R, E, stack')
  <2>1. /\ R \subseteq R \cup {f} /\ (Refused(f, x, "CONNECTION") => R \subseteq R)
        /\ ~Refused(f, x, "CONNECTION") => f \in E
    BY <1>12
  <2> QED
    BY <1>1, <1>12, <2>1, FireFollows
<1>14. FollowedBut(None, wiring, u, R, E, s)
  BY <1>5, <1>13
<1>15. RousedWith(wiring, u, ch, s)
  BY <1>9, <1>10, <1>11, <1>14, WaitingStays
<1> QED
  BY <1>5, <1>15

(* Only the outermost command switches nodes. *)
LEMMA OuterSwitches ==
  ASSUME OuterOnly(stack), stack \in Seq(Frames), stack # <<>>, NEW m, LeadsDown(Command.endpoint, m)
  PROVE  Len(stack) = 1 /\ Command = stack[1]
<1>1. Len(stack) \in Nat /\ Len(stack) \in 1..Len(stack) /\ Command = stack[Len(stack)]
  BY DEF Command, Running
<1>2. IsActiveOf(Command.endpoint, {"container"})
  BY DEF LeadsDown
<1>3. ~(Len(stack) > 1)
  BY <1>1, <1>2 DEF OuterOnly
<1>4. PICK k : k = Len(stack)
  OBVIOUS
<1>5. k \in Nat /\ k \in 1..k /\ ~(k > 1)
  BY <1>1, <1>3, <1>4
<1>6. k = 1
  BY <1>5
<1> QED
  BY <1>1, <1>4, <1>6

LEMMA Appended ==
  ASSUME NEW S, NEW t \in Seq(S), NEW f \in S, NEW s, s = Append(t, f)
  PROVE  /\ Len(s) = Len(t) + 1 /\ s # <<>>
         /\ s[Len(t) + 1] = f /\ \A i \in 1..Len(t) : s[i] = t[i]
<1>1. s \in Seq(S)
  OBVIOUS
<1> QED
  BY <1>1

(* Two commands, of which the second switches a node. *)
LEMMA SwitchOuter ==
  ASSUME NEW e, NEW m \in Nodes, LeadsDown(e, m), NEW t, NEW S, t \in Seq(S), Len(t) = 1,
         NEW f, f.endpoint = ActiveOf[m], f.again = <<>>, NEW s, s = Append(t, f)
  PROVE  OuterOnly(s) /\ s # <<>> /\ s[1] = t[1]
<1>1. Len(s) = 2 /\ s[1] = t[1] /\ s[2] = f /\ s # <<>>
  <2>1. PICK U : U = S \cup {f}
    OBVIOUS
  <2>2. t \in Seq(U) /\ f \in U
    BY <2>1
  <2>3. /\ Len(s) = Len(t) + 1 /\ s # <<>>
        /\ s[Len(t) + 1] = f /\ \A i \in 1..Len(t) : s[i] = t[i]
    BY <2>2, Appended
  <2>4. 1 \in 1..Len(t) /\ Len(t) + 1 = 2
    OBVIOUS
  <2> QED
    BY <2>3, <2>4
<1>2. OwnerOf[ActiveOf[m]] = m /\ Kind[m] # "container"
  BY SwitchLeads DEF LeadsDown
<1>3. ~IsActiveOf(f.endpoint, {"container"})
  BY <1>2 DEF IsActiveOf
<1> QED
  BY <1>1, <1>3 DEF OuterOnly

LEMMA SwitchRouses ==
  ASSUME TypeOK, wiring \in Wirings, AcyclicBy(wiring), StackOK(wiring, values, stack),
         CheckerKnowsStack, RousedInv, ActivateNode
  PROVE  RousedWith(wiring, values', changed', stack')
<1>1. PICK m, x, items, again : Switches(m, x, items, again)
  BY SwitchIs
<1>2. PICK f, t, e : f = ActiveOf[m] /\ t = GoingOn(items, again) /\ e = Command.endpoint
  OBVIOUS
<1>3. PICK s, u, ch : s = stack' /\ u = values' /\ ch = changed'
  OBVIOUS
<1>4. /\ stack # <<>> /\ Command.todo # <<>> /\ m \in Nodes /\ LeadsDown(e, m)
      /\ again \in Seq(Nodes) /\ Command.again \in Seq(Nodes) /\ x \in {0, 1}
      /\ (x = 1 /\ again = Append(Command.again, m)) \/ (x = 0 /\ again = Command.again)
      /\ t # <<>> /\ Set(f, x, "SYSTEM", t) /\ stack \in Seq(Frames) /\ OuterOnly(stack)
      /\ changed \subseteq Endpoints
  BY <1>1, <1>2 DEF Switches, StackOK, RousedInv, RousedWith
<1>5. Len(stack) = 1 /\ Command = stack[1]
  BY <1>2, <1>4, OuterSwitches
<1>6. f \in Endpoints /\ OwnerOf[f] = m
  BY <1>2, <1>4, SwitchLeads
<1>7. ~Refused(f, x, "SYSTEM")
  BY <1>2, <1>4, NotRefused
<1>8. PICK S : t \in Seq(S)
  BY <1>2, <1>4, GoingOnStack
<1>9. Len(t) = 1 /\ t[1].again = again
  BY <1>2, <1>4, <1>5, GoingOnStack
<1>10. OuterOnly(s) /\ s # <<>> /\ s[1].again = again
  <2>1. PICK g : g = [endpoint |-> f, source |-> "SYSTEM", todo |-> Todo(f), again |-> <<>>]
    OBVIOUS
  <2>2. s = Append(t, g) /\ g.endpoint = ActiveOf[m] /\ g.again = <<>>
    BY <1>2, <1>3, <1>4, <1>7, <2>1 DEF Set
  <2>3. LeadsDown(e, m) /\ m \in Nodes /\ t \in Seq(S) /\ Len(t) = 1
    BY <1>4, <1>8, <1>9
  <2>4. OuterOnly(s) /\ s # <<>> /\ s[1] = t[1]
    BY <2>2, <2>3, SwitchOuter
  <2> QED
    BY <1>9, <2>4
<1>11. u[f] = x /\ ch = changed \cup {f} /\ \A d \in Endpoints : d # f => u[d] = values[d]
  <2>1. x # None
    <3>1. x \in Allowed[f]
      BY <1>2, <1>4, TreeAssumption DEF LeadsDown
    <3> QED
      BY <1>6, <3>1, SetCommandAssumption
  <2> QED
    BY <1>3, <1>4, <1>6, <1>7, <2>1 DEF Set, TypeOK
<1>12. /\ \A n : Waits(stack, n) => Waits(s, n)
       /\ \A n : Waits(s, n) => Waits(stack, n) \/ n = m
       /\ x = 1 => Waits(s, m)
  <2>1. PICK a : a = Command.again
    OBVIOUS
  <2>2. a \in Seq(Nodes) /\ ((x = 1 /\ again = Append(a, m)) \/ (x = 0 /\ again = a))
    BY <1>4, <2>1
  <2>3. /\ \A n : (\E k \in 1..Len(a) : a[k] = n) => (\E k \in 1..Len(again) : again[k] = n)
        /\ \A n : (\E k \in 1..Len(again) : again[k] = n) => (\E k \in 1..Len(a) : a[k] = n) \/ n = m
        /\ x = 1 => \E k \in 1..Len(again) : again[k] = m
    <3>1. CASE x = 0 /\ again = a
      BY <3>1
    <3>2. CASE x = 1 /\ again = Append(a, m)
      <4>1. /\ Len(a) \in Nat /\ Len(again) = Len(a) + 1 /\ again[Len(a) + 1] = m
            /\ \A k \in 1..Len(a) : again[k] = a[k]
        BY <1>4, <2>2, <3>2
      <4>2. Len(a) + 1 \in 1..Len(again) /\ \A k \in 1..Len(a) : k \in 1..Len(again)
        BY <4>1
      <4>3. \A k \in 1..Len(again) : k \in 1..Len(a) \/ k = Len(a) + 1
        BY <4>1
      <4> QED
        BY <4>1, <4>2, <4>3
    <3> QED
      BY <2>2, <3>1, <3>2
  <2> QED
    BY <1>4, <1>5, <1>10, <2>1, <2>3 DEF Waits
<1>13. Roused(wiring, u, ch, s) = {}
  <2> SUFFICES ASSUME NEW d \in ch, NEW n \in Nodes, ActiveOf[n] = d, Kind[n] # "container", On(u, n),
                      ~SwitchedBy(wiring, d), ~Waits(s, n)
               PROVE  FALSE
    BY DEF Roused
  <2>1. CASE d = f
    <3>1. n = m
      BY <1>2, <1>6, <2>1, SetCommandAssumption, TreeAssumption
    <3>2. x # 0
      BY <1>6, <1>11, <2>1, SetCommandAssumption DEF On
    <3> QED
      BY <1>4, <1>12, <3>1, <3>2
  <2>2. CASE d # f
    <3>1. d \in changed /\ d \in Endpoints
      BY <1>4, <1>11, <2>2
    <3>2. On(values, n) /\ ~Waits(stack, n)
      BY <1>11, <1>12, <2>2, <3>1 DEF On
    <3>3. d \in Roused(wiring, values, changed, stack)
      BY <3>1, <3>2 DEF Roused
    <3>4. Going(stack)
      BY <1>4, <1>5 DEF Going
    <3> QED
      BY <3>3, <3>4 DEF RousedInv, RousedWith
  <2> QED
    BY <2>1, <2>2
<1>14. \A n \in Nodes : Waits(s, n) => ActiveOf[n] \in ch
  BY <1>2, <1>11, <1>12 DEF RousedInv, RousedWith
<1>15. PICK R : R = Roused(wiring, u, ch, s)
  OBVIOUS
<1>16. FollowedBut(None, wiring, u, R, Elsewise(wiring, ch), s)
  BY <1>13, <1>15 DEF FollowedBut
<1>17. RousedWith(wiring, u, ch, s)
  BY <1>4, <1>6, <1>10, <1>11, <1>13, <1>14, <1>15, <1>16 DEF RousedWith
<1> QED
  BY <1>3, <1>17

LEMMA AgainRouses ==
  ASSUME TypeOK, wiring \in Wirings, AcyclicBy(wiring), StackOK(wiring, values, stack),
         CheckerKnowsStack, RousedInv, ActivateAgain
  PROVE  RousedWith(wiring, values', changed', stack')
<1>1. PICK m, t : SwitchesAgain(m, t)
  BY SwitchAgainIs
<1>2. PICK f, x, e, a : f = ActiveOf[m] /\ x = values[f] /\ e = Command.endpoint /\ a = Command.again
  OBVIOUS
<1>3. PICK s, u, ch : s = stack' /\ u = values' /\ ch = changed'
  OBVIOUS
<1>4. /\ stack # <<>> /\ m \in Nodes /\ LeadsDown(e, m) /\ a \in Seq(Nodes) /\ a # <<>> /\ m = Head(a)
      /\ t \in Seq(Frames) /\ t # <<>> /\ Len(t) = Len(stack) /\ Set(f, x, "SYSTEM", t)
      /\ t[Len(stack)].todo = <<>> /\ t[Len(stack)].again = Tail(a)
      /\ \A c : Pending(stack, c) => Pending(t, c)
      /\ stack \in Seq(Frames) /\ OuterOnly(stack) /\ changed \subseteq Endpoints
  BY <1>1, <1>2 DEF SwitchesAgain, StackOK, RousedInv, RousedWith
<1>5. Len(stack) = 1 /\ stack[1].again = a
  BY <1>2, <1>4, OuterSwitches
<1>6. f \in Endpoints /\ OwnerOf[f] = m /\ f \notin Bangs /\ Allowed[f] = {0, 1}
  BY <1>2, <1>4, SwitchLeads, TreeAssumption DEF LeadsDown
<1>7. ~Refused(f, x, "SYSTEM")
  <2>1. x \in {0, 1}
    BY <1>2, <1>6 DEF TypeOK
  <2> QED
    BY <1>2, <1>4, <2>1, NotRefused
<1>8. /\ 1 \in 1..Len(a) /\ a[1] = m /\ Len(Tail(a)) = Len(a) - 1
      /\ \A k \in 1..Len(a) : k # 1 => k - 1 \in 1..Len(Tail(a)) /\ Tail(a)[k - 1] = a[k]
      /\ \A k \in 1..Len(Tail(a)) : k + 1 \in 1..Len(a) /\ Tail(a)[k] = a[k + 1]
  BY <1>4
<1>9. Waits(stack, m)
  BY <1>4, <1>5, <1>8 DEF Waits
<1>10. f \in changed
  BY <1>2, <1>4, <1>9 DEF RousedInv, RousedWith
<1>11. ch = changed /\ \A d \in Endpoints : u[d] = values[d]
  BY <1>2, <1>3, <1>4, <1>6, <1>7, <1>10 DEF Set, TypeOK
<1>12. OuterOnly(s) /\ s # <<>> /\ s[1] = t[1]
  <2>1. PICK g : g = [endpoint |-> f, source |-> "SYSTEM", todo |-> Todo(f), again |-> <<>>]
    OBVIOUS
  <2>2. s = Append(t, g) /\ g.endpoint = ActiveOf[m] /\ g.again = <<>>
    BY <1>2, <1>3, <1>4, <1>7, <2>1 DEF Set
  <2>3. PICK S : t \in Seq(S)
    BY <1>4
  <2>4. LeadsDown(e, m) /\ m \in Nodes /\ t \in Seq(S) /\ Len(t) = 1
    BY <1>4, <1>5, <2>3
  <2>5. OuterOnly(s) /\ s # <<>> /\ s[1] = t[1]
    BY <2>2, <2>4, SwitchOuter
  <2> QED
    BY <2>5
<1>13. ~Going(s) /\ s[1].again = Tail(a)
  BY <1>4, <1>5, <1>12 DEF Going
<1>14. /\ \A n : Waits(s, n) => Waits(stack, n)
       /\ \A n : Waits(stack, n) => Waits(s, n) \/ n = m
  <2>1. PICK r : r = Tail(a)
    OBVIOUS
  <2>2. /\ 1 \in 1..Len(a) /\ a[1] = m
        /\ \A k \in 1..Len(a) : k # 1 => k - 1 \in 1..Len(r) /\ r[k - 1] = a[k]
        /\ \A k \in 1..Len(r) : k + 1 \in 1..Len(a) /\ r[k] = a[k + 1]
    BY <1>8, <2>1
  <2>3. s[1].again = r /\ stack[1].again = a /\ s # <<>> /\ stack # <<>>
    BY <1>4, <1>5, <1>12, <1>13, <2>1
  <2>4. \A n : Waits(s, n) => Waits(stack, n)
    BY <2>2, <2>3 DEF Waits
  <2>5. ASSUME NEW n, Waits(stack, n), n # m PROVE Waits(s, n)
    <3>1. PICK k \in 1..Len(a) : a[k] = n
      BY <2>3, <2>5 DEF Waits
    <3>2. k - 1 \in 1..Len(r) /\ r[k - 1] = n
      BY <2>2, <2>5, <3>1
    <3>3. \E i \in 1..Len(r) : r[i] = n
      BY <3>2
    <3> QED
      BY <2>3, <3>3 DEF Waits
  <2> QED
    BY <2>4, <2>5
<1>15. PICK R, E, more : /\ R = Roused(wiring, values, changed, stack) /\ E = Elsewise(wiring, changed)
                         /\ more = Roused(wiring, u, ch, s)
  OBVIOUS
<1>16. more \subseteq R \cup {f}
  <2> SUFFICES ASSUME NEW d \in more, d # f PROVE d \in R
    OBVIOUS
  <2>1. d \in Roused(wiring, u, ch, s)
    BY <1>15
  <2>2. d \in ch /\ \E n \in Nodes : /\ ActiveOf[n] = d /\ Kind[n] # "container" /\ On(u, n)
                                     /\ ~SwitchedBy(wiring, d) /\ ~Waits(s, n)
    BY <2>1 DEF Roused
  <2>3. PICK n \in Nodes : /\ ActiveOf[n] = d /\ Kind[n] # "container" /\ On(u, n)
                           /\ ~SwitchedBy(wiring, d) /\ ~Waits(s, n)
    BY <2>2
  <2>4. n # m /\ d \in changed /\ d \in Endpoints
    BY <1>2, <1>4, <1>11, <2>2, <2>3
  <2>5. On(values, n) /\ ~Waits(stack, n)
    BY <1>11, <1>14, <2>3, <2>4 DEF On
  <2>6. d \in Roused(wiring, values, changed, stack)
    BY <2>3, <2>4, <2>5 DEF Roused
  <2> QED
    BY <1>15, <2>6
<1>17. FollowedBut(None, wiring, values, R, E, stack)
  BY <1>15 DEF RousedInv, RousedWith
<1>18. FollowedBut(None, wiring, values, R, E, t)
  BY <1>4, <1>17 DEF FollowedBut
<1>19. MayFollow(f, x, R, E, more)
  BY <1>3, <1>6, <1>7, <1>11, <1>16 DEF MayFollow
<1>20. FollowedBut(None, wiring, values', more, E, stack')
  BY <1>2, <1>4, <1>18, <1>19, SwitchFollows
<1>21. FollowedBut(None, wiring, u, Roused(wiring, u, ch, s), Elsewise(wiring, ch), s)
  BY <1>3, <1>11, <1>15, <1>20
<1>22. \A n \in Nodes : Waits(s, n) => ActiveOf[n] \in ch
  BY <1>11, <1>14 DEF RousedInv, RousedWith
<1>23. RousedWith(wiring, u, ch, s)
  BY <1>4, <1>11, <1>12, <1>13, <1>21, <1>22 DEF RousedWith
<1> QED
  BY <1>3, <1>23

LEMMA PopRouses ==
  ASSUME TypeOK, wiring \in Wirings, StackOK(wiring, values, stack), RousedInv, Pop
  PROVE  RousedWith(wiring, values', changed', stack')
<1>1. PICK s, u, ch : s = stack' /\ u = values' /\ ch = changed'
  OBVIOUS
<1>2. /\ stack # <<>> /\ stack \in Seq(Frames) /\ OuterOnly(stack) /\ changed \subseteq Endpoints
      /\ stack[Len(stack)].todo = <<>> /\ stack[Len(stack)].again = <<>>
      /\ s = SubSeq(stack, 1, Len(stack) - 1) /\ u = values /\ ch = changed
  BY <1>1 DEF Pop, Command, Running, StackOK, RousedInv, RousedWith
<1>3. PICK k : k = Len(stack) - 1
  OBVIOUS
<1>4. k \in Nat /\ Len(stack) = k + 1
  <2>1. Len(stack) \in Nat /\ Len(stack) # 0
    BY <1>2
  <2> QED
    BY <1>3, <2>1
<1>5. Len(s) = k /\ (k # 0 => s # <<>>) /\ (k = 0 => s = <<>>) /\ \A i \in 1..k : s[i] = stack[i]
  <2>1. k \in Int /\ 1 \in Int /\ s = SubSeq(stack, 1, k)
        /\ \A i \in 1..k : i \in 1..Len(stack) /\ stack[i] \in Frames
    BY <1>2, <1>3, <1>4
  <2>2. /\ SubSeq(stack, 1, k) \in Seq(Frames)
        /\ Len(SubSeq(stack, 1, k)) = IF 1 <= k THEN k - 1 + 1 ELSE 0
        /\ \A i \in 1..k - 1 + 1 : SubSeq(stack, 1, k)[i] = stack[1 + i - 1]
    BY <2>1, SubSeqProperties
  <2>3. s \in Seq(Frames) /\ Len(s) = k /\ \A i \in 1..k : s[i] = stack[i]
    BY <1>4, <2>1, <2>2
  <2> QED
    BY <2>3
<1>6. OuterOnly(s)
  BY <1>2, <1>4, <1>5 DEF OuterOnly
<1>7. (Going(s) => Going(stack)) /\ \A n \in Nodes : Waits(s, n) <=> Waits(stack, n)
  <2>1. CASE k = 0
    <3>1. \A n : ~Waits(stack, n)
      <4>1. Len(stack[1].again) = 0
        BY <1>2, <1>4, <2>1
      <4> QED
        BY <4>1 DEF Waits
    <3> QED
      BY <1>5, <2>1, <3>1 DEF Waits, Going
  <2>2. CASE k # 0
    BY <1>2, <1>4, <1>5, <2>2 DEF Waits, Going
  <2> QED
    BY <2>1, <2>2
<1>8. SameWaiting(s) /\ Untouched(u, ch)
  BY <1>2, <1>6, <1>7 DEF SameWaiting, Untouched
<1>9. PICK R, E : R = Roused(wiring, values, changed, stack) /\ E = Elsewise(wiring, changed)
  OBVIOUS
<1>10. FollowedBut(None, wiring, values, R, E, stack)
  BY <1>9 DEF RousedInv, RousedWith
<1>11. FollowedBut(None, wiring, values', R, E, stack')
  BY <1>10, PopFollows
<1>12. FollowedBut(None, wiring, u, R, E, s)
  BY <1>1, <1>11
<1>13. RousedWith(wiring, u, ch, s)
  BY <1>8, <1>9, <1>12, WaitingStays
<1> QED
  BY <1>1, <1>13

(* A command from outside activates nothing itself. *)
LEMMA OutsideRouses ==
  ASSUME TypeOK, wiring \in Wirings, NEW e \in Settable \cup Played, NEW x, NEW source,
         Set(e, x, source, <<>>)
  PROVE  RousedWith(wiring, values', changed', stack')
<1>1. PICK s, u, ch : s = stack' /\ u = values' /\ ch = changed'
  OBVIOUS
<1>2. e \in Endpoints /\ SwitchedBy(wiring, e)
  BY SetCommandAssumption DEF SwitchedBy
<1>3. ch \subseteq {e}
  BY <1>1 DEF Set
<1>4. OuterOnly(s) /\ \A n : ~Waits(s, n)
  <2>1. CASE Refused(e, x, source)
    <3>1. s = <<>> /\ Len(s) = 0
      BY <1>1, <2>1 DEF Set
    <3> QED
      BY <3>1 DEF OuterOnly, Waits
  <2>2. CASE ~Refused(e, x, source)
    <3>1. PICK f : f = [endpoint |-> e, source |-> source, todo |-> Todo(e), again |-> <<>>]
      OBVIOUS
    <3>2. s = <<f>>
      BY <1>1, <2>2, <3>1 DEF Set
    <3>3. Len(s) = 1 /\ s[1].again = <<>> /\ Len(s[1].again) = 0
      BY <3>1, <3>2
    <3> QED
      BY <3>3 DEF OuterOnly, Waits
  <2> QED
    BY <2>1, <2>2
<1>5. Roused(wiring, u, ch, s) = {}
  BY <1>2, <1>3 DEF Roused
<1>6. PICK R : R = Roused(wiring, u, ch, s)
  OBVIOUS
<1>7. FollowedBut(None, wiring, u, R, Elsewise(wiring, ch), s)
  BY <1>5, <1>6 DEF FollowedBut
<1>8. RousedWith(wiring, u, ch, s)
  BY <1>2, <1>3, <1>4, <1>5, <1>6, <1>7 DEF RousedWith
<1> QED
  BY <1>1, <1>8

-----------------------------------------------------------------------------

FollowsInv == SeriesInv({}) /\ (Acyclic => FollowInv)

LEMMA FollowsInitially == Init => FollowsInv
<1> SUFFICES ASSUME Init PROVE FollowsInv
  OBVIOUS
<1>1. stack = <<>> /\ wiring \in Wirings /\ Len(stack) = 0 /\ stack \in Seq(Frames) /\ changed = {}
  BY DEF Init
<1>2. StackOK(wiring, values, stack)
  BY <1>1 DEF StackOK
<1>3. SeriesInv({})
  BY <1>1, <1>2 DEF SeriesInv, Kept, Switched
<1>4. FollowInv
  BY <1>1 DEF FollowInv, FollowedBut
<1> QED
  BY <1>3, <1>4 DEF FollowsInv

LEMMA FollowsStep ==
  ASSUME FollowsInv, StackInv, TypeOK, [Next]_vars
  PROVE  FollowsInv'
<1>1. SeriesInv({})'
  BY SeriesStep DEF FollowsInv
<1>2. wiring' = wiring
  BY InTree DEF tree, Step, ApiSet, ModuleSet, FireConnection, SkipConnection, BeginActivation,
     Descend, LeaveNode, ActivateNode, ActivateAgain, Pop, Continue, Issue, Set
<1>3. Acyclic' <=> Acyclic
  BY <1>2 DEF Acyclic, Leads
<1>4. ASSUME Acyclic PROVE FollowInv'
  <2>1. /\ wiring \in Wirings /\ AcyclicBy(wiring) /\ StackOK(wiring, values, stack)
        /\ CheckerKnowsStack /\ FollowInv
    BY <1>4, AcyclicIs DEF FollowsInv, SeriesInv, Kept, StackInv
  <2> DEFINE Follows == FollowedBut(None, wiring, values', changed', changed', stack')
  <2>2. ASSUME NEW e \in Settable, NEW x, ApiSet(e, x) PROVE Follows
    BY <2>1, <2>2, OutsideFollows DEF ApiSet
  <2>3. ASSUME ModuleSet PROVE Follows
    <3>1. PICK e, x : e \in Played /\ stack = <<>> /\ Set(e, x, "MODULE_IMPLEMENTATION", <<>>)
      BY <2>3, ModuleSets
    <3> QED
      BY <2>1, <3>1, OutsideFollows, SetCommandAssumption
  <2>4. ASSUME Step PROVE Follows
    BY <2>1, <2>4, StepFollows
  <2>5. ASSUME UNCHANGED tree PROVE Follows
    BY <2>1, <2>5 DEF tree, FollowInv
  <2>6. Follows
    BY <2>2, <2>3, <2>4, <2>5, InTree
  <2>7. FollowedBut(None, wiring', values', changed', changed', stack')
    BY <1>2, <2>6
  <2> QED
    BY <2>7 DEF FollowInv, FollowedBut, FollowedBy, Pending, On, Conforms, ConvertedBy
<1> QED
  BY <1>1, <1>3, <1>4 DEF FollowsInv

LEMMA FollowsAtRest == FollowsInv => TargetsFollow
<1> SUFFICES ASSUME FollowsInv, stack = <<>>, Acyclic, NEW c \in DOMAIN wiring,
                    wiring[c].source \in changed \ Bangs, SetsAlone(c),
                    NodeIsActive(c), ActiveOf[c] \notin changed
             PROVE  Followed(c)
  BY DEF TargetsFollow, Idle
<1>1. wiring \in Wirings /\ c \in Alone(wiring)
  BY DEF FollowsInv, SeriesInv, Alone, SetsAlone
<1>2. c # None /\ wiring[c].source \notin Bangs /\ wiring[c].target \notin Bangs
  BY <1>1, AloneIs
<1>3. ~Pending(stack, c)
  <2>1. Len(stack) = 0
    OBVIOUS
  <2> QED
    BY <2>1 DEF Pending
<1>4. On(values, c)
  BY DEF NodeIsActive, On
<1>5. FollowedBy(wiring, values, c)
  BY <1>1, <1>2, <1>3, <1>4 DEF FollowsInv, FollowInv, FollowedBut
<1>6. Converted(wiring[c].source, wiring[c].target)
        = ConvertedBy(values, wiring[c].source, wiring[c].target)
  BY <1>2 DEF Converted, ConvertedBy
<1> QED
  BY <1>5, <1>6 DEF Followed, FollowedBy

-----------------------------------------------------------------------------

ActivatesInv == SeriesInv({}) /\ (Acyclic /\ ContainersApart => RousedInv)

LEMMA ActivatesInitially == Init => ActivatesInv
<1> SUFFICES ASSUME Init PROVE ActivatesInv
  OBVIOUS
<1>1. stack = <<>> /\ wiring \in Wirings /\ Len(stack) = 0 /\ stack \in Seq(Frames) /\ changed = {}
  BY DEF Init
<1>2. StackOK(wiring, values, stack)
  BY <1>1 DEF StackOK
<1>3. SeriesInv({})
  BY <1>1, <1>2 DEF SeriesInv, Kept, Switched
<1>4. PICK R : R = Roused(wiring, values, changed, stack)
  OBVIOUS
<1>5. R = {}
  BY <1>1, <1>4 DEF Roused
<1>6. FollowedBut(None, wiring, values, R, Elsewise(wiring, changed), stack)
  BY <1>5 DEF FollowedBut
<1>7. OuterOnly(stack) /\ (\A n : ~Waits(stack, n)) /\ ~Going(stack)
  BY <1>1 DEF OuterOnly, Waits, Going
<1>8. RousedInv
  BY <1>1, <1>4, <1>6, <1>7 DEF RousedInv, RousedWith
<1> QED
  BY <1>3, <1>8 DEF ActivatesInv

LEMMA ActivatesStep ==
  ASSUME ActivatesInv, StackInv, TypeOK, [Next]_vars
  PROVE  ActivatesInv'
<1>1. SeriesInv({})'
  BY SeriesStep DEF ActivatesInv
<1>2. wiring' = wiring
  BY InTree DEF tree, Step, ApiSet, ModuleSet, FireConnection, SkipConnection, BeginActivation,
     Descend, LeaveNode, ActivateNode, ActivateAgain, Pop, Continue, Issue, Set
<1>3. (Acyclic' <=> Acyclic) /\ (ContainersApart' <=> ContainersApart)
  BY <1>2 DEF Acyclic, Leads, ContainersApart
<1>4. ASSUME Acyclic, ContainersApart PROVE RousedInv'
  <2>1. /\ wiring \in Wirings /\ AcyclicBy(wiring) /\ StackOK(wiring, values, stack)
        /\ CheckerKnowsStack /\ RousedInv
    BY <1>4, AcyclicIs DEF ActivatesInv, SeriesInv, Kept, StackInv
  <2> DEFINE Rouses == RousedWith(wiring, values', changed', stack')
  <2>2. ASSUME NEW e \in Settable, NEW x, ApiSet(e, x) PROVE Rouses
    BY <2>1, <2>2, OutsideRouses DEF ApiSet
  <2>3. ASSUME ModuleSet PROVE Rouses
    <3>1. PICK e, x : e \in Played /\ stack = <<>> /\ Set(e, x, "MODULE_IMPLEMENTATION", <<>>)
      BY <2>3, ModuleSets
    <3> QED
      BY <2>1, <3>1, OutsideRouses, SetCommandAssumption
  <2>4. ASSUME SkipConnection \/ BeginActivation \/ Descend \/ LeaveNode PROVE Rouses
    BY <2>1, <2>4, GoingOnRouses
  <2>5. ASSUME FireConnection PROVE Rouses
    BY <1>4, <2>1, <2>5, FireRouses
  <2>6. ASSUME ActivateNode PROVE Rouses
    BY <2>1, <2>6, SwitchRouses
  <2>7. ASSUME ActivateAgain PROVE Rouses
    BY <2>1, <2>7, AgainRouses
  <2>8. ASSUME Pop PROVE Rouses
    BY <2>1, <2>8, PopRouses
  <2>9. ASSUME UNCHANGED tree PROVE Rouses
    BY <2>1, <2>9 DEF tree, RousedInv
  <2>10. Rouses
    BY <2>2, <2>3, <2>4, <2>5, <2>6, <2>7, <2>8, <2>9, InTree DEF Step
  <2>11. RousedWith(wiring', values', changed', stack')
    BY <1>2, <2>10
  <2> QED
    BY <2>11 DEF RousedInv, RousedWith, OuterOnly, Waits, Going, Roused, Elsewise, FollowedBut,
                 FollowedBy, Pending, On, Conforms, ConvertedBy, SwitchedBy, IsActiveOf
<1> QED
  BY <1>1, <1>3, <1>4 DEF ActivatesInv

LEMMA ActivatesAtRest == ActivatesInv => ActivatedFollow
<1> SUFFICES ASSUME ActivatesInv, stack = <<>>, Acyclic, ContainersApart,
                    NEW c \in DOMAIN wiring, NEW n \in Nodes,
                    ActiveOf[n] = wiring[c].source, Kind[n] # "container",
                    Activated(n), Activated(c), SetsAlone(c)
             PROVE  Followed(c)
  BY DEF ActivatedFollow, Idle
<1>1. /\ wiring \in Wirings /\ RousedInv
      /\ c \in Nodes /\ wiring[c].source \in Endpoints
  BY SetCommandAssumption DEF ActivatesInv, SeriesInv
<1>2. wiring[c].source \notin Bangs
  BY <1>1, SetCommandAssumption, TreeAssumption
<1>3. c \in Alone(wiring)
  BY <1>2 DEF Alone, SetsAlone
<1>4. c # None /\ wiring[c].target \notin Bangs
  BY <1>1, <1>3, AloneIs
<1>5. ~Pending(stack, c) /\ ~Waits(stack, n)
  <2>1. Len(stack) = 0
    OBVIOUS
  <2> QED
    BY <2>1 DEF Pending, Waits
<1>6. PICK R, E : R = Roused(wiring, values, changed, stack) /\ E = Elsewise(wiring, changed)
  OBVIOUS
<1>7. wiring[c].source \in R
  <2>1. /\ ActiveOf[n] \in changed /\ ~SwitchedBy(wiring, ActiveOf[n]) /\ On(values, n)
    BY DEF Activated, SwitchedOtherwise, SwitchedBy, NodeIsActive, On
  <2>2. ActiveOf[n] \in Roused(wiring, values, changed, stack)
    BY <1>5, <2>1 DEF Roused
  <2> QED
    BY <1>6, <2>2
<1>8. On(values, c) /\ ActiveOf[c] \notin E
  <2>1. ActiveOf[c] \in changed /\ ~SwitchedBy(wiring, ActiveOf[c]) /\ On(values, c)
    BY DEF Activated, SwitchedOtherwise, SwitchedBy, NodeIsActive, On
  <2> QED
    BY <1>6, <2>1 DEF Elsewise
<1>9. FollowedBut(None, wiring, values, R, E, stack)
  BY <1>1, <1>6 DEF RousedInv, RousedWith
<1>10. FollowedBy(wiring, values, c)
  BY <1>3, <1>4, <1>5, <1>7, <1>8, <1>9 DEF FollowedBut
<1>11. Converted(wiring[c].source, wiring[c].target)
         = ConvertedBy(values, wiring[c].source, wiring[c].target)
  BY <1>2, <1>4 DEF Converted, ConvertedBy
<1> QED
  BY <1>10, <1>11 DEF Followed, FollowedBy

-----------------------------------------------------------------------------
(* The theorems *)

(* Whatever is connected to what: no command from within sets an endpoint  *)
(* that another one from within is setting, however deep the commands are. *)
THEOREM RecursionStops == Spec => []NoRecursion
<1>1. StackInv => NoRecursion
  BY DEF StackInv
<1> QED
  BY <1>1, StackInitially, StackInductive, PTL DEF Spec

(* CReentranceChecker's map stays in step with its stack, and is empty     *)
(* when no command is under way.                                           *)
THEOREM CheckerInStep == Spec => []CheckerKnowsStack
<1>1. StackInv => CheckerKnowsStack
  BY DEF StackInv
<1> QED
  BY <1>1, StackInitially, StackInductive, PTL DEF Spec

(* No value ever breaks the constraint of its endpoint, wherever the       *)
(* command came from and whatever a connection made of its value.          *)
THEOREM ValuesConform == Spec => []TypeOK
<1>1. Init => TypeOK
  BY TypeInitially
<1> QED
  BY <1>1, TypeInductive, PTL DEF Spec

(* Whatever users, connections and modules set, in whatever order: between *)
(* commands the host has the value of the node, but for what is under way  *)
(* from it, and where a command met such a change or it was ignored.       *)
THEOREM HostInStep == Spec => []HostAgrees
<1>1. Init => TypeOK /\ HostInv
  BY TypeInitially, SetCommandAssumption DEF Init, TypeOK, HostInv, HostHas, IsUnderWay
<1>2. HostInv => HostAgrees
  BY DEF HostInv, HostAgrees, HostHas, UnderWay, IsUnderWay
<1> QED
  BY <1>1, <1>2, TypeInductive, HostInductive, PTL DEF Spec

(* A node in containers is active exactly when all of them are, after      *)
(* every command whatever it set off, if it was so at the start and        *)
(* nothing else switches the node.                                         *)
THEOREM SeriesKept == Spec => (SwitchesInSeries => []SwitchesInSeries)
<1> DEFINE Inv == SeriesInv(Nodes)
<1>1. Init => TypeOK
  BY TypeInitially
<1>2. Init /\ SwitchesInSeries => Inv
  BY SeriesInitially
<1>3. Inv /\ StackInv /\ TypeOK /\ [Next]_vars => Inv'
  BY SeriesStep
<1>4. Inv => SwitchesInSeries
  BY SeriesAtRest
<1> QED
  BY <1>1, <1>2, <1>3, <1>4, StackInitially, StackInductive, TypeInductive, PTL DEF Spec

(* Once a command is over, what a connection alone sets has followed the   *)
(* connection's source, if that was changed and the connection was active  *)
(* all along.                                                              *)
THEOREM SourcesFollowed == Spec => []TargetsFollow
<1>1. Init => TypeOK
  BY TypeInitially
<1>2. FollowsInv /\ StackInv /\ TypeOK /\ [Next]_vars => FollowsInv'
  BY FollowsStep
<1> QED
  BY <1>1, <1>2, FollowsInitially, FollowsAtRest, StackInitially, StackInductive, TypeInductive,
     PTL DEF Spec

(* Once a command is over, what has been activated was so with everything  *)
(* else active: a connection from the "active" endpoint of such a node, if *)
(* it was activated as well and alone sets its target, has fired.          *)
THEOREM ActivatedSourcesFollowed == Spec => []ActivatedFollow
<1>1. Init => TypeOK
  BY TypeInitially
<1>2. ActivatesInv /\ StackInv /\ TypeOK /\ [Next]_vars => ActivatesInv'
  BY ActivatesStep
<1> QED
  BY <1>1, <1>2, ActivatesInitially, ActivatesAtRest, StackInitially, StackInductive, TypeInductive,
     PTL DEF Spec
=============================================================================
