--------------------------- MODULE GuiMirror_proofs ---------------------------
(***************************************************************************)
(* For any attributes, values and budgets: when nothing is under way the   *)
(* gui shows what the server has, a save writes what was shown when it was *)
(* asked for, and the transactions that can be undone lead back to the     *)
(* start.                                                                  *)
(***************************************************************************)
EXTENDS GuiMirror, SequenceTheorems, FiniteSetTheorems, WellFoundedInduction,
        TLAPS

-----------------------------------------------------------------------------
(* Types *)

Calls == [method : {"set"}, attr : Attrs, value : Values]
           \cup [method : {"save"}, shown : [Attrs -> Values]]
Notes == [attr : Attrs, value : Values, remote : BOOLEAN]

(* What can be shown, and set by a command: isProjectModified is a flag.   *)
May(s) == IF s = Modified THEN BOOLEAN ELSE Values
States == {f \in [Shown -> Values \cup BOOLEAN] : \A s \in Shown : f[s] \in May(s)}
Commands == {c \in [attr : Shown, value : Values \cup BOOLEAN, old : Values \cup BOOLEAN] :
               c.value \in May(c.attr) /\ c.old \in May(c.attr)}
Transactions == Seq(Commands) \ {<<>>}

-----------------------------------------------------------------------------
(* Sequences of calls: those on their way to the server, then those in     *)
(* the queue.                                                              *)

Sets(call, a) == call.method = "set" /\ call.attr = a

IsAppended(longer, calls, call) ==
  /\ Len(longer) = Len(calls) + 1 /\ longer[Len(longer)] = call
  /\ \A i \in 1..Len(calls) : longer[i] = calls[i]

IsFront(shorter, calls) ==
  /\ Len(calls) = Len(shorter) + 1
  /\ \A i \in 1..Len(shorter) : shorter[i] = calls[i]

IsTail(shorter, calls) ==
  /\ Len(calls) = Len(shorter) + 1
  /\ \A i \in 1..Len(shorter) : shorter[i] = calls[i + 1]

LEMMA AppendIs ==
  ASSUME NEW S, NEW s \in Seq(S), NEW x \in S, NEW t, t = Append(s, x)
  PROVE  t \in Seq(S) /\ IsAppended(t, s, x)
BY DEF IsAppended

LEMMA FrontIs ==
  ASSUME NEW S, NEW s \in Seq(S), s # <<>>, NEW t, t = Front(s)
  PROVE  t \in Seq(S) /\ IsFront(t, s)
<1>1. Len(s) \in Nat /\ Len(s) > 0
  OBVIOUS
<1>2. t = SubSeq(s, 1, Len(s) - 1)
  BY DEF Front
<1>3. t \in Seq(S) /\ Len(t) = Len(s) - 1 /\ \A i \in 1..Len(t) : t[i] = s[i]
  <2>1. \A i \in 1..(Len(s) - 1) : i \in 1..Len(s)
    BY <1>1
  <2>2. \A i \in 1..(Len(s) - 1) : s[i] \in S
    BY <2>1
  <2>3. Len(t) = Len(s) - 1 /\ \A i \in 1..(Len(s) - 1) : t[i] = s[i]
    <3>1. PICK n \in Nat : n = Len(s) - 1
      BY <1>1
    <3>2. t = SubSeq(s, 1, n) /\ \A i \in 1..n : s[i] \in S
      BY <1>2, <2>2, <3>1
    <3>3. /\ Len(t) = IF 1 <= n THEN n - 1 + 1 ELSE 0
          /\ \A i \in 1..(n - 1 + 1) : t[i] = s[1 + i - 1]
      BY <3>2, SubSeqProperties
    <3>4. \A i \in 1..n : 1 + i - 1 = i
      OBVIOUS
    <3> QED
      BY <3>1, <3>2, <3>3, <3>4
  <2>4. t \in Seq(S)
    BY <1>1, <1>2, SubSeqProperties
  <2> QED
    BY <2>3, <2>4
<1> QED
  BY <1>1, <1>3 DEF IsFront

LEMMA TailIs ==
  ASSUME NEW S, NEW s \in Seq(S), s # <<>>, NEW t, t = Tail(s)
  PROVE  t \in Seq(S) /\ IsTail(t, s) /\ Head(s) = s[1] /\ s[1] \in S /\ Len(s) > 0
BY DEF IsTail

LEMMA JoinIs ==
  ASSUME NEW S, NEW s \in Seq(S), NEW t \in Seq(S), NEW u, u = s \o t
  PROVE  /\ u \in Seq(S) /\ Len(u) = Len(s) + Len(t)
         /\ \A i \in 1..Len(s) : u[i] = s[i]
         /\ \A i \in 1..Len(t) : u[Len(s) + i] = t[i]
<1>1. u \in Seq(S) /\ Len(u) = Len(s) + Len(t)
  OBVIOUS
<1>2. \A i \in 1..Len(s) + Len(t) : u[i] = IF i <= Len(s) THEN s[i] ELSE t[i - Len(s)]
  BY ConcatProperties
<1> QED
  BY <1>1, <1>2

(* A call is queued behind the calls that are under way.                   *)
LEMMA JoinAppended ==
  ASSUME NEW S, NEW s \in Seq(S), NEW t \in Seq(S), NEW r \in Seq(S), NEW x \in S,
         IsAppended(r, t, x)
  PROVE  IsAppended(s \o r, s \o t, x)
<1>1. PICK u, v : u = s \o t /\ v = s \o r
  OBVIOUS
<1>2. /\ u \in Seq(S) /\ Len(u) = Len(s) + Len(t)
      /\ \A i \in 1..Len(s) : u[i] = s[i]
      /\ \A i \in 1..Len(t) : u[Len(s) + i] = t[i]
  BY <1>1, JoinIs
<1>3. /\ v \in Seq(S) /\ Len(v) = Len(s) + Len(r)
      /\ \A i \in 1..Len(s) : v[i] = s[i]
      /\ \A i \in 1..Len(r) : v[Len(s) + i] = r[i]
  BY <1>1, JoinIs
<1>4. Len(s) \in Nat /\ Len(t) \in Nat /\ Len(r) = Len(t) + 1 /\ r[Len(r)] = x
  BY DEF IsAppended
<1>5. Len(v) = Len(u) + 1 /\ v[Len(v)] = x
  <2>1. Len(v) = Len(s) + Len(r) /\ Len(r) \in 1..Len(r)
    BY <1>3, <1>4
  <2> QED
    BY <1>2, <1>3, <1>4, <2>1
<1>6. ASSUME NEW i \in 1..Len(u) PROVE v[i] = u[i]
  <2>1. CASE i <= Len(s)
    BY <1>2, <1>3, <1>4, <2>1
  <2>2. CASE i > Len(s)
    <3>1. PICK k \in 1..Len(t) : i = Len(s) + k
      <4>1. i - Len(s) \in 1..Len(t) /\ i = Len(s) + (i - Len(s))
        BY <1>2, <1>4, <2>2
      <4> QED
        BY <4>1
    <3>2. u[i] = t[k] /\ v[i] = r[k]
      BY <1>2, <1>3, <1>4, <3>1
    <3> QED
      BY <3>2 DEF IsAppended
  <2> QED
    BY <1>2, <1>4, <2>1, <2>2
<1>7. IsAppended(v, u, x)
  BY <1>5, <1>6 DEF IsAppended
<1> QED
  BY <1>1, <1>7

LEMMA JoinFront ==
  ASSUME NEW S, NEW s \in Seq(S), NEW t \in Seq(S), NEW r \in Seq(S), IsFront(r, t)
  PROVE  IsFront(s \o r, s \o t) /\ (s \o t)[Len(s \o t)] = t[Len(t)]
<1>1. PICK u, v : u = s \o r /\ v = s \o t
  OBVIOUS
<1>2. PICK x \in S : x = t[Len(t)]
  <2>1. Len(t) \in 1..Len(t)
    BY DEF IsFront
  <2> QED
    BY <2>1
<1>3. IsAppended(t, r, x)
  BY <1>2 DEF IsFront, IsAppended
<1>4. IsAppended(v, u, x)
  BY <1>1, <1>3, JoinAppended
<1>5. IsFront(u, v) /\ v[Len(v)] = t[Len(t)]
  BY <1>2, <1>4 DEF IsFront, IsAppended
<1> QED
  BY <1>1, <1>5

LEMMA JoinEmpty ==
  ASSUME NEW S, NEW s \in Seq(S) PROVE s \o <<>> = s
BY ConcatEmptySeq

(* The next call leaves the queue.                                         *)
LEMMA JoinMoved ==
  ASSUME NEW S, NEW s \in Seq(S), NEW t \in Seq(S), t # <<>>
  PROVE  Append(s, Head(t)) \o Tail(t) = s \o t
<1>1. t = <<Head(t)>> \o Tail(t) /\ Head(t) \in S /\ Tail(t) \in Seq(S)
  OBVIOUS
<1>2. Append(s, Head(t)) = s \o <<Head(t)>>
  BY <1>1, AppendIsConcat
<1>3. (s \o <<Head(t)>>) \o Tail(t) = s \o (<<Head(t)>> \o Tail(t))
  BY <1>1, ConcatAssociative
<1> QED
  BY <1>1, <1>2, <1>3

(* The server executes a call.                                             *)
LEMMA JoinTail ==
  ASSUME NEW S, NEW s \in Seq(S), NEW t \in Seq(S), s # <<>>
  PROVE  IsTail(Tail(s) \o t, s \o t) /\ (s \o t)[1] = s[1]
<1>1. PICK r : r = Tail(s)
  OBVIOUS
<1>2. r \in Seq(S) /\ IsTail(r, s) /\ Len(s) > 0
  BY <1>1, TailIs
<1>3. PICK u, v : u = s \o t /\ v = r \o t
  OBVIOUS
<1>4. /\ u \in Seq(S) /\ Len(u) = Len(s) + Len(t)
      /\ \A i \in 1..Len(s) : u[i] = s[i]
      /\ \A i \in 1..Len(t) : u[Len(s) + i] = t[i]
  BY <1>3, JoinIs
<1>5. /\ v \in Seq(S) /\ Len(v) = Len(r) + Len(t)
      /\ \A i \in 1..Len(r) : v[i] = r[i]
      /\ \A i \in 1..Len(t) : v[Len(r) + i] = t[i]
  BY <1>2, <1>3, JoinIs
<1>6. Len(s) \in Nat /\ Len(t) \in Nat /\ Len(r) \in Nat /\ Len(s) = Len(r) + 1
  BY <1>2 DEF IsTail
<1>7. ASSUME NEW i \in 1..Len(v) PROVE v[i] = u[i + 1]
  <2>1. CASE i <= Len(r)
    <3>1. i \in 1..Len(r) /\ i + 1 \in 1..Len(s)
      BY <1>6, <2>1
    <3> QED
      BY <1>2, <1>4, <1>5, <3>1 DEF IsTail
  <2>2. CASE i > Len(r)
    <3>1. PICK k \in 1..Len(t) : i = Len(r) + k /\ i + 1 = Len(s) + k
      <4>1. i - Len(r) \in 1..Len(t) /\ i = Len(r) + (i - Len(r)) /\ i + 1 = Len(s) + (i - Len(r))
        BY <1>5, <1>6, <2>2
      <4> QED
        BY <4>1
    <3> QED
      BY <1>4, <1>5, <3>1
  <2> QED
    BY <1>5, <1>6, <2>1, <2>2
<1>8. Len(u) = Len(v) + 1
  BY <1>4, <1>5, <1>6
<1>9. u[1] = s[1]
  BY <1>2, <1>4, <1>6
<1> QED
  BY <1>1, <1>3, <1>7, <1>8, <1>9 DEF IsTail

-----------------------------------------------------------------------------
(* What calls tell the server *)

(* After the first n calls a is v, where it is w at first.                 *)
Tells(calls, n, a, v, w) ==
  \/ \E i \in 1..n : /\ Sets(calls[i], a) /\ calls[i].value = v
                     /\ \A j \in (i + 1)..n : ~Sets(calls[j], a)
  \/ v = w /\ \A j \in 1..n : ~Sets(calls[j], a)

LEMMA TellsPrefix ==
  ASSUME NEW c, NEW d, NEW n \in Nat, \A i \in 1..n : c[i] = d[i],
         NEW a, NEW v, NEW w, Tells(c, n, a, v, w)
  PROVE  Tells(d, n, a, v, w)
<1>1. CASE \E i \in 1..n : /\ Sets(c[i], a) /\ c[i].value = v
                           /\ \A j \in (i + 1)..n : ~Sets(c[j], a)
  <2>1. PICK i \in 1..n : /\ Sets(c[i], a) /\ c[i].value = v
                          /\ \A j \in (i + 1)..n : ~Sets(c[j], a)
    BY <1>1
  <2>2. \A j \in (i + 1)..n : j \in 1..n
    OBVIOUS
  <2>3. Sets(d[i], a) /\ d[i].value = v /\ \A j \in (i + 1)..n : ~Sets(d[j], a)
    BY <2>1, <2>2
  <2> QED
    BY <2>3 DEF Tells
<1>2. CASE v = w /\ \A j \in 1..n : ~Sets(c[j], a)
  BY <1>2 DEF Tells
<1> QED
  BY <1>1, <1>2 DEF Tells

LEMMA TellsMore ==
  ASSUME NEW c, NEW n \in Nat, NEW a, NEW v, NEW w, Tells(c, n, a, v, w), ~Sets(c[n + 1], a)
  PROVE  Tells(c, n + 1, a, v, w)
<1>1. CASE \E i \in 1..n : /\ Sets(c[i], a) /\ c[i].value = v
                           /\ \A j \in (i + 1)..n : ~Sets(c[j], a)
  <2>1. PICK i \in 1..n : /\ Sets(c[i], a) /\ c[i].value = v
                          /\ \A j \in (i + 1)..n : ~Sets(c[j], a)
    BY <1>1
  <2>2. \A j \in (i + 1)..(n + 1) : j \in (i + 1)..n \/ j = n + 1
    OBVIOUS
  <2>3. i \in 1..(n + 1) /\ \A j \in (i + 1)..(n + 1) : ~Sets(c[j], a)
    BY <2>1, <2>2
  <2> QED
    BY <2>1, <2>3 DEF Tells
<1>2. CASE v = w /\ \A j \in 1..n : ~Sets(c[j], a)
  <2>1. \A j \in 1..(n + 1) : j \in 1..n \/ j = n + 1
    OBVIOUS
  <2> QED
    BY <1>2, <2>1 DEF Tells
<1> QED
  BY <1>1, <1>2 DEF Tells

LEMMA TellsLess ==
  ASSUME NEW c, NEW n \in Nat, NEW a, NEW v, NEW w, Tells(c, n + 1, a, v, w), ~Sets(c[n + 1], a)
  PROVE  Tells(c, n, a, v, w)
<1>1. CASE \E i \in 1..(n + 1) : /\ Sets(c[i], a) /\ c[i].value = v
                           /\ \A j \in (i + 1)..(n + 1) : ~Sets(c[j], a)
  <2>1. PICK i \in 1..(n + 1) : /\ Sets(c[i], a) /\ c[i].value = v
                          /\ \A j \in (i + 1)..(n + 1) : ~Sets(c[j], a)
    BY <1>1
  <2>2. i # n + 1
    BY <2>1
  <2>3. i \in 1..n /\ \A j \in (i + 1)..n : j \in (i + 1)..(n + 1)
    BY <2>2
  <2> QED
    BY <2>1, <2>3 DEF Tells
<1>2. CASE v = w /\ \A j \in 1..(n + 1) : ~Sets(c[j], a)
  <2>1. \A j \in 1..n : j \in 1..(n + 1)
    OBVIOUS
  <2> QED
    BY <1>2, <2>1 DEF Tells
<1> QED
  BY <1>1, <1>2 DEF Tells

LEMMA TellsLast ==
  ASSUME NEW c, NEW n \in Nat, n > 0, NEW a, NEW v, NEW w, Sets(c[n], a), c[n].value = v
  PROVE  Tells(c, n, a, v, w)
<1>1. n \in 1..n /\ \A j \in (n + 1)..n : FALSE
  OBVIOUS
<1> QED
  BY <1>1 DEF Tells

(* The first call is executed.                                             *)
LEMMA TellsRest ==
  ASSUME NEW c, NEW d, NEW n \in Nat, \A i \in 1..n : d[i] = c[i + 1],
         NEW a, NEW v, NEW w, NEW x, Tells(c, n + 1, a, v, w),
         x = IF Sets(c[1], a) THEN c[1].value ELSE w
  PROVE  Tells(d, n, a, v, x)
<1>1. CASE \E i \in 1..(n + 1) : /\ Sets(c[i], a) /\ c[i].value = v
                           /\ \A j \in (i + 1)..(n + 1) : ~Sets(c[j], a)
  <2>1. PICK i \in 1..(n + 1) : /\ Sets(c[i], a) /\ c[i].value = v
                          /\ \A j \in (i + 1)..(n + 1) : ~Sets(c[j], a)
    BY <1>1
  <2>2. CASE i = 1
    <3>1. \A j \in 1..n : j + 1 \in (i + 1)..(n + 1)
      BY <2>2
    <3>2. \A j \in 1..n : ~Sets(d[j], a)
      BY <2>1, <3>1
    <3> QED
      BY <2>1, <2>2, <3>2 DEF Tells
  <2>3. CASE i # 1
    <3>1. PICK k \in 1..n : i = k + 1
      <4>1. i - 1 \in 1..n /\ i = (i - 1) + 1
        BY <2>3
      <4> QED
        BY <4>1
    <3>2. \A j \in (k + 1)..n : j \in 1..n /\ j + 1 \in (i + 1)..(n + 1)
      BY <3>1
    <3>3. \A j \in (k + 1)..n : ~Sets(d[j], a)
      BY <2>1, <3>2
    <3>4. Sets(d[k], a) /\ d[k].value = v
      BY <2>1, <3>1
    <3> QED
      BY <3>3, <3>4 DEF Tells
  <2> QED
    BY <2>2, <2>3
<1>2. CASE v = w /\ \A j \in 1..(n + 1) : ~Sets(c[j], a)
  <2>1. \A j \in 1..n : j + 1 \in 1..(n + 1)
    OBVIOUS
  <2>2. 1 \in 1..(n + 1)
    OBVIOUS
  <2> QED
    BY <1>2, <2>1, <2>2 DEF Tells
<1> QED
  BY <1>1, <1>2 DEF Tells

(* What is promised of attributes that nobody else sets: what is shown is  *)
(* what the calls tell, and so it was when a save was asked for.           *)
Told(calls, a, v, w) ==
  /\ Tells(calls, Len(calls), a, v, w)
  /\ \A i \in 1..Len(calls) :
       calls[i].method = "save" => Tells(calls, i - 1, a, calls[i].shown[a], w)

(* Of the others there may be one echo or call left that the gui will      *)
(* believe.                                                                *)
OwnOnce(calls, heard, a) ==
  /\ \A i, j \in 1..Len(heard) : heard[i].attr = a /\ heard[j].attr = a => i = j
  /\ \A i, j \in 1..Len(calls) : Sets(calls[i], a) /\ Sets(calls[j], a) => i = j
  /\ \A i \in 1..Len(heard), j \in 1..Len(calls) : ~(heard[i].attr = a /\ Sets(calls[j], a))

NothingOf(calls, heard, a) ==
  /\ \A i \in 1..Len(heard) : heard[i].attr # a
  /\ \A i \in 1..Len(calls) : ~Sets(calls[i], a)

InTouch(calls, heard, marked, a, v, w) ==
  IF marked
    THEN OwnOnce(calls, heard, a) /\ (NothingOf(calls, heard, a) => v = w)
    ELSE Tells(calls, Len(calls), a, v, w)

(* What the gui does to the calls: it may drop the last one, and adds one. *)
IsDropped(fewer, calls, s) ==
  \/ fewer = calls
  \/ /\ IsFront(fewer, calls)
     /\ calls[Len(calls)].method = "save" \/ Sets(calls[Len(calls)], s)

LEMMA DroppedTells ==
  ASSUME NEW u \in Seq(Calls), NEW e \in Seq(Calls), NEW s, IsDropped(e, u, s),
         NEW a, a # s, NEW v, NEW w, Tells(u, Len(u), a, v, w)
  PROVE  Tells(e, Len(e), a, v, w)
<1>1. CASE e = u
  BY <1>1
<1>2. CASE IsFront(e, u) /\ ~Sets(u[Len(u)], a)
  <2>1. Len(e) \in Nat /\ Len(u) = Len(e) + 1 /\ \A i \in 1..Len(e) : u[i] = e[i]
    BY <1>2 DEF IsFront
  <2>2. Tells(u, Len(e), a, v, w)
    BY <1>2, <2>1, TellsLess
  <2> QED
    BY <2>1, <2>2, TellsPrefix
<1>3. e = u \/ (IsFront(e, u) /\ ~Sets(u[Len(u)], a))
  BY DEF IsDropped, Sets
<1> QED
  BY <1>1, <1>2, <1>3

LEMMA DroppedTold ==
  ASSUME NEW u \in Seq(Calls), NEW e \in Seq(Calls), NEW s, IsDropped(e, u, s),
         NEW a, a # s, NEW v, NEW w, Told(u, a, v, w)
  PROVE  Told(e, a, v, w)
<1>1. Tells(e, Len(e), a, v, w)
  BY DroppedTells DEF Told
<1>2. Len(e) <= Len(u) /\ \A i \in 1..Len(e) : e[i] = u[i]
  BY DEF IsDropped, IsFront
<1>3. ASSUME NEW i \in 1..Len(e), e[i].method = "save" PROVE Tells(e, i - 1, a, e[i].shown[a], w)
  <2>1. i \in 1..Len(u) /\ e[i] = u[i] /\ i - 1 \in Nat
    BY <1>2
  <2>2. Tells(u, i - 1, a, e[i].shown[a], w)
    BY <1>3, <2>1 DEF Told
  <2>3. \A j \in 1..(i - 1) : u[j] = e[j]
    BY <1>2
  <2> QED
    BY <2>1, <2>2, <2>3, TellsPrefix
<1> QED
  BY <1>1, <1>3 DEF Told

LEMMA DroppedSaves ==
  ASSUME NEW u \in Seq(Calls), NEW e \in Seq(Calls), NEW s, IsDropped(e, u, s),
         NEW a, NEW v, NEW w, Told(u, a, v, w)
  PROVE  \A i \in 1..Len(e) : e[i].method = "save" => Tells(e, i - 1, a, e[i].shown[a], w)
<1>2. Len(e) <= Len(u) /\ \A i \in 1..Len(e) : e[i] = u[i]
  BY DEF IsDropped, IsFront
<1>3. ASSUME NEW i \in 1..Len(e), e[i].method = "save" PROVE Tells(e, i - 1, a, e[i].shown[a], w)
  <2>1. i \in 1..Len(u) /\ e[i] = u[i] /\ i - 1 \in Nat
    BY <1>2
  <2>2. Tells(u, i - 1, a, e[i].shown[a], w)
    BY <1>3, <2>1 DEF Told
  <2>3. \A j \in 1..(i - 1) : u[j] = e[j]
    BY <1>2
  <2> QED
    BY <2>1, <2>2, <2>3, TellsPrefix
<1> QED
  BY <1>3

LEMMA DroppedInTouch ==
  ASSUME NEW u \in Seq(Calls), NEW e \in Seq(Calls), NEW s, IsDropped(e, u, s),
         NEW heard, NEW marked, NEW a, a # s, NEW v, NEW w, InTouch(u, heard, marked, a, v, w)
  PROVE  InTouch(e, heard, marked, a, v, w)
<1>1. CASE marked
  <2>1. Len(e) <= Len(u) /\ \A i \in 1..Len(e) : e[i] = u[i]
    BY DEF IsDropped, IsFront
  <2>2. OwnOnce(e, heard, a)
    <3>1. OwnOnce(u, heard, a)
      BY <1>1 DEF InTouch
    <3>2. \A i \in 1..Len(e) : i \in 1..Len(u)
      BY <2>1
    <3> QED
      BY <2>1, <3>1, <3>2 DEF OwnOnce
  <2>3. ASSUME NothingOf(e, heard, a) PROVE NothingOf(u, heard, a)
    <3>1. e = u \/ (Len(u) = Len(e) + 1 /\ ~Sets(u[Len(u)], a))
      BY DEF IsDropped, IsFront, Sets
    <3>2. ASSUME NEW i \in 1..Len(u) PROVE ~Sets(u[i], a)
      <4>1. i \in 1..Len(e) \/ (i = Len(u) /\ ~Sets(u[Len(u)], a))
        BY <3>1
      <4> QED
        BY <2>1, <2>3, <4>1 DEF NothingOf
    <3> QED
      BY <2>3, <3>2 DEF NothingOf
  <2> QED
    BY <1>1, <2>2, <2>3 DEF InTouch
<1>2. CASE ~marked
  BY <1>2, DroppedTells DEF InTouch
<1> QED
  BY <1>1, <1>2

LEMMA AppendedTells ==
  ASSUME NEW u \in Seq(Calls), NEW e \in Seq(Calls), NEW c, IsAppended(u, e, c),
         NEW a, ~Sets(c, a), NEW v, NEW w, Tells(e, Len(e), a, v, w)
  PROVE  Tells(u, Len(u), a, v, w)
<1>1. Len(e) \in Nat /\ Len(u) = Len(e) + 1 /\ u[Len(e) + 1] = c /\ \A i \in 1..Len(e) : e[i] = u[i]
  BY DEF IsAppended
<1>2. Tells(u, Len(e), a, v, w)
  BY <1>1, TellsPrefix
<1> QED
  BY <1>1, <1>2, TellsMore

LEMMA AppendedInTouch ==
  ASSUME NEW u \in Seq(Calls), NEW e \in Seq(Calls), NEW c, IsAppended(u, e, c),
         NEW heard, NEW marked, NEW a, ~Sets(c, a), NEW v, NEW w, InTouch(e, heard, marked, a, v, w)
  PROVE  InTouch(u, heard, marked, a, v, w)
<1>1. CASE marked
  <2>1. Len(u) = Len(e) + 1 /\ \A i \in 1..Len(e) : u[i] = e[i]
    BY DEF IsAppended
  <2>0. u[Len(u)] = c
    BY DEF IsAppended
  <2>2. \A i \in 1..Len(u) : (i \in 1..Len(e) /\ u[i] = e[i]) \/ ~Sets(u[i], a)
    <3>1. \A i \in 1..Len(u) : i \in 1..Len(e) \/ i = Len(u)
      BY <2>1
    <3> QED
      BY <2>0, <2>1, <3>1
  <2>3. OwnOnce(u, heard, a)
    <3>1. OwnOnce(e, heard, a)
      BY <1>1 DEF InTouch
    <3> QED
      BY <2>2, <3>1 DEF OwnOnce
  <2>4. NothingOf(u, heard, a) => NothingOf(e, heard, a)
    <3>1. \A i \in 1..Len(e) : i \in 1..Len(u)
      BY <2>1
    <3> QED
      BY <2>1, <3>1 DEF NothingOf
  <2> QED
    BY <1>1, <2>3, <2>4 DEF InTouch
<1>2. CASE ~marked
  BY <1>2, AppendedTells DEF InTouch
<1> QED
  BY <1>1, <1>2

LEMMA AppendedTold ==
  ASSUME NEW u \in Seq(Calls), NEW e \in Seq(Calls), NEW c, IsAppended(u, e, c),
         NEW a, NEW v, NEW x, NEW w,
         \A i \in 1..Len(e) : e[i].method = "save" => Tells(e, i - 1, a, e[i].shown[a], w),
         c.method = "save" => Tells(e, Len(e), a, c.shown[a], w),
         Tells(u, Len(u), a, v, w)
  PROVE  Told(u, a, v, w)
<1>1. Len(e) \in Nat /\ Len(u) = Len(e) + 1 /\ u[Len(u)] = c /\ \A i \in 1..Len(e) : e[i] = u[i]
  BY DEF IsAppended
<1>2. ASSUME NEW i \in 1..Len(u), u[i].method = "save" PROVE Tells(u, i - 1, a, u[i].shown[a], w)
  <2>1. i - 1 \in Nat /\ \A j \in 1..(i - 1) : e[j] = u[j]
    BY <1>1
  <2>2. Tells(e, i - 1, a, u[i].shown[a], w)
    <3>1. CASE i \in 1..Len(e)
      BY <1>1, <1>2, <3>1
    <3>2. CASE i = Len(u)
      <4>1. i - 1 = Len(e) /\ u[i] = c
        BY <1>1, <3>2
      <4> QED
        BY <1>2, <4>1
    <3> QED
      BY <1>1, <3>1, <3>2
  <2> QED
    BY <2>1, <2>2, TellsPrefix
<1> QED
  BY <1>2 DEF Told

LEMMA AppendedSet ==
  ASSUME NEW u \in Seq(Calls), NEW e \in Seq(Calls), NEW c, IsAppended(u, e, c),
         NEW a, Sets(c, a), NEW w
  PROVE  Tells(u, Len(u), a, c.value, w)
<1>1. Len(u) \in Nat /\ Len(u) > 0 /\ u[Len(u)] = c
  BY DEF IsAppended
<1> QED
  BY <1>1, TellsLast

-----------------------------------------------------------------------------
(* The parts of the gui that commands change *)

GuiType(g) ==
  g \in [shown : States, touched : SUBSET Attrs, previous : Attrs \cup {None},
         queue : Seq(Calls), sending : BOOLEAN, arriving : Seq(Calls)]

UnderWay(g) == g.arriving \o g.queue

(* Calls wait for a call only.  If a command is remembered and calls that  *)
(* set attributes are queued, then the last of them is its call.           *)
SendsOn(g) == ~g.sending => g.queue = <<>>
Remembers(g) ==
  g.previous # None =>
    \A i \in 1..Len(g.queue) :
      /\ g.queue[i].method = "set"
      /\ \A j \in (i + 1)..Len(g.queue) : g.queue[j].method = "save"
      => g.queue[i].attr = g.previous
QueueOK(g) == SendsOn(g) /\ Remembers(g)

(* One more call is under way. *)
Queued(h, g, call) ==
  /\ GuiType(h) /\ h.sending
  /\ h.shown = g.shown /\ h.touched = g.touched /\ h.previous = g.previous
  /\ IsAppended(UnderWay(h), UnderWay(g), call)
  /\ IsAppended(h.queue, g.queue, call) \/ h.queue = <<>>

LEMMA CallQueuedIs ==
  ASSUME NEW g, GuiType(g), SendsOn(g), NEW call \in Calls, NEW h, h = CallQueued(g, call)
  PROVE  Queued(h, g, call)
<1>0. g.arriving \in Seq(Calls) /\ g.queue \in Seq(Calls) /\ g.sending \in BOOLEAN
  BY DEF GuiType
<1>1. CASE g.sending
  <2>1. PICK q : q = Append(g.queue, call)
    OBVIOUS
  <2>2. q \in Seq(Calls) /\ IsAppended(q, g.queue, call)
    BY <1>0, <2>1, AppendIs
  <2>3. h = [g EXCEPT !.queue = q]
    BY <1>1, <2>1 DEF CallQueued
  <2>4. /\ GuiType(h) /\ h.queue = q /\ h.arriving = g.arriving /\ h.sending
        /\ h.shown = g.shown /\ h.touched = g.touched /\ h.previous = g.previous
    BY <1>1, <2>2, <2>3 DEF GuiType
  <2>5. IsAppended(UnderWay(h), UnderWay(g), call)
    <3>1. IsAppended(g.arriving \o q, g.arriving \o g.queue, call)
      BY <1>0, <2>2, JoinAppended
    <3> QED
      BY <2>4, <3>1 DEF UnderWay
  <2> QED
    BY <2>2, <2>4, <2>5 DEF Queued
<1>2. CASE ~g.sending
  <2>0. g.queue = <<>>
    BY <1>2 DEF SendsOn
  <2>1. PICK r : r = Append(g.arriving, call)
    OBVIOUS
  <2>2. r \in Seq(Calls) /\ IsAppended(r, g.arriving, call)
    BY <1>0, <2>1, AppendIs
  <2>3. h = [g EXCEPT !.sending = TRUE, !.arriving = r]
    BY <1>2, <2>1 DEF CallQueued
  <2>4. /\ GuiType(h) /\ h.queue = <<>> /\ h.arriving = r /\ h.sending
        /\ h.shown = g.shown /\ h.touched = g.touched /\ h.previous = g.previous
    BY <2>0, <2>2, <2>3 DEF GuiType
  <2>5. UnderWay(h) = r /\ UnderWay(g) = g.arriving
    BY <1>0, <2>0, <2>2, <2>4, JoinEmpty DEF UnderWay
  <2> QED
    BY <2>2, <2>4, <2>5 DEF Queued
<1> QED
  BY <1>1, <1>2

LEMMA QueuedOK ==
  ASSUME NEW g, GuiType(g), NEW call \in Calls, NEW h, Queued(h, g, call),
         IF call.method = "set" THEN call.attr = g.previous ELSE Remembers(g)
  PROVE  QueueOK(h)
<1>0. g.queue \in Seq(Calls) /\ h.sending /\ h.previous = g.previous /\ h.queue \in Seq(Calls)
  BY DEF GuiType, Queued
<1>1. CASE h.queue = <<>>
  BY <1>0, <1>1 DEF QueueOK, SendsOn, Remembers
<1>2. CASE IsAppended(h.queue, g.queue, call)
  <2>1. PICK q, r : q = g.queue /\ r = h.queue
    OBVIOUS
  <2>2. Len(q) \in Nat /\ Len(r) = Len(q) + 1 /\ r[Len(r)] = call /\ \A i \in 1..Len(q) : r[i] = q[i]
    BY <1>0, <1>2, <2>1 DEF IsAppended
  <2>3. ASSUME g.previous # None, NEW i \in 1..Len(r), r[i].method = "set",
               \A j \in (i + 1)..Len(r) : r[j].method = "save"
        PROVE  r[i].attr = g.previous
    <3>0. i # Len(r) => r[Len(r)].method = "save"
      <4>1. i # Len(r) => Len(r) \in (i + 1)..Len(r)
        BY <2>2
      <4> QED
        BY <2>3, <4>1
    <3>1. CASE i = Len(r)
      BY <2>2, <2>3, <3>1
    <3>2. CASE i # Len(r)
      <4>1. i \in 1..Len(q) /\ \A j \in (i + 1)..Len(q) : j \in (i + 1)..Len(r) /\ r[j] = q[j]
        BY <2>2, <3>2
      <4>2. q[i].method = "set" /\ \A j \in (i + 1)..Len(q) : q[j].method = "save"
        BY <2>2, <2>3, <4>1
      <4>3. q[i].attr = g.previous
        BY <2>1, <2>2, <2>3, <3>0, <3>2, <4>1, <4>2 DEF Remembers
      <4> QED
        BY <2>2, <4>1, <4>3
    <3> QED
      BY <3>1, <3>2
  <2> QED
    BY <1>0, <2>1, <2>3 DEF QueueOK, SendsOn, Remembers
<1> QED
  BY <1>1, <1>2 DEF Queued

(* A command for an attribute: it may take the place of the last call.     *)
LEMMA RemovedIs ==
  ASSUME NEW g, GuiType(g), QueueOK(g), g.previous # None,
         NEW k, k = RemoveLastQueuedCommand(g)
  PROVE  /\ GuiType(k) /\ SendsOn(k)
         /\ k.shown = g.shown /\ k.touched = g.touched
         /\ IsDropped(UnderWay(k), UnderWay(g), g.previous)
<1>0. g.arriving \in Seq(Calls) /\ g.queue \in Seq(Calls) /\ g.sending \in BOOLEAN
  BY DEF GuiType
<1>1. CASE g.queue = <<>>
  <2>1. k = g
    BY <1>1 DEF RemoveLastQueuedCommand
  <2> QED
    BY <2>1, <1>1 DEF IsDropped, QueueOK
<1>2. CASE g.queue # <<>>
  <2>1. PICK q : q = Front(g.queue)
    OBVIOUS
  <2>2. q \in Seq(Calls) /\ IsFront(q, g.queue)
    BY <1>0, <1>2, <2>1, FrontIs
  <2>3. k = [g EXCEPT !.queue = q]
    BY <1>2, <2>1 DEF RemoveLastQueuedCommand
  <2>4. /\ GuiType(k) /\ k.queue = q /\ k.arriving = g.arriving /\ k.sending = g.sending
        /\ k.shown = g.shown /\ k.touched = g.touched
    BY <2>2, <2>3 DEF GuiType
  <2>5. g.sending
    BY <1>2 DEF QueueOK, SendsOn
  <2>6. /\ IsFront(UnderWay(k), UnderWay(g))
        /\ UnderWay(g)[Len(UnderWay(g))] = g.queue[Len(g.queue)]
    <3>1. /\ IsFront(g.arriving \o q, g.arriving \o g.queue)
          /\ (g.arriving \o g.queue)[Len(g.arriving \o g.queue)] = g.queue[Len(g.queue)]
      BY <1>0, <2>2, JoinFront
    <3> QED
      BY <2>4, <3>1 DEF UnderWay
  <2>7. g.queue[Len(g.queue)].method = "save" \/ Sets(g.queue[Len(g.queue)], g.previous)
    <3>1. PICK n : n = Len(g.queue)
      OBVIOUS
    <3>2. n \in 1..n /\ \A j \in (n + 1)..n : FALSE
      BY <1>0, <1>2, <3>1
    <3>3. g.queue[n] \in Calls
      BY <1>0, <3>1, <3>2
    <3>4. g.queue[n].method = "set" \/ g.queue[n].method = "save"
      BY <3>3 DEF Calls
    <3>5. g.queue[n].method = "set" => g.queue[n].attr = g.previous
      BY <3>1, <3>2 DEF QueueOK, Remembers
    <3> QED
      BY <3>1, <3>4, <3>5 DEF Sets
  <2> QED
    BY <2>4, <2>5, <2>6, <2>7 DEF IsDropped, SendsOn
<1> QED
  BY <1>1, <1>2

(* What a command does. *)
Processes(h, g, s, v) ==
  /\ GuiType(h) /\ QueueOK(h)
  /\ h.shown = [g.shown EXCEPT ![s] = v]
  /\ IF s = Modified
       THEN h.touched = g.touched /\ UnderWay(h) = UnderWay(g) /\ h.previous = g.previous
       ELSE /\ h.touched = g.touched \ {s}
            /\ \E e \in Seq(Calls) :
                 /\ IsDropped(e, UnderWay(g), s)
                 /\ IsAppended(UnderWay(h), e, SetCall(s, v))

LEMMA StatesSet ==
  ASSUME NEW f \in States, NEW s \in Shown, NEW v \in May(s)
  PROVE  [f EXCEPT ![s] = v] \in States
BY DEF States, May

LEMMA ProcessAttr ==
  ASSUME NEW g, GuiType(g), QueueOK(g), NEW s \in Attrs, NEW v \in Values,
         NEW h, h = InnerProcess(g, s, v)
  PROVE  Processes(h, g, s, v)
<1>0. /\ s # Modified /\ s \in Shown /\ v \in May(s) /\ s # None
      /\ g.shown \in States /\ g.touched \in SUBSET Attrs
  BY GuiMirrorAssumption DEF Modified, Shown, May, None, GuiType
<1>1. PICK kept : kept = IF Replaces(s, g.previous) THEN RemoveLastQueuedCommand(g) ELSE g
  OBVIOUS
<1>2. /\ GuiType(kept) /\ SendsOn(kept)
      /\ kept.shown = g.shown /\ kept.touched = g.touched
      /\ IsDropped(UnderWay(kept), UnderWay(g), s)
  <2>1. CASE Replaces(s, g.previous)
    <3>1. s = g.previous
      BY <2>1 DEF Replaces
    <3> QED
      BY <1>0, <1>1, <2>1, <3>1, RemovedIs
  <2>2. CASE ~Replaces(s, g.previous)
    <3>1. kept = g
      BY <1>1, <2>2
    <3> QED
      BY <3>1 DEF IsDropped, QueueOK
  <2> QED
    BY <2>1, <2>2
<1>3. PICK f, c : f = [kept.shown EXCEPT ![s] = v] /\ c = SetCall(s, v)
  OBVIOUS
<1>4. f \in States /\ c \in Calls /\ c.method = "set" /\ c.attr = s
  BY <1>0, <1>2, <1>3, StatesSet DEF SetCall, Calls
<1>5. PICK m : m = [kept EXCEPT !.previous = s, !.touched = @ \ {s}, !.shown[s] = v]
  OBVIOUS
<1>6. PICK t : t = kept.touched \ {s}
  OBVIOUS
<1>7. m = [kept EXCEPT !.previous = s, !.touched = t, !.shown = f]
  BY <1>2, <1>3, <1>5, <1>6 DEF GuiType
<1>7a. t \in SUBSET Attrs
  BY <1>0, <1>2, <1>6
<1>7b. /\ GuiType(m) /\ m.queue = kept.queue /\ m.arriving = kept.arriving
       /\ m.sending = kept.sending /\ m.previous = s /\ m.shown = f /\ m.touched = t
  BY <1>2, <1>4, <1>7, <1>7a DEF GuiType
<1>8. h = CallQueued(m, c)
  BY <1>0, <1>1, <1>3, <1>5 DEF InnerProcess
<1>9. SendsOn(m)
  BY <1>2, <1>7b DEF SendsOn
<1>10. Queued(h, m, c)
  BY <1>4, <1>7b, <1>8, <1>9, CallQueuedIs
<1>11. QueueOK(h)
  BY <1>4, <1>7b, <1>10, QueuedOK
<1>12. /\ GuiType(h) /\ h.shown = f /\ h.touched = t /\ h.previous = s
       /\ IsAppended(UnderWay(h), UnderWay(m), c)
  BY <1>7b, <1>10 DEF Queued
<1>13. UnderWay(m) = UnderWay(kept) /\ UnderWay(kept) \in Seq(Calls)
  BY <1>2, <1>7b DEF UnderWay, GuiType
<1>14. f = [g.shown EXCEPT ![s] = v] /\ t = g.touched \ {s}
  BY <1>2, <1>3, <1>6
<1>15. \E e \in Seq(Calls) : IsDropped(e, UnderWay(g), s) /\ IsAppended(UnderWay(h), e, SetCall(s, v))
  BY <1>2, <1>3, <1>12, <1>13
<1> QED
  BY <1>0, <1>11, <1>12, <1>14, <1>15 DEF Processes

LEMMA ProcessAny ==
  ASSUME NEW g, GuiType(g), QueueOK(g), NEW s \in Shown, NEW v \in May(s),
         NEW h, h = InnerProcess(g, s, v)
  PROVE  Processes(h, g, s, v)
<1>1. CASE s = Modified
  <2>1. PICK f : f = [g.shown EXCEPT ![s] = v]
    OBVIOUS
  <2>2. f \in States
    BY <2>1, StatesSet DEF GuiType
  <2>3. h = [g EXCEPT !.shown = f]
    BY <1>1, <2>1 DEF InnerProcess, GuiType
  <2>4. /\ GuiType(h) /\ h.shown = f /\ h.touched = g.touched /\ h.previous = g.previous
        /\ h.queue = g.queue /\ h.sending = g.sending /\ h.arriving = g.arriving
    BY <2>2, <2>3 DEF GuiType
  <2>5. QueueOK(h) /\ UnderWay(h) = UnderWay(g)
    BY <2>4 DEF QueueOK, SendsOn, Remembers, UnderWay
  <2> QED
    BY <1>1, <2>1, <2>4, <2>5 DEF Processes
<1>2. CASE s # Modified
  <2>1. s \in Attrs /\ v \in Values
    BY <1>2 DEF Shown, May
  <2> QED
    BY <2>1, ProcessAttr
<1> QED
  BY <1>1, <1>2

(* What commands for the attributes in done make of the gui.               *)
Fresh(g, a) == a \notin g.touched /\ \A w : Tells(UnderWay(g), Len(UnderWay(g)), a, g.shown[a], w)
Alike(g, g0, a) ==
  /\ g.shown[a] = g0.shown[a] /\ (a \in g.touched <=> a \in g0.touched)
  /\ \A heard, marked, v, w : InTouch(UnderWay(g0), heard, marked, a, v, w)
                                => InTouch(UnderWay(g), heard, marked, a, v, w)
StillTold(g, g0, a) ==
  \A w : Told(UnderWay(g0), a, g0.shown[a], w) => Told(UnderWay(g), a, g.shown[a], w)
Carried(g, g0, done) ==
  /\ GuiType(g) /\ QueueOK(g)
  /\ \A a \in Attrs : /\ IF a \in done THEN Fresh(g, a) ELSE Alike(g, g0, a)
                      /\ StillTold(g, g0, a)

LEMMA CarriedFirst == ASSUME NEW g, GuiType(g), QueueOK(g) PROVE Carried(g, g, {})
BY DEF Carried, Alike, StillTold

LEMMA UnderWayType == ASSUME NEW g, GuiType(g) PROVE UnderWay(g) \in Seq(Calls)
<1>1. g.arriving \in Seq(Calls) /\ g.queue \in Seq(Calls)
  BY DEF GuiType
<1> QED
  BY <1>1 DEF UnderWay

LEMMA ProcessOther ==
  ASSUME NEW g, GuiType(g), NEW s \in Attrs, NEW v \in Values,
         NEW h, Processes(h, g, s, v), NEW a \in Attrs, a # s
  PROVE  Alike(h, g, a) /\ StillTold(h, g, a)
<1>1. PICK u \in Seq(Calls), e \in Seq(Calls), u2 \in Seq(Calls) :
        /\ u = UnderWay(g) /\ u2 = UnderWay(h)
        /\ IsDropped(e, u, s) /\ IsAppended(u2, e, SetCall(s, v))
  <2>1. s # Modified /\ GuiType(h)
    BY GuiMirrorAssumption DEF Modified, Processes
  <2> QED
    BY <2>1, UnderWayType DEF Processes
<1>2. ~Sets(SetCall(s, v), a)
  BY DEF SetCall, Sets
<1>3. h.shown[a] = g.shown[a] /\ (a \in h.touched <=> a \in g.touched)
  <2>1. s # Modified /\ g.shown \in States /\ a \in Shown
    BY GuiMirrorAssumption DEF Modified, GuiType, Shown
  <2>2. h.shown = [g.shown EXCEPT ![s] = v] /\ h.touched = g.touched \ {s}
    BY <2>1 DEF Processes
  <2> QED
    BY <2>1, <2>2 DEF States
<1>4. ASSUME NEW heard, NEW marked, NEW x, NEW w, InTouch(u, heard, marked, a, x, w)
      PROVE  InTouch(u2, heard, marked, a, x, w)
  <2>1. InTouch(e, heard, marked, a, x, w)
    BY <1>1, <1>4, DroppedInTouch
  <2> QED
    BY <1>1, <1>2, <2>1, AppendedInTouch
<1>5. ASSUME NEW w, Told(u, a, g.shown[a], w) PROVE Told(u2, a, g.shown[a], w)
  <2>1. Told(e, a, g.shown[a], w)
    BY <1>1, <1>5, DroppedTold
  <2>2. Tells(u2, Len(u2), a, g.shown[a], w)
    BY <1>1, <1>2, <2>1, AppendedTells DEF Told
  <2>3. SetCall(s, v).method # "save"
    BY DEF SetCall
  <2>4. \A i \in 1..Len(e) : e[i].method = "save" => Tells(e, i - 1, a, e[i].shown[a], w)
    BY <2>1 DEF Told
  <2> QED
    BY <1>1, <2>2, <2>3, <2>4, AppendedTold
<1> QED
  BY <1>1, <1>3, <1>4, <1>5 DEF Alike, StillTold

LEMMA ProcessSelf ==
  ASSUME NEW g, GuiType(g), NEW s \in Attrs, NEW v \in Values, NEW h, Processes(h, g, s, v)
  PROVE  Fresh(h, s) /\ StillTold(h, g, s)
<1>1. PICK u \in Seq(Calls), e \in Seq(Calls), u2 \in Seq(Calls) :
        /\ u = UnderWay(g) /\ u2 = UnderWay(h)
        /\ IsDropped(e, u, s) /\ IsAppended(u2, e, SetCall(s, v))
  <2>1. s # Modified /\ GuiType(h)
    BY GuiMirrorAssumption DEF Modified, Processes
  <2> QED
    BY <2>1, UnderWayType DEF Processes
<1>2. Sets(SetCall(s, v), s) /\ SetCall(s, v).value = v /\ SetCall(s, v).method # "save"
  BY DEF SetCall, Sets
<1>3. h.shown[s] = v /\ s \notin h.touched
  <2>1. s # Modified /\ g.shown \in States /\ s \in Shown
    BY GuiMirrorAssumption DEF Modified, GuiType, Shown
  <2>2. h.shown = [g.shown EXCEPT ![s] = v] /\ h.touched = g.touched \ {s}
    BY <2>1 DEF Processes
  <2> QED
    BY <2>1, <2>2 DEF States
<1>4. \A w : Tells(u2, Len(u2), s, v, w)
  <2>1. PICK c : c = SetCall(s, v)
    OBVIOUS
  <2> QED
    BY <1>1, <1>2, <2>1, AppendedSet
<1>5. ASSUME NEW w, Told(u, s, g.shown[s], w) PROVE Told(u2, s, v, w)
  <2>1. \A i \in 1..Len(e) : e[i].method = "save" => Tells(e, i - 1, s, e[i].shown[s], w)
    BY <1>1, <1>5, DroppedSaves
  <2> QED
    BY <1>1, <1>2, <1>4, <2>1, AppendedTold
<1> QED
  BY <1>1, <1>3, <1>4, <1>5 DEF Fresh, StillTold

LEMMA ProcessModified ==
  ASSUME NEW g, GuiType(g), NEW v \in BOOLEAN, NEW h, Processes(h, g, Modified, v),
         NEW a \in Attrs
  PROVE  Alike(h, g, a) /\ StillTold(h, g, a)
<1>1. a # Modified /\ a \in Shown /\ g.shown \in States
  BY GuiMirrorAssumption DEF Modified, Shown, GuiType
<1>2. h.shown = [g.shown EXCEPT ![Modified] = v] /\ h.touched = g.touched /\ UnderWay(h) = UnderWay(g)
  BY DEF Processes
<1>3. h.shown[a] = g.shown[a]
  BY <1>1, <1>2 DEF States
<1> QED
  BY <1>2, <1>3 DEF Alike, StillTold

LEMMA CarriedOn ==
  ASSUME NEW g0, NEW g, NEW done, Carried(g, g0, done), NEW s \in Shown, NEW v \in May(s),
         NEW h, Processes(h, g, s, v)
  PROVE  Carried(h, g0, done \cup {s})
<1>0. GuiType(g) /\ GuiType(h) /\ QueueOK(h)
  BY DEF Carried, Processes
<1>1. ASSUME NEW a \in Attrs
      PROVE  /\ IF a \in done \cup {s} THEN Fresh(h, a) ELSE Alike(h, g0, a)
             /\ StillTold(h, g0, a)
  <2>1. /\ IF a \in done THEN Fresh(g, a) ELSE Alike(g, g0, a)
        /\ StillTold(g, g0, a)
    BY DEF Carried
  <2>2. CASE a = s
    <3>1. a # Modified
      BY GuiMirrorAssumption DEF Modified
    <3>2. s \in Attrs /\ v \in Values
      BY <2>2, <3>1 DEF May
    <3>3. Fresh(h, s) /\ StillTold(h, g, s)
      BY <1>0, <3>2, ProcessSelf
    <3> QED
      BY <2>1, <2>2, <3>3 DEF StillTold
  <2>3. CASE a # s
    <3>1. Alike(h, g, a) /\ StillTold(h, g, a)
      <4>1. CASE s = Modified
        <5>1. v \in BOOLEAN /\ Processes(h, g, Modified, v)
          BY <4>1 DEF May
        <5> QED
          BY <1>0, <5>1, ProcessModified
      <4>2. CASE s # Modified
        <5>1. s \in Attrs /\ v \in Values
          BY <4>2 DEF May, Shown
        <5> QED
          BY <1>0, <2>3, <5>1, ProcessOther
      <4> QED
        BY <4>1, <4>2
    <3>2. StillTold(h, g0, a)
      BY <2>1, <3>1 DEF StillTold
    <3>3. CASE a \in done
      <4>1. ASSUME NEW w PROVE Tells(UnderWay(h), Len(UnderWay(h)), a, h.shown[a], w)
        <5>1. Tells(UnderWay(g), Len(UnderWay(g)), a, g.shown[a], w)
          BY <2>1, <3>3 DEF Fresh
        <5>2. InTouch(UnderWay(g), <<>>, FALSE, a, g.shown[a], w)
          BY <5>1 DEF InTouch
        <5>3. InTouch(UnderWay(h), <<>>, FALSE, a, g.shown[a], w)
          BY <3>1, <5>2 DEF Alike
        <5> QED
          BY <3>1, <5>3 DEF InTouch, Alike
      <4>2. a \notin h.touched
        BY <2>1, <3>1, <3>3 DEF Fresh, Alike
      <4> QED
        BY <3>2, <3>3, <4>1, <4>2 DEF Fresh
    <3>4. CASE a \notin done
      <4>1. Alike(g, g0, a)
        BY <2>1, <3>4
      <4>2. Alike(h, g0, a)
        BY <3>1, <4>1 DEF Alike
      <4> QED
        BY <2>3, <3>2, <3>4, <4>2
    <3> QED
      BY <3>3, <3>4
  <2> QED
    BY <2>2, <2>3
<1> QED
  BY <1>0, <1>1 DEF Carried

-----------------------------------------------------------------------------
(* Commands that are processed one after another *)

(* In place of induction: a set of counterexamples has a least one. *)
LEMMA LeastNumber ==
  ASSUME NEW T \in SUBSET Nat, T # {}
  PROVE  \E n \in T : \A m \in T : n <= m
<1> DEFINE Less == {ss \in Nat \X Nat : ss[1] < ss[2]}
<1>0. Less = OpToRel(<, Nat)
  BY DEF OpToRel
<1>1. IsWellFoundedOn(Less, Nat)
  BY NatLessThanWellFounded, <1>0
<1>2. \E n \in T : \A m \in T : ~(<<m, n>> \in Less)
  <2> HIDE DEF Less
  <2> QED BY <1>1, WFMin
<1>3. PICK n \in T : \A m \in T : ~(<<m, n>> \in Less)
  BY <1>2
<1>4. ASSUME NEW m \in T PROVE n <= m
  <2>1. n \in Nat /\ m \in Nat
    OBVIOUS
  <2>2. ~(<<m, n>> \in Less)
    BY <1>3
  <2>3. ~(m < n)
    BY <2>1, <2>2
  <2> QED
    BY <2>1, <2>3
<1> QED
  BY <1>4

(* A property of the first numbers that each passes on. *)
LEMMA Onwards ==
  ASSUME NEW n \in Nat, NEW holds, 0 \in holds,
         \A i \in 1..n : i - 1 \in holds => i \in holds
  PROVE  0..n \subseteq holds
<1> DEFINE bad == {i \in 0..n : i \notin holds}
<1>1. bad = {}
  <2> SUFFICES ASSUME bad # {} PROVE FALSE
    OBVIOUS
  <2>1. bad \in SUBSET Nat
    OBVIOUS
  <2>2. PICK i \in bad : \A j \in bad : i <= j
    <3> HIDE DEF bad
    <3> QED
      BY <2>1, LeastNumber
  <2>3. i \in 1..n /\ i - 1 \in 0..n /\ ~(i <= i - 1)
    OBVIOUS
  <2>4. i - 1 \notin bad
    <3> HIDE DEF bad
    <3> QED
      BY <2>2, <2>3
  <2> QED
    BY <2>3, <2>4
<1> QED
  BY <1>1

Body(f, g0, commands, i) ==
  IF i = 0 THEN g0 ELSE InnerProcess(f[i - 1], commands[i].attr, commands[i].value)

Run(f, g0, commands, n) == f = [i \in 0..n |-> Body(f, g0, commands, i)]

LEMMA RunExists ==
  ASSUME NEW g0, NEW commands, NEW n \in Nat
  PROVE  \E f : Run(f, g0, commands, n)
<1> DEFINE Made(f, k) == f = [i \in 0..k |-> Body(f, g0, commands, i)]
           holds == {k \in Nat : \E f : Made(f, k)}
<1>1. 0 \in holds
  <2>1. PICK g : g = [i \in 0..0 |-> g0]
    OBVIOUS
  <2>2. g = [i \in 0..0 |-> Body(g, g0, commands, i)]
    BY <2>1 DEF Body
  <2> QED
    BY <2>2
<1>2. ASSUME NEW k \in 1..n, k - 1 \in holds PROVE k \in holds
  <2>1. PICK f : Made(f, k - 1)
    BY <1>2
  <2>2. PICK g : g = [i \in 0..k |-> IF i = k THEN Body(f, g0, commands, k) ELSE f[i]]
    OBVIOUS
  <2>3. ASSUME NEW i \in 0..k PROVE g[i] = Body(g, g0, commands, i)
    <3>1. i # 0 => i - 1 \in 0..k /\ i - 1 # k
      OBVIOUS
    <3>2. i # 0 => g[i - 1] = f[i - 1]
      BY <2>2, <3>1
    <3>3. Body(g, g0, commands, i) = Body(f, g0, commands, i)
      BY <3>2 DEF Body
    <3>4. CASE i = k
      BY <2>2, <3>3, <3>4
    <3>5. CASE i # k
      <4>1. i \in 0..(k - 1)
        BY <3>5
      <4>2. f[i] = Body(f, g0, commands, i)
        BY <2>1, <4>1
      <4> QED
        BY <2>2, <3>3, <3>5, <4>2
    <3> QED
      BY <3>4, <3>5
  <2>4. g = [i \in 0..k |-> Body(g, g0, commands, i)]
    <3>1. g = [i \in 0..k |-> g[i]]
      BY <2>2
    <3> QED
      BY <2>3, <3>1
  <2> QED
    BY <2>4
<1>3. 0..n \subseteq holds
  <2> HIDE DEF holds
  <2> QED
    BY <1>1, <1>2, Onwards
<1>4. n \in 0..n
  OBVIOUS
<1>5. \E f : Made(f, n)
  BY <1>3, <1>4
<1> QED
  BY <1>5 DEF Run

(* The gui after each of the commands. *)
Runs(f, g0, commands) ==
  /\ f[0] = g0
  /\ \A i \in 1..Len(commands) :
       f[i] = InnerProcess(f[i - 1], commands[i].attr, commands[i].value)

LEMMA ProcessedRuns ==
  ASSUME NEW commands \in Seq(Commands), NEW g0, g0 = Now
  PROVE  \E f : Runs(f, g0, commands) /\ Processed(commands) = f[Len(commands)]
<1> DEFINE F(f) == f = [i \in 0..Len(commands) |->
                          IF i = 0 THEN Now
                          ELSE InnerProcess(f[i - 1], commands[i].attr, commands[i].value)]
<1>1. PICK f : f = CHOOSE g : F(g)
  OBVIOUS
<1>2. F(f)
  <2>1. Len(commands) \in Nat
    OBVIOUS
  <2>2. PICK g : Run(g, g0, commands, Len(commands))
    <3> HIDE DEF F
    <3> QED
      BY <2>1, RunExists
  <2>3. F(g)
    BY <2>2 DEF Run, Body
  <2> HIDE DEF F
  <2> QED
    BY <1>1, <2>3
<1>3. Processed(commands) = f[Len(commands)]
  BY <1>1 DEF Processed
<1>4. Runs(f, g0, commands)
  <2>1. \A i \in 1..Len(commands) : i \in 0..Len(commands) /\ i # 0
    OBVIOUS
  <2>2. 0 \in 0..Len(commands)
    OBVIOUS
  <2> QED
    BY <1>2, <2>1, <2>2 DEF Runs
<1> QED
  BY <1>3, <1>4

AttrsUpTo(commands, i) == {commands[j].attr : j \in 1..i}

CarriesEach(f, g0, commands) ==
  \A i \in 0..Len(commands) : Carried(f[i], g0, AttrsUpTo(commands, i))
ShowsEach(f, commands) ==
  \A i \in 1..Len(commands) :
    f[i].shown = [f[i - 1].shown EXCEPT ![commands[i].attr] = commands[i].value]

LEMMA RunsCarry ==
  ASSUME NEW commands \in Seq(Commands), NEW g0, GuiType(g0), QueueOK(g0), NEW f, Runs(f, g0, commands)
  PROVE  CarriesEach(f, g0, commands) /\ ShowsEach(f, commands)
<1> DEFINE holds == {i \in Nat : Carried(f[i], g0, AttrsUpTo(commands, i))}
<1>0. Len(commands) \in Nat
  OBVIOUS
<1>1. 0 \in holds
  <2>1. AttrsUpTo(commands, 0) = {}
    BY DEF AttrsUpTo
  <2>2. f[0] = g0
    BY DEF Runs
  <2> QED
    BY <2>1, <2>2, CarriedFirst
<1>2. ASSUME NEW i \in 1..Len(commands), i - 1 \in holds
      PROVE  /\ i \in holds
             /\ f[i].shown = [f[i - 1].shown EXCEPT ![commands[i].attr] = commands[i].value]
  <2>1. PICK s, v : s = commands[i].attr /\ v = commands[i].value
    OBVIOUS
  <2>2. s \in Shown /\ v \in May(s)
    <3>1. commands[i] \in Commands
      OBVIOUS
    <3> QED
      BY <2>1, <3>1 DEF Commands
  <2>3. f[i] = InnerProcess(f[i - 1], s, v)
    BY <2>1 DEF Runs
  <2>4. Carried(f[i - 1], g0, AttrsUpTo(commands, i - 1))
    BY <1>2
  <2>5. Processes(f[i], f[i - 1], s, v)
    BY <2>2, <2>3, <2>4, ProcessAny DEF Carried
  <2>6. Carried(f[i], g0, AttrsUpTo(commands, i - 1) \cup {s})
    BY <2>2, <2>4, <2>5, CarriedOn
  <2>7. AttrsUpTo(commands, i) = AttrsUpTo(commands, i - 1) \cup {s}
    <3>1. \A j : j \in 1..i <=> j \in 1..(i - 1) \/ j = i
      BY <1>0
    <3> QED
      BY <2>1, <3>1 DEF AttrsUpTo
  <2>8. f[i].shown = [f[i - 1].shown EXCEPT ![s] = v]
    BY <2>5 DEF Processes
  <2>9. i \in Nat
    BY <1>0
  <2> QED
    BY <2>1, <2>6, <2>7, <2>8, <2>9
<1>3. 0..Len(commands) \subseteq holds
  <2>1. \A i \in 1..Len(commands) : i - 1 \in holds => i \in holds
    BY <1>2
  <2> HIDE DEF holds
  <2> QED
    BY <1>0, <1>1, <2>1, Onwards
<1>4. \A i \in 1..Len(commands) : i - 1 \in 0..Len(commands)
  BY <1>0
<1>5. \A i \in 1..Len(commands) : i - 1 \in holds
  <2> HIDE DEF holds
  <2> QED
    BY <1>3, <1>4
<1>6. CarriesEach(f, g0, commands)
  BY <1>3 DEF CarriesEach
<1>7. ShowsEach(f, commands)
  <2> HIDE DEF holds
  <2> QED
    BY <1>2, <1>5 DEF ShowsEach
<1> QED
  BY <1>6, <1>7

-----------------------------------------------------------------------------
(* Types, and the queue of calls *)

TypeInv ==
  /\ GuiType(Now)
  /\ DOMAIN pending \subseteq Attrs /\ \A a \in DOMAIN pending : pending[a] \in Values
  /\ undo \in Seq(Transactions) /\ redo \in Seq(Transactions)
  /\ notes \in Seq(Notes)
  /\ server \in [Attrs -> Values]

BaseInv == TypeInv /\ QueueOK(Now)

LEMMA NowIs ==
  /\ Now.shown = shown /\ Now.touched = touched /\ Now.previous = previous
  /\ Now.queue = queue /\ Now.sending = sending /\ Now.arriving = arriving
BY DEF Now

LEMMA NowType ==
  GuiType(Now) <=> /\ shown \in States /\ touched \in SUBSET Attrs
                   /\ previous \in Attrs \cup {None} /\ queue \in Seq(Calls)
                   /\ sending \in BOOLEAN /\ arriving \in Seq(Calls)
BY DEF GuiType, Now

LEMMA BecomesIs == ASSUME NEW g, GuiType(g), Becomes(g) PROVE Now' = g
<1>1. g = [shown |-> g.shown, touched |-> g.touched, previous |-> g.previous,
           queue |-> g.queue, sending |-> g.sending, arriving |-> g.arriving]
  BY DEF GuiType
<1>2. Now' = [shown |-> g.shown, touched |-> g.touched, previous |-> g.previous,
              queue |-> g.queue, sending |-> g.sending, arriving |-> g.arriving]
  BY DEF Becomes, Now
<1> QED
  BY <1>1, <1>2

LEMMA LastIn ==
  ASSUME NEW S, NEW s \in Seq(S), s # <<>> PROVE Last(s) \in S /\ Last(s) = s[Len(s)] /\ Len(s) > 0
BY DEF Last

LEMMA FlushedType == ASSUME BaseInv PROVE Flushed \in States
<1>1. shown \in States
  BY NowType DEF BaseInv, TypeInv
<1>2. CASE modal
  BY <1>1, <1>2 DEF Flushed
<1>3. CASE ~modal
  <2>1. Flushed = [s \in Shown |-> IF s \in DOMAIN pending THEN pending[s] ELSE shown[s]]
    BY <1>3 DEF Flushed
  <2>2. ASSUME NEW s \in Shown
        PROVE  (IF s \in DOMAIN pending THEN pending[s] ELSE shown[s]) \in May(s)
    <3>1. s \in DOMAIN pending => s # Modified /\ pending[s] \in Values
      BY GuiMirrorAssumption DEF Modified, BaseInv, TypeInv
    <3> QED
      BY <1>1, <2>2, <3>1 DEF States, May
  <2>3. \A s \in Shown : May(s) \subseteq Values \cup BOOLEAN
    BY DEF May
  <2> QED
    BY <2>1, <2>2, <2>3 DEF States
<1> QED
  BY <1>2, <1>3

-----------------------------------------------------------------------------
(* What each action does to the parts of the gui *)

(* The gui before a command is processed: what was pending is shown.       *)
Ready(g) ==
  /\ GuiType(g) /\ QueueOK(g)
  /\ g.shown = Flushed /\ g.touched = touched /\ UnderWay(g) = UnderWay(Now)

LEMMA EditIs ==
  ASSUME BaseInv, NEW a \in Attrs, NEW v \in Values, NEW fresh \in BOOLEAN, Edit(a, v, fresh)
  PROVE  /\ \E g : Ready(g) /\ Carried(Now', g, {a, Modified})
         /\ shown' = [[Flushed EXCEPT ![a] = v] EXCEPT ![Modified] = TRUE]
<1>1. PICK g : g = [Now EXCEPT !.shown = Flushed, !.previous = IF fresh THEN None ELSE @]
  OBVIOUS
<1>2. PICK h, k : h = InnerProcess(g, a, v) /\ k = InnerProcess(h, Modified, TRUE)
  OBVIOUS
<1>3. Becomes(k)
  BY <1>1, <1>2 DEF Edit
<1>4. PICK fl, p : fl = Flushed /\ p = IF fresh THEN None ELSE previous
  OBVIOUS
<1>5. /\ fl \in States /\ touched \in SUBSET Attrs /\ p \in Attrs \cup {None}
      /\ queue \in Seq(Calls) /\ sending \in BOOLEAN /\ arriving \in Seq(Calls)
  BY <1>4, FlushedType, NowType DEF BaseInv, TypeInv
<1>6. g = [shown |-> fl, touched |-> touched, previous |-> p,
           queue |-> queue, sending |-> sending, arriving |-> arriving]
  BY <1>1, <1>4 DEF Now
<1>7. GuiType(g)
  BY <1>5, <1>6 DEF GuiType
<1>8. g.shown = fl /\ g.touched = touched /\ UnderWay(g) = UnderWay(Now)
  BY <1>6, NowIs DEF UnderWay
<1>9. QueueOK(g)
  <2>1. QueueOK(Now)
    BY DEF BaseInv
  <2>2. g.sending = sending /\ g.queue = queue /\ g.previous = p
    BY <1>6
  <2> QED
    BY <1>4, <2>1, <2>2, NowIs DEF QueueOK, SendsOn, Remembers
<1>10. a \in Shown /\ v \in May(a) /\ Modified \in Shown /\ TRUE \in May(Modified) /\ a # Modified
  BY GuiMirrorAssumption DEF Shown, May, Modified
<1>11. Processes(h, g, a, v)
  BY <1>2, <1>7, <1>9, <1>10, ProcessAny
<1>12. Processes(k, h, Modified, TRUE)
  <2>1. GuiType(h) /\ QueueOK(h)
    BY <1>11 DEF Processes
  <2> QED
    BY <1>2, <1>10, <2>1, ProcessAny
<1>13. Carried(k, g, {a, Modified})
  <2>1. Carried(g, g, {})
    BY <1>7, <1>9, CarriedFirst
  <2>2. Carried(h, g, {} \cup {a})
    BY <1>10, <1>11, <2>1, CarriedOn
  <2>3. Carried(k, g, ({} \cup {a}) \cup {Modified})
    BY <1>10, <1>12, <2>2, CarriedOn
  <2>4. ({} \cup {a}) \cup {Modified} = {a, Modified}
    OBVIOUS
  <2> QED
    BY <2>3, <2>4
<1>14. Now' = k
  BY <1>3, <1>13, BecomesIs DEF Carried
<1>15. shown' = [[Flushed EXCEPT ![a] = v] EXCEPT ![Modified] = TRUE]
  <2>1. shown' = k.shown
    BY <1>3 DEF Becomes
  <2> QED
    BY <1>4, <1>8, <1>11, <1>12, <2>1 DEF Processes
<1>16. Ready(g)
  BY <1>4, <1>7, <1>8, <1>9 DEF Ready
<1> QED
  BY <1>13, <1>14, <1>15, <1>16

Inverses(t) == [i \in DOMAIN t |-> Inverted(t[Len(t) + 1 - i])]

LEMMA InversesType ==
  ASSUME NEW t \in Seq(Commands), NEW r, r = Inverses(t)
  PROVE  /\ r \in Seq(Commands) /\ Len(r) = Len(t)
         /\ \A i \in 1..Len(t) : /\ Len(t) + 1 - i \in 1..Len(t)
                                 /\ r[i].attr = t[Len(t) + 1 - i].attr
                                 /\ r[i].value = t[Len(t) + 1 - i].old
<1>1. PICK n \in Nat : n = Len(t) /\ DOMAIN t = 1..n
  OBVIOUS
<1>2. \A i \in 1..n : n + 1 - i \in 1..n
  BY <1>1
<1>3. r = [i \in 1..n |-> Inverted(t[n + 1 - i])]
  BY <1>1 DEF Inverses
<1>4. ASSUME NEW c \in Commands PROVE Inverted(c) \in Commands /\ Inverted(c).attr = c.attr /\ Inverted(c).value = c.old
  <2>1. Inverted(c) = [attr |-> c.attr, value |-> c.old, old |-> c.value]
    BY DEF Inverted, Command
  <2> QED
    BY <2>1 DEF Commands
<1>5. \A i \in 1..n : t[n + 1 - i] \in Commands
  BY <1>1, <1>2
<1>6. r \in [1..n -> Commands]
  BY <1>3, <1>4, <1>5
<1>7. r \in Seq(Commands) /\ Len(r) = n
  BY <1>6
<1> QED
  BY <1>1, <1>2, <1>3, <1>4, <1>5, <1>7

LEMMA Resets ==
  ASSUME NEW t \in Seq(Commands)
  PROVE  /\ AttrsUpTo(t, Len(t)) = Reset(t)
         /\ AttrsUpTo(Inverses(t), Len(t)) = Reset(t)
<1>1. Reset(t) = {t[i].attr : i \in 1..Len(t)}
  BY DEF Reset, Range
<1>2. PICK r : r = Inverses(t)
  OBVIOUS
<1>3. \A i \in 1..Len(t) : /\ Len(t) + 1 - i \in 1..Len(t)
                           /\ r[i].attr = t[Len(t) + 1 - i].attr
  BY <1>2, InversesType
<1>4. \A i \in 1..Len(t) : Len(t) + 1 - (Len(t) + 1 - i) = i
  OBVIOUS
<1>5. {r[i].attr : i \in 1..Len(t)} = {t[i].attr : i \in 1..Len(t)}
  <2>1. \A i \in 1..Len(t) : \E j \in 1..Len(t) : r[i].attr = t[j].attr
    BY <1>3
  <2>2. ASSUME NEW i \in 1..Len(t) PROVE t[i].attr \in {r[j].attr : j \in 1..Len(t)}
    <3>1. PICK j \in 1..Len(t) : t[i].attr = r[j].attr
      BY <1>3, <1>4
    <3> QED
      BY <3>1
  <2>3. {r[i].attr : i \in 1..Len(t)} \subseteq {t[i].attr : i \in 1..Len(t)}
    BY <2>1
  <2>4. {t[i].attr : i \in 1..Len(t)} \subseteq {r[i].attr : i \in 1..Len(t)}
    BY <2>2
  <2> QED
    BY <2>3, <2>4
<1> QED
  BY <1>1, <1>2, <1>5 DEF AttrsUpTo

(* A transaction's commands are processed, or their inverses.              *)
LEMMA ProcessedCarries ==
  ASSUME BaseInv, NEW commands \in Seq(Commands), Becomes(Processed(commands))
  PROVE  \E f : /\ Runs(f, Now, commands) /\ Now' = f[Len(commands)]
                /\ Carried(Now', Now, AttrsUpTo(commands, Len(commands)))
                /\ ShowsEach(f, commands)
<1>1. PICK g0 : g0 = Now
  OBVIOUS
<1>2. GuiType(g0) /\ QueueOK(g0)
  BY <1>1 DEF BaseInv, TypeInv
<1>3. PICK f : Runs(f, g0, commands) /\ Processed(commands) = f[Len(commands)]
  BY <1>1, ProcessedRuns
<1>4. CarriesEach(f, g0, commands) /\ ShowsEach(f, commands)
  BY <1>2, <1>3, RunsCarry
<1>5. Len(commands) \in 0..Len(commands)
  OBVIOUS
<1>6. Carried(f[Len(commands)], g0, AttrsUpTo(commands, Len(commands)))
  BY <1>4, <1>5 DEF CarriesEach
<1>7. Now' = f[Len(commands)]
  BY <1>3, <1>6, BecomesIs DEF Carried
<1> QED
  BY <1>1, <1>3, <1>4, <1>6, <1>7

LEMMA UndoIs ==
  ASSUME BaseInv, Undo
  PROVE  /\ Last(undo) \in Transactions
         /\ Carried(Now', Now, Reset(Last(undo)))
<1>1. PICK t : t = Last(undo)
  OBVIOUS
<1>2. t \in Transactions /\ t \in Seq(Commands)
  BY <1>1, LastIn DEF BaseInv, TypeInv, Undo, Transactions
<1>3. PICK r : r = Inverses(t)
  OBVIOUS
<1>4. r \in Seq(Commands) /\ Len(r) = Len(t)
  BY <1>2, <1>3, InversesType
<1>5. Becomes(Processed(r))
  BY <1>1, <1>3 DEF Undo, Undone, Inverses
<1>6. Carried(Now', Now, AttrsUpTo(r, Len(r)))
  BY <1>4, <1>5, ProcessedCarries
<1> QED
  BY <1>1, <1>2, <1>3, <1>4, <1>6, Resets

LEMMA RedoIs ==
  ASSUME BaseInv, Redo
  PROVE  /\ Last(redo) \in Transactions
         /\ Carried(Now', Now, Reset(Last(redo)))
<1>1. PICK t : t = Last(redo)
  OBVIOUS
<1>2. t \in Transactions /\ t \in Seq(Commands)
  BY <1>1, LastIn DEF BaseInv, TypeInv, Redo, Transactions
<1>5. Becomes(Processed(t))
  BY <1>1 DEF Redo, Redone
<1>6. Carried(Now', Now, AttrsUpTo(t, Len(t)))
  BY <1>2, <1>5, ProcessedCarries
<1> QED
  BY <1>1, <1>2, <1>6, Resets

LEMMA SaveIs ==
  ASSUME BaseInv, SaveProject
  PROVE  \E call \in Calls : /\ call = SaveCall /\ call.method = "save"
                             /\ \A a \in Attrs : call.shown[a] = shown[a]
                             /\ Queued(Now', Now, call) /\ QueueOK(Now')
<1>1. PICK call : call = SaveCall
  OBVIOUS
<1>2. /\ call = [method |-> "save", shown |-> AttrsOf(shown)]
      /\ AttrsOf(shown) = [a \in Attrs |-> shown[a]]
  BY <1>1 DEF SaveCall, AttrsOf
<1>3. \A a \in Attrs : shown[a] \in Values
  <2>1. shown \in States
    BY NowType DEF BaseInv, TypeInv
  <2>2. \A a \in Attrs : a \in Shown /\ a # Modified
    BY GuiMirrorAssumption DEF Shown, Modified
  <2> QED
    BY <2>1, <2>2 DEF States, May
<1>4. call \in Calls /\ call.method = "save" /\ \A a \in Attrs : call.shown[a] = shown[a]
  <2>1. AttrsOf(shown) \in [Attrs -> Values]
    BY <1>2, <1>3
  <2> QED
    BY <1>2, <2>1 DEF Calls
<1>5. PICK g0, h : g0 = Now /\ h = CallQueued(g0, call)
  OBVIOUS
<1>6. GuiType(g0) /\ QueueOK(g0) /\ SendsOn(g0) /\ Remembers(g0)
  BY <1>5 DEF BaseInv, TypeInv, QueueOK
<1>7. Queued(h, g0, call)
  BY <1>4, <1>5, <1>6, CallQueuedIs
<1>8. QueueOK(h)
  BY <1>4, <1>6, <1>7, QueuedOK
<1>9. Becomes(h)
  BY <1>1, <1>5 DEF SaveProject
<1>10. Now' = h
  BY <1>7, <1>9, BecomesIs DEF Queued
<1> QED
  BY <1>1, <1>4, <1>5, <1>7, <1>8, <1>10

-----------------------------------------------------------------------------
(* Transactions *)

LEMMA PushType ==
  ASSUME NEW t \in Transactions, NEW c \in Commands
  PROVE  PushUndoList(t, c) \in Transactions
<1>0. t \in Seq(Commands) /\ t # <<>> /\ Len(t) > 0 /\ Len(t) \in Nat
  BY DEF Transactions
<1>1. CASE c.attr # Modified /\ Last(t).attr = c.attr
  <2>1. PICK f, l, m : f = Front(t) /\ l = Last(t) /\ m = [c EXCEPT !.old = l.old]
    OBVIOUS
  <2>2. f \in Seq(Commands) /\ l \in Commands
    BY <1>0, <2>1, FrontIs, LastIn
  <2>3. l.old \in May(c.attr) /\ May(c.attr) \subseteq Values \cup BOOLEAN
    BY <1>1, <2>1, <2>2 DEF Commands, May
  <2>4. m \in Commands
    BY <2>1, <2>3 DEF Commands
  <2>5. PushUndoList(t, c) = Append(f, m)
    BY <1>0, <1>1, <2>1 DEF PushUndoList
  <2>6. Append(f, m) \in Seq(Commands) /\ Append(f, m) # <<>>
    BY <2>2, <2>4, AppendProperties
  <2> QED
    BY <2>5, <2>6 DEF Transactions
<1>2. CASE ~(c.attr # Modified /\ Last(t).attr = c.attr)
  <2>1. PushUndoList(t, c) = Append(t, c)
    BY <1>2 DEF PushUndoList
  <2>2. Append(t, c) \in Seq(Commands) /\ Append(t, c) # <<>>
    BY <1>0, AppendProperties
  <2> QED
    BY <2>1, <2>2 DEF Transactions
<1> QED
  BY <1>1, <1>2

LEMMA StackAppend ==
  ASSUME NEW stack \in Seq(Transactions), NEW t \in Transactions, NEW r, r = Append(stack, t)
  PROVE  r \in Seq(Transactions) /\ r # <<>>
BY AppendProperties

LEMMA StackExtended ==
  ASSUME NEW stack \in Seq(Transactions), stack # <<>>, NEW c \in Commands
  PROVE  Extended(stack, c) \in Seq(Transactions) /\ Extended(stack, c) # <<>>
<1>1. PICK f, t : f = Front(stack) /\ t = PushUndoList(Last(stack), c)
  OBVIOUS
<1>2. Last(stack) \in Transactions
  BY LastIn
<1>3. f \in Seq(Transactions) /\ t \in Transactions
  BY <1>1, <1>2, FrontIs, PushType
<1>4. Extended(stack, c) = Append(f, t)
  BY <1>1 DEF Extended
<1> QED
  BY <1>3, <1>4, StackAppend

LEMMA SingleType == ASSUME NEW c \in Commands PROVE <<c>> \in Transactions
BY DEF Transactions

LEMMA CommandType ==
  ASSUME NEW s \in Shown, NEW v \in May(s), NEW old \in May(s)
  PROVE  Command(s, v, old) \in Commands
<1>1. May(s) \subseteq Values \cup BOOLEAN
  BY DEF May
<1> QED
  BY <1>1 DEF Command, Commands

LEMMA EditStacks ==
  ASSUME BaseInv, NEW a \in Attrs, NEW v \in Values, NEW fresh \in BOOLEAN, Edit(a, v, fresh)
  PROVE  undo' \in Seq(Transactions) /\ redo' \in Seq(Transactions)
<1>0. undo \in Seq(Transactions) /\ redo \in Seq(Transactions)
  BY DEF BaseInv, TypeInv
<1>1. PICK fl, set, modify : /\ fl = Flushed /\ set = Command(a, v, fl[a])
                             /\ modify = Command(Modified, TRUE, FALSE)
  OBVIOUS
<1>2. set \in Commands /\ modify \in Commands
  <2>1. fl \in States
    BY <1>1, FlushedType
  <2>2. a \in Shown /\ v \in May(a) /\ fl[a] \in May(a)
    BY <2>1, GuiMirrorAssumption DEF Shown, Modified, May, States
  <2>3. Modified \in Shown /\ TRUE \in May(Modified) /\ FALSE \in May(Modified)
    BY DEF Shown, May
  <2> QED
    BY <1>1, <2>2, <2>3, CommandType
<1>3. PICK joined : joined = IF fresh THEN Append(undo, <<set>>) ELSE Extended(undo, set)
  OBVIOUS
<1>4. joined \in Seq(Transactions) /\ joined # <<>>
  <2>1. CASE fresh
    BY <1>0, <1>2, <1>3, <2>1, SingleType, StackAppend
  <2>2. CASE ~fresh
    <3>1. undo # <<>>
      BY <2>2 DEF Edit
    <3> QED
      BY <1>0, <1>2, <1>3, <2>2, <3>1, StackExtended
  <2> QED
    BY <2>1, <2>2
<1>5. undo' = IF fl[Modified] THEN joined ELSE Extended(joined, modify)
  BY <1>1, <1>3 DEF Edit, Now
<1>6. undo' \in Seq(Transactions)
  BY <1>2, <1>4, <1>5, StackExtended
<1>7. redo' \in Seq(Transactions)
  <2>1. redo' = IF fresh THEN <<>> ELSE redo
    BY DEF Edit
  <2> QED
    BY <1>0, <2>1, EmptySeq
<1> QED
  BY <1>6, <1>7

-----------------------------------------------------------------------------
(* The next call is sent *)

MovedOn ==
  /\ GuiType(Now') /\ QueueOK(Now')
  /\ UnderWay(Now') = UnderWay(Now) /\ touched' = touched

LEMMA MovedOnIs ==
  ASSUME BaseInv, Finished \/ UNCHANGED <<queue, sending, arriving>>,
         shown' \in States, touched' = touched, previous' = previous \/ previous' = None
  PROVE  MovedOn
<1>0. /\ touched \in SUBSET Attrs /\ previous' \in Attrs \cup {None}
      /\ queue \in Seq(Calls) /\ sending \in BOOLEAN /\ arriving \in Seq(Calls)
      /\ ~sending => queue = <<>>
  <2>1. QueueOK(Now) /\ GuiType(Now)
    BY DEF BaseInv, TypeInv
  <2>2. ~sending => queue = <<>>
    BY <2>1, NowIs DEF QueueOK, SendsOn
  <2> QED
    BY <2>1, <2>2, NowType
<1>1. ASSUME queue' \in Seq(Calls), sending' \in BOOLEAN, arriving' \in Seq(Calls),
             arriving' \o queue' = arriving \o queue, ~sending' => queue' = <<>>,
             \/ queue' = <<>> \/ queue' = queue \/ IsTail(queue', queue)
      PROVE  MovedOn
  <2>1. PICK g, h : g = Now /\ h = Now'
    OBVIOUS
  <2>2. /\ g.queue = queue /\ g.sending = sending /\ g.arriving = arriving /\ g.previous = previous
        /\ h.queue = queue' /\ h.sending = sending' /\ h.arriving = arriving' /\ h.previous = previous'
    BY <2>1 DEF Now
  <2>3. GuiType(h)
    <3>1. h = [shown |-> shown', touched |-> touched', previous |-> previous', queue |-> queue',
               sending |-> sending', arriving |-> arriving']
      BY <2>1 DEF Now
    <3> QED
      BY <1>0, <1>1, <3>1 DEF GuiType
  <2>4. UnderWay(h) = UnderWay(g)
    BY <1>1, <2>2 DEF UnderWay
  <2>5. SendsOn(h)
    BY <1>1, <2>2 DEF SendsOn
  <2>6. Remembers(h)
    <3>1. Remembers(g) /\ (h.previous # None => g.previous = h.previous)
      BY <2>1, <2>2 DEF BaseInv, QueueOK
    <3>2. CASE h.queue = <<>>
      BY <3>2 DEF Remembers
    <3>3. CASE h.queue = g.queue
      BY <3>1, <3>3 DEF Remembers
    <3>4. CASE IsTail(h.queue, g.queue)
      <4>1. PICK q, r : q = g.queue /\ r = h.queue /\ q \in Seq(Calls) /\ r \in Seq(Calls)
        BY <1>0, <1>1, <2>2
      <4>2. Len(q) = Len(r) + 1 /\ \A i \in 1..Len(r) : r[i] = q[i + 1]
        BY <3>4, <4>1 DEF IsTail
      <4>3. ASSUME h.previous # None, NEW i \in 1..Len(r), r[i].method = "set",
                   \A j \in (i + 1)..Len(r) : r[j].method = "save"
            PROVE  r[i].attr = h.previous
        <5>1. i + 1 \in 1..Len(q) /\ q[i + 1].method = "set" /\ q[i + 1] = r[i]
          BY <4>2, <4>3
        <5>2. ASSUME NEW j \in (i + 2)..Len(q) PROVE q[j].method = "save"
          <6>1. PICK k \in (i + 1)..Len(r) : j = k + 1
            <7>1. j - 1 \in (i + 1)..Len(r) /\ j = (j - 1) + 1
              BY <4>2
            <7> QED
              BY <7>1
          <6> QED
            BY <4>2, <4>3, <6>1
        <5>3. \A j \in ((i + 1) + 1)..Len(q) : j \in (i + 2)..Len(q)
          OBVIOUS
        <5>4. q[i + 1].attr = g.previous
          BY <3>1, <4>1, <4>3, <5>1, <5>2, <5>3 DEF Remembers
        <5> QED
          BY <3>1, <4>3, <5>1, <5>4
      <4> QED
        BY <4>1, <4>3 DEF Remembers
    <3> QED
      BY <1>1, <2>2, <3>2, <3>3, <3>4
  <2> QED
    BY <2>1, <2>3, <2>4, <2>5, <2>6 DEF MovedOn, QueueOK
<1>2. CASE UNCHANGED <<queue, sending, arriving>>
  BY <1>0, <1>1, <1>2
<1>3. CASE Finished /\ queue = <<>>
  <2>1. sending' = FALSE /\ queue' = queue /\ arriving' = arriving
    BY <1>3 DEF Finished
  <2> QED
    BY <1>0, <1>1, <1>3, <2>1
<1>4. CASE Finished /\ queue # <<>>
  <2>1. PICK q, r : q = Tail(queue) /\ r = Append(arriving, Head(queue))
    OBVIOUS
  <2>2. queue' = q /\ arriving' = r /\ sending' = TRUE
    BY <1>4, <2>1 DEF Finished
  <2>3. q \in Seq(Calls) /\ IsTail(q, queue) /\ Head(queue) \in Calls
    BY <1>0, <1>4, <2>1, TailIs
  <2>4. r \in Seq(Calls)
    BY <1>0, <2>1, <2>3
  <2>5. r \o q = arriving \o queue
    BY <1>0, <1>4, <2>1, JoinMoved
  <2> QED
    BY <1>1, <2>2, <2>3, <2>4, <2>5
<1> QED
  BY <1>2, <1>3, <1>4

LEMMA SavedIs ==
  ASSUME BaseInv, ProjectSaved
  PROVE  /\ shown' \in States /\ (previous' = previous \/ previous' = None)
         /\ \A a \in Attrs : shown'[a] = shown[a]
         /\ undo' \in Seq(Transactions) /\ redo' \in Seq(Transactions)
<1>0. /\ undo \in Seq(Transactions) /\ redo \in Seq(Transactions)
      /\ shown \in States
  BY NowType DEF BaseInv, TypeInv
<1>1. CASE ~shown[Modified]
  BY <1>0, <1>1 DEF ProjectSaved
<1>2. CASE shown[Modified]
  <2>1. PICK c : c = Command(Modified, FALSE, TRUE)
    OBVIOUS
  <2>2. Modified \in Shown /\ FALSE \in May(Modified) /\ TRUE \in May(Modified)
    BY DEF Shown, May
  <2>3. c \in Commands
    BY <2>1, <2>2, CommandType
  <2>4. /\ shown' = [shown EXCEPT ![Modified] = FALSE]
        /\ previous' = IF undo = <<>> THEN None ELSE previous
        /\ Store(c, undo = <<>>)
    BY <1>2, <2>1 DEF ProjectSaved
  <2>5. shown' \in States
    BY <1>0, <2>2, <2>4, StatesSet
  <2>6. \A a \in Attrs : shown'[a] = shown[a]
    <3>1. \A a \in Attrs : a # Modified /\ a \in Shown
      BY GuiMirrorAssumption DEF Modified, Shown
    <3> QED
      BY <1>0, <2>4, <3>1 DEF States
  <2>7. CASE undo = <<>>
    <3>1. undo' = Append(undo, <<c>>) /\ redo' = <<>>
      BY <2>4, <2>7 DEF Store
    <3>2. undo' \in Seq(Transactions)
      BY <1>0, <2>3, <3>1, SingleType, StackAppend
    <3> QED
      BY <2>4, <2>5, <2>6, <3>1, <3>2, EmptySeq
  <2>8. CASE undo # <<>>
    <3>1. undo' = Extended(undo, c) /\ redo' = redo
      BY <2>4, <2>8 DEF Store
    <3>2. undo' \in Seq(Transactions)
      BY <1>0, <2>3, <2>8, <3>1, StackExtended
    <3> QED
      BY <1>0, <2>4, <2>5, <2>6, <3>1, <3>2
  <2> QED
    BY <2>7, <2>8
<1> QED
  BY <1>1, <1>2

-----------------------------------------------------------------------------
(* The invariant *)

RemoteNoted(a) == \E i \in 1..Len(notes) : notes[i].attr = a /\ notes[i].remote

(* What the gui shows of a, when what is pending is shown. *)
Seen(a) == IF a \in DOMAIN pending THEN pending[a] ELSE shown[a]

(* An attribute that nobody else sets is what the calls tell, and a save   *)
(* will find it as it was when the save was asked for.                     *)
SaveInv ==
  \A a \in Attrs \ foreign :
    /\ a \notin touched /\ a \notin DOMAIN pending /\ ~RemoteNoted(a)
    /\ Told(UnderWay(Now), a, shown[a], server[a])
    /\ file[a] = meant[a]

(* The last datagram about an attribute tells what the server has.         *)
LastNoteInv ==
  \A i \in 1..Len(notes) :
    (\A j \in 1..Len(notes) : j > i => notes[j].attr # notes[i].attr)
      => notes[i].value = server[notes[i].attr]

(* Once no change of somebody else is on its way, an attribute that is     *)
(* marked as set remotely has at most one call or echo of the gui's own    *)
(* under way, which will be believed, and one that is not marked is what   *)
(* the calls tell.                                                         *)
MirrorInv ==
  \A a \in Attrs \ unsure :
    ~RemoteNoted(a) => InTouch(UnderWay(Now), notes, a \in touched, a, Seen(a), server[a])

Inv == BaseInv /\ SaveInv /\ LastNoteInv /\ MirrorInv

-----------------------------------------------------------------------------
(* Steps that change what is under way *)

(* Commands, before which what is pending may have been shown.             *)
LEMMA CommandsKeep ==
  ASSUME Inv, NEW g, NEW done, Carried(Now', g, done),
         UnderWay(g) = UnderWay(Now), g.touched = touched,
         DOMAIN pending' \subseteq DOMAIN pending,
         \A a \in Attrs : (IF a \in DOMAIN pending' THEN pending'[a] ELSE g.shown[a]) = Seen(a),
         \A a \in Attrs \ unsure' : IF a \in done THEN a \notin DOMAIN pending' ELSE a \notin unsure,
         UNCHANGED <<notes, server, file, meant, foreign>>
  PROVE  SaveInv' /\ LastNoteInv' /\ MirrorInv'
<1>1. PICK h : h = Now'
  OBVIOUS
<1>2. shown' = h.shown /\ touched' = h.touched /\ UnderWay(Now)' = UnderWay(h)
  BY <1>1, NowIs DEF Now, UnderWay
<1>3. \A a \in Attrs : IF a \in done THEN Fresh(h, a) ELSE Alike(h, g, a)
  BY <1>1 DEF Carried
<1>4. \A a \in Attrs : StillTold(h, g, a)
  BY <1>1 DEF Carried
<1>5. \A a : RemoteNoted(a)' <=> RemoteNoted(a)
  BY DEF RemoteNoted
<1>6. ASSUME NEW a \in Attrs \ foreign
      PROVE  /\ a \notin touched' /\ a \notin DOMAIN pending' /\ ~RemoteNoted(a)'
             /\ Told(UnderWay(Now)', a, shown'[a], server'[a])
             /\ file'[a] = meant'[a]
  <2>1. /\ a \notin touched /\ a \notin DOMAIN pending /\ ~RemoteNoted(a)
        /\ Told(UnderWay(Now), a, shown[a], server[a])
        /\ file[a] = meant[a]
    BY DEF Inv, SaveInv
  <2>2. a \notin DOMAIN pending' /\ g.shown[a] = shown[a]
    BY <2>1 DEF Seen
  <2>3. Told(UnderWay(h), a, h.shown[a], server[a])
    BY <1>4, <2>1, <2>2 DEF StillTold
  <2>4. a \notin h.touched
    BY <1>3, <2>1 DEF Fresh, Alike
  <2> QED
    BY <1>2, <1>5, <2>1, <2>2, <2>3, <2>4
<1>7. ASSUME NEW a \in Attrs \ unsure', ~RemoteNoted(a)'
      PROVE  InTouch(UnderWay(Now)', notes', a \in touched', a, Seen(a)', server'[a])
  <2>1. Seen(a)' = IF a \in DOMAIN pending' THEN pending'[a] ELSE h.shown[a]
    BY <1>2 DEF Seen
  <2>2. CASE a \in done
    <3>1. a \notin h.touched /\ Tells(UnderWay(h), Len(UnderWay(h)), a, h.shown[a], server[a])
      BY <1>3, <2>2 DEF Fresh
    <3>2. Seen(a)' = h.shown[a]
      BY <2>1, <2>2
    <3> QED
      BY <1>2, <3>1, <3>2 DEF InTouch
  <2>3. CASE a \notin done
    <3>1. Alike(h, g, a) /\ a \notin unsure
      BY <1>3, <2>3
    <3>2. InTouch(UnderWay(g), notes, a \in touched, a, Seen(a), server[a])
      BY <1>5, <1>7, <3>1 DEF Inv, MirrorInv
    <3>3. InTouch(UnderWay(h), notes, a \in touched, a, Seen(a), server[a])
      BY <3>1, <3>2 DEF Alike
    <3>4. Seen(a)' = Seen(a) /\ (a \in h.touched <=> a \in touched)
      BY <2>1, <3>1 DEF Alike
    <3>5. (a \in touched') = (a \in touched)
      BY <1>2, <3>4
    <3> QED
      BY <1>2, <3>3, <3>4, <3>5
  <2> QED
    BY <2>2, <2>3
<1>8. SaveInv'
  BY <1>6 DEF SaveInv
<1>9. LastNoteInv'
  BY DEF Inv, LastNoteInv
<1>10. MirrorInv'
  BY <1>7 DEF MirrorInv
<1> QED
  BY <1>8, <1>9, <1>10

(* Steps that leave the calls as they are. *)
LEMMA FrameKeeps ==
  ASSUME Inv, UnderWay(Now') = UnderWay(Now), touched' = touched,
         DOMAIN pending' \subseteq DOMAIN pending,
         \A a \in Attrs \ DOMAIN pending : shown'[a] = shown[a],
         \A a \in Attrs : a \in unsure' \/ Seen(a)' = Seen(a),
         unsure \subseteq unsure', UNCHANGED <<notes, server, file, meant, foreign>>
  PROVE  SaveInv' /\ LastNoteInv' /\ MirrorInv'
<1>1. \A a : RemoteNoted(a)' <=> RemoteNoted(a)
  BY DEF RemoteNoted
<1>2. UnderWay(Now)' = UnderWay(Now)
  BY DEF UnderWay, Now
<1>3. SaveInv'
  BY <1>1, <1>2 DEF Inv, SaveInv
<1>4. LastNoteInv'
  BY DEF Inv, LastNoteInv
<1>5. MirrorInv'
  BY <1>1, <1>2 DEF Inv, MirrorInv
<1> QED
  BY <1>3, <1>4, <1>5

(* A save is queued. *)
LEMMA QueuedKeeps ==
  ASSUME Inv, NEW call \in Calls, call.method = "save", \A a \in Attrs : call.shown[a] = shown[a],
         Queued(Now', Now, call),
         UNCHANGED <<pending, unsure, notes, server, file, meant, foreign>>
  PROVE  SaveInv' /\ LastNoteInv' /\ MirrorInv'
<1>0. \A a : RemoteNoted(a)' <=> RemoteNoted(a)
  BY DEF RemoteNoted
<1>1. PICK u, u2 : u = UnderWay(Now) /\ u2 = UnderWay(Now')
  OBVIOUS
<1>2. u \in Seq(Calls) /\ u2 \in Seq(Calls) /\ IsAppended(u2, u, call)
  BY <1>1, UnderWayType DEF Inv, BaseInv, TypeInv, Queued
<1>3. UnderWay(Now)' = u2
  BY <1>1 DEF UnderWay, Now
<1>4. shown' = shown /\ touched' = touched
  BY DEF Queued, Now
<1>5. \A a : ~Sets(call, a)
  BY DEF Sets
<1>6. ASSUME NEW a \in Attrs \ foreign PROVE Told(u2, a, shown[a], server[a])
  <2>1. Told(u, a, shown[a], server[a])
    BY <1>1 DEF Inv, SaveInv
  <2>2. Tells(u, Len(u), a, shown[a], server[a])
    BY <2>1 DEF Told
  <2>3. Tells(u2, Len(u2), a, shown[a], server[a])
    BY <1>2, <1>5, <2>2, AppendedTells
  <2>4. Tells(u, Len(u), a, call.shown[a], server[a])
    BY <2>2
  <2>5. \A i \in 1..Len(u) : u[i].method = "save" => Tells(u, i - 1, a, u[i].shown[a], server[a])
    BY <2>1 DEF Told
  <2> QED
    BY <1>2, <2>3, <2>4, <2>5, AppendedTold
<1>7. SaveInv'
  BY <1>0, <1>3, <1>4, <1>6 DEF Inv, SaveInv
<1>8. ASSUME NEW a \in Attrs \ unsure, ~RemoteNoted(a)
      PROVE  InTouch(u2, notes, a \in touched, a, Seen(a), server[a])
  <2>1. InTouch(u, notes, a \in touched, a, Seen(a), server[a])
    BY <1>1, <1>8 DEF Inv, MirrorInv
  <2>2. PICK m, v : m = (a \in touched) /\ v = Seen(a)
    OBVIOUS
  <2> QED
    BY <1>2, <1>5, <2>1, <2>2, AppendedInTouch
<1>9. \A a : Seen(a)' = Seen(a)
  BY <1>4 DEF Seen
<1>10. MirrorInv'
  BY <1>0, <1>3, <1>4, <1>8, <1>9 DEF MirrorInv
<1>11. LastNoteInv'
  BY DEF Inv, LastNoteInv
<1> QED
  BY <1>7, <1>10, <1>11

-----------------------------------------------------------------------------
(* The steps of the gui *)

LEMMA StackOfFront ==
  ASSUME NEW S, NEW s \in Seq(S), s # <<>> PROVE Front(s) \in Seq(S) /\ Last(s) \in S
BY FrontIs, LastIn

LEMMA EditKeeps ==
  ASSUME Inv, NEW a \in Attrs, NEW v \in Values, NEW fresh \in BOOLEAN, Edit(a, v, fresh)
  PROVE  Inv'
<1>1. PICK g : Ready(g) /\ Carried(Now', g, {a, Modified})
  BY EditIs DEF Inv
<1>2. /\ ~modal /\ pending' = <<>> /\ unsure' = unsure \ {a}
      /\ UNCHANGED <<notes, server, file, meant, foreign>>
  BY DEF Edit
<1>3. DOMAIN pending' = {}
  BY <1>2
<1>4. \A x \in Attrs : g.shown[x] = Seen(x)
  <2>1. g.shown = [s \in Shown |-> IF s \in DOMAIN pending THEN pending[s] ELSE shown[s]]
    BY <1>1, <1>2 DEF Ready, Flushed
  <2> QED
    BY <2>1 DEF Seen, Shown
<1>5. SaveInv' /\ LastNoteInv' /\ MirrorInv'
  BY <1>1, <1>2, <1>3, <1>4, CommandsKeep DEF Ready
<1>6. BaseInv'
  <2>1. GuiType(Now') /\ QueueOK(Now')
    BY <1>1 DEF Carried
  <2>2. undo' \in Seq(Transactions) /\ redo' \in Seq(Transactions)
    BY EditStacks DEF Inv
  <2> QED
    BY <1>2, <1>3, <2>1, <2>2 DEF Inv, BaseInv, TypeInv
<1> QED
  BY <1>5, <1>6 DEF Inv

LEMMA CarriedBack ==
  ASSUME Inv, NEW done, Carried(Now', Now, done),
         unsure' = (unsure \ done) \cup (done \cap DOMAIN pending),
         UNCHANGED <<pending, notes, server, file, meant, foreign>>,
         undo' \in Seq(Transactions), redo' \in Seq(Transactions)
  PROVE  Inv'
<1>1. PICK g : g = Now
  OBVIOUS
<1>2. /\ Carried(Now', g, done) /\ UnderWay(g) = UnderWay(Now) /\ g.touched = touched
      /\ g.shown = shown
  BY <1>1, NowIs
<1>3. \A a \in Attrs : (IF a \in DOMAIN pending' THEN pending'[a] ELSE g.shown[a]) = Seen(a)
  BY <1>2 DEF Seen
<1>4. \A a \in Attrs \ unsure' : IF a \in done THEN a \notin DOMAIN pending' ELSE a \notin unsure
  OBVIOUS
<1>5. SaveInv' /\ LastNoteInv' /\ MirrorInv'
  BY <1>2, <1>3, <1>4, CommandsKeep
<1>6. BaseInv'
  <2>1. GuiType(Now') /\ QueueOK(Now')
    BY DEF Carried
  <2> QED
    BY <2>1 DEF Inv, BaseInv, TypeInv
<1> QED
  BY <1>5, <1>6 DEF Inv

LEMMA OvertakenIs == ASSUME NEW t PROVE Overtaken(t) = Reset(t) \cap DOMAIN pending
BY DEF Overtaken, Reset

LEMMA UndoKeeps == ASSUME Inv, Undo PROVE Inv'
<1>1. PICK t : t = Last(undo)
  OBVIOUS
<1>2. t \in Transactions /\ Carried(Now', Now, Reset(t))
  BY <1>1, UndoIs DEF Inv
<1>3. /\ unsure' = (unsure \ Reset(t)) \cup (Reset(t) \cap DOMAIN pending)
      /\ UNCHANGED <<pending, notes, server, file, meant, foreign>>
  BY <1>1, OvertakenIs DEF Undo
<1>4. undo' \in Seq(Transactions) /\ redo' \in Seq(Transactions)
  <2>1. undo \in Seq(Transactions) /\ redo \in Seq(Transactions)
    BY DEF Inv, BaseInv, TypeInv
  <2>2. undo # <<>> /\ undo' = Front(undo) /\ redo' = Append(redo, t)
    BY <1>1 DEF Undo
  <2> QED
    BY <1>2, <2>1, <2>2, StackOfFront, StackAppend
<1> QED
  BY <1>2, <1>3, <1>4, CarriedBack

LEMMA RedoKeeps == ASSUME Inv, Redo PROVE Inv'
<1>1. PICK t : t = Last(redo)
  OBVIOUS
<1>2. t \in Transactions /\ Carried(Now', Now, Reset(t))
  BY <1>1, RedoIs DEF Inv
<1>3. /\ unsure' = (unsure \ Reset(t)) \cup (Reset(t) \cap DOMAIN pending)
      /\ UNCHANGED <<pending, notes, server, file, meant, foreign>>
  BY <1>1, OvertakenIs DEF Redo
<1>4. undo' \in Seq(Transactions) /\ redo' \in Seq(Transactions)
  <2>1. undo \in Seq(Transactions) /\ redo \in Seq(Transactions)
    BY DEF Inv, BaseInv, TypeInv
  <2>2. redo # <<>> /\ redo' = Front(redo) /\ undo' = Append(undo, t)
    BY <1>1 DEF Redo
  <2> QED
    BY <1>2, <2>1, <2>2, StackOfFront, StackAppend
<1> QED
  BY <1>2, <1>3, <1>4, CarriedBack

LEMMA SaveKeeps == ASSUME Inv, SaveProject PROVE Inv'
<1>1. PICK call \in Calls : /\ call.method = "save" /\ \A a \in Attrs : call.shown[a] = shown[a]
                            /\ Queued(Now', Now, call) /\ QueueOK(Now')
  BY SaveIs DEF Inv
<1>2. UNCHANGED <<pending, unsure, notes, server, file, meant, foreign, undo, redo>>
  BY DEF SaveProject
<1>3. SaveInv' /\ LastNoteInv' /\ MirrorInv'
  BY <1>1, <1>2, QueuedKeeps
<1>4. BaseInv'
  BY <1>1, <1>2 DEF Inv, BaseInv, TypeInv, Queued
<1> QED
  BY <1>3, <1>4 DEF Inv

LEMMA MovedKeeps ==
  ASSUME Inv, MovedOn, \A a \in Attrs : shown'[a] = shown[a],
         undo' \in Seq(Transactions), redo' \in Seq(Transactions),
         UNCHANGED <<pending, unsure, notes, server, file, meant, foreign>>
  PROVE  Inv'
<1>1. \A a \in Attrs : Seen(a)' = Seen(a)
  BY DEF Seen
<1>2. SaveInv' /\ LastNoteInv' /\ MirrorInv'
  BY <1>1, FrameKeeps DEF MovedOn
<1>3. BaseInv'
  BY DEF Inv, BaseInv, TypeInv, MovedOn
<1> QED
  BY <1>2, <1>3 DEF Inv

LEMMA CompleteKeeps == ASSUME Inv, Complete PROVE Inv'
<1>1. /\ Finished \/ UNCHANGED <<queue, sending, arriving>>
      /\ ProjectSaved \/ UNCHANGED <<shown, previous, undo, redo>>
      /\ UNCHANGED <<touched, pending, notes, server, file, meant, unsure, foreign>>
  BY DEF Complete
<1>2. /\ shown' \in States /\ (previous' = previous \/ previous' = None)
      /\ \A a \in Attrs : shown'[a] = shown[a]
      /\ undo' \in Seq(Transactions) /\ redo' \in Seq(Transactions)
  <2>1. CASE ProjectSaved
    BY <2>1, SavedIs DEF Inv
  <2>2. CASE UNCHANGED <<shown, previous, undo, redo>>
    BY <2>2, NowType DEF Inv, BaseInv, TypeInv
  <2> QED
    BY <1>1, <2>1, <2>2
<1>3. MovedOn
  BY <1>1, <1>2, MovedOnIs DEF Inv
<1> QED
  BY <1>1, <1>2, <1>3, MovedKeeps

LEMMA TimeoutKeeps == ASSUME Inv, Timeout PROVE Inv'
<1>1. /\ Finished
      /\ UNCHANGED <<shown, previous, undo, redo, touched, pending, notes, server, file, meant,
                     unsure, foreign>>
  BY DEF Timeout
<1>2. /\ shown' \in States
      /\ undo' \in Seq(Transactions) /\ redo' \in Seq(Transactions)
  BY <1>1, NowType DEF Inv, BaseInv, TypeInv
<1>3. MovedOn
  BY <1>1, <1>2, MovedOnIs DEF Inv
<1> QED
  BY <1>1, <1>2, <1>3, MovedKeeps

LEMMA StillMovedOn ==
  ASSUME Inv, UNCHANGED <<shown, touched, previous, queue, sending, arriving>> PROVE MovedOn
<1>1. shown' \in States
  BY NowType DEF Inv, BaseInv, TypeInv
<1> QED
  BY <1>1, MovedOnIs DEF Inv

LEMMA ModalKeeps == ASSUME Inv, Ask \/ Answered PROVE Inv'
<1>1. UNCHANGED <<shown, touched, previous, queue, sending, arriving, undo, redo, pending, notes,
                  server, file, meant, unsure, foreign>>
  BY DEF Ask, Answered
<1>2. undo' \in Seq(Transactions) /\ redo' \in Seq(Transactions)
  BY <1>1 DEF Inv, BaseInv, TypeInv
<1> QED
  BY <1>1, <1>2, StillMovedOn, MovedKeeps

LEMMA TimerKeeps == ASSUME Inv, ProcessQueueTimer PROVE Inv'
<1>1. /\ pending' = <<>> /\ shown' = Flushed
      /\ unsure' = IF modal THEN unsure \cup DOMAIN pending ELSE unsure
      /\ UNCHANGED <<touched, previous, queue, sending, arriving, undo, redo, notes,
                     server, file, meant, foreign>>
  BY DEF ProcessQueueTimer
<1>2. DOMAIN pending' = {}
  BY <1>1
<1>3. shown' \in States
  BY <1>1, FlushedType DEF Inv
<1>4. MovedOn
  BY <1>1, <1>3, MovedOnIs DEF Inv
<1>5. \A a \in Attrs : shown'[a] = IF ~modal /\ a \in DOMAIN pending THEN pending[a] ELSE shown[a]
  BY <1>1 DEF Flushed, Shown
<1>6. \A a \in Attrs : a \in unsure' \/ Seen(a)' = Seen(a)
  BY <1>1, <1>2, <1>5 DEF Seen
<1>7. SaveInv' /\ LastNoteInv' /\ MirrorInv'
  BY <1>1, <1>2, <1>4, <1>5, <1>6, FrameKeeps DEF MovedOn
<1>8. BaseInv'
  BY <1>1, <1>2, <1>4 DEF Inv, BaseInv, TypeInv, MovedOn
<1> QED
  BY <1>7, <1>8 DEF Inv

-----------------------------------------------------------------------------
(* Datagrams *)

LEMMA HeardMore ==
  ASSUME NEW u, NEW heard \in Seq(Notes), NEW more \in Seq(Notes), NEW note, IsAppended(more, heard, note),
         NEW marked, NEW a, note.attr # a, NEW v, NEW w, InTouch(u, heard, marked, a, v, w)
  PROVE  InTouch(u, more, marked, a, v, w)
<1>1. Len(more) = Len(heard) + 1 /\ more[Len(more)] = note /\ \A i \in 1..Len(heard) : more[i] = heard[i]
  BY DEF IsAppended
<1>2. \A i \in 1..Len(more) : i \in 1..Len(heard) \/ i = Len(more)
  BY <1>1
<1>3. \A i \in 1..Len(more) : more[i].attr = a => i \in 1..Len(heard) /\ heard[i].attr = a
  BY <1>1, <1>2
<1>4. \A i \in 1..Len(heard) : i \in 1..Len(more)
  BY <1>1
<1>5. CASE marked
  <2>1. OwnOnce(u, heard, a) /\ (NothingOf(u, heard, a) => v = w)
    BY <1>5 DEF InTouch
  <2>2. OwnOnce(u, more, a)
    BY <1>3, <2>1 DEF OwnOnce
  <2>3. NothingOf(u, more, a) => NothingOf(u, heard, a)
    BY <1>1, <1>4 DEF NothingOf
  <2> QED
    BY <1>5, <2>1, <2>2, <2>3 DEF InTouch
<1>6. CASE ~marked
  BY <1>6 DEF InTouch
<1> QED
  BY <1>5, <1>6

LEMMA HeardLess ==
  ASSUME NEW u, NEW heard \in Seq(Notes), NEW less \in Seq(Notes), IsTail(less, heard),
         NEW marked, NEW a, heard[1].attr # a, NEW v, NEW w, InTouch(u, heard, marked, a, v, w)
  PROVE  InTouch(u, less, marked, a, v, w)
<1>1. Len(heard) = Len(less) + 1 /\ \A i \in 1..Len(less) : less[i] = heard[i + 1] /\ i + 1 \in 1..Len(heard)
  BY DEF IsTail
<1>2. ASSUME NEW i \in 1..Len(heard), heard[i].attr = a
      PROVE  \E k \in 1..Len(less) : i = k + 1 /\ less[k] = heard[i]
  <2>1. i # 1
    BY <1>2
  <2>2. i - 1 \in 1..Len(less) /\ i = (i - 1) + 1
    BY <1>1, <2>1
  <2> QED
    BY <1>1, <2>2
<1>3. CASE marked
  <2>1. OwnOnce(u, heard, a) /\ (NothingOf(u, heard, a) => v = w)
    BY <1>3 DEF InTouch
  <2>2. OwnOnce(u, less, a)
    <3>1. ASSUME NEW i \in 1..Len(less), NEW j \in 1..Len(less), less[i].attr = a, less[j].attr = a
          PROVE  i = j
      <4>1. i + 1 = j + 1
        BY <1>1, <2>1, <3>1 DEF OwnOnce
      <4> QED
        BY <4>1
    <3>2. \A i \in 1..Len(less), j \in 1..Len(u) : ~(less[i].attr = a /\ Sets(u[j], a))
      BY <1>1, <2>1 DEF OwnOnce
    <3> QED
      BY <2>1, <3>1, <3>2 DEF OwnOnce
  <2>3. NothingOf(u, less, a) => NothingOf(u, heard, a)
    BY <1>2 DEF NothingOf
  <2> QED
    BY <1>3, <2>1, <2>2, <2>3 DEF InTouch
<1>4. CASE ~marked
  BY <1>4 DEF InTouch
<1> QED
  BY <1>3, <1>4

LEMMA TailNotes ==
  ASSUME notes \in Seq(Notes), notes # <<>>, notes' = Tail(notes)
  PROVE  /\ notes' \in Seq(Notes) /\ IsTail(notes', notes) /\ Head(notes) = notes[1]
         /\ notes[1] \in Notes /\ Len(notes) > 0
         /\ \A a : RemoteNoted(a)' => RemoteNoted(a)
         /\ \A a : RemoteNoted(a) => RemoteNoted(a)' \/ (notes[1].attr = a /\ notes[1].remote)
<1>1. /\ notes' \in Seq(Notes) /\ IsTail(notes', notes) /\ Head(notes) = notes[1]
      /\ notes[1] \in Notes /\ Len(notes) > 0
  BY TailIs
<1>2. /\ Len(notes) = Len(notes') + 1 /\ Len(notes') \in Nat
      /\ \A i \in 1..Len(notes') : notes'[i] = notes[i + 1] /\ i + 1 \in 1..Len(notes)
  BY <1>1 DEF IsTail
<1>3. ASSUME NEW a, RemoteNoted(a)' PROVE RemoteNoted(a)
  BY <1>2, <1>3 DEF RemoteNoted
<1>4. ASSUME NEW a, RemoteNoted(a), ~(notes[1].attr = a /\ notes[1].remote) PROVE RemoteNoted(a)'
  <2>1. PICK i \in 1..Len(notes) : notes[i].attr = a /\ notes[i].remote
    BY <1>4 DEF RemoteNoted
  <2>2. i - 1 \in 1..Len(notes') /\ i = (i - 1) + 1
    BY <1>2, <1>4, <2>1
  <2>3. notes'[i - 1].attr = a /\ notes'[i - 1].remote
    BY <1>2, <2>1, <2>2
  <2> QED
    BY <2>2, <2>3 DEF RemoteNoted
<1> QED
  BY <1>1, <1>3, <1>4

LEMMA TailLast ==
  ASSUME LastNoteInv, notes \in Seq(Notes), notes' \in Seq(Notes), IsTail(notes', notes), server' = server
  PROVE  LastNoteInv'
<1>2. /\ Len(notes) = Len(notes') + 1 /\ Len(notes') \in Nat
      /\ \A i \in 1..Len(notes') : notes'[i] = notes[i + 1] /\ i + 1 \in 1..Len(notes)
  BY DEF IsTail
<1>3. ASSUME NEW i \in 1..Len(notes'), \A j \in 1..Len(notes') : j > i => notes'[j].attr # notes'[i].attr
      PROVE  notes'[i].value = server'[notes'[i].attr]
  <2>1. ASSUME NEW j \in 1..Len(notes), j > i + 1 PROVE notes[j].attr # notes[i + 1].attr
    <3>1. j - 1 \in 1..Len(notes') /\ j - 1 > i /\ j = (j - 1) + 1
      BY <1>2, <2>1
    <3>2. notes'[j - 1] = notes[j] /\ notes'[i] = notes[i + 1]
      BY <1>2, <3>1
    <3> QED
      BY <1>3, <3>1, <3>2
  <2>2. i + 1 \in 1..Len(notes) /\ notes'[i] = notes[i + 1]
    BY <1>2
  <2>3. notes[i + 1].value = server[notes[i + 1].attr]
    BY <2>1, <2>2 DEF LastNoteInv
  <2> QED
    BY <2>2, <2>3
<1> QED
  BY <1>3 DEF LastNoteInv

(* A datagram about a and what it tells: nothing about a comes after it.   *)
LEMMA FirstIsLast ==
  ASSUME LastNoteInv, notes \in Seq(Notes), Len(notes) > 0,
         \A i \in 2..Len(notes) : notes[i].attr # notes[1].attr
  PROVE  notes[1].value = server[notes[1].attr]
<1>1. 1 \in 1..Len(notes) /\ \A j \in 1..Len(notes) : j > 1 => j \in 2..Len(notes)
  OBVIOUS
<1> QED
  BY <1>1 DEF LastNoteInv

LEMMA NotesSame ==
  ASSUME GuiType(Now), UNCHANGED <<shown, previous, queue, sending, arriving>>, touched' \in SUBSET Attrs,
         QueueOK(Now)
  PROVE  GuiType(Now') /\ QueueOK(Now') /\ UnderWay(Now)' = UnderWay(Now)
<1>1. PICK g, h : g = Now /\ h = Now'
  OBVIOUS
<1>2. /\ h.queue = g.queue /\ h.sending = g.sending /\ h.previous = g.previous
      /\ h.arriving = g.arriving
  BY <1>1 DEF Now
<1>3. GuiType(h)
  <2>1. h = [shown |-> shown', touched |-> touched', previous |-> previous', queue |-> queue',
               sending |-> sending', arriving |-> arriving']
    BY <1>1 DEF Now
  <2> QED
    BY <2>1, NowType DEF GuiType
<1>4. QueueOK(h)
  BY <1>1, <1>2 DEF QueueOK, SendsOn, Remembers
<1> QED
  BY <1>1, <1>3, <1>4 DEF UnderWay, Now

LEMMA LoseKeeps == ASSUME Inv, Lose PROVE Inv'
<1>1. /\ notes # <<>> /\ notes' = Tail(notes) /\ unsure' = unsure \cup {Head(notes).attr}
      /\ UNCHANGED <<shown, touched, pending, previous, queue, sending, arriving, undo, redo,
                     server, file, meant, foreign>>
  BY DEF Lose, guiVars
<1>2. notes \in Seq(Notes) /\ GuiType(Now) /\ QueueOK(Now) /\ touched' \in SUBSET Attrs
  BY <1>1, NowType DEF Inv, BaseInv, TypeInv
<1>3. /\ notes' \in Seq(Notes) /\ IsTail(notes', notes) /\ Head(notes) = notes[1]
      /\ \A a : RemoteNoted(a)' => RemoteNoted(a)
      /\ \A a : RemoteNoted(a) => RemoteNoted(a)' \/ (notes[1].attr = a /\ notes[1].remote)
  BY <1>1, <1>2, TailNotes
<1>4. GuiType(Now') /\ QueueOK(Now') /\ UnderWay(Now)' = UnderWay(Now)
  BY <1>1, <1>2, NotesSame
<1>5. BaseInv'
  BY <1>1, <1>3, <1>4 DEF Inv, BaseInv, TypeInv
<1>6. LastNoteInv'
  BY <1>1, <1>2, <1>3, TailLast DEF Inv
<1>7. SaveInv'
  BY <1>1, <1>3, <1>4 DEF Inv, SaveInv
<1>8. MirrorInv'
  <2>1. ASSUME NEW a \in Attrs \ unsure', ~RemoteNoted(a)'
        PROVE  InTouch(UnderWay(Now), notes', a \in touched, a, Seen(a), server[a])
    <3>1. notes[1].attr # a /\ a \in Attrs \ unsure
      BY <1>1, <1>3
    <3>2. InTouch(UnderWay(Now), notes, a \in touched, a, Seen(a), server[a])
      BY <1>3, <2>1, <3>1 DEF Inv, MirrorInv
    <3>3. PICK u, m, v, w : u = UnderWay(Now) /\ m = (a \in touched) /\ v = Seen(a) /\ w = server[a]
      OBVIOUS
    <3>4. InTouch(u, notes, m, a, v, w)
      BY <3>2, <3>3
    <3>5. InTouch(u, notes', m, a, v, w)
      BY <1>2, <1>3, <3>1, <3>4, HeardLess
    <3> QED
      BY <3>3, <3>5
  <2>2. \A a : Seen(a)' = Seen(a)
    BY <1>1 DEF Seen
  <2> QED
    BY <1>1, <1>4, <2>1, <2>2 DEF MirrorInv
<1> QED
  BY <1>5, <1>6, <1>7, <1>8 DEF Inv

(* A change by somebody else, or what the server tells of the gui's own.   *)
LEMMA AppendNotes ==
  ASSUME notes \in Seq(Notes), NEW note \in Notes, notes' = Append(notes, note)
  PROVE  /\ notes' \in Seq(Notes) /\ IsAppended(notes', notes, note)
         /\ \A a : RemoteNoted(a)' <=> RemoteNoted(a) \/ (note.attr = a /\ note.remote)
<1>1. notes' \in Seq(Notes) /\ IsAppended(notes', notes, note)
  BY AppendIs
<1>2. /\ Len(notes') = Len(notes) + 1 /\ notes'[Len(notes')] = note /\ Len(notes) \in Nat
      /\ \A i \in 1..Len(notes) : notes'[i] = notes[i] /\ i \in 1..Len(notes')
  BY <1>1 DEF IsAppended
<1>3. Len(notes') \in 1..Len(notes') /\ \A i \in 1..Len(notes') : i \in 1..Len(notes) \/ i = Len(notes')
  BY <1>2
<1> QED
  BY <1>1, <1>2, <1>3 DEF RemoteNoted

LEMMA AppendLast ==
  ASSUME LastNoteInv, notes \in Seq(Notes), notes' \in Seq(Notes), NEW note \in Notes,
         IsAppended(notes', notes, note), server \in [Attrs -> Values],
         server' = [server EXCEPT ![note.attr] = note.value]
  PROVE  LastNoteInv'
<1>1. /\ Len(notes') = Len(notes) + 1 /\ notes'[Len(notes')] = note /\ Len(notes) \in Nat
      /\ \A i \in 1..Len(notes) : notes'[i] = notes[i] /\ i \in 1..Len(notes')
  BY DEF IsAppended
<1>2. note.attr \in Attrs
  BY DEF Notes
<1>3. ASSUME NEW i \in 1..Len(notes'), \A j \in 1..Len(notes') : j > i => notes'[j].attr # notes'[i].attr
      PROVE  notes'[i].value = server'[notes'[i].attr]
  <2>1. CASE i = Len(notes')
    BY <1>1, <1>2, <2>1
  <2>2. CASE i # Len(notes')
    <3>1. i \in 1..Len(notes) /\ Len(notes') \in 1..Len(notes') /\ Len(notes') > i
      BY <1>1, <2>2
    <3>2. notes'[i] = notes[i] /\ notes[i].attr # note.attr /\ notes[i] \in Notes
      BY <1>1, <1>3, <3>1
    <3>3. server'[notes[i].attr] = server[notes[i].attr]
      BY <1>2, <3>2 DEF Notes
    <3>4. \A j \in 1..Len(notes) : j > i => notes[j].attr # notes[i].attr
      BY <1>1, <1>3, <3>2
    <3>5. notes[i].value = server[notes[i].attr]
      BY <3>1, <3>4 DEF LastNoteInv
    <3> QED
      BY <3>2, <3>3, <3>5
  <2> QED
    BY <2>1, <2>2
<1> QED
  BY <1>3 DEF LastNoteInv

LEMMA RemoteKeeps == ASSUME Inv, NEW b \in Attrs, NEW x \in Values, RemoteSet(b, x) PROVE Inv'
<1>0. PICK note : note = Note(b, x, TRUE)
  OBVIOUS
<1>1. /\ notes' = Append(notes, note) /\ server' = [server EXCEPT ![b] = x]
      /\ foreign' = foreign \cup {b}
      /\ UNCHANGED <<shown, touched, pending, previous, queue, sending, arriving, undo, redo,
                     unsure, file, meant>>
  BY <1>0 DEF RemoteSet, guiVars
<1>2. /\ notes \in Seq(Notes) /\ GuiType(Now) /\ QueueOK(Now) /\ touched' \in SUBSET Attrs
      /\ server \in [Attrs -> Values]
  BY <1>1, NowType DEF Inv, BaseInv, TypeInv
<1>3. note \in Notes /\ note.attr = b /\ note.value = x /\ note.remote
  BY <1>0 DEF Note, Notes
<1>4. /\ notes' \in Seq(Notes) /\ IsAppended(notes', notes, note)
      /\ \A a : RemoteNoted(a)' <=> RemoteNoted(a) \/ (note.attr = a /\ note.remote)
  BY <1>1, <1>2, <1>3, AppendNotes
<1>5. GuiType(Now') /\ QueueOK(Now') /\ UnderWay(Now)' = UnderWay(Now)
  BY <1>1, <1>2, NotesSame
<1>6. BaseInv'
  <2>1. server' \in [Attrs -> Values]
    BY <1>1, <1>2
  <2> QED
    BY <1>1, <1>4, <1>5, <2>1 DEF Inv, BaseInv, TypeInv
<1>7. LastNoteInv'
  BY <1>1, <1>2, <1>3, <1>4, AppendLast DEF Inv
<1>8. \A a \in Attrs : a # b => server'[a] = server[a] /\ (RemoteNoted(a)' <=> RemoteNoted(a))
  BY <1>1, <1>2, <1>3, <1>4
<1>9. SaveInv'
  BY <1>1, <1>5, <1>8 DEF Inv, SaveInv
<1>10. MirrorInv'
  <2>1. ASSUME NEW a \in Attrs \ unsure, ~RemoteNoted(a)'
        PROVE  InTouch(UnderWay(Now), notes', a \in touched, a, Seen(a), server'[a])
    <3>1. note.attr # a /\ ~RemoteNoted(a) /\ server'[a] = server[a]
      BY <1>3, <1>4, <1>8, <2>1
    <3>2. InTouch(UnderWay(Now), notes, a \in touched, a, Seen(a), server[a])
      BY <2>1, <3>1 DEF Inv, MirrorInv
    <3>3. PICK u, m, v, w : u = UnderWay(Now) /\ m = (a \in touched) /\ v = Seen(a) /\ w = server[a]
      OBVIOUS
    <3>4. InTouch(u, notes, m, a, v, w)
      BY <3>2, <3>3
    <3>5. InTouch(u, notes', m, a, v, w)
      BY <1>2, <1>4, <3>1, <3>4, HeardMore
    <3> QED
      BY <3>1, <3>3, <3>5
  <2>2. \A a : Seen(a)' = Seen(a)
    BY <1>1 DEF Seen
  <2> QED
    BY <1>1, <1>5, <2>1, <2>2 DEF MirrorInv
<1> QED
  BY <1>6, <1>7, <1>9, <1>10 DEF Inv

-----------------------------------------------------------------------------
(* The server executes a call *)

LEMMA ServedInTouch ==
  ASSUME NEW u \in Seq(Calls), NEW u2 \in Seq(Calls), IsTail(u2, u), Sets(u[1], u[1].attr),
         NEW heard \in Seq(Notes), NEW more \in Seq(Notes), NEW note, IsAppended(more, heard, note),
         note.attr = u[1].attr,
         NEW marked, NEW a, NEW v, NEW w, InTouch(u, heard, marked, a, v, w),
         NEW x, x = IF a = u[1].attr THEN u[1].value ELSE w
  PROVE  InTouch(u2, more, marked, a, v, x)
<1>1. Len(more) = Len(heard) + 1 /\ more[Len(more)] = note /\ \A i \in 1..Len(heard) : more[i] = heard[i]
  BY DEF IsAppended
<1>2. \A i \in 1..Len(more) : i \in 1..Len(heard) \/ i = Len(more)
  BY <1>1
<1>3. /\ Len(u) = Len(u2) + 1 /\ 1 \in 1..Len(u) /\ Len(u2) \in Nat
      /\ \A i \in 1..Len(u2) : u2[i] = u[i + 1] /\ i + 1 \in 1..Len(u) /\ i + 1 # 1
  BY DEF IsTail
<1>4. Sets(u[1], a) <=> a = u[1].attr
  BY DEF Sets
<1>5. CASE marked /\ a = u[1].attr
  <2>1. OwnOnce(u, heard, a)
    BY <1>5 DEF InTouch
  <2>2. \A i \in 1..Len(u2) : ~Sets(u2[i], a)
    BY <1>3, <1>4, <1>5, <2>1 DEF OwnOnce
  <2>3. \A i \in 1..Len(heard) : heard[i].attr # a
    BY <1>3, <1>4, <1>5, <2>1 DEF OwnOnce
  <2>4. \A i \in 1..Len(more) : more[i].attr = a => i = Len(more)
    BY <1>1, <1>2, <2>3
  <2>5. OwnOnce(u2, more, a)
    BY <2>2, <2>4 DEF OwnOnce
  <2>6. ~NothingOf(u2, more, a)
    <3>1. Len(more) \in 1..Len(more) /\ more[Len(more)].attr = a
      BY <1>1, <1>5
    <3> QED
      BY <3>1 DEF NothingOf
  <2> QED
    BY <1>5, <2>5, <2>6 DEF InTouch
<1>6. CASE marked /\ a # u[1].attr
  <2>1. OwnOnce(u, heard, a) /\ (NothingOf(u, heard, a) => v = w)
    BY <1>6 DEF InTouch
  <2>2. \A i \in 1..Len(more) : more[i].attr = a => i \in 1..Len(heard) /\ heard[i].attr = a
    BY <1>1, <1>2, <1>6
  <2>3. ASSUME NEW i \in 1..Len(u2), NEW j \in 1..Len(u2), Sets(u2[i], a), Sets(u2[j], a) PROVE i = j
    <3>1. i + 1 = j + 1
      BY <1>3, <2>1, <2>3 DEF OwnOnce
    <3> QED
      BY <3>1
  <2>4. \A i \in 1..Len(heard), j \in 1..Len(u2) : ~(heard[i].attr = a /\ Sets(u2[j], a))
    BY <1>3, <2>1 DEF OwnOnce
  <2>5. OwnOnce(u2, more, a)
    BY <2>1, <2>2, <2>3, <2>4 DEF OwnOnce
  <2>6. ASSUME NothingOf(u2, more, a) PROVE NothingOf(u, heard, a)
    <3>1. ASSUME NEW i \in 1..Len(u) PROVE ~Sets(u[i], a)
      <4>1. CASE i = 1
        BY <1>4, <1>6, <4>1
      <4>2. CASE i # 1
        <5>1. i - 1 \in 1..Len(u2) /\ i = (i - 1) + 1
          BY <1>3, <4>2
        <5> QED
          BY <1>3, <2>6, <5>1 DEF NothingOf
      <4> QED
        BY <4>1, <4>2
    <3>2. \A i \in 1..Len(heard) : heard[i].attr # a
      BY <1>1, <2>6 DEF NothingOf
    <3> QED
      BY <3>1, <3>2 DEF NothingOf
  <2> QED
    BY <1>6, <2>1, <2>5, <2>6 DEF InTouch
<1>7. CASE ~marked
  <2>1. Tells(u, Len(u2) + 1, a, v, w)
    BY <1>3, <1>7 DEF InTouch
  <2>2. x = IF Sets(u[1], a) THEN u[1].value ELSE w
    BY <1>4
  <2>3. Tells(u2, Len(u2), a, v, x)
    BY <1>3, <2>1, <2>2, TellsRest
  <2> QED
    BY <1>7, <2>3 DEF InTouch
<1> QED
  BY <1>5, <1>6, <1>7

LEMMA ServedTold ==
  ASSUME NEW u \in Seq(Calls), NEW u2 \in Seq(Calls), IsTail(u2, u),
         NEW a, NEW v, NEW w, Told(u, a, v, w),
         NEW x, x = IF Sets(u[1], a) THEN u[1].value ELSE w
  PROVE  Told(u2, a, v, x)
<1>3. /\ Len(u) = Len(u2) + 1 /\ Len(u2) \in Nat
      /\ \A i \in 1..Len(u2) : u2[i] = u[i + 1] /\ i + 1 \in 1..Len(u)
  BY DEF IsTail
<1>1. Tells(u2, Len(u2), a, v, x)
  <2>1. Tells(u, Len(u2) + 1, a, v, w)
    BY <1>3 DEF Told
  <2> QED
    BY <1>3, <2>1, TellsRest
<1>2. ASSUME NEW i \in 1..Len(u2), u2[i].method = "save" PROVE Tells(u2, i - 1, a, u2[i].shown[a], x)
  <2>1. Tells(u, (i + 1) - 1, a, u2[i].shown[a], w)
    BY <1>2, <1>3 DEF Told
  <2>2. (i + 1) - 1 = (i - 1) + 1 /\ i - 1 \in Nat /\ \A j \in 1..(i - 1) : j \in 1..Len(u2)
    BY <1>3
  <2>3. \A j \in 1..(i - 1) : u2[j] = u[j + 1]
    BY <1>3, <2>2
  <2>4. Tells(u, (i - 1) + 1, a, u2[i].shown[a], w)
    BY <2>1, <2>2
  <2>5. PICK k, y : k \in Nat /\ k = i - 1 /\ y = u2[i].shown[a]
    BY <2>2
  <2>6. Tells(u, k + 1, a, y, w) /\ \A j \in 1..k : u2[j] = u[j + 1]
    BY <2>3, <2>4, <2>5
  <2>7. Tells(u2, k, a, y, x)
    <3>1. k \in Nat /\ x = IF Sets(u[1], a) THEN u[1].value ELSE w
      BY <2>5
    <3>2. \A j \in 1..k : u2[j] = u[j + 1]
      BY <2>6
    <3>3. Tells(u, k + 1, a, y, w)
      BY <2>6
    <3> HIDE <1>3
    <3> QED
      BY <3>1, <3>2, <3>3, TellsRest
  <2> QED
    BY <2>5, <2>7
<1> QED
  BY <1>1, <1>2 DEF Told

LEMMA ServeKeeps == ASSUME Inv, Serve PROVE Inv'
<1>1. /\ arriving # <<>> /\ arriving' = Tail(arriving)
      /\ UNCHANGED <<shown, touched, pending, previous, queue, sending, undo, redo, unsure, foreign>>
  BY DEF Serve, guiVars
<1>2. /\ notes \in Seq(Notes) /\ GuiType(Now) /\ QueueOK(Now) /\ server \in [Attrs -> Values]
      /\ arriving \in Seq(Calls) /\ queue \in Seq(Calls)
  BY NowType DEF Inv, BaseInv, TypeInv
<1>3. PICK call : call = Head(arriving)
  OBVIOUS
<1>4. arriving' \in Seq(Calls) /\ call = arriving[1] /\ call \in Calls
  BY <1>1, <1>2, <1>3, TailIs
<1>5. PICK u, u2 : u = UnderWay(Now) /\ u2 = UnderWay(Now)'
  OBVIOUS
<1>6. /\ u \in Seq(Calls) /\ u2 \in Seq(Calls) /\ IsTail(u2, u) /\ u[1] = call
  <2>1. u = arriving \o queue /\ u2 = arriving' \o queue'
    BY <1>5 DEF UnderWay, Now
  <2>2. u2 = Tail(arriving) \o queue
    BY <1>1, <2>1
  <2>3. u \in Seq(Calls) /\ u2 \in Seq(Calls)
    BY <1>1, <1>2, <1>4, <2>1
  <2> QED
    BY <1>1, <1>2, <1>4, <2>1, <2>2, <2>3, JoinTail
<1>7. GuiType(Now') /\ QueueOK(Now')
  <2>1. PICK g, h : g = Now /\ h = Now'
    OBVIOUS
  <2>2. /\ h.queue = g.queue /\ h.sending = g.sending /\ h.previous = g.previous
    BY <1>1, <2>1 DEF Now
  <2>3. GuiType(h)
    <3>1. h = [shown |-> shown', touched |-> touched', previous |-> previous', queue |-> queue',
                 sending |-> sending', arriving |-> arriving']
      BY <2>1 DEF Now
    <3> QED
      BY <1>1, <1>2, <1>4, <3>1, NowType DEF GuiType
  <2>4. QueueOK(h)
    <3>1. QueueOK(g)
      BY <1>2, <2>1
    <3> QED
      BY <2>2, <3>1 DEF QueueOK, SendsOn, Remembers
  <2> QED
    BY <2>1, <2>3, <2>4
<1>8. \A a : Seen(a)' = Seen(a)
  BY <1>1 DEF Seen
<1>9. CASE call.method = "set"
  <2>0. PICK note : note = Note(call.attr, call.value, FALSE)
    OBVIOUS
  <2>1. /\ server' = [server EXCEPT ![call.attr] = call.value]
        /\ notes' = Append(notes, note) /\ UNCHANGED <<file, meant>>
    BY <1>3, <1>9, <2>0 DEF Serve
  <2>2. call.attr \in Attrs /\ call.value \in Values /\ \A a : Sets(call, a) <=> a = call.attr
    BY <1>4, <1>9 DEF Calls, Sets
  <2>3. /\ note \in Notes /\ note.attr = call.attr /\ note.value = call.value /\ ~note.remote
    BY <2>0, <2>2 DEF Note, Notes
  <2>4. /\ notes' \in Seq(Notes) /\ IsAppended(notes', notes, note)
        /\ \A a : RemoteNoted(a)' <=> RemoteNoted(a) \/ (note.attr = a /\ note.remote)
    BY <1>2, <2>1, <2>3, AppendNotes
  <2>5. \A a : RemoteNoted(a)' <=> RemoteNoted(a)
    BY <2>3, <2>4
  <2>6. server' \in [Attrs -> Values] /\ \A a \in Attrs : server'[a] = IF a = call.attr THEN call.value ELSE server[a]
    BY <1>2, <2>1, <2>2
  <2>7. BaseInv'
    BY <1>1, <1>7, <2>4, <2>6 DEF Inv, BaseInv, TypeInv
  <2>8. LastNoteInv'
    BY <1>2, <2>1, <2>3, <2>4, AppendLast DEF Inv
  <2>9. SaveInv'
    <3>1. ASSUME NEW a \in Attrs \ foreign PROVE Told(u2, a, shown[a], server'[a])
      <4>1. Told(u, a, shown[a], server[a])
        BY <1>5 DEF Inv, SaveInv
      <4>2. server'[a] = IF Sets(u[1], a) THEN u[1].value ELSE server[a]
        BY <1>6, <2>2, <2>6
      <4> QED
        BY <1>6, <4>1, <4>2, ServedTold
    <3> QED
      BY <1>1, <1>5, <2>1, <2>5, <3>1 DEF Inv, SaveInv
  <2>10. MirrorInv'
    <3>1. ASSUME NEW a \in Attrs \ unsure, ~RemoteNoted(a)
          PROVE  InTouch(u2, notes', a \in touched, a, Seen(a), server'[a])
      <4>1. InTouch(u, notes, a \in touched, a, Seen(a), server[a])
        BY <1>5, <3>1 DEF Inv, MirrorInv
      <4>2. PICK m, v, w, x : m = (a \in touched) /\ v = Seen(a) /\ w = server[a] /\ x = server'[a]
        OBVIOUS
      <4>3. InTouch(u, notes, m, a, v, w)
        BY <4>1, <4>2
      <4>4. x = IF a = u[1].attr THEN u[1].value ELSE w
        BY <1>6, <2>6, <4>2
      <4>5. Sets(u[1], u[1].attr) /\ note.attr = u[1].attr
        BY <1>6, <2>2, <2>3
      <4>6. PICK more : more = notes'
        OBVIOUS
      <4>7. more \in Seq(Notes) /\ IsAppended(more, notes, note)
        BY <2>4, <4>6
      <4>8. u \in Seq(Calls) /\ u2 \in Seq(Calls) /\ IsTail(u2, u) /\ notes \in Seq(Notes)
        BY <1>2, <1>6
      <4>9. InTouch(u2, more, m, a, v, x)
        BY <4>3, <4>4, <4>5, <4>7, <4>8, ServedInTouch
      <4> QED
        BY <4>2, <4>6, <4>9
    <3> QED
      BY <1>1, <1>5, <1>8, <2>5, <3>1 DEF MirrorInv
  <2> QED
    BY <2>7, <2>8, <2>9, <2>10 DEF Inv
<1>10. CASE call.method # "set"
  <2>1. /\ file' = server /\ meant' = call.shown /\ UNCHANGED <<server, notes>>
    BY <1>3, <1>10 DEF Serve
  <2>2. call.method = "save" /\ \A a : ~Sets(call, a)
    BY <1>4, <1>10 DEF Calls, Sets
  <2>3. BaseInv'
    BY <1>1, <1>7, <2>1 DEF Inv, BaseInv, TypeInv
  <2>4. LastNoteInv'
    BY <2>1 DEF Inv, LastNoteInv
  <2>5. \A a : RemoteNoted(a)' <=> RemoteNoted(a)
    BY <2>1 DEF RemoteNoted
  <2>6. SaveInv'
    <3>1. ASSUME NEW a \in Attrs \ foreign PROVE Told(u2, a, shown[a], server[a]) /\ server[a] = call.shown[a]
      <4>1. Told(u, a, shown[a], server[a])
        BY <1>5 DEF Inv, SaveInv
      <4>2. server[a] = IF Sets(u[1], a) THEN u[1].value ELSE server[a]
        BY <1>6, <2>2
      <4>3. Told(u2, a, shown[a], server[a])
        BY <1>6, <4>1, <4>2, ServedTold
      <4>4. Tells(u, 1 - 1, a, u[1].shown[a], server[a])
        <5>1. 1 \in 1..Len(u)
          BY <1>6 DEF IsTail
        <5> QED
          BY <1>6, <2>2, <4>1, <5>1 DEF Told
      <4>5. \A i \in 1..(1 - 1) : FALSE
        OBVIOUS
      <4>6. u[1].shown[a] = server[a]
        BY <4>4, <4>5 DEF Tells
      <4> QED
        BY <1>6, <4>3, <4>6
    <3> QED
      BY <1>1, <1>5, <2>1, <2>5, <3>1 DEF Inv, SaveInv
  <2>7. MirrorInv'
    <3>1. ASSUME NEW a \in Attrs \ unsure, ~RemoteNoted(a)
          PROVE  InTouch(u2, notes, a \in touched, a, Seen(a), server[a])
      <4>1. InTouch(u, notes, a \in touched, a, Seen(a), server[a])
        BY <1>5, <3>1 DEF Inv, MirrorInv
      <4>2. PICK m, v, w : m = (a \in touched) /\ v = Seen(a) /\ w = server[a]
        OBVIOUS
      <4>3. InTouch(u, notes, m, a, v, w)
        BY <4>1, <4>2
      <4>4. InTouch(u2, notes, m, a, v, w)
        <5>1. /\ Len(u) = Len(u2) + 1 /\ 1 \in 1..Len(u) /\ Len(u2) \in Nat
              /\ \A i \in 1..Len(u2) : u2[i] = u[i + 1] /\ i + 1 \in 1..Len(u)
          BY <1>6 DEF IsTail
        <5>2. CASE m
          <6>1. OwnOnce(u, notes, a) /\ (NothingOf(u, notes, a) => v = w)
            BY <4>3, <5>2 DEF InTouch
          <6>2. ASSUME NEW i \in 1..Len(u2), NEW j \in 1..Len(u2), Sets(u2[i], a), Sets(u2[j], a) PROVE i = j
            <7>1. i + 1 = j + 1
              BY <5>1, <6>1, <6>2 DEF OwnOnce
            <7> QED
              BY <7>1
          <6>3. \A i \in 1..Len(notes), j \in 1..Len(u2) : ~(notes[i].attr = a /\ Sets(u2[j], a))
            BY <5>1, <6>1 DEF OwnOnce
          <6>4. OwnOnce(u2, notes, a)
            BY <6>1, <6>2, <6>3 DEF OwnOnce
          <6>5. ASSUME NothingOf(u2, notes, a) PROVE NothingOf(u, notes, a)
            <7>1. ASSUME NEW i \in 1..Len(u) PROVE ~Sets(u[i], a)
              <8>1. CASE i = 1
                BY <1>6, <2>2, <8>1
              <8>2. CASE i # 1
                <9>1. i - 1 \in 1..Len(u2) /\ i = (i - 1) + 1
                  BY <5>1, <8>2
                <9> QED
                  BY <5>1, <6>5, <9>1 DEF NothingOf
              <8> QED
                BY <8>1, <8>2
            <7> QED
              BY <6>5, <7>1 DEF NothingOf
          <6> QED
            BY <5>2, <6>1, <6>4, <6>5 DEF InTouch
        <5>3. CASE ~m
          <6>1. Tells(u, Len(u2) + 1, a, v, w)
            BY <4>3, <5>1, <5>3 DEF InTouch
          <6>2. w = IF Sets(u[1], a) THEN u[1].value ELSE w
            BY <1>6, <2>2
          <6>3. Tells(u2, Len(u2), a, v, w)
            BY <5>1, <6>1, <6>2, TellsRest
          <6> QED
            BY <5>3, <6>3 DEF InTouch
        <5> QED
          BY <5>2, <5>3
      <4> QED
        BY <4>2, <4>4
    <3> QED
      BY <1>1, <1>5, <1>8, <2>1, <2>5, <3>1 DEF MirrorInv
  <2> QED
    BY <2>3, <2>4, <2>6, <2>7 DEF Inv
<1> QED
  BY <1>9, <1>10

-----------------------------------------------------------------------------
(* The gui hears of a set command *)

LEMMA AtMostOne ==
  ASSUME NEW S, IsFiniteSet(S), Cardinality(S) <= 1, NEW x \in S, NEW y \in S
  PROVE  x = y
<1>1. CASE Cardinality(S) = 0
  BY <1>1, FS_EmptySet
<1>2. CASE Cardinality(S) = 1
  <2>1. PICK z : S = {z}
    BY <1>2, FS_Singleton
  <2> QED
    BY <2>1
<1>3. Cardinality(S) \in Nat
  BY FS_CardinalityType
<1> QED
  BY <1>1, <1>2, <1>3

LEMMA SomeOf == ASSUME NEW S, IsFiniteSet(S), NEW x \in S PROVE Cardinality(S) >= 1
<1>1. Cardinality(S) # 0
  BY FS_EmptySet
<1>2. Cardinality(S) \in Nat
  BY FS_CardinalityType
<1> QED
  BY <1>1, <1>2

LEMMA PartFinite ==
  ASSUME NEW n \in Nat, NEW m \in Nat, NEW S, S \subseteq m..n
  PROVE  IsFiniteSet(S) /\ Cardinality(S) \in Nat
<1>1. IsFiniteSet(m..n)
  BY FS_Interval
<1> QED
  BY <1>1, FS_Subset, FS_CardinalityType

(* At most one of the gui's own is on its way behind the first datagram.   *)
LEMMA OnTheWay ==
  ASSUME Inv, notes # <<>>, notes' = Tail(notes), NEW a, OwnOnTheWay(a) <= 1, ~RemoteNoted(a)'
  PROVE  OwnOnce(UnderWay(Now), notes', a)
<1>1. notes \in Seq(Notes) /\ queue \in Seq(Calls) /\ arriving \in Seq(Calls)
  BY NowType DEF Inv, BaseInv, TypeInv
<1>2. PICK X, Y, Z : /\ X = {i \in DOMAIN queue : queue[i].method = "set" /\ queue[i].attr = a}
                     /\ Y = {i \in DOMAIN arriving : arriving[i].method = "set" /\ arriving[i].attr = a}
                     /\ Z = {i \in 2..Len(notes) : notes[i].attr = a /\ ~notes[i].remote}
  OBVIOUS
<1>3. Cardinality(X) + Cardinality(Y) + Cardinality(Z) <= 1
  BY <1>2 DEF OwnOnTheWay, SetsOf
<1>4. /\ IsFiniteSet(X) /\ IsFiniteSet(Y) /\ IsFiniteSet(Z)
      /\ Cardinality(X) \in Nat /\ Cardinality(Y) \in Nat /\ Cardinality(Z) \in Nat
  <2>1. Len(queue) \in Nat /\ Len(arriving) \in Nat /\ Len(notes) \in Nat
    BY <1>1
  <2>2. X \subseteq 1..Len(queue) /\ Y \subseteq 1..Len(arriving) /\ Z \subseteq 2..Len(notes)
    BY <1>1, <1>2
  <2> QED
    BY <2>1, <2>2, PartFinite
<1>5. /\ \A x, y \in X : x = y
      /\ \A x, y \in Y : x = y
      /\ \A x, y \in Z : x = y
  <2>1. Cardinality(X) <= 1 /\ Cardinality(Y) <= 1 /\ Cardinality(Z) <= 1
    BY <1>3, <1>4
  <2> QED
    BY <1>4, <2>1, AtMostOne
<1>6. (X = {} \/ Y = {}) /\ (X = {} \/ Z = {}) /\ (Y = {} \/ Z = {})
  <2>1. X # {} => Cardinality(X) >= 1
    BY <1>4, SomeOf
  <2>2. Y # {} => Cardinality(Y) >= 1
    BY <1>4, SomeOf
  <2>3. Z # {} => Cardinality(Z) >= 1
    BY <1>4, SomeOf
  <2> QED
    BY <1>3, <1>4, <2>1, <2>2, <2>3
<1>7. PICK u, more : u = UnderWay(Now) /\ more = notes'
  OBVIOUS
<1>8. /\ Len(u) = Len(arriving) + Len(queue) /\ Len(arriving) \in Nat /\ Len(queue) \in Nat
      /\ \A i \in 1..Len(arriving) : u[i] = arriving[i]
      /\ \A i \in 1..Len(queue) : u[Len(arriving) + i] = queue[i]
  <2>1. u = arriving \o queue
    BY <1>7, NowIs DEF UnderWay
  <2> QED
    BY <1>1, <2>1, JoinIs
<1>9. ASSUME NEW i \in 1..Len(u), Sets(u[i], a)
      PROVE  i \in Y \/ (i - Len(arriving) \in X /\ i = Len(arriving) + (i - Len(arriving)))
  <2>1. CASE i <= Len(arriving)
    <3>1. i \in DOMAIN arriving /\ u[i] = arriving[i]
      BY <1>1, <1>8, <2>1
    <3> QED
      BY <1>2, <1>9, <3>1 DEF Sets
  <2>2. CASE i > Len(arriving)
    <3>1. i - Len(arriving) \in 1..Len(queue) /\ i = Len(arriving) + (i - Len(arriving))
      BY <1>8, <2>2
    <3>2. u[i] = queue[i - Len(arriving)]
      BY <1>8, <3>1
    <3>3. i - Len(arriving) \in DOMAIN queue
      BY <1>1, <3>1
    <3> QED
      BY <1>2, <1>9, <3>1, <3>2, <3>3 DEF Sets
  <2> QED
    BY <1>8, <2>1, <2>2
<1>10. ASSUME NEW i \in 1..Len(more), more[i].attr = a PROVE i + 1 \in Z
  <2>1. /\ Len(notes) = Len(more) + 1 /\ Len(more) \in Nat /\ more[i] = notes[i + 1]
    BY <1>1, <1>7, TailIs DEF IsTail
  <2>2. ~more[i].remote
    BY <1>7, <1>10 DEF RemoteNoted
  <2>3. i + 1 \in 2..Len(notes)
    BY <2>1
  <2> QED
    BY <1>2, <1>10, <2>1, <2>2, <2>3
<1>11. ASSUME NEW i \in 1..Len(more), NEW j \in 1..Len(more), more[i].attr = a, more[j].attr = a
       PROVE  i = j
  <2>1. i + 1 = j + 1
    BY <1>5, <1>10, <1>11
  <2>2. Len(more) \in Nat
    BY <1>1, <1>7, TailIs
  <2> QED
    BY <2>1, <2>2
<1>12. ASSUME NEW i \in 1..Len(u), NEW j \in 1..Len(u), Sets(u[i], a), Sets(u[j], a) PROVE i = j
  BY <1>5, <1>6, <1>9, <1>12
<1>13. ASSUME NEW i \in 1..Len(more), NEW j \in 1..Len(u), more[i].attr = a, Sets(u[j], a)
       PROVE  FALSE
  BY <1>6, <1>9, <1>10, <1>13
<1>14. OwnOnce(u, more, a)
  BY <1>11, <1>12, <1>13 DEF OwnOnce
<1> QED
  BY <1>7, <1>14

LEMMA CommandSetKeeps == ASSUME Inv, CommandSet PROVE Inv'
<1>0. PICK note, a, process : /\ note = Head(notes) /\ a = note.attr
                              /\ process = (note.remote \/ a \in touched)
  OBVIOUS
<1>1. /\ notes # <<>> /\ notes' = Tail(notes)
      /\ UNCHANGED <<shown, previous, queue, sending, undo, redo, arriving, server, file, meant, foreign>>
  BY DEF CommandSet
<1>2. /\ touched' = IF note.remote THEN touched \cup {a} ELSE touched \ {a}
      /\ pending' = IF process /\ ~modal
                      THEN [p \in DOMAIN pending \cup {a} |-> IF p = a THEN note.value ELSE pending[p]]
                      ELSE pending
      /\ unsure' = IF (process /\ modal) \/ (note.remote /\ OwnOnTheWay(a) > 1)
                     THEN unsure \cup {a}
                     ELSE IF note.remote THEN unsure \ {a} ELSE unsure
  BY <1>0 DEF CommandSet
<1>3. /\ notes \in Seq(Notes) /\ GuiType(Now) /\ QueueOK(Now) /\ touched \in SUBSET Attrs
      /\ server \in [Attrs -> Values]
      /\ DOMAIN pending \subseteq Attrs /\ \A x \in DOMAIN pending : pending[x] \in Values
  BY NowType DEF Inv, BaseInv, TypeInv
<1>4. /\ notes' \in Seq(Notes) /\ IsTail(notes', notes) /\ note = notes[1]
      /\ note \in Notes /\ Len(notes) > 0
      /\ \A x : RemoteNoted(x)' => RemoteNoted(x)
      /\ \A x : RemoteNoted(x) => RemoteNoted(x)' \/ (notes[1].attr = x /\ notes[1].remote)
  BY <1>0, <1>1, <1>3, TailNotes
<1>5. a \in Attrs /\ note.value \in Values /\ note.remote \in BOOLEAN /\ notes[1].attr = a
  BY <1>0, <1>4 DEF Notes
<1>6. touched' \in SUBSET Attrs
  BY <1>2, <1>3, <1>5
<1>7. GuiType(Now') /\ QueueOK(Now') /\ UnderWay(Now)' = UnderWay(Now)
  BY <1>1, <1>3, <1>6, NotesSame
<1>8. DOMAIN pending' \subseteq Attrs /\ \A x \in DOMAIN pending' : pending'[x] \in Values
  BY <1>2, <1>3, <1>5
<1>9. BaseInv'
  BY <1>1, <1>4, <1>7, <1>8 DEF Inv, BaseInv, TypeInv
<1>10. LastNoteInv'
  BY <1>1, <1>3, <1>4, TailLast DEF Inv
<1>11. \A x \in Attrs : x # a => /\ (x \in touched') = (x \in touched)
                                 /\ (x \in DOMAIN pending') = (x \in DOMAIN pending)
                                 /\ Seen(x)' = Seen(x)
                                 /\ (x \in unsure => x \in unsure')
  <2>1. \A x \in Attrs : x # a => (x \in touched') = (x \in touched)
    BY <1>2
  <2>2. \A x \in Attrs : x # a => /\ (x \in DOMAIN pending') = (x \in DOMAIN pending)
                                  /\ x \in DOMAIN pending => pending'[x] = pending[x]
    BY <1>2
  <2>3. \A x \in Attrs : x # a => Seen(x)' = Seen(x)
    BY <1>1, <2>2 DEF Seen
  <2>4. \A x \in Attrs : x # a => (x \in unsure => x \in unsure')
    BY <1>2
  <2> QED
    BY <2>1, <2>2, <2>3, <2>4
<1>12. SaveInv'
  <2>1. ASSUME NEW x \in Attrs \ foreign
        PROVE  x \notin touched' /\ x \notin DOMAIN pending' /\ ~RemoteNoted(x)'
    <3>1. x \notin touched /\ x \notin DOMAIN pending /\ ~RemoteNoted(x)
      BY DEF Inv, SaveInv
    <3>2. CASE x = a
      <4>1. ~note.remote
        <5>1. 1 \in 1..Len(notes)
          BY <1>3, <1>4
        <5> QED
          BY <1>0, <1>4, <3>1, <3>2, <5>1 DEF RemoteNoted
      <4>2. ~process
        BY <1>0, <3>1, <3>2, <4>1
      <4> QED
        BY <1>2, <1>4, <3>1, <3>2, <4>1, <4>2
    <3>3. CASE x # a
      BY <1>4, <1>11, <3>1, <3>3
    <3> QED
      BY <3>2, <3>3
  <2> QED
    BY <1>1, <1>7, <2>1 DEF Inv, SaveInv
<1>13. ASSUME NEW x \in Attrs \ unsure', ~RemoteNoted(x)', x # a
       PROVE  InTouch(UnderWay(Now), notes', x \in touched', x, Seen(x)', server[x])
  <2>1. x \in Attrs \ unsure /\ (x \in touched') = (x \in touched) /\ Seen(x)' = Seen(x)
        /\ notes[1].attr # x
    BY <1>5, <1>11, <1>13
  <2>2. InTouch(UnderWay(Now), notes, x \in touched, x, Seen(x), server[x])
    BY <1>4, <1>13, <2>1 DEF Inv, MirrorInv
  <2>3. PICK u, m, v, w, less : /\ u = UnderWay(Now) /\ m = (x \in touched) /\ v = Seen(x)
                                /\ w = server[x] /\ less = notes'
    OBVIOUS
  <2>4. InTouch(u, notes, m, x, v, w) /\ less \in Seq(Notes) /\ IsTail(less, notes)
    BY <1>4, <2>2, <2>3
  <2>5. InTouch(u, less, m, x, v, w)
    BY <1>3, <2>1, <2>4, HeardLess
  <2> QED
    BY <2>1, <2>3, <2>5
<1>14. ASSUME a \notin unsure', ~RemoteNoted(a)', note.remote
       PROVE  InTouch(UnderWay(Now), notes', a \in touched', a, Seen(a)', server[a])
  <2>0. process
    BY <1>0, <1>14
  <2>1. ~modal /\ ~(OwnOnTheWay(a) > 1) /\ process
    BY <1>2, <1>14, <2>0
  <2>2. OwnOnTheWay(a) <= 1
    <3>1. OwnOnTheWay(a) \in Nat
      <4>1. Len(queue) \in Nat /\ Len(arriving) \in Nat /\ Len(notes) \in Nat
            /\ DOMAIN queue = 1..Len(queue) /\ DOMAIN arriving = 1..Len(arriving)
        BY <1>3, NowType
      <4>2. SetsOf(a, queue) \in Nat /\ SetsOf(a, arriving) \in Nat
        BY <4>1, PartFinite DEF SetsOf
      <4>3. PICK Z : Z = {i \in 2..Len(notes) : notes[i].attr = a /\ ~notes[i].remote}
        OBVIOUS
      <4>4. Cardinality(Z) \in Nat
        BY <4>1, <4>3, PartFinite
      <4> QED
        BY <4>2, <4>3, <4>4 DEF OwnOnTheWay
    <3> QED
      BY <2>1, <3>1
  <2>3. OwnOnce(UnderWay(Now), notes', a)
    BY <1>1, <1>14, <2>2, OnTheWay
  <2>4. Seen(a)' = note.value /\ a \in touched'
    BY <1>2, <1>14, <2>1 DEF Seen
  <2>5. ASSUME NothingOf(UnderWay(Now), notes', a) PROVE note.value = server[a]
    <3>1. ASSUME NEW i \in 2..Len(notes) PROVE notes[i].attr # notes[1].attr
      <4>1. i - 1 \in 1..Len(notes') /\ i = (i - 1) + 1
        BY <1>3, <1>4 DEF IsTail
      <4>2. notes'[i - 1] = notes[i]
        BY <1>4, <4>1 DEF IsTail
      <4> QED
        BY <1>5, <2>5, <4>1, <4>2 DEF NothingOf
    <3>2. LastNoteInv
      BY DEF Inv
    <3>3. notes[1].value = server[notes[1].attr]
      BY <1>3, <1>4, <3>1, <3>2, FirstIsLast
    <3> QED
      BY <1>4, <1>5, <3>3
  <2> QED
    BY <2>3, <2>4, <2>5 DEF InTouch
<1>15. ASSUME a \notin unsure', ~RemoteNoted(a)', ~note.remote
       PROVE  InTouch(UnderWay(Now), notes', a \in touched', a, Seen(a)', server[a])
  <2>1. a \notin unsure /\ ~(process /\ modal)
    BY <1>2, <1>15
  <2>2. ~RemoteNoted(a)
    BY <1>4, <1>15
  <2>3. InTouch(UnderWay(Now), notes, a \in touched, a, Seen(a), server[a])
    BY <1>5, <2>1, <2>2 DEF Inv, MirrorInv
  <2>4. a \notin touched'
    BY <1>2, <1>15
  <2>5. CASE a \notin touched
    <3>1. pending' = pending
      BY <1>0, <1>2, <1>15, <2>5
    <3>2. Seen(a)' = Seen(a)
      BY <1>1, <3>1 DEF Seen
    <3> QED
      BY <2>3, <2>4, <2>5, <3>2 DEF InTouch
  <2>6. CASE a \in touched
    <3>1. process /\ ~modal
      BY <1>0, <2>1, <2>6
    <3>2. Seen(a)' = note.value
      BY <1>2, <3>1 DEF Seen
    <3>3. OwnOnce(UnderWay(Now), notes, a)
      BY <2>3, <2>6 DEF InTouch
    <3>4. 1 \in 1..Len(notes)
      BY <1>3, <1>4
    <3>5. ASSUME NEW i \in 2..Len(notes) PROVE notes[i].attr # notes[1].attr
      <4>1. i \in 1..Len(notes) /\ i # 1
        BY <1>3
      <4> QED
        BY <1>5, <3>3, <3>4, <4>1 DEF OwnOnce
    <3>6. note.value = server[a]
      <4>1. LastNoteInv
        BY DEF Inv
      <4>2. notes[1].value = server[notes[1].attr]
        BY <1>3, <1>4, <3>5, <4>1, FirstIsLast
      <4> QED
        BY <1>4, <1>5, <4>2
    <3>7. \A i \in 1..Len(UnderWay(Now)) : ~Sets(UnderWay(Now)[i], a)
      BY <1>5, <3>3, <3>4 DEF OwnOnce
    <3>8. Tells(UnderWay(Now), Len(UnderWay(Now)), a, server[a], server[a])
      BY <3>7 DEF Tells
    <3> QED
      BY <2>4, <3>2, <3>6, <3>8 DEF InTouch
  <2> QED
    BY <2>5, <2>6
<1>16. MirrorInv'
  BY <1>1, <1>5, <1>7, <1>13, <1>14, <1>15 DEF MirrorInv
<1> QED
  BY <1>9, <1>10, <1>12, <1>16 DEF Inv

-----------------------------------------------------------------------------
(* The theorems *)

LEMMA InitKeeps == Init => Inv
<1> SUFFICES ASSUME Init PROVE Inv
  OBVIOUS
<1>1. /\ shown = AtStart /\ touched = {} /\ pending = <<>> /\ previous = None
      /\ queue = <<>> /\ sending = FALSE /\ undo = <<>> /\ redo = <<>>
      /\ arriving = <<>> /\ notes = <<>> /\ server = AtFirst /\ file = AtFirst /\ meant = AtFirst
      /\ unsure = {} /\ foreign = {}
  BY DEF Init
<1>2. /\ AtStart \in States /\ \A a \in Attrs : AtStart[a] = AtFirst[a]
      /\ AtFirst \in [Attrs -> Values]
  BY GuiMirrorAssumption DEF AtStart, AtFirst, States, Shown, May, Modified
<1>3. DOMAIN pending = {} /\ Len(notes) = 0 /\ notes \in Seq(Notes) /\ 1..Len(notes) = {}
  BY <1>1
<1>4. undo \in Seq(Transactions) /\ redo \in Seq(Transactions)
  BY <1>1, EmptySeq
<1>5. GuiType(Now)
  <2>1. queue \in Seq(Calls) /\ arriving \in Seq(Calls)
    BY <1>1, EmptySeq
  <2> QED
    BY <1>1, <1>2, <2>1, NowType
<1>6. QueueOK(Now)
  <2>1. Now.queue = <<>>
    BY <1>1 DEF Now
  <2> QED
    BY <2>1 DEF QueueOK, SendsOn, Remembers
<1>7. BaseInv
  BY <1>1, <1>2, <1>3, <1>4, <1>5, <1>6 DEF BaseInv, TypeInv
<1>8. UnderWay(Now) = <<>>
  BY <1>1 DEF UnderWay, Now
<1>9. 1..Len(UnderWay(Now)) = {}
  BY <1>8
<1>10. \A a \in Attrs : shown[a] = server[a]
  BY <1>1, <1>2
<1>11. \A a \in Attrs : Told(UnderWay(Now), a, shown[a], server[a])
  BY <1>9, <1>10 DEF Told, Tells
<1>12. \A a : ~RemoteNoted(a)
  BY <1>3 DEF RemoteNoted
<1>13. SaveInv
  BY <1>1, <1>3, <1>11, <1>12 DEF SaveInv
<1>14. LastNoteInv
  BY <1>3 DEF LastNoteInv
<1>15. MirrorInv
  BY <1>1, <1>3, <1>11 DEF MirrorInv, InTouch, Told, Seen
<1> QED
  BY <1>7, <1>13, <1>14, <1>15 DEF Inv

LEMMA StillKeeps == ASSUME Inv, UNCHANGED vars PROVE Inv'
<1>1. UNCHANGED <<shown, touched, previous, queue, sending, arriving, undo, redo, pending, notes,
                  server, file, meant, unsure, foreign>>
  BY DEF vars, guiVars
<1>2. undo' \in Seq(Transactions) /\ redo' \in Seq(Transactions)
  BY <1>1 DEF Inv, BaseInv, TypeInv
<1> QED
  BY <1>1, <1>2, StillMovedOn, MovedKeeps

(* What the calls, the datagrams and the marks have to do with what the    *)
(* gui shows and what the server has, at every step.                       *)
THEOREM MirrorInvariant == Spec => []Inv
<1>1. Inv /\ [Next]_vars => Inv'
  <2> SUFFICES ASSUME Inv, [Next]_vars PROVE Inv'
    OBVIOUS
  <2>1. ASSUME NEW a \in Attrs, NEW v \in Values, NEW fresh \in BOOLEAN, Edit(a, v, fresh) PROVE Inv'
    BY <2>1, EditKeeps
  <2>2. ASSUME NEW a \in Attrs, NEW v \in Values, RemoteSet(a, v) PROVE Inv'
    BY <2>2, RemoteKeeps
  <2> QED
    BY <2>1, <2>2, UndoKeeps, RedoKeeps, SaveKeeps, ModalKeeps, TimerKeeps, CompleteKeeps,
       TimeoutKeeps, CommandSetKeeps, ServeKeeps, LoseKeeps, StillKeeps DEF Next
<1> QED  BY <1>1, InitKeeps, PTL DEF Spec

(* When nothing is under way any more, the gui shows what the server has.  *)
THEOREM GuiInStep == Spec => []InStep
<1>1. Inv => InStep
  <2> SUFFICES ASSUME Inv, Quiet, NEW a \in Attrs \ unsure PROVE shown[a] = server[a]
    BY DEF InStep
  <2>1. queue = <<>> /\ arriving = <<>> /\ notes = <<>> /\ pending = <<>>
    BY DEF Quiet
  <2>2. DOMAIN pending = {} /\ 1..Len(notes) = {} /\ UnderWay(Now) = <<>>
    BY <2>1 DEF UnderWay, Now
  <2>3. 1..Len(UnderWay(Now)) = {}
    BY <2>2
  <2>4. InTouch(UnderWay(Now), notes, a \in touched, a, Seen(a), server[a])
    BY <2>2 DEF Inv, MirrorInv, RemoteNoted
  <2>5. Seen(a) = server[a]
    BY <2>2, <2>3, <2>4 DEF InTouch, NothingOf, Tells
  <2> QED
    BY <2>2, <2>5 DEF Seen
<1> QED  BY <1>1, MirrorInvariant, PTL

(* A save that the server executes writes what the gui showed when it was  *)
(* asked for, though later commands are dropped from the queue around it.  *)
THEOREM SavesTakeTheirMoment == Spec => []SaveTakesItsMoment
<1>1. Inv => SaveTakesItsMoment
  BY DEF Inv, SaveInv, SaveTakesItsMoment
<1> QED  BY <1>1, MirrorInvariant, PTL

-----------------------------------------------------------------------------
(* Transactions as paths.  One leads from a state to another when each of  *)
(* its commands finds what its inverse would set.                          *)

Step(f, c, g) == f[c.attr] = c.old /\ g = [f EXCEPT ![c.attr] = c.value]
Path(p, f, t, g) ==
  /\ p \in [0..Len(t) -> States] /\ p[0] = f /\ p[Len(t)] = g
  /\ \A j \in 1..Len(t) : Step(p[j - 1], t[j], p[j])
Leads(f, t, g) == \E p : Path(p, f, t, g)

(* The transactions to undo lead from the start to v, and those to redo,   *)
(* the last one first, lead on from v.                                     *)
Back(h, stack, v) ==
  /\ h \in [0..Len(stack) -> States] /\ h[0] = AtStart /\ h[Len(stack)] = v
  /\ \A i \in 1..Len(stack) : Leads(h[i - 1], stack[i], h[i])
Forth(h, stack, v) ==
  /\ h \in [0..Len(stack) -> States] /\ h[Len(stack)] = v
  /\ \A i \in 1..Len(stack) : Leads(h[i], stack[i], h[i - 1])
LeadsHere(stack, v) == \E h : Back(h, stack, v)
LeadsOn(stack, v) == \E h : Forth(h, stack, v)

LEMMA StepType == ASSUME NEW f \in States, NEW c \in Commands, NEW g, Step(f, c, g) PROVE g \in States
<1>1. c.attr \in Shown /\ c.value \in May(c.attr)
  BY DEF Commands
<1>2. May(c.attr) \subseteq Values \cup BOOLEAN
  BY DEF May
<1>3. g = [f EXCEPT ![c.attr] = c.value]
  BY DEF Step
<1>4. g \in [Shown -> Values \cup BOOLEAN]
  BY <1>1, <1>2, <1>3 DEF States
<1>5. \A s \in Shown : g[s] \in May(s)
  BY <1>1, <1>3 DEF States
<1> QED
  BY <1>4, <1>5 DEF States

LEMMA StepBack ==
  ASSUME NEW f \in States, NEW c \in Commands, NEW g, Step(f, c, g)
  PROVE  [g EXCEPT ![c.attr] = c.old] = f
<1>1. f \in [Shown -> Values \cup BOOLEAN] /\ c.attr \in Shown
  BY DEF States, Commands
<1>2. g = [f EXCEPT ![c.attr] = c.value] /\ f[c.attr] = c.old
  BY DEF Step
<1> QED
  BY <1>1, <1>2

Along(p, n) == p \in [0..n -> States]
Longer(q, p, n, x) ==
  Along(q, n + 1) /\ q[n + 1] = x /\ \A i \in 0..n : q[i] = p[i]
Shorter(q, p, n) == Along(q, n - 1) /\ \A i \in 0..(n - 1) : q[i] = p[i]

LEMMA Lengthened ==
  ASSUME NEW n \in Nat, NEW p, Along(p, n), NEW x \in States
  PROVE  \E q : Longer(q, p, n, x)
<1>0. p \in [0..n -> States]
  BY DEF Along
<1>1. PICK q : q = [i \in 0..(n + 1) |-> IF i = n + 1 THEN x ELSE p[i]]
  OBVIOUS
<1>2. q \in [0..(n + 1) -> States] /\ q[n + 1] = x
  BY <1>0, <1>1
<1>3. ASSUME NEW i \in 0..n PROVE q[i] = p[i]
  <2>1. i \in 0..(n + 1) /\ i # n + 1
    OBVIOUS
  <2> QED
    BY <1>1, <2>1
<1> QED
  BY <1>2, <1>3 DEF Longer, Along

LEMMA Shortened ==
  ASSUME NEW n \in Nat, n > 0, NEW p, Along(p, n)
  PROVE  \E q : Shorter(q, p, n)
<1>0. p \in [0..n -> States]
  BY DEF Along
<1>1. PICK q : q = [i \in 0..(n - 1) |-> p[i]]
  OBVIOUS
<1>2. 0..(n - 1) \subseteq 0..n
  OBVIOUS
<1> QED
  BY <1>0, <1>1, <1>2 DEF Shorter, Along

LEMMA LeadsEnds == ASSUME NEW f, NEW t \in Seq(Commands), NEW g, Leads(f, t, g) PROVE f \in States /\ g \in States
<1>1. PICK p : Path(p, f, t, g)
  BY DEF Leads
<1> QED
  BY <1>1 DEF Path

(* A command at the end of a path. *)
LEMMA LeadsAppend ==
  ASSUME NEW f, NEW t \in Seq(Commands), NEW g, Leads(f, t, g), NEW c \in Commands,
         NEW g2, Step(g, c, g2)
  PROVE  Leads(f, Append(t, c), g2)
<1>1. PICK p : Path(p, f, t, g)
  BY DEF Leads
<1>2. PICK n \in Nat : n = Len(t)
  OBVIOUS
<1>3. p \in [0..n -> States] /\ p[0] = f /\ p[n] = g /\ \A j \in 1..n : Step(p[j - 1], t[j], p[j])
  BY <1>1, <1>2 DEF Path
<1>4. g \in States /\ g2 \in States
  BY <1>3, StepType
<1>5. PICK q : q \in [0..(n + 1) -> States] /\ q[n + 1] = g2 /\ \A i \in 0..n : q[i] = p[i]
  <2>1. Along(p, n)
    BY <1>3 DEF Along
  <2>2. \E q : Longer(q, p, n, g2)
    BY <1>4, <2>1, Lengthened
  <2> QED
    BY <2>2 DEF Longer, Along
<1>6. PICK u : u = Append(t, c)
  OBVIOUS
<1>7. Len(u) = n + 1 /\ u[n + 1] = c /\ \A i \in 1..n : u[i] = t[i]
  BY <1>2, <1>6
<1>8. ASSUME NEW j \in 1..(n + 1) PROVE Step(q[j - 1], u[j], q[j])
  <2>1. CASE j = n + 1
    <3>1. j - 1 = n /\ n \in 0..n
      BY <2>1
    <3>2. q[j - 1] = g /\ u[j] = c /\ q[j] = g2
      BY <1>3, <1>5, <1>7, <2>1, <3>1
    <3> QED
      BY <3>2
  <2>2. CASE j # n + 1
    <3>1. j \in 1..n /\ j \in 0..n /\ j - 1 \in 0..n
      BY <2>2
    <3>2. q[j - 1] = p[j - 1] /\ u[j] = t[j] /\ q[j] = p[j]
      BY <1>5, <1>7, <3>1
    <3> QED
      BY <1>3, <3>1, <3>2
  <2> QED
    BY <2>1, <2>2
<1>9. Path(q, f, u, g2)
  <2>1. q[0] = f /\ q[Len(u)] = g2 /\ q \in [0..Len(u) -> States]
    BY <1>3, <1>5, <1>7
  <2> QED
    BY <1>7, <1>8, <2>1 DEF Path
<1> QED
  BY <1>6, <1>9 DEF Leads

LEMMA LeadsFront ==
  ASSUME NEW f, NEW t \in Seq(Commands), t # <<>>, NEW g, Leads(f, t, g)
  PROVE  \E e \in States : Leads(f, Front(t), e) /\ Step(e, Last(t), g)
<1>1. PICK p : Path(p, f, t, g)
  BY DEF Leads
<1>2. PICK n \in Nat : n = Len(t) /\ n > 0
  OBVIOUS
<1>3. p \in [0..n -> States] /\ p[0] = f /\ p[n] = g /\ \A j \in 1..n : Step(p[j - 1], t[j], p[j])
  BY <1>1, <1>2 DEF Path
<1>4. PICK q : q \in [0..(n - 1) -> States] /\ \A i \in 0..(n - 1) : q[i] = p[i]
  <2>1. Along(p, n)
    BY <1>3 DEF Along
  <2>2. \E q : Shorter(q, p, n)
    BY <1>2, <2>1, Shortened
  <2> QED
    BY <2>2 DEF Shorter, Along
<1>5. PICK u : u = Front(t)
  OBVIOUS
<1>6. u \in Seq(Commands) /\ IsFront(u, t)
  BY <1>5, FrontIs
<1>7. Len(u) = n - 1 /\ \A i \in 1..(n - 1) : u[i] = t[i]
  BY <1>2, <1>6 DEF IsFront
<1>8. ASSUME NEW j \in 1..(n - 1) PROVE Step(q[j - 1], u[j], q[j])
  <2>1. j \in 1..n /\ j \in 0..(n - 1) /\ j - 1 \in 0..(n - 1)
    OBVIOUS
  <2> QED
    BY <1>3, <1>4, <1>7, <2>1
<1>9. Path(q, f, u, p[n - 1])
  <2>1. q[0] = f /\ q[Len(u)] = p[n - 1] /\ q \in [0..Len(u) -> States]
    BY <1>2, <1>3, <1>4, <1>7
  <2> QED
    BY <1>7, <1>8, <2>1 DEF Path
<1>10. p[n - 1] \in States /\ Step(p[n - 1], Last(t), g)
  <2>1. n \in 1..n /\ n - 1 \in 0..n
    BY <1>2
  <2>2. Last(t) = t[n]
    BY <1>2 DEF Last
  <2> QED
    BY <1>3, <2>1, <2>2
<1> QED
  BY <1>5, <1>9, <1>10 DEF Leads

LEMMA LeadsSingle ==
  ASSUME NEW f \in States, NEW c \in Commands, NEW g, Step(f, c, g) PROVE Leads(f, <<c>>, g)
<1>1. PICK p : p = [i \in 0..0 |-> f]
  OBVIOUS
<1>2. PICK e : e = <<>>
  OBVIOUS
<1>3. e \in Seq(Commands) /\ Len(e) = 0 /\ Append(e, c) = <<c>>
  BY <1>2
<1>4. Path(p, f, e, f)
  BY <1>1, <1>3 DEF Path
<1>5. Leads(f, e, f)
  BY <1>4 DEF Leads
<1> QED
  BY <1>3, <1>5, LeadsAppend

(* pushUndoList *)
LEMMA LeadsPush ==
  ASSUME NEW f, NEW t \in Transactions, NEW g, Leads(f, t, g), NEW c \in Commands,
         NEW g2, Step(g, c, g2)
  PROVE  Leads(f, PushUndoList(t, c), g2)
<1>0. t \in Seq(Commands) /\ t # <<>>
  BY DEF Transactions
<1>1. CASE c.attr # Modified /\ Last(t).attr = c.attr
  <2>1. PICK u, l, m : u = Front(t) /\ l = Last(t) /\ m = [c EXCEPT !.old = l.old]
    OBVIOUS
  <2>2. u \in Seq(Commands) /\ l \in Commands
    BY <1>0, <2>1, FrontIs, LastIn
  <2>3. PICK e \in States : Leads(f, u, e) /\ Step(e, l, g)
    BY <1>0, <2>1, LeadsFront
  <2>4. l.old \in May(c.attr) /\ May(c.attr) \subseteq Values \cup BOOLEAN
    BY <1>1, <2>1, <2>2 DEF Commands, May
  <2>5. m \in Commands /\ m.attr = c.attr /\ m.value = c.value /\ m.old = l.old
    BY <2>1, <2>4 DEF Commands
  <2>6. Step(e, m, g2)
    <3>1. e \in [Shown -> Values \cup BOOLEAN] /\ c.attr \in Shown
      BY DEF States, Commands
    <3>2. g = [e EXCEPT ![c.attr] = l.value] /\ e[c.attr] = l.old /\ g2 = [g EXCEPT ![c.attr] = c.value]
      BY <1>1, <2>1, <2>3 DEF Step
    <3>3. g2 = [e EXCEPT ![c.attr] = c.value]
      BY <3>1, <3>2
    <3> QED
      BY <2>5, <3>2, <3>3 DEF Step
  <2>7. PushUndoList(t, c) = Append(u, m)
    BY <1>0, <1>1, <2>1 DEF PushUndoList
  <2> QED
    BY <2>2, <2>3, <2>5, <2>6, <2>7, LeadsAppend
<1>2. CASE ~(c.attr # Modified /\ Last(t).attr = c.attr)
  <2>1. PushUndoList(t, c) = Append(t, c)
    BY <1>2 DEF PushUndoList
  <2> QED
    BY <1>0, <2>1, LeadsAppend
<1> QED
  BY <1>1, <1>2

-----------------------------------------------------------------------------
(* The stacks as paths *)

LEMMA HereEmpty == AtStart \in States => LeadsHere(<<>>, AtStart)
<1> SUFFICES ASSUME AtStart \in States PROVE LeadsHere(<<>>, AtStart)
  OBVIOUS
<1>1. PICK e : e = <<>>
  OBVIOUS
<1>2. Len(e) = 0
  BY <1>1
<1>3. PICK h : h = [i \in 0..0 |-> AtStart]
  OBVIOUS
<1>4. Back(h, e, AtStart)
  BY <1>2, <1>3 DEF Back
<1> QED
  BY <1>1, <1>4 DEF LeadsHere

LEMMA OnEmpty == ASSUME NEW v \in States PROVE LeadsOn(<<>>, v)
<1>1. PICK e : e = <<>>
  OBVIOUS
<1>2. Len(e) = 0
  BY <1>1
<1>3. PICK h : h = [i \in 0..0 |-> v]
  OBVIOUS
<1>4. Forth(h, e, v)
  BY <1>2, <1>3 DEF Forth
<1> QED
  BY <1>1, <1>4 DEF LeadsOn

LEMMA HerePush ==
  ASSUME NEW stack \in Seq(Transactions), NEW v, LeadsHere(stack, v),
         NEW t \in Transactions, NEW w, Leads(v, t, w), NEW u, u = Append(stack, t)
  PROVE  LeadsHere(u, w)
<1>1. PICK h : Back(h, stack, v)
  BY DEF LeadsHere
<1>2. PICK n \in Nat : n = Len(stack)
  OBVIOUS
<1>3. h \in [0..n -> States] /\ h[0] = AtStart /\ h[n] = v
      /\ \A i \in 1..n : Leads(h[i - 1], stack[i], h[i])
  BY <1>1, <1>2 DEF Back
<1>4. w \in States
  BY LeadsEnds DEF Transactions
<1>5. PICK q : q \in [0..(n + 1) -> States] /\ q[n + 1] = w /\ \A i \in 0..n : q[i] = h[i]
  <2>1. Along(h, n)
    BY <1>3 DEF Along
  <2>2. \E q : Longer(q, h, n, w)
    BY <1>4, <2>1, Lengthened
  <2> QED
    BY <2>2 DEF Longer, Along
<1>6. Len(u) = n + 1 /\ u[n + 1] = t /\ \A i \in 1..n : u[i] = stack[i]
  BY <1>2
<1>7. ASSUME NEW i \in 1..(n + 1) PROVE Leads(q[i - 1], u[i], q[i])
  <2>1. CASE i = n + 1
    <3>1. i - 1 = n /\ n \in 0..n
      BY <2>1
    <3>2. q[i - 1] = v /\ u[i] = t /\ q[i] = w
      BY <1>3, <1>5, <1>6, <2>1, <3>1
    <3> QED
      BY <3>2
  <2>2. CASE i # n + 1
    <3>1. i \in 1..n /\ i \in 0..n /\ i - 1 \in 0..n
      BY <2>2
    <3>2. q[i - 1] = h[i - 1] /\ u[i] = stack[i] /\ q[i] = h[i]
      BY <1>5, <1>6, <3>1
    <3> QED
      BY <1>3, <3>1, <3>2
  <2> QED
    BY <2>1, <2>2
<1>8. Back(q, u, w)
  <2>1. q[0] = AtStart /\ q[Len(u)] = w /\ q \in [0..Len(u) -> States]
    BY <1>3, <1>5, <1>6
  <2> QED
    BY <1>6, <1>7, <2>1 DEF Back
<1> QED
  BY <1>8 DEF LeadsHere

LEMMA HerePop ==
  ASSUME NEW stack \in Seq(Transactions), stack # <<>>, NEW v, LeadsHere(stack, v)
  PROVE  \E e \in States : LeadsHere(Front(stack), e) /\ Leads(e, Last(stack), v)
<1>1. PICK h : Back(h, stack, v)
  BY DEF LeadsHere
<1>2. PICK n \in Nat : n = Len(stack) /\ n > 0
  OBVIOUS
<1>3. h \in [0..n -> States] /\ h[0] = AtStart /\ h[n] = v
      /\ \A i \in 1..n : Leads(h[i - 1], stack[i], h[i])
  BY <1>1, <1>2 DEF Back
<1>4. PICK q : q \in [0..(n - 1) -> States] /\ \A i \in 0..(n - 1) : q[i] = h[i]
  <2>1. Along(h, n)
    BY <1>3 DEF Along
  <2>2. \E q : Shorter(q, h, n)
    BY <1>2, <2>1, Shortened
  <2> QED
    BY <2>2 DEF Shorter, Along
<1>5. PICK u : u = Front(stack)
  OBVIOUS
<1>6. u \in Seq(Transactions) /\ IsFront(u, stack)
  BY <1>5, FrontIs
<1>7. Len(u) = n - 1 /\ \A i \in 1..(n - 1) : u[i] = stack[i]
  BY <1>2, <1>6 DEF IsFront
<1>8. ASSUME NEW i \in 1..(n - 1) PROVE Leads(q[i - 1], u[i], q[i])
  <2>1. i \in 1..n /\ i \in 0..(n - 1) /\ i - 1 \in 0..(n - 1)
    OBVIOUS
  <2> QED
    BY <1>3, <1>4, <1>7, <2>1
<1>9. Back(q, u, h[n - 1])
  <2>1. q[0] = AtStart /\ q[Len(u)] = h[n - 1] /\ q \in [0..Len(u) -> States]
    BY <1>2, <1>3, <1>4, <1>7
  <2> QED
    BY <1>7, <1>8, <2>1 DEF Back
<1>10. h[n - 1] \in States /\ Leads(h[n - 1], Last(stack), v)
  <2>1. n \in 1..n /\ n - 1 \in 0..n
    BY <1>2
  <2>2. Last(stack) = stack[n]
    BY <1>2 DEF Last
  <2> QED
    BY <1>3, <2>1, <2>2
<1> QED
  BY <1>5, <1>9, <1>10 DEF LeadsHere

LEMMA OnPush ==
  ASSUME NEW stack \in Seq(Transactions), NEW v, LeadsOn(stack, v),
         NEW t \in Transactions, NEW w, Leads(w, t, v), NEW u, u = Append(stack, t)
  PROVE  LeadsOn(u, w)
<1>1. PICK h : Forth(h, stack, v)
  BY DEF LeadsOn
<1>2. PICK n \in Nat : n = Len(stack)
  OBVIOUS
<1>3. h \in [0..n -> States] /\ h[n] = v /\ \A i \in 1..n : Leads(h[i], stack[i], h[i - 1])
  BY <1>1, <1>2 DEF Forth
<1>4. w \in States
  BY LeadsEnds DEF Transactions
<1>5. PICK q : q \in [0..(n + 1) -> States] /\ q[n + 1] = w /\ \A i \in 0..n : q[i] = h[i]
  <2>1. Along(h, n)
    BY <1>3 DEF Along
  <2>2. \E q : Longer(q, h, n, w)
    BY <1>4, <2>1, Lengthened
  <2> QED
    BY <2>2 DEF Longer, Along
<1>6. Len(u) = n + 1 /\ u[n + 1] = t /\ \A i \in 1..n : u[i] = stack[i]
  BY <1>2
<1>7. ASSUME NEW i \in 1..(n + 1) PROVE Leads(q[i], u[i], q[i - 1])
  <2>1. CASE i = n + 1
    <3>1. i - 1 = n /\ n \in 0..n
      BY <2>1
    <3>2. q[i - 1] = v /\ u[i] = t /\ q[i] = w
      BY <1>3, <1>5, <1>6, <2>1, <3>1
    <3> QED
      BY <3>2
  <2>2. CASE i # n + 1
    <3>1. i \in 1..n /\ i \in 0..n /\ i - 1 \in 0..n
      BY <2>2
    <3>2. q[i - 1] = h[i - 1] /\ u[i] = stack[i] /\ q[i] = h[i]
      BY <1>5, <1>6, <3>1
    <3> QED
      BY <1>3, <3>1, <3>2
  <2> QED
    BY <2>1, <2>2
<1>8. Forth(q, u, w)
  <2>1. q[Len(u)] = w /\ q \in [0..Len(u) -> States]
    BY <1>5, <1>6
  <2> QED
    BY <1>6, <1>7, <2>1 DEF Forth
<1> QED
  BY <1>8 DEF LeadsOn

LEMMA OnPop ==
  ASSUME NEW stack \in Seq(Transactions), stack # <<>>, NEW v, LeadsOn(stack, v)
  PROVE  \E e \in States : LeadsOn(Front(stack), e) /\ Leads(v, Last(stack), e)
<1>1. PICK h : Forth(h, stack, v)
  BY DEF LeadsOn
<1>2. PICK n \in Nat : n = Len(stack) /\ n > 0
  OBVIOUS
<1>3. h \in [0..n -> States] /\ h[n] = v /\ \A i \in 1..n : Leads(h[i], stack[i], h[i - 1])
  BY <1>1, <1>2 DEF Forth
<1>4. PICK q : q \in [0..(n - 1) -> States] /\ \A i \in 0..(n - 1) : q[i] = h[i]
  <2>1. Along(h, n)
    BY <1>3 DEF Along
  <2>2. \E q : Shorter(q, h, n)
    BY <1>2, <2>1, Shortened
  <2> QED
    BY <2>2 DEF Shorter, Along
<1>5. PICK u : u = Front(stack)
  OBVIOUS
<1>6. u \in Seq(Transactions) /\ IsFront(u, stack)
  BY <1>5, FrontIs
<1>7. Len(u) = n - 1 /\ \A i \in 1..(n - 1) : u[i] = stack[i]
  BY <1>2, <1>6 DEF IsFront
<1>8. ASSUME NEW i \in 1..(n - 1) PROVE Leads(q[i], u[i], q[i - 1])
  <2>1. i \in 1..n /\ i \in 0..(n - 1) /\ i - 1 \in 0..(n - 1)
    OBVIOUS
  <2> QED
    BY <1>3, <1>4, <1>7, <2>1
<1>9. Forth(q, u, h[n - 1])
  <2>1. q[Len(u)] = h[n - 1] /\ q \in [0..Len(u) -> States]
    <3>1. n - 1 \in 0..(n - 1)
      BY <1>2
    <3> QED
      BY <1>2, <1>3, <1>4, <1>7, <3>1
  <2> QED
    BY <1>7, <1>8, <2>1 DEF Forth
<1>10. h[n - 1] \in States /\ Leads(v, Last(stack), h[n - 1])
  <2>1. n \in 1..n /\ n - 1 \in 0..n
    BY <1>2
  <2>2. Last(stack) = stack[n]
    BY <1>2 DEF Last
  <2> QED
    BY <1>3, <2>1, <2>2
<1> QED
  BY <1>5, <1>9, <1>10 DEF LeadsOn

(* A command that joins the last transaction. *)
LEMMA HereExtended ==
  ASSUME NEW stack \in Seq(Transactions), stack # <<>>, NEW v, LeadsHere(stack, v),
         NEW c \in Commands, NEW w, Step(v, c, w)
  PROVE  LeadsHere(Extended(stack, c), w)
<1>1. PICK f, l, t : f = Front(stack) /\ l = Last(stack) /\ t = PushUndoList(l, c)
  OBVIOUS
<1>2. f \in Seq(Transactions) /\ l \in Transactions
  BY <1>1, FrontIs, LastIn
<1>3. PICK e \in States : LeadsHere(f, e) /\ Leads(e, l, v)
  BY <1>1, HerePop
<1>4. Leads(e, t, w) /\ t \in Transactions
  BY <1>1, <1>2, <1>3, LeadsPush, PushType
<1>5. Extended(stack, c) = Append(f, t)
  BY <1>1 DEF Extended
<1> QED
  BY <1>2, <1>3, <1>4, <1>5, HerePush

-----------------------------------------------------------------------------
(* What processing the commands of a transaction shows *)

LEMMA LeadsDoes ==
  ASSUME NEW v, NEW t \in Seq(Commands), NEW w, Leads(v, t, w),
         NEW f, ShowsEach(f, t), f[0].shown = v
  PROVE  f[Len(t)].shown = w
<1>1. PICK p : Path(p, v, t, w)
  BY DEF Leads
<1>2. PICK n \in Nat : n = Len(t)
  OBVIOUS
<1> DEFINE holds == {i \in 0..n : f[i].shown = p[i]}
<1>3. 0 \in holds
  BY <1>1 DEF Path
<1>4. \A i \in 1..n : i - 1 \in holds => i \in holds
  <2> SUFFICES ASSUME NEW i \in 1..n, f[i - 1].shown = p[i - 1] PROVE f[i].shown = p[i]
    OBVIOUS
  <2>1. f[i].shown = [f[i - 1].shown EXCEPT ![t[i].attr] = t[i].value]
    BY <1>2 DEF ShowsEach
  <2>2. p[i] = [p[i - 1] EXCEPT ![t[i].attr] = t[i].value]
    BY <1>1, <1>2 DEF Path, Step
  <2> QED
    BY <2>1, <2>2
<1>5. n \in holds
  <2> HIDE DEF holds
  <2>1. 0..n \subseteq holds
    BY <1>3, <1>4, Onwards
  <2> QED
    BY <2>1
<1> QED
  BY <1>1, <1>2, <1>5 DEF Path

LEMMA LeadsUndoes ==
  ASSUME NEW v, NEW t \in Seq(Commands), NEW w, Leads(v, t, w),
         NEW r, r = Inverses(t), NEW f, ShowsEach(f, r), f[0].shown = w
  PROVE  f[Len(r)].shown = v
<1>1. PICK p : Path(p, v, t, w)
  BY DEF Leads
<1>2. PICK n \in Nat : n = Len(t) /\ n = Len(r)
  BY InversesType
<1> DEFINE holds == {i \in 0..n : f[i].shown = p[n - i]}
<1>3. 0 \in holds
  <2>1. n - 0 = n
    OBVIOUS
  <2> QED
    BY <1>1, <1>2, <2>1 DEF Path
<1>4. \A i \in 1..n : i - 1 \in holds => i \in holds
  <2> SUFFICES ASSUME NEW i \in 1..n, f[i - 1].shown = p[n - (i - 1)] PROVE f[i].shown = p[n - i]
    OBVIOUS
  <2>1. PICK k \in 1..n : k = n + 1 - i
    OBVIOUS
  <2>2. n - (i - 1) = k /\ n - i = k - 1 /\ k - 1 \in 0..n
    BY <2>1
  <2>3. r[i].attr = t[k].attr /\ r[i].value = t[k].old /\ t[k] \in Commands
    BY <1>2, <2>1, InversesType
  <2>4. f[i].shown = [p[k] EXCEPT ![t[k].attr] = t[k].old]
    <3>1. f[i].shown = [f[i - 1].shown EXCEPT ![r[i].attr] = r[i].value]
      BY <1>2 DEF ShowsEach
    <3> QED
      BY <2>2, <2>3, <3>1
  <2>5. Step(p[k - 1], t[k], p[k]) /\ p[k - 1] \in States
    BY <1>1, <1>2, <2>2 DEF Path
  <2> QED
    BY <2>2, <2>3, <2>4, <2>5, StepBack
<1>5. n \in holds
  <2> HIDE DEF holds
  <2>1. 0..n \subseteq holds
    BY <1>3, <1>4, Onwards
  <2> QED
    BY <2>1
<1>6. n - n = 0
  OBVIOUS
<1> QED
  BY <1>1, <1>2, <1>5, <1>6 DEF Path

-----------------------------------------------------------------------------
(* While nobody else sets anything, and no command has joined a            *)
(* transaction while others could be redone, the stacks are such paths.    *)

Alone == foreign = {} /\ ~amended
PathInv == LeadsHere(undo, shown) /\ LeadsOn(redo, shown)
UndoInv == Alone => PathInv

LEMMA FlushedAlone == ASSUME Inv, foreign = {} PROVE Flushed = shown
<1>1. shown \in States
  BY NowType DEF Inv, BaseInv, TypeInv
<1>2. DOMAIN pending = {}
  BY DEF Inv, SaveInv, BaseInv, TypeInv
<1>3. shown = [s \in Shown |-> shown[s]]
  BY <1>1 DEF States
<1> QED
  BY <1>2, <1>3 DEF Flushed

LEMMA StacksType ==
  ASSUME Inv PROVE undo \in Seq(Transactions) /\ redo \in Seq(Transactions) /\ shown \in States
BY NowType DEF Inv, BaseInv, TypeInv

LEMMA SetsStep ==
  ASSUME NEW f \in States, NEW s \in Shown, NEW v \in May(s), NEW c, c = Command(s, v, f[s])
  PROVE  /\ c \in Commands /\ Step(f, c, [f EXCEPT ![s] = v])
         /\ [f EXCEPT ![s] = v] \in States
<1>1. f[s] \in May(s)
  BY DEF States
<1>2. c \in Commands /\ c.attr = s /\ c.value = v /\ c.old = f[s]
  BY <1>1, CommandType DEF Command
<1>3. Step(f, c, [f EXCEPT ![s] = v])
  BY <1>2 DEF Step
<1> QED
  BY <1>2, <1>3, StepType

LEMMA EditLeads ==
  ASSUME Inv, UndoInv, Alone', NEW a \in Attrs, NEW v \in Values, NEW fresh \in BOOLEAN,
         Edit(a, v, fresh)
  PROVE  PathInv'
<1>1. /\ foreign = {} /\ ~amended /\ (fresh \/ redo = <<>>)
      /\ redo' = (IF fresh THEN <<>> ELSE redo) /\ (undo = <<>> => fresh)
  BY DEF Alone, Edit
<1>2. LeadsHere(undo, shown) /\ LeadsOn(redo, shown)
  BY <1>1 DEF UndoInv, Alone, PathInv
<1>3. PICK f : f = shown
  OBVIOUS
<1>4. PICK set, modify, joined :
        /\ set = Command(a, v, f[a]) /\ modify = Command(Modified, TRUE, FALSE)
        /\ joined = IF fresh THEN Append(undo, <<set>>) ELSE Extended(undo, set)
  OBVIOUS
<1>5. f \in States /\ undo \in Seq(Transactions) /\ Flushed = f
  BY <1>1, <1>3, StacksType, FlushedAlone
<1>6. undo' = IF f[Modified] THEN joined ELSE Extended(joined, modify)
  <2>1. PICK b : b = [Now EXCEPT !.shown = Flushed, !.previous = IF fresh THEN None ELSE @]
    OBVIOUS
  <2>2. b.shown = f
    BY <1>5, <2>1 DEF Now
  <2>3. undo' = LET set0 == Command(a, v, b.shown[a])
                    modify0 == Command(Modified, TRUE, FALSE)
                    joined0 == IF fresh THEN Append(undo, <<set0>>) ELSE Extended(undo, set0)
                IN  IF b.shown[Modified] THEN joined0 ELSE Extended(joined0, modify0)
    BY <2>1 DEF Edit
  <2> QED
    BY <1>4, <2>2, <2>3
<1>7. PICK g : g = [f EXCEPT ![a] = v]
  OBVIOUS
<1>8. a \in Shown /\ v \in May(a) /\ a # Modified /\ Modified \in Shown
      /\ TRUE \in May(Modified) /\ FALSE \in May(Modified)
  BY GuiMirrorAssumption DEF Shown, Modified, May
<1>9. set \in Commands /\ Step(f, set, g) /\ g \in States
  BY <1>4, <1>5, <1>7, <1>8, SetsStep
<1>10. LeadsHere(joined, g) /\ joined \in Seq(Transactions) /\ joined # <<>>
  <2>1. CASE fresh
    <3>1. <<set>> \in Transactions /\ Leads(f, <<set>>, g)
      BY <1>5, <1>9, SingleType, LeadsSingle
    <3>2. joined = Append(undo, <<set>>)
      BY <1>4, <2>1
    <3> QED
      BY <1>2, <1>3, <1>5, <3>1, <3>2, HerePush, StackAppend
  <2>2. CASE ~fresh
    <3>1. joined = Extended(undo, set) /\ undo # <<>>
      BY <1>1, <1>4, <2>2
    <3> QED
      BY <1>2, <1>3, <1>5, <1>9, <3>1, HereExtended, StackExtended
  <2> QED
    BY <2>1, <2>2
<1>11. shown' = [g EXCEPT ![Modified] = TRUE] /\ g[Modified] = f[Modified] /\ f[Modified] \in BOOLEAN
  <2>0. BaseInv
    BY DEF Inv
  <2>1. shown' = [[Flushed EXCEPT ![a] = v] EXCEPT ![Modified] = TRUE]
    BY <2>0, EditIs
  <2>2. shown' = [g EXCEPT ![Modified] = TRUE]
    BY <1>5, <1>7, <2>1
  <2> QED
    BY <1>5, <1>7, <1>8, <2>2 DEF States, May
<1>12. LeadsHere(undo', shown') /\ shown' \in States
  <2>1. CASE f[Modified]
    <3>1. shown' = g
      BY <1>9, <1>11, <2>1 DEF States
    <3>2. undo' = joined
      BY <1>6, <2>1
    <3> QED
      BY <1>9, <1>10, <3>1, <3>2
  <2>2. CASE ~f[Modified]
    <3>1. g[Modified] = FALSE
      BY <1>11, <2>2
    <3>2. modify \in Commands /\ Step(g, modify, shown') /\ shown' \in States
      BY <1>4, <1>8, <1>9, <1>11, <3>1, SetsStep
    <3>3. undo' = Extended(joined, modify)
      BY <1>6, <2>2
    <3>4. PICK w : w = shown'
      OBVIOUS
    <3>5. LeadsHere(Extended(joined, modify), w)
      BY <1>10, <3>2, <3>4, HereExtended
    <3> QED
      BY <3>2, <3>3, <3>4, <3>5
  <2> QED
    BY <2>1, <2>2
<1>13. LeadsOn(redo', shown')
  <2>1. redo' = <<>>
    BY <1>1
  <2>2. PICK w : w = shown'
    OBVIOUS
  <2>3. LeadsOn(<<>>, w)
    BY <1>12, <2>2, OnEmpty
  <2> QED
    BY <2>1, <2>2, <2>3
<1> QED
  BY <1>12, <1>13 DEF PathInv

LEMMA SavedLeads ==
  ASSUME Inv, UndoInv, Alone', foreign' = foreign, ProjectSaved PROVE PathInv'
<1>0. undo \in Seq(Transactions) /\ redo \in Seq(Transactions) /\ shown \in States
  BY StacksType
<1>1. CASE ~shown[Modified]
  BY <1>1 DEF ProjectSaved, UndoInv, Alone, PathInv
<1>2. CASE shown[Modified]
  <2>1. PICK f, g, c : /\ f = shown /\ g = [f EXCEPT ![Modified] = FALSE]
                       /\ c = Command(Modified, FALSE, TRUE)
    OBVIOUS
  <2>2. shown' = g /\ Store(c, undo = <<>>)
    BY <1>2, <2>1 DEF ProjectSaved
  <2>3. foreign = {} /\ ~amended /\ redo' = <<>>
    BY <2>2 DEF Alone, Store
  <2>4. LeadsHere(undo, f)
    BY <2>1, <2>3 DEF UndoInv, Alone, PathInv
  <2>5. f[Modified] = TRUE /\ f \in States /\ Modified \in Shown /\ FALSE \in May(Modified)
    <3>1. f[Modified] \in BOOLEAN
      BY <1>0, <2>1 DEF States, May, Shown
    <3> QED
      BY <1>0, <1>2, <2>1, <3>1 DEF May, Shown
  <2>6. c \in Commands /\ Step(f, c, g) /\ g \in States
    BY <2>1, <2>5, SetsStep
  <2>7. CASE undo = <<>>
    <3>1. undo' = Append(undo, <<c>>)
      BY <2>2, <2>7 DEF Store
    <3>2. <<c>> \in Transactions /\ Leads(f, <<c>>, g)
      BY <2>5, <2>6, SingleType, LeadsSingle
    <3>3. LeadsHere(Append(undo, <<c>>), g)
      BY <1>0, <2>4, <3>2, HerePush
    <3> QED
      BY <2>2, <2>3, <2>6, <3>1, <3>3, OnEmpty DEF PathInv
  <2>8. CASE undo # <<>>
    <3>1. undo' = Extended(undo, c)
      BY <2>2, <2>8 DEF Store
    <3>2. LeadsHere(Extended(undo, c), g)
      BY <1>0, <2>4, <2>6, <2>8, HereExtended
    <3> QED
      BY <2>2, <2>3, <2>6, <3>1, <3>2, OnEmpty DEF PathInv
  <2> QED
    BY <2>7, <2>8
<1> QED
  BY <1>1, <1>2

LEMMA UndoLeads == ASSUME Inv, UndoInv, Alone', Undo PROVE PathInv'
<1>1. PICK t, u, f : t = Last(undo) /\ u = Front(undo) /\ f = shown
  OBVIOUS
<1>2. /\ undo \in Seq(Transactions) /\ redo \in Seq(Transactions) /\ undo # <<>>
      /\ undo' = u /\ redo' = Append(redo, t) /\ foreign = {} /\ ~amended
  BY <1>1, StacksType DEF Undo, Alone
<1>3. LeadsHere(undo, f) /\ LeadsOn(redo, f)
  BY <1>1, <1>2 DEF UndoInv, Alone, PathInv
<1>4. t \in Transactions /\ t \in Seq(Commands)
  BY <1>1, <1>2, LastIn DEF Transactions
<1>5. PICK e \in States : LeadsHere(u, e) /\ Leads(e, t, f)
  BY <1>1, <1>2, <1>3, HerePop
<1>6. PICK r : r = Inverses(t)
  OBVIOUS
<1>7. r \in Seq(Commands) /\ Len(r) = Len(t)
  BY <1>4, <1>6, InversesType
<1>8. Becomes(Processed(r))
  BY <1>1, <1>6 DEF Undo, Undone, Inverses
<1>9. PICK k : Runs(k, Now, r) /\ Now' = k[Len(r)] /\ ShowsEach(k, r)
  BY <1>7, <1>8, ProcessedCarries DEF Inv
<1>10. k[0].shown = f
  BY <1>1, <1>9, NowIs DEF Runs
<1>11. k[Len(r)].shown = e
  BY <1>4, <1>5, <1>6, <1>9, <1>10, LeadsUndoes
<1>12. shown' = e
  BY <1>9, <1>11 DEF Now
<1>13. LeadsOn(Append(redo, t), e)
  BY <1>2, <1>3, <1>4, <1>5, OnPush
<1> QED
  BY <1>2, <1>5, <1>12, <1>13 DEF PathInv

LEMMA RedoLeads == ASSUME Inv, UndoInv, Alone', Redo PROVE PathInv'
<1>1. PICK t, u, f : t = Last(redo) /\ u = Front(redo) /\ f = shown
  OBVIOUS
<1>2. /\ undo \in Seq(Transactions) /\ redo \in Seq(Transactions) /\ redo # <<>>
      /\ redo' = u /\ undo' = Append(undo, t) /\ foreign = {} /\ ~amended
  BY <1>1, StacksType DEF Redo, Alone
<1>3. LeadsHere(undo, f) /\ LeadsOn(redo, f)
  BY <1>1, <1>2 DEF UndoInv, Alone, PathInv
<1>4. t \in Transactions /\ t \in Seq(Commands)
  BY <1>1, <1>2, LastIn DEF Transactions
<1>5. PICK e \in States : LeadsOn(u, e) /\ Leads(f, t, e)
  BY <1>1, <1>2, <1>3, OnPop
<1>6. Becomes(Processed(t))
  BY <1>1 DEF Redo, Redone
<1>7. PICK k : Runs(k, Now, t) /\ Now' = k[Len(t)] /\ ShowsEach(k, t)
  BY <1>4, <1>6, ProcessedCarries DEF Inv
<1>8. k[0].shown = f
  BY <1>1, <1>7, NowIs DEF Runs
<1>9. k[Len(t)].shown = e
  BY <1>4, <1>5, <1>7, <1>8, LeadsDoes
<1>10. shown' = e
  BY <1>7, <1>9 DEF Now
<1>11. LeadsHere(Append(undo, t), e)
  BY <1>2, <1>3, <1>4, <1>5, HerePush
<1> QED
  BY <1>2, <1>5, <1>10, <1>11 DEF PathInv

LEMMA StillLeads ==
  ASSUME UndoInv, UNCHANGED <<undo, redo, amended>>, foreign' = {} => foreign = {},
         foreign = {} => shown' = shown
  PROVE  UndoInv'
BY DEF UndoInv, Alone, PathInv

LEMMA UndoInvStep == ASSUME Inv, UndoInv, Next PROVE UndoInv'
<1>1. ASSUME NEW a \in Attrs, NEW v \in Values, NEW fresh \in BOOLEAN, Edit(a, v, fresh) PROVE UndoInv'
  BY <1>1, EditLeads DEF UndoInv
<1>2. ASSUME Undo PROVE UndoInv'
  BY <1>2, UndoLeads DEF UndoInv
<1>3. ASSUME Redo PROVE UndoInv'
  BY <1>3, RedoLeads DEF UndoInv
<1>4. ASSUME SaveProject PROVE UndoInv'
  <2>1. shown' = shown
    <3>1. PICK g : g = CallQueued(Now, SaveCall)
      OBVIOUS
    <3>2. g.shown = shown
      BY <3>1 DEF CallQueued, Now
    <3> QED
      BY <1>4, <3>1, <3>2 DEF SaveProject, Becomes
  <2> QED
    BY <1>4, <2>1, StillLeads DEF SaveProject
<1>5. ASSUME Ask \/ Answered \/ Timeout \/ CommandSet \/ Serve \/ Lose PROVE UndoInv'
  <2>1. UNCHANGED <<undo, redo, amended, foreign, shown>>
    BY <1>5 DEF Ask, Answered, Timeout, CommandSet, Serve, Lose, guiVars
  <2> QED
    BY <2>1, StillLeads
<1>6. ASSUME ProcessQueueTimer PROVE UndoInv'
  BY <1>6, FlushedAlone, StillLeads DEF ProcessQueueTimer
<1>7. ASSUME Complete PROVE UndoInv'
  <2>1. foreign' = foreign
    BY <1>7 DEF Complete
  <2>2. CASE Head(replies) = "save"
    <3>1. ProjectSaved
      BY <1>7, <2>2 DEF Complete
    <3> QED
      BY <2>1, <3>1, SavedLeads DEF UndoInv
  <2>3. CASE Head(replies) # "save"
    <3>1. UNCHANGED <<shown, undo, redo, amended>>
      BY <1>7, <2>3 DEF Complete
    <3> QED
      BY <2>1, <3>1, StillLeads
  <2> QED
    BY <2>2, <2>3
<1>8. ASSUME NEW a \in Attrs, NEW v \in Values, RemoteSet(a, v) PROVE UndoInv'
  BY <1>8 DEF RemoteSet, UndoInv, Alone
<1> QED
  BY <1>1, <1>2, <1>3, <1>4, <1>5, <1>6, <1>7, <1>8 DEF Next

LEMMA UndoInvInit == ASSUME Init PROVE UndoInv
<1>1. undo = <<>> /\ redo = <<>> /\ shown = AtStart
  BY DEF Init
<1>2. AtStart \in States
  BY <1>1, InitKeeps, StacksType
<1> QED
  BY <1>1, <1>2, HereEmpty, OnEmpty DEF UndoInv, PathInv

-----------------------------------------------------------------------------
(* A path ends where the last command that sets an attribute left it. *)

SetLast(t, n, s, v) ==
  \E j \in 1..n : t[j].attr = s /\ t[j].value = v /\ \A l \in 1..n : l > j => t[l].attr # s
Untouched(t, n, s) == \A l \in 1..n : t[l].attr # s

LEMMA LeadsLast ==
  ASSUME NEW f, NEW t \in Seq(Commands), NEW g, Leads(f, t, g), NEW s \in Shown
  PROVE  SetLast(t, Len(t), s, g[s]) \/ (Untouched(t, Len(t), s) /\ g[s] = f[s])
<1>1. PICK p : Path(p, f, t, g)
  BY DEF Leads
<1>2. PICK n \in Nat : n = Len(t)
  OBVIOUS
<1> DEFINE So(k) == SetLast(t, k, s, p[k][s]) \/ (Untouched(t, k, s) /\ p[k][s] = f[s])
           holds == {k \in 0..n : So(k)}
<1>3. 0 \in holds
  BY <1>1 DEF Path, Untouched
<1>4. \A k \in 1..n : k - 1 \in holds => k \in holds
  <2> SUFFICES ASSUME NEW k \in 1..n, So(k - 1) PROVE So(k)
    OBVIOUS
  <2>1. /\ p[k] = [p[k - 1] EXCEPT ![t[k].attr] = t[k].value] /\ p[k - 1] \in States
        /\ t[k] \in Commands
    <3>1. t[k] \in Commands
      BY <1>2
    <3>2. Step(p[k - 1], t[k], p[k])
      BY <1>1, <1>2 DEF Path
    <3>3. p[k - 1] \in States
      <4>1. k - 1 \in 0..n
        OBVIOUS
      <4> QED
        BY <1>1, <1>2, <4>1 DEF Path
    <3> QED
      BY <3>1, <3>2, <3>3 DEF Step
  <2>2. CASE t[k].attr = s
    <3>1. p[k][s] = t[k].value
      BY <2>1, <2>2 DEF States
    <3>2. SetLast(t, k, s, p[k][s])
      BY <2>2, <3>1 DEF SetLast
    <3> QED
      BY <3>2
  <2>3. CASE t[k].attr # s
    <3>1. p[k][s] = p[k - 1][s]
      BY <2>1, <2>3 DEF States
    <3>2. PICK x : x = p[k - 1][s]
      OBVIOUS
    <3>3. ASSUME SetLast(t, k - 1, s, x) PROVE SetLast(t, k, s, x)
      <4>1. PICK j \in 1..(k - 1) : t[j].attr = s /\ t[j].value = x
                                    /\ \A l \in 1..(k - 1) : l > j => t[l].attr # s
        BY <3>3 DEF SetLast
      <4>2. j \in 1..k
        OBVIOUS
      <4>3. \A l \in 1..k : l > j => t[l].attr # s
        BY <2>3, <4>1
      <4> QED
        BY <4>1, <4>2, <4>3 DEF SetLast
    <3>4. ASSUME Untouched(t, k - 1, s) PROVE Untouched(t, k, s)
      BY <2>3, <3>4 DEF Untouched
    <3> QED
      BY <3>1, <3>2, <3>3, <3>4
  <2> QED
    BY <2>2, <2>3
<1>5. n \in holds
  <2> HIDE DEF holds
  <2>1. 0..n \subseteq holds
    BY <1>3, <1>4, Onwards
  <2> QED
    BY <2>1
<1> QED
  BY <1>1, <1>2, <1>5 DEF Path

SetsLastIn(stack, n, s, v) ==
  \E i \in 1..n : /\ SetLast(stack[i], Len(stack[i]), s, v)
                  /\ \A k \in 1..n : k > i => Untouched(stack[k], Len(stack[k]), s)
UntouchedIn(stack, n, s) == \A k \in 1..n : Untouched(stack[k], Len(stack[k]), s)

LEMMA HereLast ==
  ASSUME NEW stack \in Seq(Transactions), NEW v, LeadsHere(stack, v), NEW s \in Shown
  PROVE  \/ SetsLastIn(stack, Len(stack), s, v[s])
         \/ UntouchedIn(stack, Len(stack), s) /\ v[s] = AtStart[s]
<1>1. PICK h : Back(h, stack, v)
  BY DEF LeadsHere
<1>2. PICK n \in Nat : n = Len(stack)
  OBVIOUS
<1> DEFINE So(k) == \/ SetsLastIn(stack, k, s, h[k][s])
                    \/ UntouchedIn(stack, k, s) /\ h[k][s] = AtStart[s]
           holds == {k \in 0..n : So(k)}
<1>3. 0 \in holds
  BY <1>1 DEF Back, UntouchedIn
<1>4. \A k \in 1..n : k - 1 \in holds => k \in holds
  <2> SUFFICES ASSUME NEW k \in 1..n, So(k - 1) PROVE So(k)
    OBVIOUS
  <2>1. PICK t : t = stack[k]
    OBVIOUS
  <2>2. Leads(h[k - 1], t, h[k]) /\ t \in Seq(Commands)
    BY <1>1, <1>2, <2>1 DEF Back, Transactions
  <2>3. SetLast(t, Len(t), s, h[k][s]) \/ (Untouched(t, Len(t), s) /\ h[k][s] = h[k - 1][s])
    BY <2>2, LeadsLast
  <2>4. CASE SetLast(t, Len(t), s, h[k][s])
    <3>1. SetsLastIn(stack, k, s, h[k][s])
      BY <2>1, <2>4 DEF SetsLastIn
    <3> QED
      BY <3>1
  <2>5. CASE Untouched(t, Len(t), s) /\ h[k][s] = h[k - 1][s]
    <3>1. PICK x : x = h[k - 1][s]
      OBVIOUS
    <3>2. ASSUME SetsLastIn(stack, k - 1, s, x) PROVE SetsLastIn(stack, k, s, x)
      <4>1. PICK i \in 1..(k - 1) :
              /\ SetLast(stack[i], Len(stack[i]), s, x)
              /\ \A l \in 1..(k - 1) : l > i => Untouched(stack[l], Len(stack[l]), s)
        BY <3>2 DEF SetsLastIn
      <4>2. i \in 1..k
        OBVIOUS
      <4>3. \A l \in 1..k : l > i => Untouched(stack[l], Len(stack[l]), s)
        BY <2>1, <2>5, <4>1
      <4> QED
        BY <4>1, <4>2, <4>3 DEF SetsLastIn
    <3>3. ASSUME UntouchedIn(stack, k - 1, s) PROVE UntouchedIn(stack, k, s)
      <4>1. ASSUME NEW l \in 1..k PROVE Untouched(stack[l], Len(stack[l]), s)
        <5>1. l = k \/ l \in 1..(k - 1)
          OBVIOUS
        <5> QED
          BY <2>1, <2>5, <3>3, <5>1 DEF UntouchedIn
      <4> QED
        BY <4>1 DEF UntouchedIn
    <3> QED
      BY <2>5, <3>1, <3>2, <3>3
  <2> QED
    BY <2>3, <2>4, <2>5
<1>5. n \in holds
  <2> HIDE DEF holds
  <2>1. 0..n \subseteq holds
    BY <1>3, <1>4, Onwards
  <2> QED
    BY <2>1
<1> QED
  BY <1>1, <1>2, <1>5 DEF Back

LEMMA HereReplayed ==
  ASSUME NEW stack \in Seq(Transactions), NEW v, LeadsHere(stack, v), NEW s \in Shown
  PROVE  Replayed(stack, s, v[s])
<1>1. PICK n \in Nat : n = Len(stack) /\ DOMAIN stack = 1..n
  OBVIOUS
<1>2. \A k \in 1..n : DOMAIN stack[k] = 1..Len(stack[k])
  BY <1>1 DEF Transactions
<1>3. CASE SetsLastIn(stack, n, s, v[s])
  <2>1. PICK i \in 1..n : /\ SetLast(stack[i], Len(stack[i]), s, v[s])
                          /\ \A k \in 1..n : k > i => Untouched(stack[k], Len(stack[k]), s)
    BY <1>3 DEF SetsLastIn
  <2>2. PICK j \in 1..Len(stack[i]) :
          /\ stack[i][j].attr = s /\ stack[i][j].value = v[s]
          /\ \A l \in 1..Len(stack[i]) : l > j => stack[i][l].attr # s
    BY <2>1 DEF SetLast
  <2>3. \A k \in 1..n : k > i => \A l \in 1..Len(stack[k]) : stack[k][l].attr # s
    BY <2>1 DEF Untouched
  <2>4. PICK x : x = v[s]
    OBVIOUS
  <2>5. /\ i \in DOMAIN stack /\ j \in DOMAIN stack[i]
        /\ stack[i][j].attr = s /\ stack[i][j].value = x
        /\ \A l \in DOMAIN stack[i] : l > j => ~(stack[i][l].attr = s)
        /\ \A k \in DOMAIN stack : k > i => \A l \in DOMAIN stack[k] : ~(stack[k][l].attr = s)
    BY <1>1, <1>2, <2>2, <2>3, <2>4
  <2>6. Replayed(stack, s, x)
    BY <2>5 DEF Replayed
  <2> QED
    BY <2>4, <2>6
<1>4. CASE UntouchedIn(stack, n, s) /\ v[s] = AtStart[s]
  <2>1. \A k \in 1..n : \A l \in 1..Len(stack[k]) : stack[k][l].attr # s
    BY <1>4 DEF UntouchedIn, Untouched
  <2> QED
    BY <1>1, <1>2, <1>4, <2>1 DEF Replayed
<1> QED
  BY <1>1, <1>3, <1>4, HereLast

-----------------------------------------------------------------------------
(* The stacks are paths from the start to what is shown, and on from it.   *)
THEOREM UndoInvariant == Spec => []UndoInv
<1>1. Inv /\ UndoInv /\ [Next]_vars => UndoInv'
  <2> SUFFICES ASSUME Inv, UndoInv, [Next]_vars PROVE UndoInv'
    OBVIOUS
  <2>1. CASE UNCHANGED vars
    BY <2>1, StillLeads DEF vars, guiVars
  <2> QED
    BY <2>1, UndoInvStep
<1> QED  BY <1>1, MirrorInvariant, UndoInvInit, PTL DEF Spec

(* The transactions that can be undone lead from the start to what is      *)
(* shown, so doUndo leads back to what was shown before.                   *)
THEOREM UndoingLeadsBack == Spec => []UndoLeadsBack
<1>1. Inv /\ UndoInv => UndoLeadsBack
  <2> SUFFICES ASSUME Inv, UndoInv, foreign = {}, ~amended, NEW s \in Shown
               PROVE  Replayed(undo, s, shown[s])
    BY DEF UndoLeadsBack
  <2>1. LeadsHere(undo, shown) /\ undo \in Seq(Transactions)
    BY StacksType DEF UndoInv, Alone, PathInv
  <2> QED
    BY <2>1, HereReplayed
<1> QED  BY <1>1, MirrorInvariant, UndoInvariant, PTL
===============================================================================
