------------------------------- MODULE GuiMirror -------------------------------
(***************************************************************************)
(* The gui's copy of the server's attributes.  The gui (one thread) shows  *)
(* a change at once, queues the call that tells the server, and hears of   *)
(* every change in datagrams: it ignores the echo of its own set commands, *)
(* unless the attribute was last changed by someone else.  It keeps undo   *)
(* and redo stacks, and a flag that says that the project is modified.     *)
(*                                                                         *)
(* The calls are set commands of module attributes and saves.  The server  *)
(* serves them in the order they are sent, each under its lock.            *)
(***************************************************************************)
EXTENDS Naturals, Sequences, SequencesExt, FiniteSets

CONSTANTS
  Attrs,      (* the paths of module attributes *)
  Values,     (* what they may be *)
  Default,    (* what they are at first *)
  Budgets     (* bounds: how often each thing happens, in one run or another *)

Deeds == {"edits", "undos", "redos", "saves", "remotes", "losses", "alerts"}

ASSUME GuiMirrorAssumption ==
  Default \in Values /\ {"modified", "none"} \cap Attrs = {} /\ Budgets \subseteq [Deeds -> Nat]

Modified == "modified"  (* isProjectModified, which commands set as well *)
Shown == Attrs \cup {Modified}
None == "none"

VARIABLES
  shown,     (* IntegraModel: the attributes, and isProjectModified *)
  touched,   (* _attributesLastTouchedRemotely *)
  pending,   (* _setCommandQueue: values by path *)
  previous,  (* _previousServerCommand: the attribute it sets *)
  queue,     (* _queuedCalls *)
  sending,   (* _queuedCallBeingProcessed: the last call that was sent *)
  undo, redo,(* the undo manager's stacks of transactions *)
  modal,     (* isInModalState *)
  arriving,  (* calls on their way to the server *)
  replies,   (* methods answered, on their way back *)
  notes,     (* datagrams on their way to the gui *)
  server,    (* the server's values *)
  file,      (* what the last save wrote ... *)
  meant,     (* ... and what the gui showed when it was asked for *)
  left,      (* what remains of the run's budget *)
  unsure,    (* attributes the gui may show wrongly; see InStep *)
  foreign,   (* attributes that were set remotely *)
  amended    (* a command joined a transaction while others could be redone *)

guiVars == <<shown, touched, pending, previous, queue, sending, undo, redo, modal>>
vars == <<guiVars, arriving, replies, notes, server, file, meant, left,
          unsure, foreign, amended>>

AtFirst == [a \in Attrs |-> Default]
AtStart == [s \in Shown |-> IF s = Modified THEN FALSE ELSE Default]

Init ==
  /\ shown = AtStart
  /\ touched = {} /\ pending = <<>> /\ previous = None
  /\ queue = <<>> /\ sending = FALSE /\ undo = <<>> /\ redo = <<>> /\ modal = FALSE
  /\ arriving = <<>> /\ replies = <<>> /\ notes = <<>>
  /\ server = AtFirst /\ file = AtFirst /\ meant = AtFirst
  /\ left \in Budgets
  /\ unsure = {} /\ foreign = {} /\ amended = FALSE

Spend(deed) == left[deed] > 0 /\ left' = [left EXCEPT ![deed] = @ - 1]

AttrsOf(f) == [a \in Attrs |-> f[a]]
SetCall(a, v) == [method |-> "set", attr |-> a, value |-> v]
SaveCall == [method |-> "save", shown |-> AttrsOf(shown)]
SetsOf(a, calls) == Cardinality({i \in DOMAIN calls :
                      calls[i].method = "set" /\ calls[i].attr = a})

-----------------------------------------------------------------------------
(* Calls.  What the gui does to them is a function of these parts of it.   *)

Now == [shown |-> shown, touched |-> touched, previous |-> previous, queue |-> queue,
        sending |-> sending, arriving |-> arriving]

Becomes(g) ==
  /\ shown' = g.shown /\ touched' = g.touched /\ previous' = g.previous
  /\ queue' = g.queue /\ sending' = g.sending /\ arriving' = g.arriving

CallQueued(g, call) ==
  IF g.sending THEN [g EXCEPT !.queue = Append(@, call)]
  ELSE [g EXCEPT !.sending = TRUE, !.arriving = Append(@, call)]

RemoveLastQueuedCommand(g) ==
  IF g.queue = <<>> THEN g ELSE [g EXCEPT !.queue = Front(@)]

(* A variant that takes any two commands of a class for one. *)
ReplacesSameClass(a, before) == before # None

(* canReplacePreviousCommand *)
Replaces(a, before) == a = before

(* innerProcessMethod, for a command that sets s to v. *)
InnerProcess(g, s, v) ==
  IF s = Modified THEN [g EXCEPT !.shown[s] = v]
  ELSE LET kept == IF Replaces(s, g.previous) THEN RemoveLastQueuedCommand(g) ELSE g
       IN  CallQueued([kept EXCEPT !.previous = s, !.touched = @ \ {s}, !.shown[s] = v],
                      SetCall(s, v))

-----------------------------------------------------------------------------
(* Transactions: sequences of commands with their inverses. *)

Command(s, v, old) == [attr |-> s, value |-> v, old |-> old]

(* A variant that takes the inverse of the newer command. *)
PushKeepsNew(commands, c) ==
  IF commands # <<>> /\ c.attr # Modified /\ Last(commands).attr = c.attr
    THEN Append(Front(commands), c)
    ELSE Append(commands, c)

(* pushUndoList: a command replaces the one before, and takes its inverse. *)
PushUndoList(commands, c) ==
  IF commands # <<>> /\ c.attr # Modified /\ Last(commands).attr = c.attr
    THEN Append(Front(commands), [c EXCEPT !.old = Last(commands).old])
    ELSE Append(commands, c)

Extended(stack, c) == Append(Front(stack), PushUndoList(Last(stack), c))

(* storeCommand: fresh when neither the mouse capture nor the timer joins  *)
(* the command to the last transaction.                                    *)
Store(c, fresh) ==
  IF fresh
    THEN /\ undo' = Append(undo, <<c>>)
         /\ redo' = <<>>
         /\ UNCHANGED amended
    ELSE /\ undo' = Extended(undo, c)
         /\ UNCHANGED redo
         /\ amended' = (amended \/ redo # <<>>)

-----------------------------------------------------------------------------
(* The gui *)

(* A variant that processes what is pending afterwards. *)
FlushedLate == shown

(* flushProcessQueue: what is pending is shown, or dropped.                *)
Flushed ==
  IF modal THEN shown
  ELSE [s \in Shown |-> IF s \in DOMAIN pending THEN pending[s] ELSE shown[s]]

(* processCommand for a SetModuleAttribute.  Whether it would change       *)
(* anything is looked at before what is pending is processed.  The first   *)
(* command since the project was saved is followed by SetProjectModified,  *)
(* which joins its transaction.                                            *)
Edit(a, v, fresh) ==
  /\ ~modal /\ Spend("edits")
  /\ v # shown[a]
  /\ undo = <<>> => fresh
  /\ LET before == [Now EXCEPT !.shown = Flushed,
                               !.previous = IF fresh THEN None ELSE @]
         after == InnerProcess(before, a, v)
         set == Command(a, v, before.shown[a])
         modify == Command(Modified, TRUE, FALSE)
         joined == IF fresh THEN Append(undo, <<set>>) ELSE Extended(undo, set)
     IN  /\ Becomes(InnerProcess(after, Modified, TRUE))
         /\ undo' = IF before.shown[Modified] THEN joined ELSE Extended(joined, modify)
  /\ redo' = IF fresh THEN <<>> ELSE redo
  /\ amended' = (amended \/ (~fresh /\ redo # <<>>))
  /\ pending' = <<>>
  /\ unsure' = unsure \ {a}
  /\ UNCHANGED <<modal, replies, notes, server, file, meant, foreign>>

(* A local change of what is still pending is overwritten by it later.     *)
Overtaken(commands) == {c.attr : c \in Range(commands)} \cap DOMAIN pending
Reset(commands) == {c.attr : c \in Range(commands)}

Processed(commands) ==
  LET after[i \in 0..Len(commands)] ==
        IF i = 0 THEN Now
        ELSE InnerProcess(after[i - 1], commands[i].attr, commands[i].value)
  IN  after[Len(commands)]

Inverted(c) == Command(c.attr, c.old, c.value)

Undone(commands) ==
  Processed([i \in DOMAIN commands |-> Inverted(commands[Len(commands) + 1 - i])])

Redone(commands) == Processed(commands)

Undo ==
  /\ ~modal /\ Spend("undos") /\ undo # <<>>
  /\ undo' = Front(undo) /\ redo' = Append(redo, Last(undo))
  /\ Becomes(Undone(Last(undo)))
  /\ unsure' = (unsure \ Reset(Last(undo))) \cup Overtaken(Last(undo))
  /\ UNCHANGED <<pending, modal, replies, notes, server, file, meant, foreign, amended>>

Redo ==
  /\ ~modal /\ Spend("redos") /\ redo # <<>>
  /\ redo' = Front(redo) /\ undo' = Append(undo, Last(redo))
  /\ Becomes(Redone(Last(redo)))
  /\ unsure' = (unsure \ Reset(Last(redo))) \cup Overtaken(Last(redo))
  /\ UNCHANGED <<pending, modal, replies, notes, server, file, meant, foreign, amended>>

(* saveProject does not pass through processCommand. *)
SaveProject ==
  /\ ~modal /\ Spend("saves")
  /\ Becomes(CallQueued(Now, SaveCall))
  /\ UNCHANGED <<pending, undo, redo, modal, replies, notes, server, file, meant,
                 unsure, foreign, amended>>

(* The question that saveModified asks; meanwhile what is remote is lost.  *)
Ask ==
  /\ ~modal /\ shown[Modified] /\ Spend("alerts")
  /\ modal' = TRUE
  /\ UNCHANGED <<shown, touched, pending, previous, queue, sending, undo, redo, arriving,
                 replies, notes, server, file, meant, unsure, foreign, amended>>

Answered ==
  /\ modal /\ modal' = FALSE
  /\ UNCHANGED <<shown, touched, pending, previous, queue, sending, undo, redo, arriving,
                 replies, notes, server, file, meant, left, unsure, foreign, amended>>

(* The timer of RemoteCommandHandler. *)
ProcessQueueTimer ==
  /\ pending # <<>> /\ pending' = <<>>
  /\ shown' = Flushed
  /\ unsure' = IF modal THEN unsure \cup DOMAIN pending ELSE unsure
  /\ UNCHANGED <<touched, previous, queue, sending, undo, redo, modal, arriving,
                 replies, notes, server, file, meant, left, foreign, amended>>

(* A variant that does not send the next call. *)
FinishedIdle == queue' = queue /\ sending' = FALSE /\ arriving' = arriving

(* callFinished: the next call is sent. *)
Finished ==
  IF queue = <<>>
    THEN sending' = FALSE /\ UNCHANGED <<queue, arriving>>
    ELSE queue' = Tail(queue) /\ arriving' = Append(arriving, Head(queue)) /\ sending' = TRUE

(* saveProjectHandler: a command that has no transaction of its own unless *)
(* there is none, and which does not process what is pending.              *)
ProjectSaved ==
  IF shown[Modified]
    THEN /\ shown' = [shown EXCEPT ![Modified] = FALSE]
         /\ previous' = IF undo = <<>> THEN None ELSE previous
         /\ Store(Command(Modified, FALSE, TRUE), undo = <<>>)
    ELSE UNCHANGED <<shown, previous, undo, redo, amended>>

(* An answer that comes after its call has timed out leaves the queue be.  *)
Complete ==
  /\ replies # <<>> /\ replies' = Tail(replies)
  /\ IF sending /\ Len(arriving) + Len(replies) = 1
       THEN Finished ELSE UNCHANGED <<queue, sending, arriving>>
  /\ IF Head(replies) = "save"
       THEN ProjectSaved ELSE UNCHANGED <<shown, previous, undo, redo, amended>>
  /\ UNCHANGED <<touched, pending, modal, notes, server, file, meant, left, unsure, foreign>>

(* onQueuedCallTimeout *)
Timeout ==
  /\ sending /\ Finished
  /\ UNCHANGED <<shown, touched, pending, previous, undo, redo, modal, replies, notes,
                 server, file, meant, left, unsure, foreign, amended>>

(* commandSet.  OwnOnTheWay counts set commands of the gui that the server *)
(* executes after the one this datagram is about.                          *)
OwnOnTheWay(a) ==
  SetsOf(a, queue) + SetsOf(a, arriving)
    + Cardinality({i \in 2..Len(notes) : notes[i].attr = a /\ ~notes[i].remote})

CommandSet ==
  /\ notes # <<>> /\ notes' = Tail(notes)
  /\ LET note == Head(notes)
         a == note.attr
         process == note.remote \/ a \in touched
     IN  /\ touched' = IF note.remote THEN touched \cup {a} ELSE touched \ {a}
         /\ pending' = IF process /\ ~modal
                         THEN [p \in DOMAIN pending \cup {a} |->
                                 IF p = a THEN note.value ELSE pending[p]]
                         ELSE pending
         /\ unsure' = IF (process /\ modal) \/ (note.remote /\ OwnOnTheWay(a) > 1)
                        THEN unsure \cup {a}
                        ELSE IF note.remote THEN unsure \ {a} ELSE unsure
  /\ UNCHANGED <<shown, previous, queue, sending, undo, redo, modal, arriving, replies,
                 server, file, meant, left, foreign, amended>>

-----------------------------------------------------------------------------
(* The server, and those who set attributes there. *)

Note(a, v, remote) == [attr |-> a, value |-> v, remote |-> remote]

(* No set is refused: Attrs are there throughout, and Values are of their  *)
(* types and fit their constraints.                                        *)
Serve ==
  /\ arriving # <<>> /\ arriving' = Tail(arriving)
  /\ replies' = Append(replies, Head(arriving).method)
  /\ LET call == Head(arriving)
     IN  IF call.method = "set"
           THEN /\ server' = [server EXCEPT ![call.attr] = call.value]
                /\ notes' = Append(notes, Note(call.attr, call.value, FALSE))
                /\ UNCHANGED <<file, meant>>
           ELSE /\ file' = server /\ meant' = call.shown
                /\ UNCHANGED <<server, notes>>
  /\ UNCHANGED <<guiVars, left, unsure, foreign, amended>>

RemoteSet(a, v) ==
  /\ Spend("remotes")
  /\ server' = [server EXCEPT ![a] = v]
  /\ notes' = Append(notes, Note(a, v, TRUE))
  /\ foreign' = foreign \cup {a}
  /\ UNCHANGED <<guiVars, arriving, replies, file, meant, unsure, amended>>

(* A datagram that finds the gui's buffer full is gone. *)
Lose ==
  /\ notes # <<>> /\ notes' = Tail(notes) /\ Spend("losses")
  /\ unsure' = unsure \cup {Head(notes).attr}
  /\ UNCHANGED <<guiVars, arriving, replies, server, file, meant, foreign, amended>>

-----------------------------------------------------------------------------
Next ==
  \/ \E a \in Attrs, v \in Values, fresh \in BOOLEAN : Edit(a, v, fresh)
  \/ Undo \/ Redo
  \/ SaveProject
  \/ Ask \/ Answered
  \/ ProcessQueueTimer
  \/ Complete \/ Timeout
  \/ CommandSet
  \/ Serve
  \/ \E a \in Attrs, v \in Values : RemoteSet(a, v)
  \/ Lose

(* Nothing is assumed of the server: each call is sent with a timer.       *)
Spec == Init /\ [][Next]_vars /\ WF_vars(Timeout)

-----------------------------------------------------------------------------
(* Properties *)

Quiet ==
  /\ ~sending /\ queue = <<>> /\ arriving = <<>> /\ replies = <<>>
  /\ notes = <<>> /\ pending = <<>>

(* When nothing is under way any more, the gui shows what the server has,  *)
(* in whatever order calls, echoes, other parties' changes, undo and time- *)
(* outs crossed.  The exceptions are the attributes of which, since the    *)
(* gui last changed them, a datagram was lost, or came while a question    *)
(* was open, or came from elsewhere while two of the gui's own commands    *)
(* were on their way, or was still pending when they were undone.          *)
InStep == Quiet => \A a \in Attrs \ unsure : shown[a] = server[a]

(* A save that is executed writes what the gui showed when it was asked    *)
(* for: no earlier change is missing and no later one is in the file,      *)
(* although commands are dropped from the queue that it waits in.          *)
SaveTakesItsMoment == \A a \in Attrs \ foreign : file[a] = meant[a]

(* The last command of s in the stack sets it to v, or there is none.      *)
Replayed(stack, s, v) ==
  LET Sets(i, j) == stack[i][j].attr = s
  IN  \/ \E i \in DOMAIN stack : \E j \in DOMAIN stack[i] :
           /\ Sets(i, j) /\ stack[i][j].value = v
           /\ \A l \in DOMAIN stack[i] : l > j => ~Sets(i, l)
           /\ \A k \in DOMAIN stack : k > i => \A l \in DOMAIN stack[k] : ~Sets(k, l)
      \/ /\ v = AtStart[s]
         /\ \A k \in DOMAIN stack : \A l \in DOMAIN stack[k] : ~Sets(k, l)

(* While nobody else changes anything, the transactions that can be undone *)
(* lead from the start to what is shown: so undoing one leads back to what *)
(* was shown before it, however commands were merged in it.                *)
UndoLeadsBack == foreign = {} /\ ~amended => \A s \in Shown : Replayed(undo, s, shown[s])

(* A call does not wait for ever for a server that does not answer.        *)
CallsLeave == queue # <<>> ~> queue = <<>>
=============================================================================
