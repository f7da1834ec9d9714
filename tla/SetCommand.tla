------------------------------ MODULE SetCommand ------------------------------
(***************************************************************************)
(* The set command and what it sets off: connections to other control      *)
(* endpoints, and the activation of what is in a container.  Each of these *)
(* issues set commands of its own, from within; the calls are a stack, and *)
(* CReentranceChecker ends their recursion.  All of it runs in one thread, *)
(* under the server's lock, while the tree stays as it is.                 *)
(***************************************************************************)
EXTENDS Naturals, Sequences

CONSTANTS
  Nodes, Kind,  (* the tree; a kind is "container", "connection" or "module" *)
  Order,        (* all nodes, upper levels first and siblings by name *)
  Parent,       (* the container of a node, if it has one *)
  Above,        (* all the containers a node is in *)
  Endpoints,  (* control endpoints *)
  OwnerOf,    (* the node of an endpoint *)
  ActiveOf,   (* the "active" endpoint of a node, if it has one *)
  None,       (* no node, no endpoint or no value *)
  Allowed,    (* the values that an endpoint's constraint lets pass *)
  Bangs,      (* endpoints without a value *)
  Hosted,     (* endpoints that are sent to the host *)
  Settable,   (* those that the api's user sets *)
  Played,     (* those that the module itself sets, in the host *)
  Wirings,    (* bound: the ways in which the connections may be set up *)
  MaxFeedback,  (* bound: changes by modules on their way, in each of them *)
  Beginnings  (* bound: the values to begin with *)

ASSUME SetCommandAssumption ==
  /\ \A n \in Nodes : Above[n] = IF Parent[n] = None THEN {} ELSE {Parent[n]} \cup Above[Parent[n]]
  /\ None \notin Nodes \cup Endpoints /\ None \notin UNION {Allowed[e] : e \in Endpoints}
  /\ OwnerOf \in [Endpoints -> Nodes] /\ ActiveOf \in [Nodes -> Endpoints \cup {None}]
  /\ Order \in Seq(Nodes) /\ Kind \in [Nodes -> {"container", "connection", "module"}]
  /\ Bangs \cup Hosted \cup Settable \subseteq Endpoints
  /\ Played \subseteq Hosted \ Bangs /\ MaxFeedback \in [Wirings -> Nat]
  /\ \A b \in Beginnings : DOMAIN b = Endpoints /\ \A e \in Endpoints \ Bangs : b[e] \in Allowed[e]
  /\ \A w \in Wirings : \A c \in DOMAIN w :
       c \in Nodes /\ w[c] \in [source : Endpoints, target : Endpoints \cup {None}]

(* Nodes are in no circle.  What is a container or has an "active"         *)
(* endpoint is in containers only (CLogic::can_be_child_of), and in every  *)
(* interface definition that has one it is an integer from 0 to 1.         *)
ASSUME TreeAssumption ==
  /\ Parent \in [Nodes -> Nodes \cup {None}]
  /\ \A some \in SUBSET Nodes : some # {} => \E n \in some : Parent[n] \notin some
  /\ \A n \in Nodes : \E i \in 1..Len(Order) : Order[i] = n
  /\ \A n \in Nodes : Parent[n] # None /\ (Kind[n] = "container" \/ ActiveOf[n] # None) =>
       Kind[Parent[n]] = "container"
  /\ \A n \in Nodes : ActiveOf[n] # None =>
       /\ OwnerOf[ActiveOf[n]] = n /\ ActiveOf[n] \notin Bangs
       /\ Allowed[ActiveOf[n]] = {0, 1}

VARIABLES
  wiring,   (* for each connection its source and its target, never changed *)
  values,   (* the values of the endpoints *)
  host,     (* those that the host has *)
  checker,  (* CReentranceChecker's m_map_endpoint_to_source *)
  stack,    (* set commands under way, outermost first *)
  feedback, (* changes by modules, on their way from the host in a queue *)
  batched,  (* how many of them handle_queue_items has yet to deal with *)
  changed,  (* history: what the last command of the api or host has set *)
  astray    (* history: endpoints of the host that may keep another value *)

tree == <<wiring, values, checker, stack, changed>>
queue == <<feedback, batched>>
vars == <<tree, queue, host, astray>>

Init ==
  /\ wiring \in Wirings
  /\ values \in Beginnings
  /\ host = [e \in Hosted |-> values[e]]
  /\ checker = [e \in {} |-> None]
  /\ stack = <<>>
  /\ feedback = <<>> /\ batched = 0
  /\ changed = {} /\ astray = {}

-----------------------------------------------------------------------------
(* Nodes and endpoints *)

(* Nodes in the order of all. *)
InOrder(some) ==
  LET upTo[i \in 0..Len(Order)] ==
        IF i = 0 THEN <<>>
        ELSE IF Order[i] \in some THEN Append(upTo[i - 1], Order[i]) ELSE upTo[i - 1]
  IN  upTo[Len(Order)]

Children(n) == InOrder({m \in Nodes : Parent[m] = n})

NodeIsActive(n) == IF ActiveOf[n] = None THEN TRUE ELSE values[ActiveOf[n]] # 0

AllAncestorsActive(n) == \A a \in Above[n] : NodeIsActive(a)

IsActiveOf(e, kinds) == ActiveOf[OwnerOf[e]] = e /\ Kind[OwnerOf[e]] \in kinds

(* What a connection from s sets t to: the value of s, or after a bang the *)
(* value that t has.  Where t has a list of allowed states it is no other: *)
(* quantize_to_allowed_states assigns the nearest of them by CValue's own  *)
(* operator=, which is not virtual and copies nothing.                     *)
Converted(s, t) ==
  CASE t \in Bangs -> None
    [] s \in Bangs -> values[t]
    [] OTHER       -> values[s]

-----------------------------------------------------------------------------
(* CReentranceChecker *)

(* A variant that does not count connections among the causes of recursion.*)
CaresExceptConnection(source) == source = "SYSTEM"

CaresAboutSource(source) == source \in {"SYSTEM", "CONNECTION"}

(* push returns true: one of those is already setting the endpoint. *)
Reentrance(e, source) ==
  CaresAboutSource(source) /\ e \in DOMAIN checker /\ CaresAboutSource(checker[e])

-----------------------------------------------------------------------------
(* CSetCommand::execute *)

(* What is left to do in a set command: fire a connection, begin with the  *)
(* children of a container, activate a node or what is below it, or set an *)
(* activated node once more.                                               *)
Item(do, n, flag) == [do |-> do, node |-> n, flag |-> flag]

(* A variant that looks at the siblings of the endpoint's node only. *)
FiredBeside(e) ==
  LET found == InOrder({c \in DOMAIN wiring :
                          wiring[c].source = e /\ Parent[c] = Parent[OwnerOf[e]]})
  IN  [i \in 1..Len(found) |-> Item("fire", found[i], FALSE)]

(* handle_connections: those on the upper levels are evaluated first.      *)
Fired(e) ==
  LET found == InOrder({c \in DOMAIN wiring : wiring[c].source = e})
  IN  [i \in 1..Len(found) |-> Item("fire", found[i], FALSE)]

Todo(e) ==
  Fired(e) \o IF IsActiveOf(e, {"container"})
                THEN <<Item("handler", OwnerOf[e], FALSE)>> ELSE <<>>

Conforms(e, v) == IF e \in Bangs THEN v = None ELSE v \in Allowed[e]

(* The wrong type, a module that is not active, a constraint, reentrance.  *)
Refused(e, v, source) ==
  \/ source = "MODULE_IMPLEMENTATION" /\ ~NodeIsActive(OwnerOf[e])
  \/ ~Conforms(e, v)
  \/ Reentrance(e, source)

(* A variant that leaves out what connections have set. *)
SentFromApiOnly(e, source) == e \in Hosted \ Bangs /\ source # "CONNECTION"

ShouldSendToHost(e, source) == e \in Hosted \ Bangs /\ source # "MODULE_IMPLEMENTATION"

(* The command, up to CLogic::handle_set; caller is the stack as it is     *)
(* while the command runs.  The notification sink does not change a thing. *)
Set(e, v, source, caller) ==
  /\ IF Refused(e, v, source)
       THEN stack' = caller /\ UNCHANGED <<values, checker>>
       ELSE /\ values' = IF v = None THEN values ELSE [values EXCEPT ![e] = v]
            /\ checker' = [f \in DOMAIN checker \cup {e} |->
                           IF f = e THEN source ELSE checker[f]]
            /\ stack' = Append(caller, [endpoint |-> e, source |-> source,
                                       todo |-> Todo(e), again |-> <<>>])
  /\ changed' = (IF caller = <<>> THEN {} ELSE changed)
                  \cup IF Refused(e, v, source) THEN {} ELSE {e}
  /\ UNCHANGED wiring

(* A change of the endpoint by its module has not arrived yet. *)
UnderWay(e) == \E i \in DOMAIN feedback : feedback[i].endpoint = e

(* The value goes to the host, which loses its own if that is under way.   *)
SendValue(e, v, source) ==
  IF ShouldSendToHost(e, source) /\ ~Refused(e, v, source)
    THEN /\ host' = [host EXCEPT ![e] = v]
         /\ astray' = IF UnderWay(e) THEN astray \cup {e} ELSE astray \ {e}
    ELSE UNCHANGED <<host, astray>>

(* A user of the api. *)
ApiSet(e, v) ==
  /\ stack = <<>> /\ batched = 0
  /\ Set(e, v, "PUBLIC_API", <<>>)
  /\ SendValue(e, v, "PUBLIC_API")
  /\ UNCHANGED queue

-----------------------------------------------------------------------------
(* What modules change in the host *)

(* A module changes an endpoint of its own, in the audio callback, which   *)
(* puts the change in the feedback queue.  The server's lock is not asked  *)
(* for: this may happen while a command is under way.                      *)
ModuleChanges(e, v) ==
  /\ Len(feedback) < MaxFeedback[wiring]
  /\ host' = [host EXCEPT ![e] = v]
  /\ feedback' = Append(feedback, [endpoint |-> e, value |-> v])
  /\ astray' = astray \ {e}
  /\ UNCHANGED <<tree, batched>>

(* The queue's thread has the lock, for what was in the queue a while ago. *)
HandleQueueItems ==
  /\ stack = <<>> /\ batched = 0
  /\ batched' \in 1..Len(feedback)
  /\ UNCHANGED <<tree, feedback, host, astray>>

NextChange == Head(feedback)

(* merge_set_command: another change of the endpoint in the same batch.    *)
Overtaken == \E i \in 2..batched : feedback[i].endpoint = NextChange.endpoint

ChangeDone == feedback' = Tail(feedback) /\ batched' = batched - 1

MergeChange ==
  /\ stack = <<>> /\ batched > 0 /\ Overtaken
  /\ ChangeDone
  /\ UNCHANGED <<tree, host, astray>>

(* The host has the value already; a node that is not active ignores it.   *)
ModuleSet ==
  /\ stack = <<>> /\ batched > 0 /\ ~Overtaken
  /\ LET e == NextChange.endpoint
         v == NextChange.value
     IN  /\ Set(e, v, "MODULE_IMPLEMENTATION", <<>>)
         /\ astray' = IF Refused(e, v, "MODULE_IMPLEMENTATION")
                        THEN astray \cup {e} ELSE astray
  /\ ChangeDone
  /\ UNCHANGED host

-----------------------------------------------------------------------------
(* The rest of the command on top of the stack, one step at a time *)

Running == Len(stack)
Command == stack[Running]
First == Head(Command.todo)

Doing(do) == stack # <<>> /\ Command.todo # <<>> /\ First.do = do

(* The stack when the first thing to do is replaced by others. *)
Proceed(items) == [stack EXCEPT ![Running].todo = items \o Tail(@)]

Continue(items) ==
  stack' = Proceed(items) /\ UNCHANGED <<wiring, values, checker, changed, queue, host, astray>>

(* A set command from within, with the stack as the caller leaves it.      *)
Issue(e, v, source, caller) ==
  Set(e, v, source, caller) /\ SendValue(e, v, source) /\ UNCHANGED queue

(* A connection that is active and has a target. *)
FireConnection ==
  /\ Doing("fire")
  /\ LET t == wiring[First.node].target
     IN  /\ NodeIsActive(First.node) /\ t # None
         /\ Issue(t, Converted(Command.endpoint, t), "CONNECTION", Proceed(<<>>))

Skipped == ~NodeIsActive(First.node) \/ wiring[First.node].target = None

(* A variant that does not go on to the next connection. *)
SkipForever == Doing("fire") /\ Skipped /\ UNCHANGED vars

SkipConnection == Doing("fire") /\ Skipped /\ Continue(<<>>)

EachChild(do, n, flag) ==
  LET children == Children(n)
  IN  [i \in 1..Len(children) |-> Item(do, children[i], flag)]

(* active_handler: the flag is read once, before the children. *)
BeginActivation ==
  /\ Doing("handler")
  /\ Continue(EachChild("child", First.node, values[Command.endpoint] # 0))

(* A variant that looks at this container only. *)
FlagHere == First.flag

(* What a node is to be: a child depends on all the containers as well.    *)
Flag == First.flag /\ (First.do = "child" => AllAncestorsActive(OwnerOf[Command.endpoint]))

(* activate_tree, for a container. *)
Descend ==
  /\ Doing("child") \/ Doing("activate")
  /\ Kind[First.node] = "container"
  /\ Continue(EachChild("activate", First.node, Flag /\ NodeIsActive(First.node)))

(* True of a node that cannot be switched as well. *)
HasFlag(n, flag) ==
  IF ActiveOf[n] = None THEN TRUE ELSE values[ActiveOf[n]] = IF flag THEN 1 ELSE 0

(* activate_tree, for any other node that is as it should be already.      *)
LeaveNode ==
  /\ Doing("child") \/ Doing("activate")
  /\ Kind[First.node] # "container"
  /\ HasFlag(First.node, Flag)
  /\ Continue(EachChild("activate", First.node, Flag))

(* A variant that does not set what was activated once more. *)
ActivateOnce ==
  /\ Doing("child") \/ Doing("activate")
  /\ Kind[First.node] # "container"
  /\ ~HasFlag(First.node, Flag)
  /\ Issue(ActiveOf[First.node], IF Flag THEN 1 ELSE 0, "SYSTEM",
           Proceed(EachChild("activate", First.node, Flag)))

(* activate_tree, for one that is not. *)
ActivateNode ==
  /\ Doing("child") \/ Doing("activate")
  /\ Kind[First.node] # "container"
  /\ ~HasFlag(First.node, Flag)
  /\ Issue(ActiveOf[First.node], IF Flag THEN 1 ELSE 0, "SYSTEM",
           [Proceed(EachChild("activate", First.node, Flag)) EXCEPT
              ![Running].again = IF Flag THEN Append(@, First.node) ELSE @])

(* The end of active_handler: once more, now that all of them are active.  *)
ActivateAgain ==
  /\ stack # <<>> /\ Command.todo = <<>> /\ Command.again # <<>>
  /\ LET e == ActiveOf[Head(Command.again)]
     IN  Issue(e, values[e], "SYSTEM", [stack EXCEPT ![Running].again = Tail(@)])

(* A variant of Pop that forgets the endpoint's entry. *)
PopKeepsEntry ==
  /\ stack # <<>> /\ Command.todo = <<>> /\ Command.again = <<>>
  /\ stack' = SubSeq(stack, 1, Running - 1)
  /\ UNCHANGED <<wiring, values, checker, changed, queue, host, astray>>

(* The end of the command: CReentranceChecker::pop. *)
Pop ==
  /\ stack # <<>> /\ Command.todo = <<>> /\ Command.again = <<>>
  /\ stack' = SubSeq(stack, 1, Running - 1)
  /\ checker' = [e \in DOMAIN checker \ {Command.endpoint} |-> checker[e]]
  /\ UNCHANGED <<wiring, values, changed, queue, host, astray>>

Step ==
  \/ FireConnection \/ SkipConnection
  \/ BeginActivation \/ Descend \/ LeaveNode \/ ActivateNode \/ ActivateAgain
  \/ Pop

Next ==
  \/ \E e \in Settable : \E v \in Allowed[e] \cup {None} : ApiSet(e, v)
  \/ \E e \in Played : \E v \in Allowed[e] : ModuleChanges(e, v)
  \/ HandleQueueItems \/ MergeChange \/ ModuleSet
  \/ Step

Spec == Init /\ [][Next]_vars

(* The thread that executes a command goes on with it. *)
FairSpec == Spec /\ WF_vars(Step)

-----------------------------------------------------------------------------
(* Properties *)

Idle == stack = <<>>

(* Values and what the host has of them; a value conforms to the           *)
(* constraint of its endpoint, whatever was asked for.                     *)
TypeOK ==
  /\ DOMAIN values = Endpoints
  /\ \A e \in Endpoints \ Bangs : values[e] \in Allowed[e]
  /\ DOMAIN host = Hosted
  /\ feedback \in Seq([endpoint : Played, value : UNION {Allowed[e] : e \in Played}])
  /\ batched \in 0..Len(feedback)

(* A command that another one caused never sets an endpoint while another  *)
(* such command is setting it: recursion ends, whatever is connected.      *)
Caused(source) == source \in {"SYSTEM", "CONNECTION"}

NoRecursion ==
  \A i, j \in 1..Len(stack) :
    /\ Caused(stack[i].source) /\ Caused(stack[j].source)
    /\ stack[i].endpoint = stack[j].endpoint
    => i = j

(* The checker's map tells what is on its stack: every command that may    *)
(* recur is in it, and what has ended is not, so that the next command     *)
(* finds no trace of the last.                                             *)
CheckerKnowsStack ==
  /\ \A i \in 1..Len(stack) : Caused(stack[i].source) =>
       /\ stack[i].endpoint \in DOMAIN checker
       /\ Caused(checker[stack[i].endpoint])
  /\ \A e \in DOMAIN checker : \E i \in 1..Len(stack) : stack[i].endpoint = e

(* What one endpoint's change may set: by connection or by activation.     *)
Leads(e, f) ==
  \/ \E c \in DOMAIN wiring : wiring[c] = [source |-> e, target |-> f]
  \/ /\ IsActiveOf(e, {"container"}) /\ ActiveOf[OwnerOf[f]] = f
     /\ OwnerOf[e] \in Above[OwnerOf[f]] /\ Kind[OwnerOf[f]] # "container"

Acyclic ==
  \A some \in SUBSET Endpoints :
    some # {} => \E f \in some : \A e \in some : ~Leads(e, f)

(* Between commands the host and the nodes agree on every value, whoever   *)
(* set it and by whatever way, but for changes by modules that are still   *)
(* under way.  They stay apart only where a command has met such a change  *)
(* (the host has what the command sent, the node will have the module's    *)
(* value) or a node that is not active has ignored it, and then only until *)
(* the endpoint is set or the module changes it once more.                 *)
HostAgrees ==
  Idle => \A e \in Hosted \ Bangs :
            UnderWay(e) \/ e \in astray \/ host[e] = values[e]

(* The api's documentation of Container: a node in containers is active    *)
(* exactly when all of them are, like switches wired in series, unless it  *)
(* is switched by something else as well or the connections form a circle. *)
SwitchedOtherwise(e) ==
  e \in Settable \cup Played \/ \E c \in DOMAIN wiring : wiring[c].target = e

SwitchesInSeries ==
  Idle => \/ \A n \in Nodes :
              \/ ActiveOf[n] = None \/ Kind[n] = "container" \/ Above[n] = {}
              \/ SwitchedOtherwise(ActiveOf[n])
              \/ NodeIsActive(n) <=> AllAncestorsActive(n)
          \/ ~Acyclic

(* A connection that alone sets its target. *)
SetsAlone(c) ==
  /\ wiring[c].target \notin {None} \cup Bangs
  /\ \A d \in DOMAIN wiring : wiring[d].target = wiring[c].target => d = c
  /\ ~IsActiveOf(wiring[c].target, {"module", "connection"})

Followed(c) ==
  LET s == wiring[c].source
      t == wiring[c].target
  IN  Conforms(t, Converted(s, t)) => values[t] = Converted(s, t)

(* Once a command is over, its target has followed the source, if that was *)
(* changed and the connection was active all along.                        *)
TargetsFollow ==
  Idle /\ Acyclic =>
    \A c \in DOMAIN wiring :
      /\ wiring[c].source \in changed \ Bangs /\ SetsAlone(c)
      /\ NodeIsActive(c) /\ ActiveOf[c] \notin changed
      => Followed(c)

(* A node that has been activated is activated "a second time, in case     *)
(* some connection failed to fire due to not being active yet the first    *)
(* time", after "everything else has become active": the comments of       *)
(* CContainerLogic::active_handler.  It is not so where a connection       *)
(* activates a container while another container is being activated: the   *)
(* handler of the one may come to its second time before the other has     *)
(* activated the connections in it.                                        *)
Activated(n) == ActiveOf[n] \in changed /\ NodeIsActive(n) /\ ~SwitchedOtherwise(ActiveOf[n])

ContainersApart ==
  \A c \in DOMAIN wiring :
    wiring[c].target = None \/ ~IsActiveOf(wiring[c].target, {"container"})

ActivatedFollow ==
  Idle /\ Acyclic /\ ContainersApart =>
    \A c \in DOMAIN wiring, n \in Nodes :
      /\ ActiveOf[n] = wiring[c].source /\ Kind[n] # "container"
      /\ Activated(n) /\ Activated(c) /\ SetsAlone(c)
      => Followed(c)

(* Every command comes to its end, whatever is connected to what.          *)
CommandEnds == ~Idle ~> Idle
=============================================================================
