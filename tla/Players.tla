-------------------------------- MODULE Players --------------------------------
(***************************************************************************)
(* The player handler: a thread of its own that advances the "tick" of     *)
(* every player that plays.  It decides under the handler's mutex what to  *)
(* set, and sets it later, under the server's lock; in between the api's   *)
(* user, who holds that lock for a session, can change the players and     *)
(* their scenes: spans that a player plays, loops, or holds the start of.  *)
(***************************************************************************)
EXTENDS Integers, Sequences, SequencesExt

CONSTANTS
  Players,   (* internal ids; each is used once *)
  Names,     (* paths *)
  Nowhere,   (* instead of the path of a player that does not exist *)
  Scenes,    (* internal ids of scenes *)
  SceneNames,(* names of scenes *)
  NoScene,   (* the empty name *)
  Starts,    (* bound: the starts that are set of scenes *)
  Lengths,   (* bound: the lengths that are *)
  Switches,  (* bound: those of "play" and "active" that the user sets *)
  Ticks,     (* bound: the positions that the user sets *)
  Sanity,    (* ticks in player_sanity_check_seconds *)
  Leaps,     (* bound: by how much the clock of the computer is put right *)
  Projects   (* the players and scenes there are at first, and what may    *)
             (* happen: sessions, ticks, leaps, changes of scenes, players *)
             (* that the user handles and paths that they get (bounds)     *)

Modes == {"play", "loop", "hold"}

SceneType == [player : Players, name : SceneNames, mode : Modes, start : Int, length : Int]
LeftType == [sessions : Nat, time : Nat, leaps : Nat, changes : Nat,
             players : SUBSET Players, paths : SUBSET Names]

ASSUME PlayersAssumption ==
  /\ Players \subseteq Nat /\ Nowhere \notin Names /\ NoScene \notin SceneNames
  /\ Sanity \in Nat \ {0} /\ Switches \subseteq {"play", "active"}
  /\ Starts \subseteq Int /\ Lengths \subseteq Int /\ Leaps \subseteq Int /\ Ticks \subseteq Int
  /\ \A project \in Projects :
       /\ project.name \in [Players -> Names \cup {Nowhere}]
       /\ \A p, q \in Players :
            project.name[p] = project.name[q] /\ project.name[p] # Nowhere => p = q
       /\ DOMAIN project.scenes \subseteq Scenes
       /\ \A s \in DOMAIN project.scenes : project.scenes[s] \in SceneType
       /\ \A s, t \in DOMAIN project.scenes :
            /\ project.scenes[s].player = project.scenes[t].player
            /\ project.scenes[s].name = project.scenes[t].name
            => s = t
       /\ project.left \in LeftType

VARIABLES
  name,      (* of each player: its path *)
  values,    (* of each player: the values of its endpoints *)
  scenes,    (* of each scene: its player, its name and its values *)
  states,    (* the handler's m_player_states *)
  pending,   (* set commands that its thread has yet to execute *)
  lock,      (* who has the server's lock: "api", "thread" or "free" *)
  script,    (* commands that the api's present call has yet to execute *)
  clock,     (* get_current_msecs, in ticks *)
  left,      (* what the bounds leave *)
  adrift     (* history: players whose user left them the name of no scene *)

vars == <<name, values, scenes, states, pending, lock, script, clock, left, adrift>>

Defaults == [tick |-> 0, play |-> 0, active |-> 1, loop |-> 0,
             start |-> -1, end |-> -1, scene |-> NoScene]

(* Nothing plays. *)
Init ==
  /\ \E project \in Projects :
       name = project.name /\ scenes = project.scenes /\ left = project.left
  /\ values = [p \in Players |-> Defaults]
  /\ states = [p \in {} |-> Defaults]
  /\ pending = <<>> /\ script = <<>>
  /\ lock = "free"
  /\ clock = 0
  /\ adrift = {}

-----------------------------------------------------------------------------
(* CPlayerHandler, in calls from the thread that has the server's lock *)

Plays(v) == v.play # 0 /\ v.active # 0

(* What update makes of a player's values; "seen" is a history field: when *)
(* previous was computed.                                                  *)
StateOf(p, v) ==
  [path |-> name[p], initial |-> v.tick, previous |-> v.tick, since |-> clock,
   seen |-> clock, loop |-> v.loop, start |-> v.start, end |-> v.end]

With(f, p, v) == [q \in DOMAIN f \cup {p} |-> IF q = p THEN v ELSE f[q]]
Without(f, p) == [q \in DOMAIN f \ {p} |-> f[q]]

Update(p, v) == IF Plays(v) THEN With(states, p, StateOf(p, v)) ELSE Without(states, p)

(* CPlayerLogic::handle_set: to set the tick is not news for the handler   *)
(* if the system does; to set the scene is not, but leads to what is.      *)
Set(p, e, v, source) ==
  LET new == [values[p] EXCEPT ![e] = v]
  IN  /\ values' = [values EXCEPT ![p] = new]
      /\ states' = IF e = "scene" \/ (e = "tick" /\ source = "SYSTEM") THEN states
                     ELSE Update(p, new)

-----------------------------------------------------------------------------
(* A session of the api's user *)

Lock ==
  /\ lock = "free" /\ left.sessions > 0
  /\ lock' = "api"
  /\ left' = [left EXCEPT !.sessions = @ - 1]
  /\ UNCHANGED <<name, values, scenes, states, pending, script, clock, adrift>>

Unlock ==
  /\ lock = "api" /\ script = <<>>
  /\ lock' = "free"
  /\ UNCHANGED <<name, values, scenes, states, pending, script, clock, left, adrift>>

InSession(p) == lock = "api" /\ script = <<>> /\ name[p] # Nowhere /\ p \in left.players

(* "play" and "tick" are the user's; "active" follows the containers. *)
ApiSet(p, e, v) ==
  /\ InSession(p)
  /\ Set(p, e, v, "PUBLIC_API")
  /\ UNCHANGED <<name, scenes, pending, lock, script, clock, left, adrift>>

Command(p, e, v) == [path |-> name[p], endpoint |-> e, value |-> v]

(* update_player: five set commands, "play" last; a tick below 0 is left.  *)
UpdatePlayer(p, tick, play, loop, start, end) ==
  <<Command(p, "loop", loop), Command(p, "start", start), Command(p, "end", end)>>
  \o (IF tick >= 0 THEN <<Command(p, "tick", tick)>> ELSE <<>>)
  \o <<Command(p, "play", play)>>

ScenesOf(p) == {s \in DOMAIN scenes : scenes[s].player = p}
Named(p, nm) == {s \in ScenesOf(p) : scenes[s].name = nm}
End(scene) == scene.start + scene.length
IsSelected(s) == scenes[s].name = values[scenes[s].player].scene

(* scene_handler, with a scene and without; then the tick stays.           *)
ShowScene(p, scene) ==
  UpdatePlayer(p, scene.start, IF scene.mode = "hold" THEN 0 ELSE 1,
               IF scene.mode = "loop" THEN 1 ELSE 0, scene.start, End(scene))
ShowNone(p) == UpdatePlayer(p, -1, 0, 0, -1, -1)

(* The user sets "scene", or a scene's "activate": a name that no scene of *)
(* the player has is set all the same.                                     *)
SelectScene(p, nm) ==
  /\ InSession(p)
  /\ Set(p, "scene", nm, "PUBLIC_API")
  /\ \/ nm = NoScene /\ script' = ShowNone(p) /\ adrift' = adrift \ {p}
     \/ /\ nm # NoScene
        /\ \E s \in Named(p, nm) : script' = ShowScene(p, scenes[s])
        /\ adrift' = adrift \ {p}
     \/ nm # NoScene /\ Named(p, nm) = {} /\ script' = <<>> /\ adrift' = adrift \cup {p}
  /\ UNCHANGED <<name, scenes, pending, lock, clock, left>>

(* next_handler and prev_handler: the nearest scene that is not selected.  *)
(* Which of two with one start it is, their names decide: it is open here. *)
Others(p) == {s \in ScenesOf(p) : ~IsSelected(s)}

NextScene(p) ==
  LET after == {s \in Others(p) : scenes[s].start >= values[p].tick}
  IN  \E s \in after : /\ \A t \in after : scenes[s].start <= scenes[t].start
                       /\ SelectScene(p, scenes[s].name)

PrevScene(p) ==
  LET before == {s \in Others(p) : scenes[s].start < values[p].tick}
  IN  \E s \in before : /\ \A t \in before : scenes[s].start >= scenes[t].start
                        /\ SelectScene(p, scenes[s].name)

(* home_handler *)
Home(p) ==
  LET selected == values[p].scene # NoScene
      rewind == IF values[p].tick # 0 THEN <<Command(p, "tick", 0)>> ELSE <<>>
  IN  /\ InSession(p)
      /\ IF selected THEN Set(p, "scene", NoScene, "SYSTEM") ELSE UNCHANGED <<values, states>>
      /\ script' = (CASE selected -> ShowNone(p)
                      [] ~selected /\ values[p].play # 0 -> <<Command(p, "play", 0)>>
                      [] OTHER -> <<>>) \o rewind
      /\ adrift' = adrift \ {p}
      /\ UNCHANGED <<name, scenes, pending, lock, clock, left>>

-----------------------------------------------------------------------------
(* Changes of scenes *)

Changing(p) ==
  /\ InSession(p) /\ left.changes > 0
  /\ left' = [left EXCEPT !.changes = @ - 1]
  /\ UNCHANGED <<name, pending, lock, clock>>

(* handle_mode: "hold" goes to the start, the others go on from the tick.  *)
ModeCommands(p, scene) ==
  UpdatePlayer(p, IF scene.mode = "hold" THEN scene.start ELSE -1,
               IF scene.mode = "hold" THEN 0 ELSE 1,
               IF scene.mode = "loop" THEN 1 ELSE 0, scene.start, End(scene))

(* handle_start_and_length *)
SpanCommands(p, scene) ==
  <<Command(p, "tick", scene.start), Command(p, "start", scene.start),
    Command(p, "end", End(scene))>>

Edited(s, scene, commands) ==
  /\ Changing(scene.player)
  /\ scenes' = With(scenes, s, scene)
  /\ script' = IF IsSelected(s) THEN commands ELSE <<>>
  /\ UNCHANGED <<values, states, adrift>>

SetMode(s, mode) ==
  LET scene == [scenes[s] EXCEPT !.mode = mode]
  IN  Edited(s, scene, ModeCommands(scene.player, scene))

SetStart(s, start) ==
  LET scene == [scenes[s] EXCEPT !.start = start]
  IN  Edited(s, scene, SpanCommands(scene.player, scene))

SetLength(s, length) ==
  LET scene == [scenes[s] EXCEPT !.length = length]
  IN  Edited(s, scene, SpanCommands(scene.player, scene))

(* The defaults of a new scene are set one by one.  Where its name is the  *)
(* one its player was left with, each has its effect.                      *)
NewScene(p, s, nm) ==
  LET default(length) ==
        [player |-> p, name |-> nm, mode |-> "hold", start |-> 0, length |-> length]
  IN  /\ Changing(p)
      /\ s \notin DOMAIN scenes /\ Named(p, nm) = {}
      /\ scenes' = With(scenes, s, default(1))
      /\ IF values[p].scene = nm
           THEN /\ script' = ModeCommands(p, default(0)) \o SpanCommands(p, default(0))
                              \o SpanCommands(p, default(1))
                /\ adrift' = adrift \ {p}
           ELSE script' = <<>> /\ UNCHANGED adrift
      /\ UNCHANGED <<values, states>>

(* A variant that does not look whether the scene is the selected one. *)
RenameSceneOnly(s, nm) ==
  LET p == scenes[s].player
  IN  /\ Changing(p) /\ Named(p, nm) = {}
      /\ scenes' = [scenes EXCEPT ![s].name = nm]
      /\ script' = <<>>
      /\ UNCHANGED <<values, states, adrift>>

(* The player of the selected scene gets its new name, and begins it anew. *)
RenameScene(s, nm) ==
  LET p == scenes[s].player
  IN  /\ Changing(p) /\ Named(p, nm) = {}
      /\ scenes' = [scenes EXCEPT ![s].name = nm]
      /\ IF IsSelected(s)
           THEN Set(p, "scene", nm, "SYSTEM") /\ script' = ShowScene(p, scenes[s])
           ELSE script' = <<>> /\ UNCHANGED <<values, states>>
      /\ UNCHANGED adrift

DeleteScene(s) ==
  LET p == scenes[s].player
  IN  /\ Changing(p)
      /\ scenes' = Without(scenes, s)
      /\ IF IsSelected(s)
           THEN Set(p, "scene", NoScene, "SYSTEM") /\ script' = ShowNone(p)
           ELSE script' = <<>> /\ UNCHANGED <<values, states>>
      /\ UNCHANGED adrift

(* To another player.  Scenes do nothing when they are moved, so that the  *)
(* one that is selected leaves its name behind.                            *)
MoveScene(s, q) ==
  LET p == scenes[s].player
  IN  /\ Changing(p)
      /\ q # p /\ name[q] # Nowhere /\ Named(q, scenes[s].name) = {}
      /\ scenes' = [scenes EXCEPT ![s].player = q]
      /\ script' = <<>>
      /\ adrift' = IF IsSelected(s) THEN adrift \cup {p} ELSE adrift
      /\ UNCHANGED <<values, states>>

-----------------------------------------------------------------------------
(* Players come, go and change their paths *)

(* A variant in which the handler is not told of the new path. *)
RenameUntold(p, n) ==
  /\ InSession(p) /\ \A q \in Players : name[q] # n
  /\ name' = [name EXCEPT ![p] = n]
  /\ UNCHANGED <<values, scenes, states, pending, lock, script, clock, left, adrift>>

(* A rename or a move, of the player or of something it is in: the handler *)
(* gets the new path.                                                      *)
Rename(p, n) ==
  /\ InSession(p) /\ \A q \in Players : name[q] # n
  /\ name' = [name EXCEPT ![p] = n]
  /\ states' = IF p \in DOMAIN states THEN [states EXCEPT ![p].path = n] ELSE states
  /\ UNCHANGED <<values, scenes, pending, lock, script, clock, left, adrift>>

(* Its scenes go first: for the selected one the player is told so.        *)
Delete(p) ==
  LET selected == \E s \in ScenesOf(p) : IsSelected(s)
  IN  /\ InSession(p)
      /\ IF selected THEN Set(p, "scene", NoScene, "SYSTEM") ELSE UNCHANGED <<values, states>>
      /\ script' = (IF selected THEN ShowNone(p) ELSE <<>>) \o <<Command(p, "delete", 0)>>
      /\ scenes' = [s \in DOMAIN scenes \ ScenesOf(p) |-> scenes[s]]
      /\ adrift' = adrift \ {p}
      /\ UNCHANGED <<name, pending, lock, clock, left>>

RemoveNode(p) ==
  /\ name' = [name EXCEPT ![p] = Nowhere]
  /\ states' = Without(states, p)
  /\ values' = [values EXCEPT ![p] = Defaults]
  /\ left' = [left EXCEPT !.players = @ \ {p}]

(* A new node has a new id and default values.                             *)
New(p, n) ==
  /\ lock = "api" /\ script = <<>>
  /\ name[p] = Nowhere /\ p \in left.players /\ \A q \in Players : name[q] # n
  /\ name' = [name EXCEPT ![p] = n]
  /\ UNCHANGED <<values, scenes, states, pending, lock, script, clock, left, adrift>>

PlayersAt(path) == {p \in Players : name[p] = path /\ name[p] # Nowhere}

(* The constraints of "tick", "start" and "end" have a lower bound.  (The  *)
(* upper ones are left out: they are hours of play away.)                  *)
Conforms(c) == c.endpoint \in {"tick", "start", "end"} => c.value >= -1

(* A set command of the system, on the player that has the path by then.   *)
Execute(c) ==
  IF PlayersAt(c.path) = {} \/ ~Conforms(c)
    THEN UNCHANGED <<values, states>>
    ELSE \E p \in PlayersAt(c.path) : Set(p, c.endpoint, c.value, "SYSTEM")

(* The next of the commands of the present call. *)
Continue ==
  /\ lock = "api" /\ script # <<>>
  /\ script' = Tail(script)
  /\ \/ /\ Head(script).endpoint # "delete"
        /\ Execute(Head(script)) /\ UNCHANGED <<name, left>>
     \/ /\ Head(script).endpoint = "delete"
        /\ \E p \in PlayersAt(Head(script).path) : RemoveNode(p)
  /\ UNCHANGED <<scenes, pending, lock, clock, adrift>>

-----------------------------------------------------------------------------
(* The handler's thread *)

Position(s) == s.initial + clock - s.since

Distance(a, b) == IF a < b THEN b - a ELSE a - b

(* The position is too far from the last one, so that the clock is taken   *)
(* to have been put right.                                                 *)
Leapt(s) == Distance(Position(s), s.previous) > Sanity

(* A variant that starts afresh at the previous position. *)
SinceNow(s) == IF Leapt(s) THEN clock ELSE s.since

Since(s) == IF Leapt(s) THEN clock - (s.previous - s.initial) ELSE s.since

Unwrapped(s) == IF Leapt(s) THEN s.previous ELSE Position(s)

(* A variant that takes the end for part of the loop. *)
EndsAfter(s) == s.end > 0 /\ Unwrapped(s) > s.end

Ends(s) == s.end > 0 /\ Unwrapped(s) >= s.end

Duration(s) == s.end - s.start

Wraps(s) == Ends(s) /\ s.loop # 0 /\ Duration(s) > 0

NewTick(s) ==
  IF Wraps(s) THEN ((Unwrapped(s) - s.start) % Duration(s)) + s.start ELSE Unwrapped(s)

(* A variant that does not stop a player that waits at its end. *)
CommandsOnMove(s) ==
  IF NewTick(s) = s.previous THEN <<>>
    ELSE (IF Ends(s) /\ s.loop = 0
            THEN <<[path |-> s.path, endpoint |-> "play", value |-> 0]>> ELSE <<>>)
           \o <<[path |-> s.path, endpoint |-> "tick", value |-> NewTick(s)]>>

Commands(s) ==
  (IF Ends(s) /\ s.loop = 0
     THEN <<[path |-> s.path, endpoint |-> "play", value |-> 0]>> ELSE <<>>)
  \o (IF NewTick(s) # s.previous
        THEN <<[path |-> s.path, endpoint |-> "tick", value |-> NewTick(s)]>> ELSE <<>>)

(* Under the handler's mutex: what is to be set, for all players. *)
Compute ==
  /\ pending = <<>> /\ lock # "thread"
  /\ states' = [p \in DOMAIN states |->
                  [states[p] EXCEPT !.previous = NewTick(states[p]),
                                    !.since = Since(states[p]), !.seen = clock]]
  /\ pending' = LET playing == SetToSeq(DOMAIN states)
                IN  FlattenSeq([i \in DOMAIN playing |-> Commands(states[playing[i]])])
  /\ UNCHANGED <<name, values, scenes, lock, script, clock, left, adrift>>

ThreadLock ==
  /\ pending # <<>> /\ lock = "free"
  /\ lock' = "thread"
  /\ UNCHANGED <<name, values, scenes, states, pending, script, clock, left, adrift>>

ThreadExecute ==
  /\ lock = "thread" /\ pending # <<>>
  /\ Execute(Head(pending))
  /\ pending' = Tail(pending)
  /\ UNCHANGED <<name, scenes, lock, script, clock, left, adrift>>

ThreadUnlock ==
  /\ lock = "thread" /\ pending = <<>>
  /\ lock' = "free"
  /\ UNCHANGED <<name, values, scenes, states, pending, script, clock, left, adrift>>

(* The computer's clock goes on, or is put right by the user or for daylight saving.*)
Time ==
  /\ left.time > 0
  /\ clock' = clock + 1
  /\ left' = [left EXCEPT !.time = @ - 1]
  /\ UNCHANGED <<name, values, scenes, states, pending, lock, script, adrift>>

Leap(d) ==
  /\ left.leaps > 0
  /\ clock' = clock + d
  /\ left' = [left EXCEPT !.leaps = @ - 1]
  /\ UNCHANGED <<name, values, scenes, states, pending, lock, script, adrift>>

Thread == Compute \/ ThreadLock \/ ThreadExecute \/ ThreadUnlock

Next ==
  \/ Lock \/ Unlock \/ Continue \/ Thread \/ Time
  \/ \E p \in Players :
       \/ \E e \in Switches, v \in {0, 1} : ApiSet(p, e, v)
       \/ \E v \in Ticks : ApiSet(p, "tick", v)
       \/ \E nm \in SceneNames \cup {NoScene} : SelectScene(p, nm)
       \/ NextScene(p) \/ PrevScene(p) \/ Home(p)
       \/ \E s \in Scenes, nm \in SceneNames : NewScene(p, s, nm)
       \/ Delete(p)
       \/ \E n \in Names \cap left.paths : Rename(p, n) \/ New(p, n)
  \/ \E s \in DOMAIN scenes :
       \/ \E mode \in Modes : SetMode(s, mode)
       \/ \E start \in Starts : SetStart(s, start)
       \/ \E length \in Lengths : SetLength(s, length)
       \/ \E nm \in SceneNames : RenameScene(s, nm)
       \/ \E q \in Players : MoveScene(s, q)
       \/ DeleteScene(s)
  \/ \E d \in Leaps : Leap(d)

Spec == Init /\ [][Next]_vars

(* The thread goes on, and gets the lock if sessions end again and again;  *)
(* the user goes on with a call and leaves.                                *)
FairSpec ==
  /\ Spec
  /\ WF_vars(Compute) /\ SF_vars(ThreadLock)
  /\ WF_vars(ThreadExecute) /\ WF_vars(ThreadUnlock)
  /\ WF_vars(Continue) /\ SF_vars(Unlock)

-----------------------------------------------------------------------------
(* Properties *)

(* Types; a call of the user is not left half done. *)
TypeOK ==
  /\ name \in [Players -> Names \cup {Nowhere}]
  /\ DOMAIN values = Players /\ \A p \in Players : DOMAIN values[p] = DOMAIN Defaults
  /\ DOMAIN states \subseteq Players
  /\ DOMAIN scenes \subseteq Scenes /\ \A s \in DOMAIN scenes : scenes[s] \in SceneType
  /\ lock \in {"free", "api", "thread"}
  /\ script # <<>> => lock = "api"

(* The handler advances exactly the players that are to play, whatever     *)
(* order of sets, renames, moves and deletions led there: it knows each by *)
(* its present path, its span and its mode.                                *)
StatesFollowNodes ==
  /\ DOMAIN states = {p \in Players : name[p] # Nowhere /\ Plays(values[p])}
  /\ \A p \in DOMAIN states :
       /\ states[p].path = name[p]
       /\ states[p].loop = values[p].loop
       /\ states[p].start = values[p].start /\ states[p].end = values[p].end

(* Between calls, what a player plays is the scene that it names, as that  *)
(* is now, after all that has been done to the scene and to the player:    *)
(* unless its user left it a name of no scene, or the scene's span does    *)
(* not conform to the player's constraints.                                *)
Shows(p, scene) ==
  /\ values[p].loop = (IF scene.mode = "loop" THEN 1 ELSE 0)
  /\ values[p].start = scene.start /\ values[p].end = End(scene)

PlayersShowScenes ==
  \A p \in Players \ adrift :
    script = <<>> /\ name[p] # Nowhere =>
      IF values[p].scene = NoScene
        THEN values[p].loop = 0 /\ values[p].start = -1 /\ values[p].end = -1
        ELSE \E s \in Named(p, values[p].scene) :
               scenes[s].start >= -1 /\ End(scenes[s]) >= -1 => Shows(p, scenes[s])

(* A player that loops and began before its end never gets to the end: the *)
(* end is where it is at the start again.                                  *)
LoopsWrap ==
  \A p \in DOMAIN states :
    LET s == states[p]
    IN  s.loop # 0 /\ s.end > 0 /\ Duration(s) > 0 /\ s.initial < s.end => s.previous < s.end

(* Where a player gets to, whole rounds of its loop apart. *)
Advances(s, tick, by) ==
  \/ tick = s.previous + by
  \/ s.loop # 0 /\ Duration(s) > 0 /\ (tick - s.previous - by) % Duration(s) = 0

(* What the rounds amount to that a player has made since it began or last *)
(* stood still.                                                            *)
Rounded(s) ==
  IF s.loop # 0 /\ Duration(s) > 0 THEN s.initial + s.seen - s.since - s.previous ELSE 0

(* Each update advances a player by what the clock has gone on since the   *)
(* last one, through wrapping and resets of the clock; or it lets it stand *)
(* still, but only if the clock has gone by more than Sanity, forward or   *)
(* back, with the rounds that the player has made counted in.              *)
Passed(s) == clock - s.seen

KeepsTime ==
  [][Compute =>
       \A p \in DOMAIN states :
         LET s == states[p]
             tick == states'[p].previous
         IN  \/ Advances(s, tick, Passed(s))
             \/ Advances(s, tick, 0) /\ Distance(Rounded(s) + Passed(s), 0) > Sanity]_vars

(* A player that does not loop and is at its end does not play for ever.   *)
AtEnd(p) ==
  /\ p \in DOMAIN states
  /\ states[p].loop = 0 /\ states[p].end > 0 /\ states[p].previous >= states[p].end

EndStops == \A p \in Players : AtEnd(p) ~> ~AtEnd(p)

(* A comment in update_player says that the order in which it sets the     *)
(* endpoints keeps the player from being stopped: so the handler's thread  *)
(* never stops a player that is not at its end.                            *)
StopsAtEnd ==
  [][\A p \in Players :
       /\ lock = "thread" /\ p \in DOMAIN states /\ p \notin DOMAIN states'
       => states[p].end > 0 /\ Position(states[p]) >= states[p].end]_vars
=============================================================================
