# Integra Live: models and proofs

Integra Live is an environment for live electronic music. Its core is
`libIntegra`, a C++ library that keeps a tree of *nodes* (containers, modules,
connections, players, ...), executes *commands* on it, and drives a sound host
(Pd, through libpd). A small server process offers the library over XML-RPC and
tells clients what happened over OSC; a GUI in ActionScript is such a client.

The modules here are models of the parts of that system where the order of
things decides whether it is right: threads that share a lock, commands that
set off commands, tables that must agree after every command, positions that
shift. TLC checks the models on small instances; TLAPS proves what matters most
for instances of every size. Paths below are relative to `src/`, and those of
the library to `src/libIntegra/src/` where that is clear.

Contents: 1. the system; 2. the plan; 3. the modules; 4. runs, bounds and
fairness; 5. what is proved; 6. divergences between code and documents;
7. what is not modelled.

## 1. The system

    GUI (ActionScript)                    integra_server
      IntegraConnection --- XML-RPC --->   xmlrpc_server --+  CServerLock
      RemoteCommandHandler <-- OSC -----   osc_client <-+  |
                                                        |  v
      libIntegra:   notification sink <---- CServer (node tree, state table,
                                             |       reentrance checker)
                          commands --> logic of each node
                                             |
             CPlayerHandler  <---------------+-----------> CDspEngine -> Pd
             (own thread)                    |              ^   | feedback queue
             CModuleManager  <---------------+              |   v (own thread)
             CMidiInputDispatcher (own thread) <- midi    audio engine
                                                 engine   (audio thread)

### 1.1 Components: state, operations, interaction, what makes them right

**Session, server and its lock** (`integra_session.cpp`, `server.cpp`,
`server_lock.cpp`). State: `m_mutex`, `m_mutex_owner`, `m_shutdown_mutex`, and
the components the server owns. Operations: `start_session`, `end_session`,
`get_server` (which constructs a `CServerLock`), `lock`, `unlock`,
`process_command`. Everything else in the library is called under this lock:
by threads of the host application, by the output threads of two queues, and by
the player thread. Hard: the destructor gives the lock back, sets a flag (the
shutdown mutex), and takes the engines down one after another while those
threads still run and while it holds the dsp engine's mutex. Right when: one
thread at a time is in the server, none is in what is being deleted, and
`end_session` returns.

**Threaded queues** (`threaded_queue*.h`). State: a list under a mutex, a
semaphore, `m_finished`, an output thread. Operations: `push` of one item or a
list; the destructor. There are two: the dsp engine's feedback queue, fed by
the audio thread, and the midi input dispatcher's, fed by the midi engine.
Hard: the signal comes after the mutex is released, the list is delivered
outside it, the flag is written outside it; on macOS the semaphore is a *named*
one and thus the same for both queues. Right when: each item is delivered once,
in order, no thread sleeps on items, and the destructor returns with an empty
list.

**Node tree and state table** (`node.cpp`, `state_table.cpp`, `new_`,
`delete_`, `move_`, `rename_command.cpp`, `logic.cpp`, `path.cpp`). State: each
node's parent, name, stored path, map of children; the server's map of top
nodes; two tables by path and by id; and paths stored as *values* of connection
nodes. Hard: the same facts are kept five times and each command updates them
in its own order; names are unique among siblings by appending underscores, so
that one name begins another, and paths in connections are rewritten by string
prefix. Right when: the copies agree after any sequence of commands, and a
connection goes on referring to the node it referred to.

**Logic classes** (`*_logic.cpp`), one per kind of node: what else happens when
a node is created, deleted, moved, renamed or set. The base class follows
connections and keeps their paths; the container switches what is in it;
players tell the player handler; connections wire modules in the host.

**Set command and reentrance checker** (`set_command.cpp`,
`reentrance_checker.cpp`). A set command changes a value, notifies the sink,
sends it to the host and calls the logic, which may issue set commands from
within: over connections, by activation, by scripts, scalers, scenes.
`CReentranceChecker` ends the recursion with a map from endpoint to the source
of the command that is setting it. Hard: connections may form circles; the map
has one entry per endpoint, which a command from within can overwrite and
erase. Right when: every command ends, the map agrees with the stack, targets
follow their sources, the host agrees, and containers act as switches in series.

**Dsp engine** (`dsp_engine.cpp`). State: `m_map_id_to_patch_id`, the Pd patch,
the midi and audio set-up, a mutex, the feedback queue. Operations: add and
remove modules, connect and disconnect audio endpoints, send values, process a
buffer. Hard: Pd knows objects by position and renumbers those behind one that
is cut; values Pd sends back come on the audio thread and are applied later, by
the queue's thread, under the server's lock. Right when: the map gives the
positions, and what is done in Pd is done to the modules that were asked for.

**Player handler** (`player_handler.cpp`, `player_logic.cpp`). State:
`m_player_states` by node id, under a mutex. Its thread wakes at intervals,
computes the new ticks under that mutex, and then executes set commands under
the server's lock. A player has *scenes* (`scene_logic.cpp`): it knows the selected
one by name, and keeps copies of its span and mode. Hard: between the two steps the user may stop, move, rename
or delete the player or select a scene; the scene itself is selected by five
set commands, and may be edited, renamed or deleted; the computer's clock may be
put right. Right when: exactly the players that are to play are advanced, at their
present paths, by the time that has passed; a player shows the scene it names; a player
that does not loop stops at its end, and only there.

**Module manager** (`module_manager.cpp`). State: modules by id, by origin and
by core name; for each its source (shipped, third party, embedded, in
development) and file. Operations: load and unload, install, embed, unembed,
develop. Hard: a module may be in use or share its origin with another; the
rename of its file is not checked. Right when: the maps agree, every definition
names a file that exists, and what is unloaded is not in use.

**Interface definitions** (`interface_definition*.cpp`, `validator.cpp`):
immutable records, parsed from XML.

**Load and save** (`file_io.cpp`, `load_command.cpp`, `save_command.cpp`). A save
writes the tree below a node and embeds the modules it needs. A load brings the
file's modules, creates its nodes from a stream of XML elements, sets their
values, then sends them to the host. Hard: the reader knows only the node it made
last and the depth; an element may make no node; a failure half way. Right when:
what is opened, here or where other modules are loaded, is what was saved.

**Data and scratch directories**: copies of files on behalf of new, set, delete
and load.

**Midi input** (`midi_input_dispatcher.cpp`, `midi_input_filterer.cpp`,
`midi_control_input_logic.cpp`, `midi_raw_input_logic.cpp`): a batch of messages is
filtered, then given to the receivers, which set endpoints; a receiver may
learn its device, channel and controller from the first message that fits.
Hard: the order of messages of different types within a batch.

**Audio engine** (`portaudio_engine.cpp`, `ring_buffer.cpp`). State: the driver
and the two devices that are selected, a pointer for each of three streams
(input, output, or one for both), a thread that stands in when there is none, two
buffers, a ring buffer between an input and an output that run at their own pace.
Operations: the setters, each of which closes and opens all streams, and the
callbacks. Hard: streams are closed one by one while the callbacks of the others
go on and read the pointers; a stream may fail to open or to start. Right when: the
dsp engine is always driven, from one place, and sound passes the ring in order.

**Midi engine** (`portmidi_engine.cpp`): opens devices and copies messages.

**Envelopes, control points** (`envelope_logic.cpp`, `control_point_logic.cpp`): an
envelope's current value is interpolated at its current tick.

**Scalers, scripts** (`scaler_logic.cpp`, `script_logic.cpp`,
`lua_engine.cpp`): set commands in answer to set commands.

**Notification sinks** (`polling_notification_sink.cpp`,
`server/src/osc_client.cpp`): called at the end of every command; the OSC
client sends each set to the GUI, the polling sink keeps the latest per endpoint.

**Server process** (`server/src/`): XML-RPC methods, each of which holds a
`CServerLock` for one call; one session per process.

**GUI controller** (`GUI/src/components/controller/`, `.../utils/`). State: a queue of
XML-RPC calls with one in flight and a timeout of a second, a queue of remote
changes shown later, marks that tell echoes of the GUI's own commands from
changes of others, undo and redo stacks, a flag that the project is modified.
Hard: the echo, the remote change, the next local command, an undo and a late
answer come in any order. Right when: GUI and server agree once nothing is under
way, a save writes what was on the screen, and undo leads back. **GUI model and
views**: a copy of the node tree, filled by the controller.

**Module creator**, **module and block data**, **documentation**, **vendored
libraries**: no behaviour of the system's own, except that `DspPatch` models
what the dsp engine relies on in Pd's canvas.

The list `hazards` in `PROJECT.json` names, line by line, what can go wrong
and a test would hardly reach, with the properties that cover it. Hazards of
less weight, in parts that have no model yet:

- `midi_input_filterer.cpp:185`: of a batch only the last message of each controller is kept, while every note is: a note between two changes of a controller is played with the value from before both.
- `midi_control_input_logic.cpp:143`: auto-learn returns after the first message that fits; the rest of the batch is lost for this receiver.
- `dsp_engine.cpp:720`: for the second midi device and later the channel in the status byte is not the one computed at `:717`.
- `control_point_logic.cpp:65`: a change of curvature does not update the envelope until the next tick.

## 2. The plan

The order is that of the damage a mistake would do: first what keeps the server
from crashing or hanging, then the tree on which all else rests, then what is
heard, then what plays, then files and clients.

| Step | Module | State |
|---|---|---|
| 1 | `ThreadedQueue`, implementing the abstract channel `FifoDelivery` | checked and proved |
| 2 | `ServerLock`: all threads and the teardown | checked, safety proved |
| 3 | `NodeTree` | checked, its invariant proved |
| 4 | `DspPatch`, implementing the abstract graph `HostGraph` | checked and proved |
| 5 | `AudioWiring`: `NodeTree` composed with `HostGraph`'s wires | checked and proved |
| 6 | `SetCommand`: the recursion of set commands | checked, safety proved |
| 7 | `Players`: the thread, the lock, the user and the scenes | checked, safety proved |
| 8 | `GuiMirror`: attributes in the GUI and in the server, over the queue of calls and the notifications | checked, safety proved |
| 9 | `ModuleManager`: sources, origins, files and use by nodes, with failing steps | checked and proved |
| 10 | `ProjectFiles`: save and load on top of `ModuleManager`, which it implements | checked |
| 11 | `AudioStreams` on top of `RingBuffer`, implementing the abstract `BoundedFifo` | checked and proved |
| 12 | `MidiInput`: a batch through filter and receivers, against the batch taken message by message | open |
| 13 | `Activation`: `NodeTree` composed with the container switches of `SetCommand`, so that moves are covered; envelopes as pure functions against a definition by intervals | open |

Abstract specifications: the fifo channel (`FifoDelivery`), the host's graph
(`HostGraph`), the bounded fifo between two streams (`BoundedFifo`), and
`ManagerSpec`, what the module manager allows whatever files bring. Open: a mirror
that shows only values the server had, in their order, for the GUI.

Theorems worth proving next: that `ProjectFiles` implements `ManagerSpec`, for which
the reader's fold over the file has to be stated step by step.

## 3. The modules

Every module states at its top what it is about, and `PROJECT.json` maps each
definition to the lines it translates. A definition called "a variant" in its
comment is what the code could easily have been instead; no specification uses
it. It is there to show that a property notices the difference.

**`ThreadedQueue`** (`threaded_queue_implementation.h`). `content`, `finished`
and `semaphore` are `m_content`, `m_finished` and the semaphore; `thread`,
`exiting` and `batch` are the program counter and the two locals of
`output_thread`; `owner` is the destructor's program counter. A critical section
is one step; each semaphore operation, the write of `m_finished` and the call
of the sink are steps of their own. `SharedSemaphore` chooses between an unnamed
semaphore per queue and the named one of the `__APPLE__` branch.
`DestroyedAfter` is the order in which `~CServer` deletes the owners of the
queues. `FifoDelivery` is what the users of a queue rely on.

**`ServerLock`** (`server.cpp`, `server_lock.cpp`, `dsp_engine.cpp` and the thread
functions of the queues and of the player handler). `mutex`, `mutexOwner`,
`shutdown` and `dspMutex` hold the thread that has the mutex; `pc` is where each
thread is between taking the lock, the look at the flag, the command (with or
without the dsp engine) and the release; `teardown` is where `~CServer` is.
Threads of the host application call only while the session is open and have
let go when it is ended: that is their side of `CServerLock`. Reads and writes of
`m_mutex_owner` are steps of their own, as a thread that comes to `lock` compares the
owner with itself before it has the mutex, while others set and clear it. The queues'
insides are not repeated: a worker may get work at any time, and one that was
told to stop ends, as `ThreadedQueue` shows it does.

**`NodeTree`**. `parent`, `name`, `path`, `children` are the fields of `CNode`
(and `m_nodes` of the server), `byPath` and `byId` the two tables, `ends` the
values of `sourcePath` and `targetPath`. A command runs under the lock from
beginning to end and is one step, with all it does to all of these. A name is a
base and a number of characters after it, so that names begin one another as
they do when underscores are appended; a path is a sequence of names;
`BeginsWith` and `Reprefixed` are the comparison and the replacement of string
prefixes. `MoveCommand` is the whole command, whatever it is asked: a node that its new
place does not take is freed and stays in the tables (`Refuse`), a name that is taken is
taken over (`MoveTo`), and a move below the node itself or refused at top level is a crash,
after which the server is started again (`Crashes`, `Restart`). `alive` tells the nodes that
exist from what the tables still find.

**`AudioWiring`** extends `NodeTree` with the wires of `HostGraph` and what
`CConnectionLogic`, `CLogic::handle_new` and the delete command ask of the
host. `Unfit` are nodes whose endpoint may not be a source: `source_path_handler`
returns before it has removed the old wire when it is set to one (`LeaveWire`), which
`target_path_handler` does not; `kept` is the history of the wires that stay so.
`CarefulSpec` is a caller who relocates nodes only where no connection comes to refer to
something else, and to where they may be. Without that care wires are left and missing
(section 6). `cast` bounds the nodes of a run.

**`DspPatch`** (`dsp_engine.cpp`; Pd from the vendored `g_editor.c`). `patch` is
the list of objects in the canvas, `wires` Pd's connections, `patchId` the
engine's map; `asked` records the last call, so that the refinement compares
what was asked with what was done. `CountsNew` is the order of evaluation in
`m[ id ] = m.size()` (`:339`), which C++ left open before C++17. The code is right
under one order only, the one the compilers it is built with use
(`CountsNew = FALSE`); under the other every number is one too high.

**`SetCommand`**. `stack` is the call stack of set commands, each with what it
still has to do; `checker` is the map of `CReentranceChecker`; `host` what has
been sent to the host. An item of `todo` is an iteration of one of the loops of
`handle_connections`, `active_handler` or `activate_tree`. Values are small
numbers; a list of allowed states is a set of them, and a value that is not among them
is passed on as it is and refused, as the code's quantizing has no effect (section 6).
What modules change in the host by themselves (`ModuleChanges`) comes through the queue
`feedback`, at any time; its thread takes a batch (`HandleQueueItems`), leaves out what is
followed by a change of the same endpoint (`MergeChange`), and sets the rest as commands
(`ModuleSet`). `astray` is a history of endpoints of which a command has met such a change
on its way. The tree does not change.

**`Players`** (`player_handler.cpp`, `player_logic.cpp`). `states` is
`m_player_states`, `values` the endpoints of the player nodes, `pending` the commands
the thread has computed and not yet executed, `script` the set commands of the present call not yet executed.
`scenes` are the scene nodes. Selecting a scene, by name, by `next`, `prev` or `home`, and each
change of a scene make a script, as `update_player` and the handlers of `CSceneLogic` do,
and the thread computes between its commands. `adrift` is a history of players whose user
left them a name that no scene has; `PlayersShowScenes` leaves these out. The handler's thread computes while the user
holds the server's lock, and executes when it has the lock itself. `clock` counts
ticks (one tick for a unit of time), and `Leap` is the computer's clock being put
right. A command goes to whatever player has its path by then, as the code's does.

**`GuiMirror`** (`IntegraController.as`, `RemoteCommandHandler.as`, `UndoManager.as`,
`IntegraConnection.as`). `shown` is the GUI's model with the modified flag, `queue` and
`sending` the calls that wait and the one that was sent last, `pending` the remote
changes not yet shown, `touched` the marks of echoes, `undo` and `redo` the stacks,
`modal` a question that is open. `arriving`, `replies` and `notes` are the three ways
between GUI and server: HTTP requests, their answers, datagrams, of which only the
last can be lost. A call may be answered after the GUI has given it up. `unsure`,
`foreign` and `amended` record that something has happened which the properties name
as exceptions; the GUI does not read them.

**`ModuleManager`** (`module_manager.cpp`). `registry` holds the source of each loaded
module, the map of origins and the files there are; `nodes` the module of each
node. The order in which a map is walked is open, so the first module of a lineage is
any. `SameFileSystem` and `OwnFilesGo` say what the world may do: whether
a file can be renamed between directories, whether users delete module files of
their own. A load may fail after it made some nodes; `orphans` is the history of those
whose modules went with it. Their definitions are deleted, so what the nodes use is then
any set that contains what the others use (`FoundInUse`).

**`ProjectFiles`** (`file_io.cpp`) extends it with the tree, a value per node, and a
project file: a document, which is a list of elements with their depths, and the
modules embedded. `LoadNodes` is the loop of `load_nodes` as a fold over the reader's
events, with the node it made last and the depth of the last element; the node
above is found by their comparison, and a null node is a crash, as in the code. A
load into a server that lacks modules, projects of other users (`Received`), invalid
documents and a restart of the server are steps. A file that was `Edited` by hand may fail to load after
it made a node; until that orphan is deleted nothing is done but managing modules, deleting
nodes and starting anew (`Work` is for a tree without orphans).

**`RingBuffer`** (`ring_buffer.cpp`): `length`, `data`, `readPos` and `used` are the fields, `heard` the
output stream's buffer. Writing and reading in two pieces, with the positions at
which they wrap, are as in the code. `BoundedFifo` is what the engine relies on.

**`AudioStreams`** (`portaudio_engine.cpp`) extends `RingBuffer`. A call of the api is a list
`todo` of steps (close a stream, reset its pointer, stop the thread, select, open,
start), between which callbacks happen. `stream` is PortAudio's view, `pointer` the
engine's: they differ when a stream was closed because it did not start.
`doing` says what each callback is at. PortAudio is external: streams open and start
or do not, and `Pa_CloseStream` waits for the callback. `opening` and `asked` are history.

How they fit: `ServerLock` justifies that the commands of `NodeTree`, `AudioWiring`,
`SetCommand`, `ProjectFiles` and the sessions of `Players` are not interleaved, and that
`AudioStreams` has one thread of control; `ThreadedQueue` (through `FifoDelivery`) justifies
the workers of `ServerLock`; `DspPatch` (through `HostGraph`) justifies the wires of
`AudioWiring`; `AudioStreams` the one audio thread of `ServerLock`; `ProjectFiles` uses
`ModuleManager` and implements it.

## 4. Runs, bounds, fairness

| Run | Specification | States | Shows |
|---|---|---|---|
| `threaded_queue` | `FairSpec` | 40 144 | delivery once and in order, an empty list at the end, a destructor that returns, implementation of `FifoDelivery` |
| `server_lock` | `FairSpec` | 7 900 | one thread in the server, no one in what is deleted, the comparison with the owner stops a thread that has the mutex already and no other, the session ends |
| `node_tree` | `Spec` | 25 243 | the copies of the tree agree, but for what refused and colliding moves leave; connections follow |
| `dsp_patch` | `Spec` | 236 803 | the numbers are positions; implementation of `HostGraph` |
| `audio_wiring` | `CarefulSpec` | 49 340 | the host has the wires that the tree asks for, and no others but those kept for an unfit source |
| `set_command` | `FairSpec` | 156 632 | recursion ends, the checker agrees with the stack, host and nodes agree but for changes by modules that are under way or have met a command, targets follow, what was activated fires connections activated after it, switches in series |
| `players` | `FairSpec` | 469 988 | a player shows the scene it names, the handler plays what the tree says, keeps its time and stops at the end |
| `scene_stopped` | `Spec` | violated | a scene that has just been selected is stopped by an old command |
| `gui_mirror` | `Spec` | 605 799 | GUI and server agree when nothing is under way, a save takes its moment, undo leads back, every call leaves the queue |
| `project_files` | `Spec` | 162 546 | nodes have their modules, but for those of a load that failed half way; the maps lead to modules that are loaded, files match modules, a project opens as it was saved; implementation of `ManagerSpec` |
| `save_incomplete` | `Spec`, files may go | violated | a save succeeds without a module that the project needs |
| `audio_streams` | `Spec` | 889 624 | one driver, always one, callbacks find their buffers, implementation of `BoundedFifo` |

States are the distinct ones TLC finds. Each property of a passing run has a
variant of the code that violates it under the same configuration (`mutants`).

**Bounds, and why they are enough.**

- `threaded_queue`: two queues, as in the code; one producer each; three items in lists of one or two, so that an item can be in the list, in the batch and delivered at once, and a list can be pushed while the last is being delivered. The proofs have no bounds.
- `server_lock`: two api threads, which compete with each other and with all five of the server's threads, of which there is one each in the code.
- `node_tree`: two containers that nest in either order and a connection; two bases and one further character, so that names clash, are lengthened, and begin each other; paths of up to three names, the depth of the tree. A node can be refused, freed with what is in it, and found afterwards.
- `audio_wiring`: one container with two modules and one connection, or two modules with two connections, so that a wire can be doubled. The container has a control that may not be a source; one wire may be kept for it at a time, as it then stays in every state until its module goes.
- `dsp_patch`: three modules, so that one with neighbours on both sides can go; two wires between a pair.
- `set_command`: two containers, one in the other, two modules, one connection above and one beside them, in 193 wirings: straight, chained, converging, circular, through activation. Everything begins inactive with the lowest value. In two of them a module changes an endpoint (`pitch`) of its own; a connection passes it on to the other module, in a circle, or to a container's switch as well. Two such changes may be on their way, so that one can follow another in a batch or come after it.
- `players`: five projects to begin with (`Projects`), one for each question: a scene from 1 to 3 that plays and one that loops, three ticks, so that the loop wraps, and a clock put right once, forwards or back, by more than `Sanity`; the same with a rename to a second path, so that it is renamed and deleted while a command is on its way; a scene that is changed once while its player plays and comes to its end; one changed twice in a session, to a start that the player accepts or refuses, under names that are in use, free, or left to the player; a second player that a scene is moved to. Two sessions in the first three, so that the thread's commands come in between. `scene_stopped`: one scene, no direct sets of `play`.
- `gui_mirror`: two attributes of two values. `Budgets` lists five kinds of run, each with so many edits, undos, redos, saves, remote changes, lost datagrams and questions: echoes that cross with a remote change and with its undo; saves among commands that replace each other; undo and redo of merged commands; losses and a modal state; a save between undo and redo. One remote change and two local ones under way are what an echo needs to be mistaken.
- `project_files`: four modules, of which two share an origin, one is a container and one alone has an attribute; at most two nodes while the user makes them and three after a load, so that a container can hold two or a container; five ids. Two received projects, one from an older libIntegra, one that brings a module; and one edited by hand that has a synth in a synth, of which the first becomes an orphan while others use modules. That `LoadNodes` reads each well-formed document of up to five elements as it was written is an assumption of the MC module (`ReadsDocuments`), which TLC evaluates in the same run.
- `audio_streams`: a usual driver with a device for both sides, one more for each side, and defaults; another whose two devices share a name, without defaults. Rings of 2 and 3 samples for blocks of up to 2, so that each block may not fit, and one wraps in its middle. A sample is one of two values.

Symmetry is used where ids, names and interchangeable nodes are only compared
for equality, and in runs of invariants and safety properties only.

**Deadlock** is checked in every passing run but one; where the system stops it
has an explicit step `Done`. `gui_mirror` switches it off: there a run ends when its
budget is used up and nothing is under way. That it cannot stop *earlier* is
what `CallsLeave` says.

**Fairness.** `ThreadedQueue`: weak fairness of each thread, since the scheduler
runs each and a semaphore that is up stays up for the only thread that waits on
it; no producer need begin a push and no owner a destruction. `ServerLock`:
strong fairness to get a mutex (`Lock`, `Execute`, which takes the dsp mutex, and the
steps of the destructor) since others take and release it in between. A
`pthread_mutex` does not promise that; what justifies it is that the others
sleep between two uses: the player thread for its interval, the queues' threads
until a signal, the audio thread until the next buffer. Everything else is
weakly fair. `SetCommand`: the thread goes on. `Players`: the thread goes on and
gets the lock (strong, for the same reason), the user ends a call, and a session
(strong: a `CServerLock` is an object of a block, but between its end and now there may be
calls without end); no one has to begin one. `GuiMirror`: only the timer of the queue of calls
(`Timeout`) is fair; neither the server nor the network need answer. The
others state safety only.

## 5. What is proved

TLAPS checks every leaf; nothing is assumed but the named assumptions on the
constants (that threads and queues are different from each other, that sets
are what their names say, that in the projects to begin with no two players have one path
and no two scenes of a player one name, as `NodeTree` shows of any tree; that in the tree of
`SetCommand` nodes are in no circle, that what can be switched is in containers only,
which `CLogic::can_be_child_of` sees to, and that an `active` endpoint is 0 or 1, as in
every interface definition that has one), which TLC evaluates in the runs.

The provers cannot instantiate the library's induction theorems. Where a proof needs
induction over numbers (the depth of the tree) it looks at the least number for
which the claim fails, which exists by the well-foundedness of `<` (`LeastNumber` in
`AudioWiring_proofs`).

**Queues** (`ThreadedQueue_proofs`). `TypeCorrect`, then `FifoCorrect` (nothing lost,
doubled or reordered, with either kind of semaphore), from an inductive invariant
`ThreadInv` that says what holds between two steps of a queue's thread: a batch is
held only while it is delivered; the thread decides to exit in the critical
section that empties the list, and after the last producer has stopped. From it
follows `DestroyedEmpty`, the destructor's assertion. `WakeupCorrect` (no thread
sleeps on items) needs private semaphores and the stronger `SignalInv`: a thread
that is not about to take the list can be sure of a signal, whether it waits or
delivers. `QueueImplementsFifo`: the thread's steps are `Accept`, `Deliver` and
`Close` of the channel, or stutter.

**Lock** (`ServerLock_proofs`). `LockInvariant`: who holds which mutex at every point,
and what the owner field says there (`HolderInv`), and which workers have been joined by
then (`JoinInv`). The second part is why the invariant is not obvious: the flag that refuses the lock is *down
again* at the end of the teardown, so a worker between mutex and flag would be let
into a deleted server, and it must be known that none is left. From it
`MutualExclusion`, `DspDeletion` and `NeverRefused` (a thread of the api
always gets the lock it waits for), for any set of api threads. `AlarmTellsHolder`: a
thread that looks at the owner without the mutex finds itself there exactly when it is
the holder. The owner lags behind the mutex in both directions, but only in steps of the
thread that sets or clears its own name.

**Node tree** (`AudioWiring_proofs`). `TreeStaysWhole`: for trees of any depth and size
and any commands, circular moves and the crashes they cause among them, the only steps
that take the copies of the tree apart are moves that the node's logic refuses or to
where the name is taken. `TreeInv` is `Tree` (the
maps of children and the parents agree, each stored path is the parent's with the node's
name) and `Table` (the state table lists just these paths). It has no explicit
conjunct against circles: a path is longer than its parent's, so that there can be
none. The work is in what the model's recursive functions compute: `Subtree(n)` is the
nodes whose paths continue that of `n` (`Subtrees`), and a relocated node's `Repathed` is its
parent's new path with its name (`RepathedIs`), for which the new place must not be
in the subtree. `PathsDiffer` (no two nodes have one path) is what makes the state
table a function.

`EndsFollow` (`AudioWiring_proofs`): a connection goes on referring to its node in every step that leaves it
in reach, for paths of any length. Three facts carry it. A relocated node's new path is the old one with its
beginning exchanged (`PathAfter`), and that is what `Reprefixed` does to an end (`ReprefixedIs`), seen from
any place above the node (`GraftBelow`). The code compares strings, so an end begins with a path also where
only a name does; then a node at that depth has a sibling with that name (`OnTheWay`), which
`Unambiguous` excludes. And if a move brings a node into the reach of a connection, its new place is at or below
the connection's owner (`MovedBelow`), as otherwise a node with its name were already there.

**Audio connections** (`AudioWiring_proofs`). `SignalsFlow` and `NothingElseFlows`: the host has a
wire for each connection between two modules, and no other but those that are `kept`. The
invariant `WiringInv` is stronger than both: the number of wires between two modules is
exactly that of the connections that lead from the one to the other, and of the wires kept
between them (`Wired`); and a connection that has been deleted refers to nothing
(`EndsInv`). An unfit source connects nothing, as no two nodes have one path, so the
connection's wire turns into a kept one (`LeaveWires`). A relocation keeps it because careful callers change no
connection's modules; a delete because each connection takes its own wire with it, also
when a container is deleted that holds connections and the modules they join.

**Dsp engine** (`Modules_proofs`). `PatchCorrect`, `MapSane` and
`PatchImplementsHostGraph`, for any modules and wires, under `CountsNew = FALSE`. The invariant
adds that the map has as many entries as the canvas has objects: a new module's
number is that count.

**Set command** (`SetCommand_proofs`). `RecursionStops` and `CheckerInStep`, for any
tree, wiring and values. Neither is inductive alone; the missing part is
`OutermostFromOutside`: a command from within can overwrite and erase only the
entry of the *outermost* command, which is not a cause of recursion itself.
`ValuesConform` is the type invariant, with the constraints of all endpoints.
`HostInStep`: host and nodes agree on every value, with any wirings, modules and lengths of
the queue, but for changes by modules that are under way and for endpoints where one of
these met a command or a node that is not active. The invariant `HostInv` says so after
every step, not only between commands: the host has what the node has, or if changes by
the module are under way, what the last of these says (`HostHas`). Taking a batch from
the queue keeps it as the last change of an endpoint is never the one that is left out.

`SeriesKept`: containers switch what is in them like switches in series, for trees of any
depth and any connections that form no circle. The statement is conditional on the values
to begin with, as a node that was moved may be out of step with its containers
(section 6). The invariant `SeriesInv` has two parts. `Kept` says that each node that
only activation switches is as it should be, or that some command on the stack still has an
item to do that reaches it (`Covered`). `StackOK` says what those items are worth:
an item of the tree carries what the containers above its node are *now* (`ItemOK`),
and each command was caused by the one below it in the stack, by a connection or
by activation, in which case it is below all that is left to do there (`Link`).
The second keeps the first true: a command that switched a container above an item
of a command further down would lead back to what that command has led to, a circle
(`NoWayBack`). For the same reason the checker never refuses to switch a node
(`NotRefused`).

`SourcesFollowed`: what one connection alone sets has followed the connection's source,
if that has changed and the connection was active all along, for any tree and connections
without a circle. The invariant `FollowsInv` says it of every step: the target has followed, or a
command on the stack still has the connection to fire (`Pending`). A command on the
source puts the connection among what it has to do (`IssueFollows`); firing it sets
the target, and the only reason for a refusal is the target's constraint, as a command
that is setting the target already would have led back to it (`NoWayBack` again, by way of
`StackOK`, so that `SeriesInv` is part of this invariant too). What sets the target
besides the connection can only be the command from outside, which comes before all this.

`ActivatedSourcesFollowed`: after an activation it is so even of connections that were
activated on the way, from the `active` endpoints of nodes that were activated too, where
connections leave containers alone. `FollowsInv` says nothing of a connection whose
own `active` endpoint has changed, and that a connection has been skipped for being inactive
is in no state. The invariant `RousedInv` therefore looks at the nodes that have been
activated and do not wait for their second time any more (`Roused`). Only the outermost
command activates nodes (`OuterOnly`: the premise `ContainersApart` is what this needs);
while it goes through the tree, all that it has activated waits, so that there is
no such node. Once it is through, no flag changes any more that only activation switches: a
node that has its second time (`AgainRouses`) sets off the connections that are active,
and each of these is fired or still to be fired (`Pending`), as for `SourcesFollowed`,
whose lemmas are stated for any set of sources for this reason.

**Players** (`Players_proofs`). `HandlerFollowsNodes`: for any players, paths and
spans, the handler advances exactly those that are to play, at their present
paths, whatever commands of its thread come late. The invariant adds that a
player that does not exist has its default values (`Whole`), which is why a new
player does not play; scenes matter to it only through the endpoints they set (`SetsScene`).
`TypesConform` adds that the thread never runs in the middle of a call of the user.
`LoopsStayBeforeEnd` and `TimeIsKept` are about the arithmetic of `%`: a wrapped tick lies
between the start and the end, and differs from the unwrapped one by whole rounds. Each
update takes a player on by the time since the last one, for any spans and leaps of the
clock, or lets it stand still because the clock and the rounds that the player has made
amount to more than `Sanity`; the start that is computed anew then makes up for both.
`PlayersPlayScenes`: while a call of the user runs, the commands left in `script` are
what is missing between the player's values and the scene it is to show; the invariant `Full`
says this for each command of the script, and that scene names are unique within a
player, that a player that is not adrift names a scene that exists, or none.

**Module manager** (the second part of `Modules_proofs`). The theorems are about `ManagerSpec`, in
which a file may bring any modules and any nodes, so they hold whatever
`ProjectFiles` reads. `RegistrySound` is the invariant: what the map of origins and
the library's own modules name is loaded, and each loaded module has one source.
`OriginsSound` and `DevelopmentSingle` (of which no run makes a property of its own, as
`ProjectFiles` implements `ManagerSpec`) follow from it. `NodesSafe`: however loads fail, the
module of a node is loaded, unless the node is an orphan, left by a failed load that
brought the module itself (section 6). What deleted definitions are taken for afterwards
does no further harm, as only more modules are found in use (`UsedIsFound`). `FilesSafe`:
every definition names a file that is there, where the files can be renamed
(`SameFileSystem`) and users leave those of their own alone (`~OwnFilesGo`). Each of
the manager's operators (entering, unloading, changing the source) has lemmas that
say what it keeps, from which the steps follow.

**Ring buffer** (`AudioStreams_proofs`). `RingImplementsFifo`: for rings and blocks of
any length, what is read is what was written, in order, cut off where the ring is
full and filled up with silence where it is empty. The invariant `RingOK` bounds the
position and the count; the argument is that the place of the `i`-th sample is never
computed with `%` by the code but agrees with it (`PlaceInBuffer`), so that the two
pieces of a write land behind the content (`WriteLands`) and those of a read are its
head. `EngineUsesRing` shows that the engine's steps use the ring only so, hence
`EngineImplementsFifo`.

**Streams** (`AudioStreams_proofs`). `DrivenOnce`, `DrivenAlways` and `CallbacksFindBuffers`, for any
drivers and devices and whichever streams fail to open or to start. A call of the api is
a list of steps, so the invariant `EngineInv` says, for each list that can be
left of a call, which streams are open by then, which pointers are set and which buffers
exist: the input closes before the output, the thread ends before anything opens, and a
buffer is made before the first stream that uses it starts.

**GUI** (`GuiMirror_proofs`), for any attributes, values and budgets, so any number of
edits, losses and changes of others. The order in which the server will execute calls is
the sequence `UnderWay`: those on their way, then those in the queue. A time-out, an answer and
the sending of the next call leave it as it is; a command adds to its end, and may have
dropped the last one. `Remembers` says why that is the right one: as long as a
previous command is remembered, the last set command in the queue is its call, so what is
dropped is a call that sets the same attribute, or a save.

`MirrorInvariant` has three parts. `SaveInv`: an attribute that nobody else sets is shown as the
calls under way tell it, and every save among them carries the value that the calls before it
tell (`Told`); so when the server reaches the save it has that value. From it follows
`SavesTakeTheirMoment`. `LastNoteInv`: the last datagram about an attribute tells what the
server has. `MirrorInv` (for the attributes that `InStep` does not except, and of which no
remote change is on its way): if the attribute is not marked as touched remotely, the
calls under way tell what is shown, counting what is pending; if it is marked, at most one
call or echo of the GUI's own is left (`OwnOnce`), and when none is left what is shown is what
the server has. The echo that clears the mark is believed, and is the last. That is why
two commands on their way when a remote change arrives are an exception of `InStep`, and one
is not: the invariant fails there. `GuiInStep` follows, as nothing is left.

Undo and redo process a whole transaction in one step. `ProcessedRuns` unfolds the
recursive function `Processed` into the states after each command, `RunsCarry` carries the invariant
through them, by the least command for which it would fail (`Onwards`).

`UndoInvariant`: while nobody else sets anything, there are states that the transactions lead
through, from the start to what is shown (`LeadsHere`) and on through those that can be redone
(`LeadsOn`), and within a transaction each command finds what its inverse sets (`Leads`). Undo
walks a path back (`LeadsUndoes`), redo walks one on (`LeadsDoes`), and merging two
commands into one with the older inverse cuts a state out of a path (`LeadsPush`). The
invariant is about both stacks, although the property is about one: redo moves
transactions from the other. `UndoingLeadsBack` follows, as the end of a path has what
the last command on it set (`HereLast`).

**Only model-checked.** `OpensAsSaved` and that `ProjectFiles` implements `ManagerSpec` (the
reader is a fold over data); and all liveness (`EventuallyDelivered`, `DestructorReturns`,
`SessionEnds`, `CommandEnds`, `EndStops`, `CallsLeave`), as fairness rests on `ENABLED`.

## 6. Divergences between code and documents

Shown by a run (`scene_stopped`, `save_incomplete`):

- **A scene stopped as it starts** (`player_handler.cpp:283`): the thread's decision to stop is carried out after a scene has been selected. The comment in `player_logic.cpp:399` says the order of the set commands prevents this.
- **A save without a module** (`file_io.cpp:860`): a module whose file has gone is left out and the save succeeds, where `api/documentation_mainpage.h:54` promises the original functionality.

Met while modelling, not in a run.

Server:

- A refused move frees the node and leaves it in the tables (`move_command.cpp:67`); `find_node` returns it, where `api/server.h:82` promises the node or `NULL`. `CopiesStayInStep` excepts these moves.
- On macOS both queues open the semaphore named `/semaphore` (`threaded_queue_implementation.h:46`). A signal for one wakes the other, and `end_session`, which "frees all system resources" (`api/integra_session.h:66`), may not return: TLC finds `DestructorReturns` violated with `SharedSemaphore = TRUE`.
- A move onto the name of another node takes its place in the map (`move_command.cpp:78`); one to a place below the node makes a circle, in which `update_paths` recurses until the stack is used up (`:80`). The message about a refused move, or a refused new node, at top level follows a null parent (`:66`, `new_command.cpp:93`).
- Rename by prefix (`logic.cpp:665`): renaming `a` rewrites a connection to its sibling `a_`, although the comment says the path "doesn't refer to the renamed object".
- When a connection's source is set to a control endpoint that may not be a source, the handler returns before it has removed the wire of the old one (`connection_logic.cpp:116`; "remove previous connection in host", `:135`). Nothing removes it until its module goes. `WiresHaveConnections` counts such wires as `kept`; without them TLC finds it violated.
- A node that comes to be referred to by a rename or a move gets no wire, and one that is moved out of a connection's reach leaves its wire in the host, even after the connection is deleted (`logic.cpp:252`), where `api/documentation_mainpage.h:174` says that what is in a container is self-contained; `CarefulSpec` excludes both. A move between containers does not change `active`.
- Nothing is quantized (`logic.cpp:601`): the nearest allowed state is assigned by `CValue`'s own `operator=`, which is not virtual and copies nothing, so the value is passed on as it is and refused by the target's constraint. The comment at `:532` says it is quantized. `TargetsFollow` is about values that the constraint lets pass.
- Nodes are activated a second time "in case some connection failed to fire due to not being active yet" (`container_logic.cpp:88`), when their own container is through. If that container was switched on by a connection from within the activation of another one, the connections there may not be active even then, and what they set never follows (`container_logic.cpp:93`). TLC finds this with `ActivatedFollow` without its premise `ContainersApart` and a connection from the upper module's `active` to the inner container's.
- When connections form a circle, a container may be switched off by a command from within while it is switching its content on, and leave a node active in it. `SwitchesInSeries` excludes circles.
- A value the host sends can be overtaken by one from the api, and is then applied after it (`dsp_engine.cpp:607`, `:730`): the host keeps the one, the node the other, until either is set again. `HostAgrees` excepts such endpoints (`astray`).
- The comparison that detects "when clocks go forward or back" (`player_handler.cpp:264`, comment at `:266`) takes the unwrapped tick, so in a loop it finds a leap when the rounds amount to 30 seconds; the player stands still for that update, and again after each 30 seconds. `KeepsTime` states when this happens.
- After `stop` or `home` a tick that the thread had computed may still be set; a command on its way to a player that was renamed reaches another one that has taken its path.
- A scene may begin before 0, which its player's `start` refuses, and `update_player` goes on with `end` (`player_logic.cpp:404`). A player's `tick` ends at 1 000 000 (seven hours at the default rate), its `end` at 10 000 000: in between the handler goes on and the tick is refused.
- The player is left with the name of no scene when its user sets one (`player_logic.cpp:179`) or moves the selected scene to another player: it goes on with the old span, and a scene that gets that name later is taken for the selected one without having been selected.
- A rename of the selected scene begins it anew (`scene_logic.cpp:103`).
- A player whose rate is 0 can cause a division by zero (`player_handler.cpp:267`).

Files and modules:

- A load that fails after it made nodes unloads the modules it brought (`file_io.cpp:202`), and their definitions with them, which the nodes go on using; `api/interface_definition.h:97` has embedded modules remain in memory while they have instances. These nodes are the orphans that `NodesHaveModules` excepts.
- An element that makes no node leaves the reader at the node before, which then gets its attributes (`:474`); where there is none above, a null parent is followed (`:437`).
- The rename of a module's file is not checked (`module_manager.cpp:1074`), so that a definition can name a file that is not there; nor is that of a module in development that has been replaced (`:404`).
- The map of origins forgets a module that is still there when another of its origin is unloaded (`module_manager.cpp:947`).

Audio:

- A stream that opens and does not start is closed and its pointer kept (`portaudio_engine.cpp:752`): the stand-in thread is not started, so nothing drives the dsp engine, and the stream is closed again by the next call.
- There is no stand-in thread after the constructor, nor for a real driver without default devices, although the comment at `:1078` has it run whenever no device is open.
- Between `create_process_buffer` and `initialize_ring_buffer` an input callback may write to a ring that has another number of channels.
- `CRingBuffer::read` tests its argument where `write` tests `m_buffer` (`ring_buffer.cpp:176`).

GUI:

- With two commands on their way when a remote one arrives, the echo rule shows the older value (`RemoteCommandHandler.as:97`).
- A command that replaces the previous one drops the newest call of the queue, which may be another one: a save that waits is lost (`IntegraController.as:406`).
- The modified flag is cleared when a save is answered (`IntegraController.as:530`): what is changed in between counts as saved, and `IntegraLive.mxml:664` does not ask before it is lost.
- Undo and redo do not show pending remote changes first, as commands do; a command that joins a transaction leaves what can be redone.

## 7. What is not modelled

The components with status `not_modelled` in `PROJECT.json`, each with its reason:
those in the plan (steps 12 and 13); I/O and marshalling (XML-RPC and OSC formats,
PortMidi, zip, XML); the arithmetic of floating point in scalers and envelopes and
the Lua interpreter, which are out of TLC's reach; the views of the GUI; vendored
code, which is most of the repository by size; data. Within the modelled components:

- Everywhere: a semaphore or mutex that cannot be created, exceptions for want of memory.
- Players: the `rate`; the upper ends of the constraints; names that are lengthened because they are taken, and moves of scenes onto each other, which `NodeTree` covers; scenes in a load.
- Node tree: a new command that is refused at top level, whose message follows a null pointer.
- Set commands: INITIALIZATION and LOAD commands; what scripts, scalers and data directories do in a set command.
- Load and save: the data directories in a project file, and the connections' wires, which `AudioWiring` covers.
- Audio: channel counts, sample rates and the process buffer's mixing; the endpoints of AudioSettings; several api threads at once, which the server's lock excludes.
- GUI: set commands that the server refuses, as the attributes are there throughout and the values fit; commands that add, remove, rename or move nodes, which go through the same queue but not through the echo rule; import and export.
