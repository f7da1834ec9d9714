------------------------------ MODULE ServerLock ------------------------------
(***************************************************************************)
(* CServer::lock, unlock and ~CServer, and the threads that meet in them:  *)
(* the callers of the api through CServerLock; the output threads of the   *)
(* dsp engine's feedback queue and of the midi input dispatcher; the       *)
(* player thread; and the audio thread, which takes the dsp engine's mutex *)
(* but never the server's.                                                 *)
(*                                                                         *)
(* Taking or releasing a mutex that others wait for is a step of its own,  *)
(* and so is every access to m_mutex_owner, which a thread that waits to   *)
(* lock reads without the mutex.  (It is one word: a read finds it before  *)
(* or after a write.)  The mutexes of the queues and of the player handler *)
(* are held over straight-line code only and cannot take part in a         *)
(* deadlock; they are inside the steps.                                    *)
(***************************************************************************)
EXTENDS Naturals

CONSTANTS
  ApiThreads,  (* threads of the host application *)
  Feedback,    (* output thread of the dsp engine's queue *)
  Dispatcher,  (* output thread of the midi input dispatcher *)
  Player,      (* the player handler's thread *)
  Audio,       (* the thread that calls process_buffer *)
  Destructor,  (* the thread that ends the session *)
  Nobody       (* the owner of a mutex that is free *)

QueueThreads == {Feedback, Dispatcher}
Workers == QueueThreads \cup {Player}
Threads == Workers \cup ApiThreads

ASSUME ThreadAssumption ==
  /\ Feedback # Dispatcher /\ Player \notin QueueThreads
  /\ Workers \cap ApiThreads = {}
  /\ {Audio, Destructor, Nobody} \cap Threads = {}
  /\ Audio # Destructor /\ Nobody \notin {Audio, Destructor}

VARIABLES
  mutex,      (* holder of m_mutex *)
  mutexOwner, (* m_mutex_owner *)
  shutdown,   (* holder of m_shutdown_mutex *)
  dspMutex,   (* holder of the dsp engine's m_mutex *)
  pc,         (* where each api thread and worker is *)
  last,       (* workers whose present round is the last one *)
  stop,       (* workers that have been told to finish *)
  audio,      (* the audio thread: "idle", "processing" or "stopped" *)
  teardown    (* where the destructor is *)

vars == <<mutex, mutexOwner, shutdown, dspMutex, pc, last, stop, audio, teardown>>

(* The steps of ~CServer, in their order. *)
BeforeFlag == {"running", "lock", "wait", "own", "set_flag"}
BeforeDsp == {"unlock", "release", "delete_nodes", "delete_audio", "lock_dsp"}
DspGone == {"stop_feedback", "join_feedback", "delete_dispatcher",
            "join_dispatcher", "stop_player", "join_player", "clear_flag", "done"}
TeardownStates == BeforeFlag \cup BeforeDsp \cup DspGone

(* "alarm" and "refused" are the failed assertions of lock and CServerLock *)
(* and "stuck" is a thread that waits for a mutex it holds itself.         *)
ThreadStates ==
  {"idle", "lock", "wait", "own", "check", "execute", "dsp", "relock", "unlock",
   "release", "drop", "turn_away", "exited", "refused", "alarm", "stuck"}

Init ==
  /\ mutex = Nobody /\ mutexOwner = Nobody
  /\ shutdown = Nobody
  /\ dspMutex = Nobody
  /\ pc = [t \in Threads |-> "idle"]
  /\ last = {} /\ stop = {}
  /\ audio = "idle"
  /\ teardown = "running"

-----------------------------------------------------------------------------
(* A thread that uses the server. *)

Goto(t, state) == pc' = [pc EXCEPT ![t] = state]

(* Back round the loop of a worker, or out of it. *)
EndRound(t) == Goto(t, IF t \in last THEN "exited" ELSE "idle")

(* An api thread calls get_server: its duty is to do so in a session only. *)
GetServer(t) ==
  /\ t \in ApiThreads
  /\ pc[t] = "idle" /\ teardown = "running"
  /\ Goto(t, "lock")
  /\ UNCHANGED <<mutex, mutexOwner, shutdown, dspMutex, last, stop, audio, teardown>>

(* A queue's thread has items; it may have found the queue finished when   *)
(* it took them, and then this is its last batch.                          *)
HandleQueueItems(t) ==
  /\ t \in QueueThreads
  /\ pc[t] = "idle"
  /\ last' = IF t \in stop THEN last \cup {t} ELSE last
  /\ Goto(t, "lock")
  /\ UNCHANGED <<mutex, mutexOwner, shutdown, dspMutex, stop, audio, teardown>>

(* The player thread has commands; it looks at its semaphore before.       *)
PlayerCommands ==
  /\ pc[Player] = "idle" /\ Player \notin stop
  /\ Goto(Player, "lock")
  /\ UNCHANGED <<mutex, mutexOwner, shutdown, dspMutex, last, stop, audio, teardown>>

(* A worker that was told to finish leaves its thread function. *)
Exit(t) ==
  /\ pc[t] = "idle" /\ t \in stop
  /\ Goto(t, "exited")
  /\ UNCHANGED <<mutex, mutexOwner, shutdown, dspMutex, last, stop, audio, teardown>>

(* A caller that has a CServerLock calls get_server again: the mistake for *)
(* which lock looks at the owner.                                          *)
GetServerAgain(t) ==
  /\ t \in ApiThreads
  /\ pc[t] = "execute"
  /\ Goto(t, "relock")
  /\ UNCHANGED <<mutex, mutexOwner, shutdown, dspMutex, last, stop, audio, teardown>>

(* CServer::lock: the owner is compared, without the mutex ...             *)
CheckOwner(t) ==
  /\ pc[t] \in {"lock", "relock"}
  /\ Goto(t, IF mutexOwner = t THEN "alarm" ELSE IF pc[t] = "lock" THEN "wait" ELSE "stuck")
  /\ UNCHANGED <<mutex, mutexOwner, shutdown, dspMutex, last, stop, audio, teardown>>

(* ... the mutex is taken ...                                              *)
Lock(t) ==
  /\ pc[t] = "wait"
  /\ mutex = Nobody /\ mutex' = t
  /\ Goto(t, "own")
  /\ UNCHANGED <<mutexOwner, shutdown, dspMutex, last, stop, audio, teardown>>

(* ... the owner is set ...                                                *)
SetOwner(t) ==
  /\ pc[t] = "own"
  /\ mutexOwner' = t
  /\ Goto(t, "check")
  /\ UNCHANGED <<mutex, shutdown, dspMutex, last, stop, audio, teardown>>

(* A variant that does not look at the shutdown mutex. *)
LockAlways(t) ==
  /\ pc[t] = "check"
  /\ Goto(t, "execute")
  /\ UNCHANGED <<mutex, mutexOwner, shutdown, dspMutex, last, stop, audio, teardown>>

(* ... and the shutdown mutex is tried: if that is taken, the lock is to   *)
(* be released again and refused.                                          *)
CheckShutdown(t) ==
  /\ pc[t] = "check"
  /\ Goto(t, IF shutdown = Nobody THEN "execute" ELSE "drop")
  /\ UNCHANGED <<mutex, mutexOwner, shutdown, dspMutex, last, stop, audio, teardown>>

(* process_command, with or without a call into the dsp engine. *)
Execute(t) ==
  /\ pc[t] = "execute"
  /\ \/ Goto(t, "unlock") /\ UNCHANGED dspMutex
     \/ dspMutex = Nobody /\ dspMutex' = t /\ Goto(t, "dsp")
  /\ UNCHANGED <<mutex, mutexOwner, shutdown, last, stop, audio, teardown>>

LeaveDsp(t) ==
  /\ pc[t] = "dsp"
  /\ dspMutex' = Nobody
  /\ Goto(t, "unlock")
  /\ UNCHANGED <<mutex, mutexOwner, shutdown, last, stop, audio, teardown>>

(* A variant that releases the mutex first. *)
ClearOwnerLate(t) ==
  /\ pc[t] \in {"unlock", "drop"}
  /\ IF mutex = t
       THEN mutex' = Nobody /\ UNCHANGED <<mutexOwner, pc>>
       ELSE mutexOwner' = Nobody /\ EndRound(t) /\ UNCHANGED mutex
  /\ UNCHANGED <<shutdown, dspMutex, last, stop, audio, teardown>>

(* CServer::unlock: the owner is cleared ...                               *)
ClearOwner(t) ==
  /\ pc[t] \in {"unlock", "drop"}
  /\ mutexOwner' = Nobody
  /\ Goto(t, IF pc[t] = "drop" THEN "turn_away" ELSE "release")
  /\ UNCHANGED <<mutex, shutdown, dspMutex, last, stop, audio, teardown>>

(* ... and the mutex released; a worker that was refused drops what it had *)
(* to do.                                                                  *)
Unlock(t) ==
  /\ pc[t] \in {"release", "turn_away"}
  /\ mutex' = Nobody
  /\ IF pc[t] = "turn_away" /\ t \in ApiThreads THEN Goto(t, "refused") ELSE EndRound(t)
  /\ UNCHANGED <<mutexOwner, shutdown, dspMutex, last, stop, audio, teardown>>

(* process_buffer holds the dsp mutex; what it pushes wakes the workers,   *)
(* which here may wake at any time.                                        *)
ProcessBuffer ==
  /\ audio = "idle" /\ dspMutex = Nobody
  /\ dspMutex' = Audio /\ audio' = "processing"
  /\ UNCHANGED <<mutex, mutexOwner, shutdown, pc, last, stop, teardown>>

EndBuffer ==
  /\ audio = "processing"
  /\ dspMutex' = Nobody /\ audio' = "idle"
  /\ UNCHANGED <<mutex, mutexOwner, shutdown, pc, last, stop, teardown>>

-----------------------------------------------------------------------------
(* The destructor *)

At(from, to) == teardown = from /\ teardown' = to

(* end_session, when the host application has let go of the server. *)
EndSession ==
  /\ \A t \in ApiThreads : pc[t] = "idle"
  /\ At("running", "lock")
  /\ UNCHANGED <<mutex, mutexOwner, shutdown, dspMutex, pc, last, stop, audio>>

(* lock, in the same steps: the shutdown mutex is free, as nobody else     *)
(* keeps it.                                                               *)
DestructorCheckOwner ==
  /\ At("lock", "wait")
  /\ mutexOwner # Destructor
  /\ UNCHANGED <<mutex, mutexOwner, shutdown, dspMutex, pc, last, stop, audio>>

DestructorLock ==
  /\ At("wait", "own")
  /\ mutex = Nobody /\ mutex' = Destructor
  /\ UNCHANGED <<mutexOwner, shutdown, dspMutex, pc, last, stop, audio>>

DestructorSetOwner ==
  /\ At("own", "set_flag")
  /\ mutexOwner' = Destructor
  /\ UNCHANGED <<mutex, shutdown, dspMutex, pc, last, stop, audio>>

SetFlag ==
  /\ At("set_flag", "unlock")
  /\ shutdown = Nobody /\ shutdown' = Destructor
  /\ UNCHANGED <<mutex, mutexOwner, dspMutex, pc, last, stop, audio>>

DestructorClearOwner ==
  /\ At("unlock", "release")
  /\ mutexOwner' = Nobody
  /\ UNCHANGED <<mutex, shutdown, dspMutex, pc, last, stop, audio>>

(* A variant that goes on without releasing the server. *)
KeepLocked ==
  /\ At("release", "delete_nodes")
  /\ UNCHANGED <<mutex, mutexOwner, shutdown, dspMutex, pc, last, stop, audio>>

DestructorUnlock ==
  /\ At("release", "delete_nodes")
  /\ mutex' = Nobody
  /\ UNCHANGED <<mutexOwner, shutdown, dspMutex, pc, last, stop, audio>>

(* The delete commands of the top-level nodes, each a call to the dsp      *)
(* engine, without the server's mutex.                                     *)
DeleteNodes ==
  /\ At("delete_nodes", "delete_audio")
  /\ dspMutex = Nobody
  /\ UNCHANGED <<mutex, mutexOwner, shutdown, dspMutex, pc, last, stop, audio>>

(* A variant that deletes the dsp engine with the audio still running. *)
DeleteAudioLate ==
  /\ At("delete_audio", "lock_dsp")
  /\ UNCHANGED <<mutex, mutexOwner, shutdown, dspMutex, pc, last, stop, audio>>

(* The audio engine stops its streams, which waits for process_buffer. *)
DeleteAudio ==
  /\ At("delete_audio", "lock_dsp")
  /\ audio = "idle" /\ audio' = "stopped"
  /\ UNCHANGED <<mutex, mutexOwner, shutdown, dspMutex, pc, last, stop>>

(* ~CDspEngine holds its mutex while it joins the feedback queue's thread. *)
LockDsp ==
  /\ At("lock_dsp", "stop_feedback")
  /\ dspMutex = Nobody /\ dspMutex' = Destructor
  /\ UNCHANGED <<mutex, mutexOwner, shutdown, pc, last, stop, audio>>

Stop(t, from, to) ==
  /\ At(from, to)
  /\ stop' = stop \cup {t}
  /\ UNCHANGED <<mutex, mutexOwner, shutdown, dspMutex, pc, last, audio>>

JoinFeedback ==
  /\ At("join_feedback", "delete_dispatcher")
  /\ pc[Feedback] = "exited"
  /\ dspMutex' = Nobody
  /\ UNCHANGED <<mutex, mutexOwner, shutdown, pc, last, stop, audio>>

Join(t, from, to) ==
  /\ At(from, to)
  /\ pc[t] = "exited"
  /\ UNCHANGED <<mutex, mutexOwner, shutdown, dspMutex, pc, last, stop, audio>>

ClearFlag ==
  /\ At("clear_flag", "done")
  /\ shutdown' = Nobody
  /\ UNCHANGED <<mutex, mutexOwner, dspMutex, pc, last, stop, audio>>

Teardown ==
  \/ DestructorCheckOwner \/ DestructorLock \/ DestructorSetOwner
  \/ SetFlag \/ DestructorClearOwner \/ DestructorUnlock
  \/ DeleteNodes \/ DeleteAudio
  \/ LockDsp \/ Stop(Feedback, "stop_feedback", "join_feedback") \/ JoinFeedback
  \/ Stop(Dispatcher, "delete_dispatcher", "join_dispatcher")
  \/ Join(Dispatcher, "join_dispatcher", "stop_player")
  \/ Stop(Player, "stop_player", "join_player")
  \/ Join(Player, "join_player", "clear_flag")
  \/ ClearFlag

(* After the session the process goes on without a server. *)
Done == teardown = "done" /\ UNCHANGED vars

Locking(t) ==
  \/ CheckOwner(t) \/ Lock(t) \/ SetOwner(t) \/ CheckShutdown(t)
  \/ Execute(t) \/ LeaveDsp(t) \/ ClearOwner(t) \/ Unlock(t)

Next ==
  \/ \E t \in ApiThreads : GetServer(t) \/ GetServerAgain(t)
  \/ \E t \in QueueThreads : HandleQueueItems(t)
  \/ PlayerCommands
  \/ \E t \in Workers : Exit(t)
  \/ \E t \in Threads : Locking(t)
  \/ ProcessBuffer \/ EndBuffer
  \/ EndSession \/ Teardown \/ Done

Spec == Init /\ [][Next]_vars

(* Every thread runs; a thread that waits for a mutex others release again *)
(* and again gets it: the players sleep and the queues wait for signals    *)
(* between two uses.  No thread has to begin to use the server, and the    *)
(* session need not end.                                                   *)
Fairness ==
  /\ \A t \in Threads :
       /\ SF_vars(Lock(t)) /\ SF_vars(Execute(t))
       /\ WF_vars(CheckOwner(t)) /\ WF_vars(SetOwner(t)) /\ WF_vars(CheckShutdown(t))
       /\ WF_vars(LeaveDsp(t)) /\ WF_vars(ClearOwner(t)) /\ WF_vars(Unlock(t))
  /\ \A t \in Workers : WF_vars(Exit(t))
  /\ WF_vars(EndBuffer)
  /\ SF_vars(Teardown)

FairSpec == Spec /\ Fairness

-----------------------------------------------------------------------------
(* Properties *)

TypeOK ==
  /\ mutex \in Threads \cup {Destructor, Nobody}
  /\ mutexOwner \in Threads \cup {Destructor, Nobody}
  /\ shutdown \in {Destructor, Nobody}
  /\ dspMutex \in Threads \cup {Destructor, Audio, Nobody}
  /\ pc \in [Threads -> ThreadStates]
  /\ last \subseteq Workers /\ stop \subseteq Workers
  /\ audio \in {"idle", "processing", "stopped"}
  /\ teardown \in TeardownStates

Holding(t) == pc[t] \in {"execute", "dsp", "relock", "alarm", "stuck", "unlock", "release"}

(* The notification sink, the node tree and the logic of every node are    *)
(* used by one thread at a time; and once the flag is set, by nobody but   *)
(* the destructor, which then runs its delete commands without the mutex.  *)
OneThreadInServer ==
  /\ \A s, t \in Threads : Holding(s) /\ Holding(t) => s = t
  /\ teardown \notin BeforeFlag => \A t \in Threads : ~Holding(t)

(* The comparison at the top of lock, which may come between any steps of  *)
(* other threads, stops a thread that holds the mutex and none that could  *)
(* have waited: no thread waits for itself, and the alarm is never false.  *)
AlarmIsRight ==
  \A t \in Threads : pc[t] # "stuck" /\ (pc[t] = "alarm" => mutex = t)

(* The dsp engine is deleted while nobody is in it and nobody can come.    *)
DspDeletedAlone ==
  teardown \in DspGone =>
    /\ audio = "stopped"
    /\ \A t \in Threads : pc[t] # "dsp"

(* A caller that keeps to the session never meets CServerLock's assertion. *)
ApiNeverRefused == \A t \in ApiThreads : pc[t] # "refused"

(* Ending a session comes to its end, whatever the workers were doing:     *)
(* neither the server's mutex nor the dsp engine's, which the destructor   *)
(* holds while it joins, is waited for in a circle.                        *)
SessionEnds == (teardown = "lock") ~> (teardown = "done")
=============================================================================
