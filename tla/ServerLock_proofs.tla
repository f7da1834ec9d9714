-------------------------- MODULE ServerLock_proofs --------------------------
(***************************************************************************)
(* Proofs about the server's lock, for any set of api threads: one thread  *)
(* at a time in the server, none but the destructor during the teardown.   *)
(***************************************************************************)
EXTENDS ServerLock, TLAPS

Named(t) == pc[t] \in {"check", "execute", "dsp", "relock", "unlock", "drop", "alarm"}
InLock(t) == Named(t) \/ pc[t] \in {"own", "release", "turn_away"}

(* Who holds which mutex, at every point of every thread, and whom the     *)
(* owner names: fewer points, as it is written within.  The flag that      *)
(* refuses the lock is down again at the end, so the invariant must also   *)
(* say that every worker has been joined before: otherwise one that sits   *)
(* between the mutex and the flag would be let in.                         *)
HolderInv ==
  /\ \A t \in Threads : pc[t] # "stuck" /\ (Named(t) <=> mutexOwner = t) /\ (InLock(t) <=> mutex = t)
  /\ mutexOwner = Destructor <=> teardown \in {"set_flag", "unlock"}
  /\ mutex = Destructor <=> teardown \in {"own", "set_flag", "unlock", "release"}
  /\ shutdown = Nobody <=> teardown \in BeforeFlag \cup {"done"}

JoinInv ==
  /\ teardown \notin BeforeFlag => \A t \in Threads : ~Holding(t)
  /\ teardown # "running" => \A t \in ApiThreads : pc[t] = "idle"
  /\ teardown \in DspGone \cup {"lock_dsp"} => audio = "stopped"
  /\ teardown \in DspGone \ {"stop_feedback", "join_feedback"} =>
       pc[Feedback] = "exited"
  /\ teardown \in {"stop_player", "join_player", "clear_flag", "done"} =>
       pc[Dispatcher] = "exited"
  /\ teardown \in {"clear_flag", "done"} => pc[Player] = "exited"

Inv == TypeOK /\ HolderInv /\ JoinInv

LEMMA InitInv == Init => Inv
BY ThreadAssumption
DEF Init, Inv, TypeOK, HolderInv, JoinInv, Named, InLock, Holding, ThreadStates,
    TeardownStates, BeforeFlag, BeforeDsp, DspGone, Threads, Workers

(* The steps of the threads that use the server.                           *)
UseServer(t) ==
  \/ GetServer(t) \/ GetServerAgain(t) \/ HandleQueueItems(t) \/ Locking(t)
  \/ t = Player /\ PlayerCommands
  \/ t \in Workers /\ Exit(t)

LEMMA ThreadStep == ASSUME Inv, NEW t \in Threads, UseServer(t) PROVE Inv'
<1> USE ThreadAssumption
    DEF Inv, TypeOK, HolderInv, JoinInv, Named, InLock, Holding, ThreadStates,
        TeardownStates, BeforeFlag, BeforeDsp, DspGone, Threads, Workers,
        QueueThreads, Goto, EndRound
<1>1. CASE GetServer(t) \/ GetServerAgain(t)
  BY <1>1 DEF GetServer, GetServerAgain
<1>2. CASE HandleQueueItems(t)
  BY <1>2 DEF HandleQueueItems
<1>3. CASE t = Player /\ PlayerCommands
  BY <1>3 DEF PlayerCommands
<1>4. CASE t \in Workers /\ Exit(t)
  BY <1>4 DEF Exit
<1>5a. CASE CheckOwner(t)
  BY <1>5a DEF CheckOwner
<1>5b. CASE Lock(t)
  BY <1>5b DEF Lock
<1>5c. CASE SetOwner(t)
  BY <1>5c DEF SetOwner
<1>6. CASE CheckShutdown(t)
  BY <1>6 DEF CheckShutdown
<1>7. CASE Execute(t)
  BY <1>7 DEF Execute
<1>8. CASE LeaveDsp(t)
  BY <1>8 DEF LeaveDsp
<1>9a. CASE ClearOwner(t)
  BY <1>9a DEF ClearOwner
<1>9b. CASE Unlock(t)
  BY <1>9b DEF Unlock
<1> QED
  BY <1>1, <1>2, <1>3, <1>4, <1>5a, <1>5b, <1>5c, <1>6, <1>7, <1>8, <1>9a, <1>9b
  DEF Locking, UseServer

(* The steps of the destructor and of the audio thread.                    *)
LEMMA TeardownStep ==
  ASSUME Inv, ProcessBuffer \/ EndBuffer \/ EndSession \/ Teardown
  PROVE  Inv'
<1> USE ThreadAssumption
    DEF Inv, TypeOK, HolderInv, JoinInv, Named, InLock, Holding, ThreadStates,
        TeardownStates, BeforeFlag, BeforeDsp, DspGone, Threads, Workers,
        QueueThreads, At
<1>1. CASE ProcessBuffer \/ EndBuffer
  BY <1>1 DEF ProcessBuffer, EndBuffer
<1>2. CASE EndSession
  BY <1>2 DEF EndSession
<1>3a. CASE DestructorCheckOwner
  BY <1>3a DEF DestructorCheckOwner
<1>3b. CASE DestructorLock
  BY <1>3b DEF DestructorLock
<1>3c. CASE DestructorSetOwner
  BY <1>3c DEF DestructorSetOwner
<1>4. CASE SetFlag
  BY <1>4 DEF SetFlag
<1>5a. CASE DestructorClearOwner
  BY <1>5a DEF DestructorClearOwner
<1>5b. CASE DestructorUnlock
  BY <1>5b DEF DestructorUnlock
<1>6. CASE DeleteNodes \/ DeleteAudio \/ LockDsp
  BY <1>6 DEF DeleteNodes, DeleteAudio, LockDsp
<1>7a. CASE Stop(Feedback, "stop_feedback", "join_feedback")
  BY <1>7a DEF Stop
<1>7b. CASE Stop(Dispatcher, "delete_dispatcher", "join_dispatcher")
  BY <1>7b DEF Stop
<1>7c. CASE Stop(Player, "stop_player", "join_player")
  BY <1>7c DEF Stop
<1>8a. CASE JoinFeedback
  <2>1. \A t \in Threads : mutex # t => ~InLock(t)
    OBVIOUS
  <2> QED  BY <1>8a, <2>1 DEF JoinFeedback
<1>8b. CASE Join(Dispatcher, "join_dispatcher", "stop_player")
  BY <1>8b DEF Join
<1>8c. CASE Join(Player, "join_player", "clear_flag")
  BY <1>8c DEF Join
<1>9. CASE ClearFlag
  BY <1>9 DEF ClearFlag
<1> QED
  BY <1>1, <1>2, <1>3a, <1>3b, <1>3c, <1>4, <1>5a, <1>5b, <1>6, <1>7a, <1>7b, <1>7c, <1>8a, <1>8b,
     <1>8c, <1>9 DEF Teardown

THEOREM LockInvariant == Spec => []Inv
<1>1. Inv /\ [Next]_vars => Inv'
  <2> SUFFICES ASSUME Inv, [Next]_vars PROVE Inv'
    OBVIOUS
  <2>1. CASE UNCHANGED vars
    BY <2>1 DEF vars, Inv, TypeOK, HolderInv, JoinInv, Named, InLock, Holding
  <2>2. ASSUME NEW t \in Threads, UseServer(t) PROVE Inv'
    BY <2>2, ThreadStep
  <2>3. CASE ProcessBuffer \/ EndBuffer \/ EndSession \/ Teardown
    BY <2>3, TeardownStep
  <2>4. CASE PlayerCommands
    BY <2>4, <2>2 DEF Threads, Workers, UseServer
  <2>5. CASE \/ \E t \in ApiThreads : GetServer(t) \/ GetServerAgain(t)
             \/ \E t \in QueueThreads : HandleQueueItems(t)
             \/ \E t \in Workers : Exit(t)
             \/ \E t \in Threads : Locking(t)
    BY <2>5, <2>2 DEF Threads, Workers, UseServer
  <2> QED
    BY <2>1, <2>3, <2>4, <2>5 DEF Next, Done
<1> QED  BY <1>1, InitInv, PTL DEF Spec

(* The server, its nodes and its notification sink are used by one thread  *)
(* at a time, and by the destructor alone once the session is ending.      *)
THEOREM MutualExclusion == Spec => []OneThreadInServer
<1>1. Inv => OneThreadInServer
  BY DEF Inv, HolderInv, JoinInv, Named, InLock, Holding, OneThreadInServer
<1> QED  BY <1>1, LockInvariant, PTL

(* The owner that lock reads without the mutex tells each thread whether   *)
(* it is the holder, whatever the others are doing: a thread that has the  *)
(* mutex never waits for it, and the alarm goes off in no other thread.    *)
THEOREM AlarmTellsHolder == Spec => []AlarmIsRight
<1>1. Inv => AlarmIsRight
  BY DEF Inv, HolderInv, Named, InLock, AlarmIsRight
<1> QED  BY <1>1, LockInvariant, PTL

(* The dsp engine is deleted when no thread is in it or can enter it.      *)
THEOREM DspDeletion == Spec => []DspDeletedAlone
<1>1. Inv => DspDeletedAlone
  BY DEF Inv, JoinInv, Holding, DspDeletedAlone, DspGone, BeforeFlag
<1> QED  BY <1>1, LockInvariant, PTL

(* A caller that uses the server within the session is never refused.      *)
THEOREM NeverRefused == Spec => []ApiNeverRefused
<1> DEFINE Served == \A t \in ApiThreads : pc[t] \notin {"drop", "turn_away", "refused"}
<1>1. Inv /\ Served /\ [Next]_vars => Served'
  <2> SUFFICES ASSUME Inv, Served, [Next]_vars, NEW t \in ApiThreads
               PROVE  pc'[t] \notin {"drop", "turn_away", "refused"}
    OBVIOUS
  <2>1. ASSUME NEW s \in Threads, CheckShutdown(s)
        PROVE  pc'[t] \notin {"drop", "turn_away", "refused"}
    BY <2>1 DEF CheckShutdown, Goto, Inv, TypeOK, HolderInv, JoinInv, Threads, BeforeFlag
  <2>2. ASSUME NEW s \in Threads, ClearOwner(s) \/ Unlock(s)
        PROVE  pc'[t] \notin {"drop", "turn_away", "refused"}
    BY <2>2 DEF ClearOwner, Unlock, Goto, EndRound, Inv, TypeOK, Threads
  <2>3. ASSUME NEW s \in Threads, CheckOwner(s) \/ Lock(s) \/ SetOwner(s) \/ Execute(s) \/ LeaveDsp(s)
        PROVE  pc'[t] \notin {"drop", "turn_away", "refused"}
    BY <2>3 DEF CheckOwner, Lock, SetOwner, Execute, LeaveDsp, Goto, Inv, TypeOK, Threads
  <2> QED
    BY <2>1, <2>2, <2>3
    DEF Next, Done, vars, GetServer, GetServerAgain, HandleQueueItems, PlayerCommands, Exit,
        Locking, Goto, ProcessBuffer, EndBuffer, EndSession, Teardown, DestructorCheckOwner,
        DestructorLock, DestructorSetOwner, SetFlag, DestructorClearOwner, DestructorUnlock,
        DeleteNodes, DeleteAudio, LockDsp, Stop, JoinFeedback, Join, ClearFlag, Inv, TypeOK,
        Threads, Workers
<1>2. Init => Served
  BY DEF Init, Threads
<1>3. Served => ApiNeverRefused
  BY DEF ApiNeverRefused
<1> QED  BY <1>1, <1>2, <1>3, LockInvariant, PTL DEF Spec
=============================================================================
