------------------------------ MODULE AudioStreams ------------------------------
(***************************************************************************)
(* The audio engine (portaudio_engine.cpp): one thread of control, under   *)
(* the server's lock, closes and opens streams, while PortAudio's threads  *)
(* call back for the streams that run, and a thread of the engine's own    *)
(* stands in for them when there is none.  Whoever of these has the say    *)
(* drives the dsp engine: sound, midi and all that happens in the host     *)
(* advances by one block each time it does.                                *)
(*                                                                         *)
(* A call of the api is the list of steps it still has to take.  PortAudio *)
(* is external: a stream opens or does not, starts or does not, and is     *)
(* closed when its callback has returned.                                  *)
(***************************************************************************)
EXTENDS RingBuffer, FiniteSets

CONSTANTS
  Drivers, NoDriver,   (* host apis, and "none" *)
  Devices, NoDevice,   (* devices by index, and paNoDevice *)
  Available,           (* of a driver, the devices for "input" and "output" *)
  Usual,               (* of a driver, the default device for each *)
  Twin,                (* the device of the same name on the other side *)
  UsualDriver          (* Pa_GetDefaultHostApi *)

(* There are frames enough to tell what is made in an opening from what    *)
(* was made in the one before, and the frames of a block from each other.  *)
ASSUME EngineAssumption == {0, 1} \X (1..Block) \subseteq Frames

Sides == {"input", "output"}
Kinds == Sides \cup {"duplex"}

Other(side) == IF side = "input" THEN "output" ELSE "input"

VARIABLES
  driver,   (* m_selected_api *)
  device,   (* m_selected_input_device, m_selected_output_device *)
  stream,   (* PortAudio's streams: "closed", "open" or "running" *)
  pointer,  (* which of m_input_stream, ... are not NULL *)
  buffers,  (* which of m_process_buffer, m_dummy_input_buffer there are *)
  thread,   (* is there a thread for no device? *)
  told,     (* m_stop_no_device_thread has been posted *)
  doing,    (* what each callback and the thread are at *)
  todo,     (* the steps that are left of the present call *)
  life,     (* "up", "ended", or "crashed" *)
  (* History: *)
  opening,  (* the parity of the last opening, in which frames are made *)
  asked     (* the streams of the selected driver have been asked for *)

engine == <<driver, device, stream, pointer, buffers, thread, told, todo, life, opening, asked>>
vars == <<ring, engine, doing>>

Init ==
  /\ RingInit
  /\ driver = NoDriver
  /\ device = [side \in Sides |-> NoDevice]
  /\ stream = [kind \in Kinds |-> "closed"]
  /\ pointer = [kind \in Kinds |-> FALSE]
  /\ buffers = {} /\ thread = FALSE /\ told = FALSE
  /\ doing = [c \in Kinds \cup {"thread"} |-> "nothing"]
  /\ todo = <<>> /\ life = "up" /\ opening = 0 /\ asked = FALSE

(* What the dsp engine makes. *)
Made == [i \in 1..Block |-> <<opening, i>>]

-----------------------------------------------------------------------------
(* Calls of the api. *)

(* A variant: the pointers are reset before their streams are closed. *)
CloseForgotten ==
  <<<<"Forget", "input">>, <<"Close", "input">>, <<"Forget", "output">>, <<"Close", "output">>,
    <<"Forget", "duplex">>, <<"Close", "duplex">>, <<"Tell", "thread">>, <<"Join", "thread">>,
    <<"Free", "buffers">>>>

CloseStreams ==
  <<<<"Close", "input">>, <<"Forget", "input">>, <<"Close", "output">>, <<"Forget", "output">>,
    <<"Close", "duplex">>, <<"Forget", "duplex">>, <<"Tell", "thread">>, <<"Join", "thread">>,
    <<"Free", "buffers">>>>

OpenAgain == CloseStreams \o <<<<"Open", "streams">>>>

SettingDevice(side, d) ==
  IF d = device[side] THEN <<>>
  ELSE CloseStreams \o <<<<"Select", side, d>>, <<"Open", "streams">>>>

SettingDriver(d) ==
  IF d = driver THEN <<>>
  ELSE CloseStreams \o <<<<"Choose", d>>, <<"Default", "input">>, <<"Default", "output">>>>
       \o IF d = NoDriver THEN <<<<"Run", "thread">>>> ELSE <<>>

Call(steps) ==
  /\ life = "up" /\ todo = <<>> /\ steps # <<>>
  /\ todo' = steps
  /\ UNCHANGED <<ring, driver, device, stream, pointer, buffers, thread, told, doing, life, opening, asked>>

SetDriver == \E d \in Drivers \cup {NoDriver} : Call(SettingDriver(d))

SetDevice ==
  \E side \in Sides : \E d \in Available[driver][side] \cup {NoDevice} :
    Call(SettingDevice(side, d))

(* The sample rate, or the channels of a device that is selected.          *)
SetFormat == Call(OpenAgain)

RestoreDefaults ==
  Call(SettingDriver(UsualDriver) \o <<<<"Default", "input">>, <<"Default", "output">>>> \o OpenAgain)

(* The destructor. *)
Destroy == Call(CloseStreams \o <<<<"End", "engine">>>>)

-----------------------------------------------------------------------------
(* Their steps. *)

Take(step, more) ==
  /\ life = "up" /\ todo # <<>> /\ Head(todo) = step
  /\ todo' = more \o Tail(todo)

(* Pa_CloseStream waits for the callback.  A pointer that was kept after   *)
(* its stream was closed is closed again: the stream is not there any      *)
(* more, and anything from an error to a crash may come of it.             *)
Close(kind) ==
  /\ Take(<<"Close", kind>>, <<>>)
  /\ doing[kind] = "nothing"
  /\ stream' = [stream EXCEPT ![kind] = "closed"]
  /\ \/ life' = life
     \/ pointer[kind] /\ stream[kind] = "closed" /\ life' = "crashed"
  /\ UNCHANGED <<ring, driver, device, pointer, buffers, thread, told, doing, opening, asked>>

Forget(kind) ==
  /\ Take(<<"Forget", kind>>, <<>>)
  /\ pointer' = [pointer EXCEPT ![kind] = FALSE]
  /\ UNCHANGED <<ring, driver, device, stream, buffers, thread, told, doing, life, opening, asked>>

Tell ==
  /\ Take(<<"Tell", "thread">>, <<>>)
  /\ told' = thread
  /\ UNCHANGED <<ring, driver, device, stream, pointer, buffers, thread, doing, life, opening, asked>>

(* The thread has taken the semaphore down as its last act. *)
Join ==
  /\ Take(<<"Join", "thread">>, <<>>)
  /\ doing["thread"] \in {"nothing", "ended"} /\ ~told
  /\ thread' = FALSE
  /\ doing' = [doing EXCEPT !["thread"] = "nothing"]
  /\ UNCHANGED <<ring, driver, device, stream, pointer, buffers, told, life, opening, asked>>

Free ==
  /\ Take(<<"Free", "buffers">>, <<>>)
  /\ buffers' = {}
  /\ UNCHANGED <<ring, driver, device, stream, pointer, thread, told, doing, life, opening, asked>>

Choose(d) ==
  /\ Take(<<"Choose", d>>, <<>>)
  /\ driver' = d
  /\ device' = [side \in Sides |-> NoDevice]
  /\ asked' = (d = NoDriver)
  /\ UNCHANGED <<ring, stream, pointer, buffers, thread, told, doing, life, opening>>

Default(side) ==
  /\ Take(<<"Default", side>>,
          IF driver = NoDriver THEN <<>> ELSE SettingDevice(side, Usual[driver][side]))
  /\ UNCHANGED <<ring, driver, device, stream, pointer, buffers, thread, told, doing, life, opening, asked>>

(* A device that serves both sides is selected and deselected on both. *)
Select(side, d) ==
  /\ Take(<<"Select", side, d>>, <<>>)
  /\ device' = [device EXCEPT ![side] = d,
       ![Other(side)] = IF d # NoDevice THEN (IF Twin[d] # NoDevice THEN Twin[d] ELSE @)
                        ELSE IF device[side] = @ THEN NoDevice ELSE @]
  /\ UNCHANGED <<ring, driver, stream, pointer, buffers, thread, told, doing, life, opening, asked>>

Opened(kind) == <<<<"OpenStream", kind>>, <<"Start", kind>>>>

Open ==
  /\ Take(<<"Open", "streams">>,
       (IF device["input"] = device["output"] /\ device["input"] # NoDevice THEN Opened("duplex")
        ELSE (IF device["input"] # NoDevice THEN Opened("input") ELSE <<>>)
             \o (IF device["output"] # NoDevice THEN <<<<"Buffer", "output">>>> \o Opened("output")
                 ELSE <<>>))
       \o <<<<"RunIfNone", "thread">>>>)
  /\ opening' = 1 - opening
  /\ asked' = TRUE
  /\ UNCHANGED <<ring, driver, device, stream, pointer, buffers, thread, told, doing, life>>

(* Any length may follow from the sample rate. *)
Buffer ==
  /\ Take(<<"Buffer", "output">>, <<<<"Ring", "output">>>>)
  /\ buffers' = buffers \cup {"process"}
  /\ UNCHANGED <<ring, driver, device, stream, pointer, thread, told, doing, life, opening, asked>>

InitializeRing ==
  /\ Take(<<"Ring", "output">>, <<>>)
  /\ \E n \in Lengths : Reset(n)
  /\ UNCHANGED <<driver, device, stream, pointer, buffers, thread, told, doing, life, opening, asked>>

Deselected(kind) ==
  [side \in Sides |-> IF kind \in {side, "duplex"} THEN NoDevice ELSE device[side]]

OpenStream(kind) ==
  \/ /\ Take(<<"OpenStream", kind>>, <<>>)
     /\ stream' = [stream EXCEPT ![kind] = "open"]
     /\ pointer' = [pointer EXCEPT ![kind] = TRUE]
     /\ UNCHANGED <<ring, driver, device, buffers, thread, told, doing, life, opening, asked>>
  \/ /\ life = "up" /\ todo # <<>> /\ Head(todo) = <<"OpenStream", kind>>
     /\ todo' = Tail(Tail(todo))
     /\ device' = Deselected(kind)
     /\ UNCHANGED <<ring, driver, stream, pointer, buffers, thread, told, doing, life, opening, asked>>

(* A stream that does not start is closed.  The pointer to it is kept. *)
Start(kind) ==
  /\ Take(<<"Start", kind>>, <<>>)
  /\ \/ stream' = [stream EXCEPT ![kind] = "running"] /\ UNCHANGED device
     \/ stream' = [stream EXCEPT ![kind] = "closed"] /\ device' = Deselected(kind)
  /\ UNCHANGED <<ring, driver, pointer, buffers, thread, told, doing, life, opening, asked>>

(* A variant: whether to run the thread is decided by the devices that     *)
(* were asked for, and not by the streams that could be opened.            *)
RunUnasked(step) ==
  /\ Take(step, <<>>)
  /\ thread' = (thread \/ step = <<"Run", "thread">> \/ driver = NoDriver)
  /\ UNCHANGED <<ring, driver, device, stream, pointer, buffers, told, doing, life, opening, asked>>

Run(step) ==
  /\ Take(step, <<>>)
  /\ thread' = (thread \/ step = <<"Run", "thread">> \/ \A kind \in Kinds : ~pointer[kind])
  /\ UNCHANGED <<ring, driver, device, stream, pointer, buffers, told, doing, life, opening, asked>>

End ==
  /\ Take(<<"End", "engine">>, <<>>)
  /\ life' = "ended"
  /\ UNCHANGED <<ring, driver, device, stream, pointer, buffers, thread, told, doing, opening, asked>>

Control ==
  \/ SetDriver \/ SetDevice \/ SetFormat \/ RestoreDefaults \/ Destroy
  \/ \E kind \in Kinds : Close(kind) \/ Forget(kind) \/ OpenStream(kind) \/ Start(kind)
  \/ \E d \in Drivers \cup {NoDriver} : Choose(d)
  \/ \E side \in Sides : Default(side) \/ \E d \in Devices \cup {NoDevice} : Select(side, d)
  \/ Tell \/ Join \/ Free \/ Open \/ Buffer \/ InitializeRing \/ End
  \/ Run(<<"Run", "thread">>) \/ Run(<<"RunIfNone", "thread">>)

-----------------------------------------------------------------------------
(* The callbacks and the thread.  They drive the dsp engine while they are *)
(* "mixing", for the ring buffer, or "pumping".                            *)

Begin(c, what) ==
  /\ life = "up" /\ doing[c] = "nothing"
  /\ doing' = [doing EXCEPT ![c] = what]

InputCall ==
  /\ stream["input"] = "running"
  /\ Begin("input", IF "process" \in buffers THEN "mixing" ELSE "pumping")
  /\ UNCHANGED <<ring, engine>>

InputReturn ==
  /\ doing["input"] # "nothing"
  /\ IF doing["input"] = "mixing" THEN Write(Made) ELSE UNCHANGED ring
  /\ doing' = [doing EXCEPT !["input"] = "nothing"]
  /\ UNCHANGED engine

(* The output stream plays what the input stream's callback has made. *)
OutputReads ==
  /\ life = "up" /\ stream["output"] = "running" /\ doing["output"] = "nothing"
  /\ pointer["input"]
  /\ Read
  /\ UNCHANGED <<engine, doing>>

OutputCall ==
  /\ stream["output"] = "running" /\ ~pointer["input"]
  /\ Begin("output", "pumping")
  /\ buffers' = buffers \cup {"dummy"}
  /\ UNCHANGED <<ring, driver, device, stream, pointer, thread, told, todo, life, opening, asked>>

DuplexCall ==
  /\ stream["duplex"] = "running"
  /\ Begin("duplex", "pumping")
  /\ UNCHANGED <<ring, engine>>

Return(c) ==
  /\ c # "input" /\ doing[c] = "pumping"
  /\ doing' = [doing EXCEPT ![c] = "nothing"]
  /\ UNCHANGED <<ring, engine>>

(* The thread looks at the semaphore before each cycle of blocks. *)
ThreadCycle ==
  /\ thread /\ ~told
  /\ Begin("thread", "pumping")
  /\ UNCHANGED <<ring, engine>>

ThreadEnd ==
  /\ thread /\ told
  /\ Begin("thread", "ended")
  /\ told' = FALSE
  /\ UNCHANGED <<ring, driver, device, stream, pointer, buffers, thread, todo, life, opening, asked>>

Callbacks ==
  \/ InputCall \/ InputReturn \/ OutputReads \/ OutputCall \/ DuplexCall
  \/ ThreadCycle \/ ThreadEnd
  \/ \E c \in {"output", "duplex", "thread"} : Return(c)

Done == life # "up" /\ UNCHANGED vars

Next == Control \/ Callbacks \/ Done

Spec == Init /\ [][Next]_vars

-----------------------------------------------------------------------------
(* Properties. *)

(* Whatever is opened and closed, and while it is, the dsp engine is       *)
(* driven from one place at a time: host time, sound and midi do not run   *)
(* at the pace of two devices at once (portaudio_engine.cpp:872, :1007).   *)
OneDriver == Cardinality({c \in DOMAIN doing : doing[c] \in {"mixing", "pumping"}}) <= 1

Driving(c) ==
  CASE c = "thread" -> thread
    [] c = "output" -> stream[c] = "running" /\ ~pointer["input"]
    [] OTHER -> stream[c] = "running"

(* Between two calls the dsp engine is driven, from exactly one place,     *)
(* whichever devices could be opened (:850).  Exceptions: nothing has been *)
(* opened since the driver was chosen or the engine was made; a stream did *)
(* not start, and its pointer was kept.                                    *)
AlwaysDriven ==
  life = "up" /\ todo = <<>> /\ asked /\ (\A kind \in Kinds : pointer[kind] => stream[kind] = "running")
    => Cardinality({c \in DOMAIN doing : Driving(c)}) = 1

(* While a callback may use them its buffers are there (the assertion      *)
(* :1005), and the ring holds nothing from before the streams were opened. *)
BuffersReady ==
  /\ doing["input"] = "mixing" => "process" \in buffers
  /\ doing["output"] = "pumping" => "dummy" \in buffers
  /\ stream["output"] = "running" =>
       /\ "process" \in buffers
       /\ length > 0
       /\ \A i \in 1..used : Content[i][1] = opening
=============================================================================
