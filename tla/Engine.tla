-------------------------------- MODULE Engine -------------------------------
(***************************************************************************)
(* Core/Engine and Core/SubsystemManager: one application thread calls     *)
(* Init, Start, Pause, Resume and End, which walk over the audio, graphics, *)
(* input and network subsystems; the threads of the subsystems (the render *)
(* thread of the audio stream, the notify thread of the output observers,  *)
(* the graphics thread) run beside it.  SubsystemManager::stop stops the   *)
(* subsystems side by side.                                                *)
(*                                                                         *)
(* The stream is the WASAPI one.  m_subsystems is an unordered map: a walk *)
(* takes the subsystems in any order.  fresh stands for                    *)
(* m_snapshot_generation # last_gen.  The processing thread of the input   *)
(* manager (module InputManager) and the io thread of the network are      *)
(* flags here.                                                             *)
(***************************************************************************)
EXTENDS Naturals

CONSTANT Ordered  \* TRUE: pause a started engine only, end a running one only

ASSUME OrderedAssumption == Ordered \in BOOLEAN

VARIABLES
  eng,             \* m_is_initialized, m_is_paused, and whether Start was done
  call,            \* the call under way: its name, where it is, what it still walks
  ready, running,  \* m_is_ready and m_is_running of each subsystem
  stopper,         \* where stop() of each subsystem is
  stream,          \* m_is_open, m_is_running, m_is_paused and m_stop_event
  render,          \* the thread m_render_thread stands for: none, between two
                   \* buffers, in process_output, or ended by itself
  strays,          \* where render threads are that nobody waits for any more
  gaveup,          \* history: a two-second wait for a render thread ran out
  audio_paused,    \* AudioSubsystem::m_is_paused
  notify,          \* where notify_loop is
  notify_running, fresh,
  gfx,             \* where the graphics thread is
  gfx_paused,      \* GraphicsSubsystem::m_paused
  input,           \* the input manager's loop, and the input backends
  io_thread,       \* the network io thread and its backends
  aborted          \* a joinable std::thread was destroyed: std::terminate

manager == <<eng, call>>
flags == <<ready, running>>
abandoned == <<strays, gaveup>>
audio == <<stream, render, abandoned, audio_paused>>
notifying == <<notify, notify_running, fresh>>
graphics == <<gfx, gfx_paused>>
vars == <<manager, flags, stopper, audio, notifying, graphics, input, io_thread, aborted>>

Subs == {"audio", "graphics", "input", "network"}
NoCall == [op |-> "none", at |-> "none", todo |-> {}]
Closed == [open |-> FALSE, running |-> FALSE, paused |-> FALSE, stop_event |-> FALSE]
Idle == call = NoCall

Init ==
  /\ eng = [init |-> FALSE, paused |-> FALSE, started |-> FALSE]
  /\ call = NoCall
  /\ ready = [s \in Subs |-> FALSE]
  /\ running = [s \in Subs |-> FALSE]
  /\ stopper = [s \in Subs |-> "idle"]
  /\ stream = Closed /\ render = "none" /\ audio_paused = FALSE
  /\ strays = {} /\ gaveup = FALSE
  /\ notify = "none" /\ notify_running = FALSE /\ fresh = FALSE
  /\ gfx = "none" /\ gfx_paused = FALSE
  /\ input = [loop |-> FALSE, backends |-> FALSE]
  /\ io_thread = FALSE /\ aborted = FALSE

\* is_running() of each subsystem; a paused graphics thread does not count.
IsRunning(s) == running[s] /\ (s = "graphics" => ~gfx_paused)

Begin(op, at) == call' = [op |-> op, at |-> at, todo |-> Subs]
Turn(at, s) == call.at = at /\ s \in call.todo
Took(s) == call' = [call EXCEPT !.todo = @ \ {s}]

------------------------------------------------------------------------------
(* The audio stream and its render thread *)

StreamStart ==
  /\ stream' = [stream EXCEPT !.open = TRUE, !.running = TRUE, !.stop_event = FALSE]
  /\ render' = "wait"

\* Variant: the stream stays marked paused, so the next pause() returns at once.
StreamResume_still_paused ==
  IF stream.paused
    THEN /\ stream' = [stream EXCEPT !.running = TRUE, !.stop_event = FALSE]
         /\ render' = "wait"
    ELSE UNCHANGED <<stream, render>>

StreamResume ==
  IF stream.paused
    THEN /\ stream' = [stream EXCEPT !.running = TRUE, !.paused = FALSE, !.stop_event = FALSE]
         /\ render' = "wait"
    ELSE UNCHANGED <<stream, render>>

\* WaitForSingleObject(m_render_thread, 2000) and CloseHandle: the thread is
\* gone, or two seconds have passed and nobody will ever wait for it again.
RenderJoin ==
  \/ render \in {"none", "dry"} /\ render' = "none" /\ UNCHANGED abandoned
  \/ /\ render \in {"wait", "in"} /\ render' = "none"
     /\ strays' = strays \cup {render} /\ gaveup' = TRUE

\* pause() returns at once, or signals the render thread and waits for it.
StreamPauseSkipped == (~stream.running \/ stream.paused) /\ UNCHANGED <<stream, render, abandoned>>
StreamPauseSignal ==
  /\ stream.running /\ ~stream.paused /\ ~stream.stop_event
  /\ stream' = [stream EXCEPT !.stop_event = TRUE]
  /\ UNCHANGED <<render, abandoned>>
StreamPauseJoin ==
  /\ stream.running /\ ~stream.paused /\ stream.stop_event
  /\ RenderJoin
  /\ stream' = [stream EXCEPT !.paused = TRUE, !.running = FALSE]

\* close() calls stop(), which returns at once for a stream that is not running:
\* AudioSubsystem::stop, or a pause, has been there before.
StreamClose == stream' = Closed

------------------------------------------------------------------------------
(* Engine::Init and Start *)

\* SubsystemManager::add_subsystem for the four new subsystems; the new
\* InputManager replaces the old one, whose destructor ends its loop.
Create ==
  /\ ready' = [s \in Subs |-> TRUE]
  /\ running' = [s \in Subs |-> FALSE]
  /\ stream' = Closed /\ audio_paused' = FALSE /\ UNCHANGED <<render, abandoned>>
  /\ notify' = "top" /\ notify_running' = TRUE /\ fresh' = FALSE
  /\ gfx' = "none" /\ gfx_paused' = FALSE
  /\ input' = [loop |-> FALSE, backends |-> FALSE]
  /\ io_thread' = FALSE

EngineInit ==
  /\ Idle /\ ~eng.init
  /\ Create
  /\ eng' = [eng EXCEPT !.init = TRUE]
  /\ UNCHANGED <<call, stopper, aborted>>

\* Start initializes an engine that is not; it is called once per Init.
EngineStart ==
  /\ Idle /\ ~eng.started
  /\ Begin("Start", "start")
  /\ \/ eng.init /\ UNCHANGED <<eng, flags, audio, notifying, graphics, input, io_thread>>
     \/ ~eng.init /\ Create /\ eng' = [eng EXCEPT !.init = TRUE]
  /\ UNCHANGED <<stopper, aborted>>

StartAudio ==
  /\ Turn("start", "audio") /\ Took("audio")
  /\ StreamStart
  /\ running' = [running EXCEPT !["audio"] = TRUE]
  /\ UNCHANGED <<eng, ready, stopper, abandoned, audio_paused, notifying, graphics, input, io_thread, aborted>>

\* m_running is raised by the thread itself (GraphicsUp).
StartGraphics ==
  /\ Turn("start", "graphics") /\ Took("graphics")
  /\ IF running["graphics"] THEN UNCHANGED graphics
     ELSE gfx' = "spawned" /\ gfx_paused' = FALSE
  /\ UNCHANGED <<eng, flags, stopper, audio, notifying, input, io_thread, aborted>>

StartInput ==
  /\ Turn("start", "input") /\ Took("input")
  /\ IF running["input"] THEN UNCHANGED <<running, input>>
     ELSE /\ input' = [loop |-> TRUE, backends |-> TRUE]
          /\ running' = [running EXCEPT !["input"] = TRUE]
  /\ UNCHANGED <<eng, ready, stopper, audio, notifying, graphics, io_thread, aborted>>

\* NetworkSubsystem::start; resume() is start().
StartNetwork ==
  /\ Turn("start", "network") \/ Turn("resume", "network")
  /\ Took("network")
  /\ io_thread' = TRUE
  /\ running' = [running EXCEPT !["network"] = TRUE]
  /\ UNCHANGED <<eng, ready, stopper, audio, notifying, graphics, input, aborted>>

\* The wait_until_running loops, then the return.
Started ==
  /\ call.at = "start" /\ call.todo = {}
  /\ \A s \in Subs : ready[s] => running[s]
  /\ eng' = [eng EXCEPT !.started = TRUE]
  /\ call' = NoCall
  /\ UNCHANGED <<flags, stopper, audio, notifying, graphics, input, io_thread, aborted>>

------------------------------------------------------------------------------
(* Engine::Pause and Resume *)

EnginePause ==
  /\ Idle /\ eng.init /\ ~eng.paused /\ (Ordered => eng.started)
  /\ Begin("Pause", "pause")
  /\ UNCHANGED <<eng, flags, stopper, audio, notifying, graphics, input, io_thread, aborted>>

\* A subsystem that is not running is skipped.
PauseSkip(s) ==
  /\ Turn("pause", s) /\ ~IsRunning(s) /\ Took(s)
  /\ UNCHANGED <<eng, flags, stopper, audio, notifying, graphics, input, io_thread, aborted>>

PauseAudio ==
  /\ Turn("pause", "audio") /\ running["audio"]
  /\ \/ StreamPauseSignal /\ UNCHANGED <<call, audio_paused>>
     \/ (StreamPauseJoin \/ StreamPauseSkipped) /\ audio_paused' = TRUE /\ Took("audio")
  /\ UNCHANGED <<eng, flags, stopper, notifying, graphics, input, io_thread, aborted>>

PauseGraphics ==
  /\ Turn("pause", "graphics") /\ IsRunning("graphics") /\ Took("graphics")
  /\ gfx_paused' = TRUE
  /\ UNCHANGED <<eng, flags, stopper, audio, notifying, gfx, input, io_thread, aborted>>

\* The backends stop, the input manager's loop goes on.
PauseInput ==
  /\ Turn("pause", "input") /\ running["input"] /\ Took("input")
  /\ input' = [input EXCEPT !.backends = FALSE]
  /\ running' = [running EXCEPT !["input"] = FALSE]
  /\ UNCHANGED <<eng, ready, stopper, audio, notifying, graphics, io_thread, aborted>>

\* NetworkSubsystem::pause is stop().
PauseNetwork ==
  /\ Turn("pause", "network") /\ running["network"] /\ Took("network")
  /\ io_thread' = FALSE
  /\ running' = [running EXCEPT !["network"] = FALSE]
  /\ UNCHANGED <<eng, ready, stopper, audio, notifying, graphics, input, aborted>>

EngineResume ==
  /\ Idle /\ eng.init /\ eng.paused
  /\ Begin("Resume", "resume")
  /\ UNCHANGED <<eng, flags, stopper, audio, notifying, graphics, input, io_thread, aborted>>

ResumeAudio ==
  /\ Turn("resume", "audio") /\ Took("audio")
  /\ IF audio_paused THEN StreamResume ELSE UNCHANGED <<stream, render>>
  /\ audio_paused' = FALSE
  /\ UNCHANGED <<eng, flags, stopper, abandoned, notifying, graphics, input, io_thread, aborted>>

ResumeGraphics ==
  /\ Turn("resume", "graphics") /\ Took("graphics")
  /\ gfx_paused' = (gfx_paused /\ ~running["graphics"])
  /\ UNCHANGED <<eng, flags, stopper, audio, notifying, gfx, input, io_thread, aborted>>

\* The backends start and m_running is raised; the loop is not started.
ResumeInput ==
  /\ Turn("resume", "input") /\ Took("input")
  /\ input' = [input EXCEPT !.backends = @ \/ ~running["input"]]
  /\ running' = [running EXCEPT !["input"] = TRUE]
  /\ UNCHANGED <<eng, ready, stopper, audio, notifying, graphics, io_thread, aborted>>

\* The end of pause_all_subsystems and of resume_all_subsystems.
Toggled ==
  /\ call.at \in {"pause", "resume"} /\ call.todo = {}
  /\ eng' = [eng EXCEPT !.paused = call.at = "pause"]
  /\ call' = NoCall
  /\ UNCHANGED <<flags, stopper, audio, notifying, graphics, input, io_thread, aborted>>

------------------------------------------------------------------------------
(* Engine::End *)

\* End terminates events and node processing first, with the subsystems still
\* running (no flag of this module changes); then SubsystemManager::stop: one
\* std::async for each subsystem that is running.
EngineEnd ==
  /\ Idle /\ eng.init /\ (Ordered => eng.started /\ ~eng.paused)
  /\ Begin("End", "stop")
  /\ stopper' = [s \in Subs |-> IF IsRunning(s) THEN "begin" ELSE "idle"]
  /\ UNCHANGED <<eng, flags, audio, notifying, graphics, input, io_thread, aborted>>

\* Variant: the futures are not waited for.
EndTeardown_no_wait ==
  /\ call.at = "stop"
  /\ call' = [call EXCEPT !.at = "shutdown"]
  /\ UNCHANGED <<eng, flags, stopper, audio, notifying, graphics, input, io_thread, aborted>>

\* Every future has returned; End terminates the tasks and the buffers,
\* destroys the windows and lets the node graph go.
EndTeardown ==
  /\ call.at = "stop"
  /\ \A s \in Subs : stopper[s] = "idle"
  /\ call' = [call EXCEPT !.at = "shutdown"]
  /\ UNCHANGED <<eng, flags, stopper, audio, notifying, graphics, input, io_thread, aborted>>

\* SubsystemManager::shutdown: shutdown() of a subsystem calls stop() first.
ShutdownStop(s) ==
  /\ Turn("shutdown", s) /\ running[s]
  /\ \A t \in Subs : stopper[t] = "idle"
  /\ stopper' = [stopper EXCEPT ![s] = "begin"]
  /\ UNCHANGED <<manager, flags, audio, notifying, graphics, input, io_thread, aborted>>

ShutdownRest(s) ==
  /\ Turn("shutdown", s) /\ ~running[s] /\ Took(s)
  /\ \A t \in Subs : stopper[t] = "idle"
  /\ ready' = [ready EXCEPT ![s] = FALSE]
  /\ IF s = "audio" THEN StreamClose ELSE UNCHANGED stream
  /\ input' = IF s = "input" THEN [input EXCEPT !.backends = FALSE] ELSE input
  /\ UNCHANGED <<eng, running, stopper, render, abandoned, audio_paused, notifying, graphics, io_thread, aborted>>

\* m_subsystems.clear() runs the destructors: a std::thread that can still be
\* joined ends the program.
EndDone ==
  /\ call.at = "shutdown" /\ call.todo = {}
  /\ aborted' = (notify # "none" \/ gfx # "none")
  /\ eng' = [init |-> FALSE, paused |-> FALSE, started |-> FALSE]
  /\ call' = NoCall
  /\ UNCHANGED <<flags, stopper, audio, notifying, graphics, input, io_thread>>

------------------------------------------------------------------------------
(* stop() of each subsystem, on its own std::async thread or inside shutdown() *)

Step(s, from, to) == stopper[s] = from /\ stopper' = [stopper EXCEPT ![s] = to]
Lower(s) == running' = [running EXCEPT ![s] = FALSE]

StopAudioBegin ==
  /\ Step("audio", "begin", IF stream.running THEN "stream" ELSE "flag")
  /\ Lower("audio")
  /\ UNCHANGED <<manager, ready, audio, notifying, graphics, input, io_thread, aborted>>

\* WasapiStream::stop: SetEvent(m_stop_event).
StopStreamSignal ==
  /\ Step("audio", "stream", "render")
  /\ stream' = [stream EXCEPT !.stop_event = TRUE]
  /\ UNCHANGED <<manager, flags, render, abandoned, audio_paused, notifying, graphics, input, io_thread, aborted>>

StopStreamJoin ==
  /\ Step("audio", "render", "flag")
  /\ RenderJoin
  /\ stream' = [stream EXCEPT !.running = FALSE]
  /\ UNCHANGED <<manager, flags, audio_paused, notifying, graphics, input, io_thread, aborted>>

StopNotifyFlag ==
  /\ Step("audio", "flag", "bump")
  /\ notify_running' = FALSE
  /\ UNCHANGED <<manager, flags, audio, notify, fresh, graphics, input, io_thread, aborted>>

\* m_snapshot_generation.fetch_add(1); notify_all().
StopNotifyBump ==
  /\ Step("audio", "bump", "join")
  /\ fresh' = TRUE
  /\ UNCHANGED <<manager, flags, audio, notify, notify_running, graphics, input, io_thread, aborted>>

\* Variant: the notify thread is told to end and not joined.
StopNotifyJoin_forgotten ==
  /\ Step("audio", "join", "idle")
  /\ UNCHANGED <<manager, flags, audio, notifying, graphics, input, io_thread, aborted>>

StopNotifyJoin ==
  /\ notify = "exit"
  /\ Step("audio", "join", "idle")
  /\ notify' = "none"
  /\ UNCHANGED <<manager, flags, audio, notify_running, fresh, graphics, input, io_thread, aborted>>

\* Variant: m_running is not lowered before the join.
StopGraphicsBegin_flag_kept ==
  /\ Step("graphics", "begin", "join")
  /\ UNCHANGED <<manager, flags, audio, notifying, graphics, input, io_thread, aborted>>

StopGraphicsBegin ==
  /\ Step("graphics", "begin", "join")
  /\ Lower("graphics")
  /\ UNCHANGED <<manager, ready, audio, notifying, graphics, input, io_thread, aborted>>

StopGraphicsJoin ==
  /\ gfx = "exit"
  /\ Step("graphics", "join", "idle")
  /\ gfx' = "none"
  /\ UNCHANGED <<manager, flags, audio, notifying, gfx_paused, input, io_thread, aborted>>

StopInput ==
  /\ Step("input", "begin", "idle")
  /\ Lower("input")
  /\ input' = [loop |-> FALSE, backends |-> FALSE]
  /\ UNCHANGED <<manager, ready, audio, notifying, graphics, io_thread, aborted>>

StopNetwork ==
  /\ Step("network", "begin", "idle")
  /\ Lower("network")
  /\ io_thread' = FALSE
  /\ UNCHANGED <<manager, ready, audio, notifying, graphics, input, aborted>>

------------------------------------------------------------------------------
(* The threads of the subsystems *)

\* The render thread finds a buffer to fill, a stop event beside it or not:
\* process_output, which leaves silence and touches nothing unless m_is_running.
RenderBegin ==
  /\ render = "wait" /\ running["audio"]
  /\ render' = "in"
  /\ UNCHANGED <<manager, flags, stopper, stream, abandoned, audio_paused, notifying, graphics, input, io_thread, aborted>>

RenderEnd ==
  /\ render = "in"
  /\ render' = "wait" /\ fresh' = TRUE
  /\ UNCHANGED <<manager, flags, stopper, stream, abandoned, audio_paused, notify, notify_running, graphics, input, io_thread, aborted>>

\* It leaves on the stop event, and when two seconds bring no buffer or the wait
\* fails: m_is_running is left as it is.
RenderExit ==
  /\ render = "wait"
  /\ render' = IF stream.stop_event THEN "none" ELSE "dry"
  /\ UNCHANGED <<manager, flags, stopper, stream, abandoned, audio_paused, notifying, graphics, input, io_thread, aborted>>

\* A thread that was given up goes on: after a resume, which resets the event it
\* was told to stop by, beside the new one.  Of two at one place any may step.
StrayStep ==
  /\ \E from \in strays, rest \in BOOLEAN :
       LET to(places) == strays' = places \cup (IF rest THEN strays ELSE strays \ {from})
       IN \/ from = "wait" /\ running["audio"] /\ to({"in"}) /\ UNCHANGED fresh
          \/ from = "wait" /\ to({}) /\ UNCHANGED fresh
          \/ from = "in" /\ to({"wait"}) /\ fresh' = TRUE
  /\ UNCHANGED <<manager, flags, stopper, stream, render, gaveup, audio_paused, notify, notify_running, graphics, input, io_thread, aborted>>

\* notify_loop, access by access.
NotifyStep ==
  /\ \/ notify = "top" /\ notify' = (IF notify_running THEN "wait" ELSE "exit") /\ UNCHANGED fresh
     \/ notify = "wait" /\ fresh /\ notify' = "check" /\ UNCHANGED fresh
     \/ notify = "check" /\ notify' = (IF notify_running THEN "load" ELSE "exit") /\ UNCHANGED fresh
     \/ notify = "load" /\ fresh' = FALSE /\ notify' = "observers"
     \/ notify = "observers" /\ notify' = "top" /\ UNCHANGED fresh
  /\ UNCHANGED <<manager, flags, stopper, audio, notify_running, graphics, input, io_thread, aborted>>

GraphicsUp ==
  /\ gfx = "spawned"
  /\ gfx' = "loop"
  /\ running' = [running EXCEPT !["graphics"] = TRUE]
  /\ UNCHANGED <<manager, ready, stopper, audio, notifying, gfx_paused, input, io_thread, aborted>>

\* graphics_thread_loop: the tests of m_running and m_paused, then process().
GraphicsStep ==
  /\ \/ gfx = "loop" /\ ~running["graphics"] /\ gfx' = "exit"
     \/ gfx = "loop" /\ running["graphics"] /\ ~gfx_paused /\ gfx' = "frame"
     \/ gfx = "frame" /\ gfx' = "loop"
  /\ UNCHANGED <<manager, flags, stopper, audio, notifying, gfx_paused, input, io_thread, aborted>>

------------------------------------------------------------------------------
CallStep ==
  \/ StartAudio \/ StartGraphics \/ StartInput \/ StartNetwork \/ Started
  \/ PauseAudio \/ PauseGraphics \/ PauseInput \/ PauseNetwork
  \/ \E s \in Subs : PauseSkip(s) \/ ShutdownStop(s) \/ ShutdownRest(s)
  \/ ResumeAudio \/ ResumeGraphics \/ ResumeInput \/ Toggled
  \/ EndTeardown \/ EndDone

StopAudio ==
  \/ StopAudioBegin \/ StopStreamSignal \/ StopStreamJoin
  \/ StopNotifyFlag \/ StopNotifyBump \/ StopNotifyJoin
StopGraphics == StopGraphicsBegin \/ StopGraphicsJoin

Next ==
  /\ ~aborted
  /\ \/ EngineInit \/ EngineStart \/ EnginePause \/ EngineResume \/ EngineEnd
     \/ CallStep \/ StopAudio \/ StopGraphics \/ StopInput \/ StopNetwork
     \/ RenderBegin \/ RenderEnd \/ RenderExit \/ StrayStep
     \/ NotifyStep \/ GraphicsUp \/ GraphicsStep

\* Every call and every thread of the subsystems that can step does; nothing is
\* asked of the render threads, the waits for them run out.
Spec ==
  /\ Init /\ [][Next]_vars
  /\ WF_vars(CallStep)
  /\ WF_vars(StopAudio) /\ WF_vars(StopGraphics) /\ WF_vars(StopInput) /\ WF_vars(StopNetwork)
  /\ WF_vars(NotifyStep) /\ WF_vars(GraphicsUp) /\ WF_vars(GraphicsStep)

------------------------------------------------------------------------------
(* Properties *)

\* Some render thread is inside process_output.
InCallback == render = "in" \/ "in" \in strays

\* Engine.hpp promises of Start and Pause: between two calls, a started engine
\* that is not paused has every thread and backend up, and a paused one has no
\* audio callback, no frame to begin, no input backend and no network thread.
\* Two things may be wrong, both of the render thread: it has ended by itself
\* (device silent for two seconds) while the flags say running, and a paused
\* engine has one left over from a wait that ran out.
FlagsTellTruth ==
  Idle /\ eng.started =>
    IF eng.paused
      THEN /\ ~InCallback \/ gaveup
           /\ render = "none" /\ ~stream.running
           /\ gfx_paused /\ ~input.backends /\ ~io_thread
      ELSE /\ \A s \in Subs : IsRunning(s)
           /\ stream.running /\ render \in {"wait", "in", "dry"}
           /\ notify \notin {"none", "exit"} /\ notify_running
           /\ gfx \in {"loop", "frame"}
           /\ input.loop /\ input.backends /\ io_thread

\* End tears down tasks, buffers and windows and lets the node graph go only
\* after stop(): from then on no frame is inside them, and no audio callback
\* either, unless one outlasted a wait (which AudioSubsystem::stop logs).
QuietTeardown == call.at = "shutdown" => gfx # "frame" /\ (~InCallback \/ gaveup)

\* Engine::End "Stops all processing and performs clean shutdown": when it has
\* returned no thread of a subsystem is left but a render thread a wait ran out
\* on, and no joinable one was destroyed.
EndIsClean ==
  /\ ~aborted
  /\ Idle /\ ~eng.init =>
       /\ render = "none" /\ (strays = {} \/ gaveup)
       /\ notify = "none" /\ gfx = "none"
       /\ ~input.loop /\ ~input.backends /\ ~io_thread

\* Every call returns: Start's wait for the graphics thread, Pause's wait for
\* the render thread, End's joins of render, notify and graphics threads.
CallsReturn == call.op # "none" ~> call.op = "none"
==============================================================================
