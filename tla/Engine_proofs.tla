---------------------------- MODULE Engine_proofs ----------------------------
(***************************************************************************)
(* The life of the engine, for a program that pauses a started engine and  *)
(* ends a running one: its flags tell the truth between calls, nothing is  *)
(* inside what End tears down, and End leaves no thread behind, save for a *)
(* render thread that a two-second wait ran out on.                        *)
(***************************************************************************)
EXTENDS Engine, TLAPS

------------------------------------------------------------------------------
(* The invariant *)

Ops == {"none", "Start", "Pause", "Resume", "End"}
Places == {"none", "start", "pause", "resume", "stop", "shutdown"}

EngineState == [init : BOOLEAN, paused : BOOLEAN, started : BOOLEAN]
CallState == [op : Ops, at : Places, todo : SUBSET Subs]
StopState == [Subs -> {"idle", "begin", "stream", "render", "flag", "bump", "join"}]
StreamState == [open : BOOLEAN, running : BOOLEAN, paused : BOOLEAN, stop_event : BOOLEAN]
InputState == [loop : BOOLEAN, backends : BOOLEAN]

\* What the proofs use of the types.
Typed ==
  /\ eng \in EngineState
  /\ call \in CallState
  /\ ready \in [Subs -> BOOLEAN] /\ running \in [Subs -> BOOLEAN]
  /\ stopper \in StopState
  /\ stream \in StreamState
  /\ render \in {"none", "wait", "in", "dry"}
  /\ notify \in {"none", "top", "wait", "check", "load", "observers", "exit"}
  /\ gfx \in {"none", "spawned", "loop", "frame", "exit"}
  /\ input \in InputState

\* What the calls so far have made of subsystem s.
Life(s) ==
  CASE call.at = "none" -> IF ~eng.init THEN "down" ELSE IF ~eng.started THEN "created"
                           ELSE IF eng.paused THEN "paused" ELSE "up"
    [] call.at = "start" -> IF s \in call.todo THEN "created" ELSE "up"
    [] call.at = "pause" -> IF s \in call.todo THEN "up" ELSE "paused"
    [] call.at = "resume" -> IF s \in call.todo THEN "paused" ELSE "up"
    [] call.at = "stop" -> IF stopper[s] = "idle" THEN "down" ELSE "stopping"
    [] call.at = "shutdown" -> "down"

\* The calls leave the flags of the engine in order, and nothing stops outside End.
CallInv ==
  /\ call.at = "none" <=> call = NoCall
  /\ eng.started => eng.init
  /\ eng.paused => eng.started
  /\ call.at = "start" => eng.init /\ ~eng.started
  /\ call.at = "pause" => eng.started /\ ~eng.paused
  /\ call.at = "resume" => eng.paused
  /\ call.at \in {"stop", "shutdown"} => eng.init
  /\ call.at # "stop" => \A s \in Subs : stopper[s] = "idle"
  /\ call.at # "shutdown" /\ eng.init => \A s \in Subs : ready[s]
  /\ ~aborted

NotifyUp == notify \notin {"none", "exit"} /\ notify_running
StreamUp == stream.running /\ ~stream.paused
Rendering == StreamUp /\ ~stream.stop_event /\ render # "none"

\* The audio subsystem: pause and stop each signal the render thread and wait for it.
AudioInv ==
  /\ strays = {} \/ gaveup
  /\ Life("audio") = "down" => render = "none" /\ notify = "none" /\ ~running["audio"]
  /\ Life("audio") = "created" => NotifyUp /\ stream = Closed /\ render = "none"
  /\ Life("audio") = "up" =>
       /\ running["audio"] /\ NotifyUp /\ StreamUp
       /\ stream.stop_event => call.at = "pause"
       /\ render = "none" => stream.stop_event
  /\ Life("audio") = "paused" =>
       /\ running["audio"] /\ NotifyUp /\ audio_paused /\ render = "none"
       /\ stream.paused /\ ~stream.running
  /\ Life("audio") = "stopping" =>
       CASE stopper["audio"] = "begin" -> NotifyUp /\ Rendering
         [] stopper["audio"] = "stream" -> ~running["audio"] /\ NotifyUp /\ Rendering
         [] stopper["audio"] = "render" -> ~running["audio"] /\ NotifyUp /\ stream.stop_event
         [] stopper["audio"] = "flag" -> ~running["audio"] /\ NotifyUp /\ render = "none"
         [] OTHER -> ~running["audio"] /\ render = "none" /\ notify # "none"

\* The graphics subsystem: its thread raises m_running, stop lowers it and joins.
GraphicsInv ==
  /\ Life("graphics") = "down" => gfx = "none" /\ ~running["graphics"]
  /\ Life("graphics") = "created" => gfx = "none" /\ ~running["graphics"] /\ ~gfx_paused
  /\ Life("graphics") = "up" =>
       /\ \/ gfx \in {"loop", "frame"} /\ running["graphics"]
          \/ gfx = "spawned" /\ ~running["graphics"] /\ call.at = "start"
       /\ ~gfx_paused
  /\ Life("graphics") = "paused" => gfx \in {"loop", "frame"} /\ running["graphics"] /\ gfx_paused
  /\ Life("graphics") = "stopping" =>
       IF stopper["graphics"] = "begin" THEN gfx \in {"loop", "frame"} /\ running["graphics"]
       ELSE stopper["graphics"] = "join" /\ gfx \in {"loop", "frame", "exit"} /\ ~running["graphics"]

\* The input and network subsystems: flags and threads change together.
InputInv ==
  /\ Life("input") \in {"down", "created"} => ~running["input"] /\ input = [loop |-> FALSE, backends |-> FALSE]
  /\ Life("input") \in {"up", "stopping"} => running["input"] /\ input = [loop |-> TRUE, backends |-> TRUE]
  /\ Life("input") = "paused" => ~running["input"] /\ input = [loop |-> TRUE, backends |-> FALSE]
  /\ stopper["input"] \in {"idle", "begin"}
NetworkInv ==
  /\ Life("network") \in {"up", "stopping"} => running["network"] /\ io_thread
  /\ Life("network") \notin {"up", "stopping"} => ~running["network"] /\ ~io_thread
  /\ stopper["network"] \in {"idle", "begin"}

EngineInv == Typed /\ CallInv /\ AudioInv /\ GraphicsInv /\ InputInv /\ NetworkInv

------------------------------------------------------------------------------
(* Whose step it is *)

\* A call begins or ends, or End goes from stop to shutdown.
CallSteps ==
  \/ EngineInit \/ EngineStart \/ EnginePause \/ EngineResume \/ EngineEnd
  \/ Started \/ Toggled \/ EndTeardown \/ EndDone

AudioSteps ==
  \/ StartAudio \/ PauseAudio \/ ResumeAudio \/ StopAudio
  \/ RenderBegin \/ RenderEnd \/ RenderExit \/ StrayStep \/ NotifyStep
GraphicsSteps ==
  \/ StartGraphics \/ PauseGraphics \/ ResumeGraphics \/ StopGraphics
  \/ GraphicsUp \/ GraphicsStep
InputSteps == StartInput \/ PauseInput \/ ResumeInput \/ StopInput
NetworkSteps == StartNetwork \/ PauseNetwork \/ StopNetwork

\* No subsystem is skipped by a pause, and none still runs at the shutdown: the
\* steps for that are never taken.
LEMMA Steps ==
  ASSUME EngineInv, Next
  PROVE  \/ CallSteps \/ AudioSteps \/ GraphicsSteps \/ InputSteps \/ NetworkSteps
         \/ \E s \in Subs : ShutdownRest(s)
<1>1. ASSUME NEW s \in Subs, PauseSkip(s) PROVE FALSE
  BY <1>1 DEF PauseSkip, Turn, IsRunning, EngineInv, AudioInv, GraphicsInv, InputInv, NetworkInv,
              Life, Subs
<1>2. ASSUME NEW s \in Subs, ShutdownStop(s) PROVE FALSE
  BY <1>2 DEF ShutdownStop, Turn, EngineInv, AudioInv, GraphicsInv, InputInv, NetworkInv,
              Life, Subs
<1> QED
  BY <1>1, <1>2 DEF Next, CallStep, CallSteps, AudioSteps, GraphicsSteps, InputSteps, NetworkSteps

\* The engine and the others leave subsystem s as it is.
Apart(s) ==
  /\ UNCHANGED eng /\ call'.at = call.at
  /\ s \in call'.todo <=> s \in call.todo
  /\ running'[s] = running[s] /\ stopper'[s] = stopper[s]

LEMMA LifeApart ==
  ASSUME NEW s \in Subs, Apart(s)
  PROVE  Life(s)' = Life(s)
BY DEF Apart, Life

LEMMA AudioApart ==
  ASSUME Typed, AudioSteps, NEW s \in Subs, s # "audio"
  PROVE  Apart(s) /\ UNCHANGED <<graphics, input, io_thread>>
BY DEF AudioSteps, StartAudio, PauseAudio, ResumeAudio, StopAudio, StopAudioBegin, StopStreamSignal,
       StopStreamJoin, StopNotifyFlag, StopNotifyBump, StopNotifyJoin, RenderBegin, RenderEnd,
       RenderExit, StrayStep, NotifyStep, Turn, Took, Step, Lower, Apart, Typed, CallState, StopState, manager, flags, graphics

LEMMA GraphicsApart ==
  ASSUME Typed, GraphicsSteps, NEW s \in Subs, s # "graphics"
  PROVE  Apart(s) /\ UNCHANGED <<audio, notifying, input, io_thread>>
BY DEF GraphicsSteps, StartGraphics, PauseGraphics, ResumeGraphics, StopGraphics, StopGraphicsBegin,
       StopGraphicsJoin, GraphicsUp, GraphicsStep, Turn, Took, Step, Lower, Apart, Typed, CallState, StopState, manager,
       flags, audio, notifying

LEMMA InputApart ==
  ASSUME Typed, InputSteps, NEW s \in Subs, s # "input"
  PROVE  Apart(s) /\ UNCHANGED <<audio, notifying, graphics, io_thread>>
BY DEF InputSteps, StartInput, PauseInput, ResumeInput, StopInput, Turn, Took, Step, Lower, Apart,
       Typed, CallState, StopState, manager, flags, audio, notifying, graphics

LEMMA NetworkApart ==
  ASSUME Typed, NetworkSteps, NEW s \in Subs, s # "network"
  PROVE  Apart(s) /\ UNCHANGED <<audio, notifying, graphics, input>>
BY DEF NetworkSteps, StartNetwork, PauseNetwork, StopNetwork, Turn, Took, Step, Lower, Apart,
       Typed, CallState, StopState, manager, flags, audio, notifying, graphics
LEMMA ShutdownApart ==
  ASSUME Typed, NEW s \in Subs, ShutdownRest(s)
  PROVE  /\ UNCHANGED <<eng, running, stopper, notifying, graphics, io_thread>>
         /\ call'.at = call.at /\ call.at = "shutdown"
         /\ UNCHANGED <<render, abandoned>>
         /\ input' = input \/ input' = [input EXCEPT !.backends = FALSE]
BY DEF ShutdownRest, Turn, Took, StreamClose, Typed, CallState, InputState

------------------------------------------------------------------------------
(* Types *)

LEMMA InitTyped == Init => Typed
BY DEF Init, Typed, EngineState, CallState, StopState, StreamState, InputState, NoCall, Closed, Ops, Places

LEMMA CreateTyped ==
  ASSUME Typed, Create
  PROVE  /\ ready' \in [Subs -> BOOLEAN] /\ running' \in [Subs -> BOOLEAN]
         /\ stream' \in StreamState
         /\ render' = render /\ notify' = "top" /\ gfx' = "none"
         /\ input' \in InputState
BY DEF Create, Closed, StreamState, InputState

LEMMA TypedStep == Typed /\ Next => Typed'
<1> SUFFICES ASSUME Typed, Next PROVE Typed'
  OBVIOUS
<1>1. CASE EngineInit
  BY <1>1, CreateTyped DEF EngineInit, Typed, EngineState
<1>2. CASE EngineStart
  <2>1. call' \in CallState
    BY <1>2 DEF EngineStart, Begin, CallState, Ops, Places
  <2>2. CASE eng.init /\ UNCHANGED <<eng, flags, audio, notifying, graphics, input, io_thread>>
    BY <1>2, <2>1, <2>2 DEF EngineStart, Typed, flags, audio, notifying, graphics
  <2>3. CASE Create /\ eng' = [eng EXCEPT !.init = TRUE]
    BY <1>2, <2>1, <2>3, CreateTyped DEF EngineStart, Typed, EngineState
  <2> QED BY <1>2, <2>2, <2>3 DEF EngineStart
<1>3. CASE EnginePause \/ EngineResume \/ EngineEnd
  BY <1>3 DEF EnginePause, EngineResume, EngineEnd, Begin, Typed, CallState, StopState, Ops, Places, flags, audio,
              notifying, graphics
<1>4. CASE Started \/ Toggled \/ EndTeardown \/ EndDone
  <2>1. call' \in CallState
    BY <1>4 DEF Started, Toggled, EndTeardown, EndDone, Typed, NoCall, CallState, Ops, Places
  <2>2. eng' \in EngineState
    <3>1. \/ eng' = eng \/ eng' = [eng EXCEPT !.started = TRUE]
          \/ eng' = [eng EXCEPT !.paused = TRUE] \/ eng' = [eng EXCEPT !.paused = FALSE]
          \/ eng' = [init |-> FALSE, paused |-> FALSE, started |-> FALSE]
      BY <1>4 DEF Started, Toggled, EndTeardown, EndDone
    <3>2. /\ eng \in EngineState /\ [eng EXCEPT !.started = TRUE] \in EngineState
          /\ [eng EXCEPT !.paused = TRUE] \in EngineState
          /\ [eng EXCEPT !.paused = FALSE] \in EngineState
          /\ [init |-> FALSE, paused |-> FALSE, started |-> FALSE] \in EngineState
      BY DEF Typed, EngineState
    <3> QED BY <3>1, <3>2, Zenon
  <2> QED
    BY <1>4, <2>1, <2>2 DEF Started, Toggled, EndTeardown, EndDone, Typed, flags, audio, notifying,
                            graphics
<1>5. CASE StartAudio
  BY <1>5 DEF StartAudio, StreamStart, Took, Typed, CallState, StreamState, notifying, graphics
<1>6. CASE ResumeAudio
  <2>1. \/ UNCHANGED <<stream, render>>
        \/ /\ stream' = [stream EXCEPT !.running = TRUE, !.paused = FALSE, !.stop_event = FALSE]
           /\ render' = "wait"
    BY <1>6 DEF ResumeAudio, StreamResume
  <2>2. stream' \in StreamState /\ render' \in {"none", "wait", "in", "dry"}
    BY <2>1 DEF Typed, StreamState
  <2>3. call' \in CallState
    BY <1>6 DEF ResumeAudio, Took, Typed, CallState
  <2> QED BY <1>6, <2>2, <2>3 DEF ResumeAudio, Typed, flags, notifying, graphics
<1>7. CASE PauseAudio
  <2>1. stream' \in StreamState
    BY <1>7 DEF PauseAudio, StreamPauseSignal, StreamPauseJoin, StreamPauseSkipped, Typed, StreamState
  <2>2. call' \in CallState
    BY <1>7 DEF PauseAudio, Took, Typed, CallState
  <2>3. render' \in {"none", "wait", "in", "dry"}
    BY <1>7 DEF PauseAudio, StreamPauseSignal, StreamPauseJoin, StreamPauseSkipped, RenderJoin, Typed
  <2> QED BY <1>7, <2>1, <2>2, <2>3 DEF PauseAudio, Typed, flags, notifying, graphics
<1>8. CASE StopAudio
  BY <1>8 DEF StopAudio, StopAudioBegin, StopStreamSignal, StopStreamJoin, StopNotifyFlag,
              StopNotifyBump, StopNotifyJoin, RenderJoin, Step, Lower, Typed, StopState, StreamState, manager, flags, audio, notifying,
              graphics
<1>9. CASE RenderBegin \/ RenderEnd \/ RenderExit \/ StrayStep \/ NotifyStep
  BY <1>9 DEF RenderBegin, RenderEnd, RenderExit, StrayStep, NotifyStep, Typed, manager, flags, audio,
              notifying, graphics
<1>10. CASE GraphicsSteps
  <2>1. call' \in CallState /\ stopper' \in StopState
    BY <1>10 DEF GraphicsSteps, StartGraphics, PauseGraphics, ResumeGraphics, StopGraphics,
                 StopGraphicsBegin, StopGraphicsJoin, GraphicsUp, GraphicsStep, Took, Step,
                 Typed, CallState, StopState, manager
  <2>2. running' \in [Subs -> BOOLEAN]
    BY <1>10 DEF GraphicsSteps, StartGraphics, PauseGraphics, ResumeGraphics, StopGraphics,
                 StopGraphicsBegin, StopGraphicsJoin, GraphicsUp, GraphicsStep, Lower,
                 Typed, flags
  <2>3. gfx' \in {"none", "spawned", "loop", "frame", "exit"}
    BY <1>10 DEF GraphicsSteps, StartGraphics, PauseGraphics, ResumeGraphics, StopGraphics,
                 StopGraphicsBegin, StopGraphicsJoin, GraphicsUp, GraphicsStep, Typed, graphics
  <2>4. UNCHANGED <<eng, ready, audio, notifying, input>>
    BY <1>10 DEF GraphicsSteps, StartGraphics, PauseGraphics, ResumeGraphics, StopGraphics,
                 StopGraphicsBegin, StopGraphicsJoin, GraphicsUp, GraphicsStep, manager, flags
  <2> QED BY <2>1, <2>2, <2>3, <2>4 DEF Typed, audio, notifying
<1>11. CASE InputSteps
  <2>1. /\ call' \in CallState
        /\ stopper' \in StopState
    BY <1>11 DEF InputSteps, StartInput, PauseInput, ResumeInput, StopInput, Took, Step, Typed, CallState, StopState, manager
  <2>2. running' \in [Subs -> BOOLEAN]
    BY <1>11 DEF InputSteps, StartInput, PauseInput, ResumeInput, StopInput, Lower, Typed
  <2>3. input' \in InputState
    <3>1. \/ input' = input \/ input' = [loop |-> TRUE, backends |-> TRUE]
          \/ input' = [loop |-> FALSE, backends |-> FALSE]
          \/ input' = [input EXCEPT !.backends = FALSE] \/ input' = [input EXCEPT !.backends = TRUE]
      BY <1>11 DEF InputSteps, StartInput, PauseInput, ResumeInput, StopInput
    <3>2. /\ input \in InputState /\ [loop |-> TRUE, backends |-> TRUE] \in InputState
          /\ [loop |-> FALSE, backends |-> FALSE] \in InputState
          /\ [input EXCEPT !.backends = FALSE] \in InputState
          /\ [input EXCEPT !.backends = TRUE] \in InputState
      BY DEF Typed, InputState
    <3> QED BY <3>1, <3>2, Zenon
  <2>4. UNCHANGED <<eng, ready, audio, notifying, graphics>>
    BY <1>11 DEF InputSteps, StartInput, PauseInput, ResumeInput, StopInput, manager
  <2> QED BY <2>1, <2>2, <2>3, <2>4 DEF Typed, audio, notifying, graphics
<1>12. CASE NetworkSteps
  <2>1. /\ call' \in CallState
        /\ stopper' \in StopState
    BY <1>12 DEF NetworkSteps, StartNetwork, PauseNetwork, StopNetwork, Took, Step, Typed, CallState, StopState, manager
  <2>2. running' \in [Subs -> BOOLEAN]
    BY <1>12 DEF NetworkSteps, StartNetwork, PauseNetwork, StopNetwork, Lower, Typed
  <2>3. UNCHANGED <<eng, ready, audio, notifying, graphics, input>>
    BY <1>12 DEF NetworkSteps, StartNetwork, PauseNetwork, StopNetwork, manager
  <2> QED BY <2>1, <2>2, <2>3 DEF Typed, audio, notifying, graphics
<1>13. ASSUME NEW s \in Subs, PauseSkip(s) \/ ShutdownStop(s) PROVE Typed'
  BY <1>13 DEF PauseSkip, ShutdownStop, Took, Typed, CallState, StopState, manager, flags, audio,
               notifying, graphics
<1>14. ASSUME NEW s \in Subs, ShutdownRest(s) PROVE Typed'
  <2>1. /\ call' \in CallState
        /\ ready' \in [Subs -> BOOLEAN]
    BY <1>14 DEF ShutdownRest, Took, Typed, CallState
  <2>2. stream' \in StreamState
    <3>1. Closed \in StreamState /\ stream \in StreamState
      BY DEF Closed, Typed, StreamState
    <3> QED BY <1>14, <3>1 DEF ShutdownRest, StreamClose
  <2>3. input' \in InputState
    BY <1>14 DEF ShutdownRest, Typed, InputState
  <2> QED BY <1>14, <2>1, <2>2, <2>3 DEF ShutdownRest, Typed, notifying, graphics
<1> QED
  BY <1>1, <1>2, <1>3, <1>4, <1>5, <1>6, <1>7, <1>8, <1>9, <1>10, <1>11, <1>12, <1>13, <1>14
  DEF Next, CallStep, GraphicsSteps, InputSteps, NetworkSteps

------------------------------------------------------------------------------
(* The calls *)

LEMMA InitInv == Init => CallInv /\ AudioInv /\ GraphicsInv /\ InputInv /\ NetworkInv
BY DEF Init, CallInv, AudioInv, GraphicsInv, InputInv, NetworkInv, Life, NoCall, Subs

\* A step inside a call changes neither the engine's flags nor where the call is,
\* and moves the stop of a subsystem only if one is under way.
LEMMA CallKept ==
  ASSUME Typed, CallInv, UNCHANGED <<eng, aborted>>, call'.at = call.at,
         call' = call \/ call.at # "none",
         ready' = ready \/ call.at = "shutdown",
         stopper' = stopper \/ call.at = "stop"
  PROVE  CallInv'
BY DEF CallInv, NoCall

LEMMA CallsStep == ASSUME Ordered, EngineInv, Next PROVE CallInv'
<1> USE DEF EngineInv
<1>1. CASE EngineInit \/ EngineStart
  BY <1>1 DEF EngineInit, EngineStart, Create, Idle, NoCall, Begin, CallInv, Typed, EngineState, flags
<1>2. CASE EnginePause \/ EngineResume \/ EngineEnd
  BY <1>2 DEF EnginePause, EngineResume, EngineEnd, Idle, NoCall, Begin, CallInv, flags
<1>3. CASE Started \/ Toggled
  BY <1>3 DEF Started, Toggled, NoCall, CallInv, Typed, EngineState, flags
<1>4. CASE EndTeardown
  BY <1>4 DEF EndTeardown, NoCall, CallInv, Typed, CallState, flags
<1>5. CASE EndDone
  BY <1>5 DEF EndDone, NoCall, CallInv, AudioInv, GraphicsInv, Life, flags
<1>6. CASE AudioSteps
  <2>1. CASE StartAudio \/ PauseAudio \/ ResumeAudio
    BY <2>1, CallKept DEF StartAudio, PauseAudio, ResumeAudio, Turn, Took, Typed, CallState, flags
  <2>2. CASE StopAudio
    BY <2>2, CallKept DEF StopAudio, StopAudioBegin, StopStreamSignal, StopStreamJoin, StopNotifyFlag,
         StopNotifyBump, StopNotifyJoin, Step, CallInv, Subs, manager, flags
  <2>3. CASE RenderBegin \/ RenderEnd \/ RenderExit \/ StrayStep \/ NotifyStep
    BY <2>3, CallKept DEF RenderBegin, RenderEnd, RenderExit, StrayStep, NotifyStep, manager, flags
  <2> QED BY <1>6, <2>1, <2>2, <2>3 DEF AudioSteps
<1>7. CASE GraphicsSteps
  <2>1. CASE StartGraphics \/ PauseGraphics \/ ResumeGraphics
    BY <2>1, CallKept DEF StartGraphics, PauseGraphics, ResumeGraphics, Turn, Took, Typed, CallState, flags
  <2>2. CASE StopGraphics
    BY <2>2, CallKept DEF StopGraphics, StopGraphicsBegin, StopGraphicsJoin, Step, CallInv, Subs, manager,
         flags
  <2>3. CASE GraphicsUp \/ GraphicsStep
    BY <2>3, CallKept DEF GraphicsUp, GraphicsStep, manager, flags
  <2> QED BY <1>7, <2>1, <2>2, <2>3 DEF GraphicsSteps
<1>8. CASE InputSteps
  BY <1>8, CallKept DEF InputSteps, StartInput, PauseInput, ResumeInput, StopInput, Turn, Took, Step,
                        CallInv, Typed, CallState, Subs, manager
<1>9. CASE NetworkSteps
  BY <1>9, CallKept DEF NetworkSteps, StartNetwork, PauseNetwork, StopNetwork, Turn, Took, Step,
                        CallInv, Typed, CallState, Subs, manager
<1>10. ASSUME NEW s \in Subs, ShutdownRest(s) PROVE CallInv'
  BY <1>10, CallKept DEF ShutdownRest, Turn, Took, Typed, CallState
<1> QED BY <1>1, <1>2, <1>3, <1>4, <1>5, <1>6, <1>7, <1>8, <1>9, <1>10, Steps DEF CallSteps

------------------------------------------------------------------------------
(* The subsystems *)

\* When a call returns, all subsystems have come to where its walk has brought them.
LEMMA LifeReturned ==
  ASSUME Typed, CallInv, Started \/ Toggled, NEW s \in Subs
  PROVE  Life(s)' = Life(s) /\ Life(s) \in {"up", "paused"} /\ call'.at = "none"
<1>1. CASE Started
  BY <1>1 DEF Started, NoCall, Life, CallInv, Typed, EngineState
<1>2. CASE Toggled /\ call.at = "pause"
  <2>1. eng' = [eng EXCEPT !.paused = TRUE] /\ call' = NoCall /\ call.todo = {}
    BY <1>2 DEF Toggled
  <2> QED BY <1>2, <2>1 DEF NoCall, Life, CallInv, Typed, EngineState
<1>3. CASE Toggled /\ call.at = "resume"
  <2>1. eng' = [eng EXCEPT !.paused = FALSE] /\ call' = NoCall /\ call.todo = {}
    BY <1>3 DEF Toggled
  <2> QED BY <1>3, <2>1 DEF NoCall, Life, CallInv, Typed, EngineState
<1> QED BY <1>1, <1>2, <1>3 DEF Toggled

LEMMA AudioKept ==
  ASSUME AudioInv, Apart("audio"), UNCHANGED <<audio, notifying>>
  PROVE  AudioInv'
<1>1. Life("audio")' = Life("audio")
  BY LifeApart DEF Subs
<1> QED BY <1>1 DEF AudioInv, Apart, NotifyUp, StreamUp, Rendering, audio, abandoned, notifying

LEMMA AudioStep == ASSUME Ordered, EngineInv, Next PROVE AudioInv'
<1> USE DEF EngineInv
<1>1. CASE EngineInit \/ EngineStart
  BY <1>1 DEF EngineInit, EngineStart, Create, Begin, Idle, NoCall, Closed, AudioInv, Life, NotifyUp,
              CallInv, Typed, EngineState, Subs, flags, audio, abandoned, notifying
<1>2. CASE EnginePause \/ EngineResume
  BY <1>2 DEF EnginePause, EngineResume, Begin, Idle, NoCall, AudioInv, Life, NotifyUp, StreamUp,
              CallInv, Subs, flags, audio, abandoned, notifying
<1>3. CASE EngineEnd
  BY <1>3 DEF EngineEnd, Begin, Idle, NoCall, IsRunning, AudioInv, Life, NotifyUp, StreamUp, Rendering,
              CallInv, Subs, flags, audio, abandoned, notifying
<1>4. CASE Started \/ Toggled
  <2>1. /\ Life("audio")' = Life("audio") /\ Life("audio") \in {"up", "paused"}
        /\ UNCHANGED <<flags, audio, notifying>>
    BY <1>4, LifeReturned DEF Started, Toggled, Subs
  <2>2. ~(Life("audio") = "up" /\ call.at = "pause")
    BY <1>4 DEF Started, Toggled, Life
  <2> QED BY <2>1, <2>2 DEF AudioInv, NotifyUp, StreamUp, flags, audio, abandoned, notifying
<1>5. CASE EndTeardown \/ EndDone
  BY <1>5 DEF EndTeardown, EndDone, NoCall, AudioInv, Life, Typed, CallState, Subs, flags, audio, abandoned,
              notifying
<1>6. CASE StartAudio
  BY <1>6 DEF StartAudio, StreamStart, Turn, Took, Closed, AudioInv, Life, NotifyUp, StreamUp, CallInv,
              Typed, CallState, Subs, abandoned, notifying
<1>7. CASE PauseAudio
  <2>1. /\ Life("audio") = "up" /\ call.at = "pause" /\ call'.at = "pause"
        /\ NotifyUp /\ NotifyUp' /\ running["audio"] /\ running'["audio"] /\ StreamUp
    BY <1>7 DEF PauseAudio, Turn, Took, AudioInv, Life, NotifyUp, Typed, CallState, flags, notifying
  <2>2. CASE StreamPauseSignal /\ UNCHANGED call
    <3>1. Life("audio")' = "up" /\ stream'.stop_event /\ StreamUp'
      BY <1>7, <2>1, <2>2 DEF PauseAudio, StreamPauseSignal, Life, Turn, StreamUp, Typed, StreamState
    <3> QED BY <2>1, <2>2, <3>1 DEF AudioInv, StreamPauseSignal, abandoned
  <2>3. CASE StreamPauseJoin /\ audio_paused' = TRUE /\ Took("audio")
    <3>1. Life("audio")' = "paused"
      BY <2>1, <2>3 DEF Life, Took, Typed, CallState
    <3>2. stream'.paused /\ ~stream'.running /\ render' = "none" /\ (strays' = {} \/ gaveup')
      BY <1>7, <2>3 DEF PauseAudio, StreamPauseJoin, RenderJoin, AudioInv, Typed, StreamState, abandoned
    <3> QED BY <2>1, <2>3, <3>1, <3>2 DEF AudioInv
  <2> QED BY <1>7, <2>1, <2>2, <2>3 DEF PauseAudio, StreamPauseSkipped, StreamUp
<1>8. CASE ResumeAudio
  BY <1>8 DEF ResumeAudio, StreamResume, Turn, Took, AudioInv, Life, NotifyUp, StreamUp, Typed,
              CallState, StreamState, flags, abandoned, notifying
<1>9. CASE StopAudio
  <2>1. call.at = "stop" /\ call'.at = "stop"
    BY <1>9 DEF StopAudio, StopAudioBegin, StopStreamSignal, StopStreamJoin, StopNotifyFlag,
         StopNotifyBump, StopNotifyJoin, Step, CallInv, Subs, manager
  <2>2. CASE StopAudioBegin
    BY <2>1, <2>2 DEF StopAudioBegin, Step, Lower, AudioInv, Life, NotifyUp, StreamUp, Rendering, Typed,
                      StopState, Subs, audio, abandoned, notifying
  <2>3. CASE StopStreamSignal
    BY <2>1, <2>3 DEF StopStreamSignal, Step, AudioInv, Life, NotifyUp, Typed, StopState, StreamState,
                      Subs, flags, abandoned, notifying
  <2>4. CASE StopStreamJoin
    BY <2>1, <2>4 DEF StopStreamJoin, RenderJoin, Step, AudioInv, Life, NotifyUp, Typed, StopState, Subs,
                      flags, abandoned, notifying
  <2>5. CASE StopNotifyFlag \/ StopNotifyBump \/ StopNotifyJoin
    BY <2>1, <2>5 DEF StopNotifyFlag, StopNotifyBump, StopNotifyJoin, Step, AudioInv, Life, NotifyUp,
                      Typed, StopState, Subs, flags, audio, abandoned, notifying
  <2> QED BY <1>9, <2>2, <2>3, <2>4, <2>5 DEF StopAudio
<1>10. CASE RenderBegin \/ RenderEnd \/ RenderExit
  BY <1>10 DEF RenderBegin, RenderEnd, RenderExit, AudioInv, Life, NotifyUp, StreamUp, Rendering, Closed,
               manager, flags, abandoned, notifying
<1>14. CASE StrayStep
  <2>1. strays # {} /\ gaveup' = gaveup
    BY <1>14 DEF StrayStep
  <2>2. Life("audio")' = Life("audio")
    BY <1>14 DEF StrayStep, Life, manager
  <2> QED
    BY <1>14, <2>1, <2>2 DEF StrayStep, AudioInv, NotifyUp, StreamUp, Rendering, manager, flags
<1>11. CASE NotifyStep
  BY <1>11 DEF NotifyStep, AudioInv, Life, NotifyUp, StreamUp, Rendering, manager, flags, audio, abandoned
<1>12. CASE GraphicsSteps \/ InputSteps \/ NetworkSteps
  BY <1>12, AudioKept, GraphicsApart, InputApart, NetworkApart DEF Subs
<1>13. ASSUME NEW s \in Subs, ShutdownRest(s) PROVE AudioInv'
  BY <1>13, ShutdownApart DEF AudioInv, Life, abandoned, notifying
<1> QED
  BY <1>1, <1>2, <1>3, <1>4, <1>5, <1>6, <1>7, <1>8, <1>9, <1>10, <1>11, <1>12, <1>13, <1>14, Steps
  DEF CallSteps, AudioSteps

LEMMA GraphicsKept ==
  ASSUME GraphicsInv, Apart("graphics"), UNCHANGED graphics
  PROVE  GraphicsInv'
<1>1. Life("graphics")' = Life("graphics")
  BY LifeApart DEF Subs
<1> QED BY <1>1 DEF GraphicsInv, Apart, graphics

LEMMA GraphicsStepKeeps == ASSUME Ordered, EngineInv, Next PROVE GraphicsInv'
<1> USE DEF EngineInv
<1>1. CASE EngineInit \/ EngineStart
  BY <1>1 DEF EngineInit, EngineStart, Create, Begin, Idle, NoCall, GraphicsInv, Life, CallInv, Typed,
              EngineState, Subs, flags, graphics
<1>2. CASE EnginePause \/ EngineResume \/ EngineEnd
  BY <1>2 DEF EnginePause, EngineResume, EngineEnd, Begin, Idle, NoCall, IsRunning, GraphicsInv, Life,
              CallInv, Subs, flags, graphics
<1>3. CASE Started \/ Toggled
  <2>1. /\ Life("graphics")' = Life("graphics") /\ Life("graphics") \in {"up", "paused"}
        /\ UNCHANGED <<flags, graphics>>
    BY <1>3, LifeReturned DEF Started, Toggled, Subs
  <2>2. call.at = "start" => running["graphics"]
    BY <1>3 DEF Started, Toggled, CallInv, Subs
  <2> QED BY <2>1, <2>2 DEF GraphicsInv, flags, graphics
<1>4. CASE EndTeardown \/ EndDone
  BY <1>4 DEF EndTeardown, EndDone, NoCall, GraphicsInv, Life, Typed, CallState, Subs, flags, graphics
<1>5. CASE StartGraphics \/ PauseGraphics \/ ResumeGraphics
  BY <1>5 DEF StartGraphics, PauseGraphics, ResumeGraphics, Turn, Took, GraphicsInv, Life, Typed,
              CallState, flags, graphics
<1>6. CASE StopGraphics
  <2>1. call.at = "stop" /\ call'.at = "stop"
    BY <1>6 DEF StopGraphics, StopGraphicsBegin, StopGraphicsJoin, Step, CallInv, Subs, manager
  <2> QED
    BY <1>6, <2>1 DEF StopGraphics, StopGraphicsBegin, StopGraphicsJoin, Step, Lower, GraphicsInv, Life,
                      Typed, StopState, Subs, flags, graphics
<1>7. CASE GraphicsUp \/ GraphicsStep
  <2>1. Life("graphics")' = Life("graphics") /\ UNCHANGED <<manager, stopper, gfx_paused>>
    BY <1>7 DEF GraphicsUp, GraphicsStep, Life, manager
  <2>2. CASE GraphicsUp
    BY <2>1, <2>2 DEF GraphicsUp, GraphicsInv, Typed, Subs, manager
  <2>3. CASE GraphicsStep
    BY <2>1, <2>3 DEF GraphicsStep, GraphicsInv, manager, flags
  <2> QED BY <1>7, <2>2, <2>3
<1>8. CASE AudioSteps \/ InputSteps \/ NetworkSteps
  BY <1>8, GraphicsKept, AudioApart, InputApart, NetworkApart DEF Subs
<1>9. ASSUME NEW s \in Subs, ShutdownRest(s) PROVE GraphicsInv'
  BY <1>9, ShutdownApart DEF GraphicsInv, Life, graphics
<1> QED
  BY <1>1, <1>2, <1>3, <1>4, <1>5, <1>6, <1>7, <1>8, <1>9, Steps DEF CallSteps, GraphicsSteps

LEMMA InputStep == ASSUME Ordered, EngineInv, Next PROVE InputInv'
<1> USE DEF EngineInv
<1>1. CASE EngineInit \/ EngineStart
  BY <1>1 DEF EngineInit, EngineStart, Create, Begin, Idle, NoCall, InputInv, Life, CallInv, Typed,
              EngineState, Subs, flags
<1>2. CASE EnginePause \/ EngineResume \/ EngineEnd
  BY <1>2 DEF EnginePause, EngineResume, EngineEnd, Begin, Idle, NoCall, IsRunning, InputInv, Life,
              CallInv, Subs, flags
<1>3. CASE Started \/ Toggled
  <2>1. Life("input")' = Life("input") /\ UNCHANGED <<flags, stopper, input>>
    BY <1>3, LifeReturned DEF Started, Toggled, Subs
  <2> QED BY <2>1 DEF InputInv, flags
<1>4. CASE EndTeardown \/ EndDone
  BY <1>4 DEF EndTeardown, EndDone, NoCall, InputInv, Life, Typed, CallState, Subs, flags
<1>5. CASE StartInput \/ PauseInput
  BY <1>5 DEF StartInput, PauseInput, Turn, Took, InputInv, Life, Typed, CallState, Subs
<1>6. CASE ResumeInput
  <2>1. Life("input") = "paused" /\ Life("input")' = "up"
    BY <1>6 DEF ResumeInput, Turn, Took, Life, Typed, CallState
  <2>2. ~running["input"] /\ input = [loop |-> TRUE, backends |-> FALSE]
    BY <2>1 DEF InputInv
  <2>3. input' = [input EXCEPT !.backends = TRUE] /\ running'["input"] /\ UNCHANGED stopper
    BY <1>6, <2>2 DEF ResumeInput, Typed, Subs
  <2> QED BY <2>1, <2>2, <2>3 DEF InputInv
<1>7. CASE StopInput
  BY <1>7 DEF StopInput, Step, Lower, InputInv, Life, CallInv, Typed, StopState, Subs, manager
<1>8. CASE AudioSteps \/ GraphicsSteps \/ NetworkSteps
  <2>1. Apart("input") /\ UNCHANGED input
    BY <1>8, AudioApart, GraphicsApart, NetworkApart DEF Subs
  <2>2. Life("input")' = Life("input")
    BY <2>1, LifeApart DEF Subs
  <2> QED BY <2>1, <2>2 DEF InputInv, Apart
<1>9. ASSUME NEW s \in Subs, ShutdownRest(s) PROVE InputInv'
  BY <1>9, ShutdownApart DEF InputInv, Life
<1> QED
  BY <1>1, <1>2, <1>3, <1>4, <1>5, <1>6, <1>7, <1>8, <1>9, Steps DEF CallSteps, InputSteps

LEMMA NetworkStep == ASSUME Ordered, EngineInv, Next PROVE NetworkInv'
<1> USE DEF EngineInv
<1>1. CASE EngineInit \/ EngineStart
  BY <1>1 DEF EngineInit, EngineStart, Create, Begin, Idle, NoCall, NetworkInv, Life, CallInv, Typed,
              EngineState, Subs, flags
<1>2. CASE EnginePause \/ EngineResume \/ EngineEnd
  BY <1>2 DEF EnginePause, EngineResume, EngineEnd, Begin, Idle, NoCall, IsRunning, NetworkInv, Life,
              CallInv, Subs, flags
<1>3. CASE Started \/ Toggled
  <2>1. Life("network")' = Life("network") /\ UNCHANGED <<flags, stopper, io_thread>>
    BY <1>3, LifeReturned DEF Started, Toggled, Subs
  <2> QED BY <2>1 DEF NetworkInv, flags
<1>4. CASE EndTeardown \/ EndDone
  BY <1>4 DEF EndTeardown, EndDone, NoCall, NetworkInv, Life, Typed, CallState, Subs, flags
<1>5. CASE StartNetwork \/ PauseNetwork
  BY <1>5 DEF StartNetwork, PauseNetwork, Turn, Took, NetworkInv, Life, Typed, CallState, Subs
<1>6. CASE StopNetwork
  BY <1>6 DEF StopNetwork, Step, Lower, NetworkInv, Life, CallInv, Typed, StopState, Subs, manager
<1>7. CASE AudioSteps \/ GraphicsSteps \/ InputSteps
  <2>1. Apart("network") /\ UNCHANGED io_thread
    BY <1>7, AudioApart, GraphicsApart, InputApart DEF Subs
  <2>2. Life("network")' = Life("network")
    BY <2>1, LifeApart DEF Subs
  <2> QED BY <2>1, <2>2 DEF NetworkInv, Apart
<1>8. ASSUME NEW s \in Subs, ShutdownRest(s) PROVE NetworkInv'
  BY <1>8, ShutdownApart DEF NetworkInv, Life
<1> QED
  BY <1>1, <1>2, <1>3, <1>4, <1>5, <1>6, <1>7, <1>8, Steps DEF CallSteps, NetworkSteps
------------------------------------------------------------------------------
(* The theorems *)

LEMMA EngineInvStep == Ordered /\ EngineInv /\ [Next]_vars => EngineInv'
<1> SUFFICES ASSUME Ordered, EngineInv, [Next]_vars PROVE EngineInv'
  OBVIOUS
<1>1. CASE Next
  BY <1>1, TypedStep, CallsStep, AudioStep, GraphicsStepKeeps, InputStep, NetworkStep DEF EngineInv
<1>2. CASE UNCHANGED vars
  <2>1. UNCHANGED <<eng, call, ready, running, stopper, stream, render, strays, gaveup, audio_paused, notify,
                    notify_running, gfx, gfx_paused, input, io_thread, aborted>>
    BY <1>2 DEF vars, manager, flags, audio, abandoned, notifying, graphics
  <2>2. \A s \in Subs : Life(s)' = Life(s)
    BY <2>1 DEF Life
  <2>3. Typed' /\ CallInv'
    BY <2>1 DEF EngineInv, Typed, CallInv
  <2>4. AudioInv'
    BY <2>1, <2>2 DEF EngineInv, AudioInv, NotifyUp, StreamUp, Rendering, Subs
  <2>5. GraphicsInv' /\ InputInv' /\ NetworkInv'
    BY <2>1, <2>2 DEF EngineInv, GraphicsInv, InputInv, NetworkInv, Subs
  <2> QED BY <2>3, <2>4, <2>5 DEF EngineInv
<1> QED BY <1>1, <1>2

LEMMA EngineInvHolds == ASSUME Ordered PROVE Spec => []EngineInv
<1>1. Init => EngineInv
  BY InitTyped, InitInv DEF EngineInv
<1>2. EngineInv /\ [Next]_vars => EngineInv'
  BY EngineInvStep
<1> QED BY <1>1, <1>2, PTL DEF Spec

\* Engine::Start, Pause and Resume, for a program that pauses a started engine and ends a
\* running one: between calls the flags of the engine say what its threads, streams and
\* backends do, in whatever order the subsystems were walked over.
THEOREM FlagsTrue == ASSUME Ordered PROVE Spec => []FlagsTellTruth
<1>1. EngineInv => FlagsTellTruth
  <2> SUFFICES ASSUME EngineInv, Idle, eng.started PROVE
        IF eng.paused
          THEN /\ ~InCallback \/ gaveup
               /\ render = "none" /\ ~stream.running
               /\ gfx_paused /\ ~input.backends /\ ~io_thread
          ELSE /\ \A s \in Subs : IsRunning(s)
               /\ stream.running /\ render \in {"wait", "in", "dry"}
               /\ notify \notin {"none", "exit"} /\ notify_running
               /\ gfx \in {"loop", "frame"}
               /\ input.loop /\ input.backends /\ io_thread
    BY DEF FlagsTellTruth
  <2>1. call.at = "none" /\ eng.init
    BY DEF Idle, NoCall, EngineInv, CallInv
  <2>2. \A s \in Subs : Life(s) = IF eng.paused THEN "paused" ELSE "up"
    BY <2>1 DEF Life
  <2> QED
    BY <2>1, <2>2 DEF EngineInv, Typed, AudioInv, GraphicsInv, InputInv, NetworkInv, NotifyUp, StreamUp,
                      IsRunning, InCallback, Subs
<1> QED BY <1>1, EngineInvHolds, PTL

\* Engine::End, for the same program: when tasks, buffers and windows are torn down no audio
\* callback and no frame is inside them.
THEOREM TeardownQuiet == ASSUME Ordered PROVE Spec => []QuietTeardown
<1>1. EngineInv => QuietTeardown
  BY DEF EngineInv, QuietTeardown, InCallback, AudioInv, GraphicsInv, Life
<1> QED BY <1>1, EngineInvHolds, PTL

\* Engine::End, for the same program: when it has returned no thread is left, and none was
\* destroyed joinable (SubsystemManager::shutdown).
THEOREM EndClean == ASSUME Ordered PROVE Spec => []EndIsClean
<1>1. EngineInv => EndIsClean
  BY DEF EngineInv, EndIsClean, CallInv, AudioInv, GraphicsInv, InputInv, NetworkInv, Life, Idle, NoCall
<1> QED BY <1>1, EngineInvHolds, PTL
==============================================================================
