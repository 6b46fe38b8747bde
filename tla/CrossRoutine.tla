---------------------------- MODULE CrossRoutine -----------------------------
(***************************************************************************)
(* Vruta: the gate of a CrossRoutine.  The routine is in the MULTI_RATE    *)
(* list, which the audio thread offers a resume once per sample and the    *)
(* graphics thread once per frame, each with the position of its own clock *)
(* (pump_cross).  Suspended on MultiRateDelay, the body goes on when every *)
(* clock the delay asked for has reached its position; the pump that finds *)
(* this out claims the resume with a compare-exchange.                     *)
(*                                                                         *)
(* try_resume_with_context and await_suspend are taken apart into their    *)
(* accesses to the promise, so that a pump can stall anywhere between two  *)
(* of them.  Fields the promise has twice, for samples and for frames, are *)
(* functions of the pump.  The routine is added with initialize = false,   *)
(* the way Wiring does it.                                                 *)
(***************************************************************************)
EXTENDS Naturals

CONSTANTS MaxDelay,  \* longest delay on one clock
          MaxClock,  \* bound on the positions: a clock stays there
          Starts     \* what the body awaits first: "AWAIT" for GetCrossPromise,
                     \* "MULTIPLE" for MultiRateDelay

ASSUME CrossRoutineAssumption ==
  /\ MaxDelay \in Nat \ {0}
  /\ MaxClock \in Nat
  /\ MaxDelay <= MaxClock
  /\ Starts \subseteq {"AWAIT", "MULTIPLE"}

Pumps == {"audio", "graphics"}

VARIABLES
  clock,                 \* position of the clock of each pump
  active_delay_context,
  next,                  \* next_sample, next_frame
  delay_amount,          \* sample_delay_amount, frame_delay_amount
  satisfied,             \* sample_satisfied, frame_satisfied
  auto_resume, should_terminate,
  done,                  \* the body has returned
  first,                 \* history: what the body awaited first
  pc, required, asked    \* where each pump is, and the locals it still needs

promise == <<active_delay_context, next, delay_amount, satisfied>>
control == <<auto_resume, should_terminate, first>>
crossvars == <<clock, promise, control, done, pc, required, asked>>

\* What one MultiRateDelay asks for; with no clock at all it does not suspend.
Delays == {d \in [Pumps -> 0 .. MaxDelay] : \E c \in Pumps : d[c] > 0}
NoDelay == [c \in Pumps |-> 0]

CrossInit ==
  /\ clock \in [Pumps -> 0 .. 1]
  /\ first \in Starts
  /\ active_delay_context = first
  /\ delay_amount \in IF first = "AWAIT" THEN {NoDelay} ELSE Delays
  /\ next = delay_amount
  /\ satisfied = [c \in Pumps |-> FALSE]
  /\ auto_resume = TRUE
  /\ should_terminate = FALSE
  /\ done = FALSE
  /\ pc = [t \in Pumps |-> "idle"]
  /\ required = [t \in Pumps |-> {}]
  /\ asked = [t \in Pumps |-> NoDelay]

Goto(t, there) == pc' = [pc EXCEPT ![t] = there]

------------------------------------------------------------------------------
(* The gate: try_resume_with_context *)

\* Where a tick takes the clock: one sample, or the frames the wall clock says
\* have passed, none and several included.
Ticks(t) == IF t = "audio" THEN {clock[t] + 1} ELSE clock[t] .. clock[t] + 2

\* The thread comes round, its clock ticks and the routine is offered a resume.
Offer(t) ==
  /\ pc[t] = "idle"
  /\ \E n \in Ticks(t) : clock' = [clock EXCEPT ![t] = IF n < MaxClock THEN n ELSE MaxClock]
  /\ Goto(t, IF done \/ should_terminate \/ ~auto_resume THEN "idle" ELSE "load")
  /\ UNCHANGED <<promise, control, done, required, asked>>

Load(t) ==
  /\ pc[t] = "load"
  /\ Goto(t, CASE active_delay_context = "AWAIT" -> "initialize"
               [] active_delay_context = "MULTIPLE" -> "armed"
               [] OTHER -> "idle")
  /\ UNCHANGED <<clock, promise, control, done, required, asked>>

\* initialize_state: both positions become that of the clock at hand.
Initialize(t) ==
  /\ pc[t] = "initialize"
  /\ Goto(t, IF done THEN "idle" ELSE "body")
  /\ next' = IF done THEN next ELSE [c \in Pumps |-> clock[t]]
  /\ UNCHANGED <<clock, active_delay_context, delay_amount, satisfied, control, done,
                 required, asked>>

Armed(t) ==
  /\ pc[t] = "armed"
  /\ Goto(t, IF delay_amount[t] > 0 THEN "reached" ELSE "require")
  /\ UNCHANGED <<clock, promise, control, done, required, asked>>

Reached(t) ==
  /\ pc[t] = "reached"
  /\ Goto(t, IF clock[t] >= next[t] THEN "satisfy" ELSE "require")
  /\ UNCHANGED <<clock, promise, control, done, required, asked>>

\* Variant: the position is compared and the flag stays down.
Satisfy_not(t) ==
  /\ pc[t] = "satisfy"
  /\ Goto(t, "require")
  /\ UNCHANGED <<clock, promise, control, done, required, asked>>

Satisfy(t) ==
  /\ pc[t] = "satisfy"
  /\ satisfied' = [satisfied EXCEPT ![t] = TRUE]
  /\ Goto(t, "require")
  /\ UNCHANGED <<clock, active_delay_context, next, delay_amount, control, done,
                 required, asked>>

Require(t) ==
  /\ pc[t] = "require"
  /\ required' = [required EXCEPT ![t] = {c \in Pumps : delay_amount[c] > 0}]
  /\ Goto(t, "sample")
  /\ UNCHANGED <<clock, promise, control, done, asked>>

\* The two tests of the flags, samples before frames.
Tested(t, here, c, there) ==
  /\ pc[t] = here
  /\ Goto(t, IF c \in required[t] /\ ~satisfied[c] THEN "idle" ELSE there)
  /\ required' = [required EXCEPT ![t] = IF pc'[t] = "frame" THEN @ ELSE {}]
  /\ UNCHANGED <<clock, promise, control, done, asked>>

Test(t) == \/ Tested(t, "sample", "audio", "frame")
           \/ Tested(t, "frame", "graphics", "claim")

\* Variant: the context is set without a look at what it was.
ClaimResume_untested(t) ==
  /\ pc[t] = "claim"
  /\ active_delay_context' = "NONE"
  /\ Goto(t, "clear_sample")
  /\ UNCHANGED <<clock, next, delay_amount, satisfied, control, done, required, asked>>

\* The compare-exchange.
ClaimResume(t) ==
  /\ pc[t] = "claim"
  /\ IF active_delay_context = "MULTIPLE"
     THEN active_delay_context' = "NONE" /\ Goto(t, "clear_sample")
     ELSE UNCHANGED active_delay_context /\ Goto(t, "idle")
  /\ UNCHANGED <<clock, next, delay_amount, satisfied, control, done, required, asked>>

Cleared(t, here, c, there) ==
  /\ pc[t] = here
  /\ satisfied' = [satisfied EXCEPT ![c] = FALSE]
  /\ Goto(t, there)
  /\ UNCHANGED <<clock, active_delay_context, next, delay_amount, control, done,
                 required, asked>>

Clear(t) == \/ Cleared(t, "clear_sample", "audio", "clear_frame")
            \/ Cleared(t, "clear_frame", "graphics", "body")

------------------------------------------------------------------------------
(* The body, on the thread that resumed it *)

\* It runs to its next MultiRateDelay and await_suspend moves the positions.
\* Each pump looks at one of them only, so they move together.
Body(t) ==
  /\ pc[t] = "body"
  /\ \E d \in Delays :
       /\ \A c \in Pumps : next[c] + d[c] <= MaxClock
       /\ next' = [c \in Pumps |-> next[c] + d[c]]
       /\ asked' = [asked EXCEPT ![t] = d]
  /\ Goto(t, "amount_sample")
  /\ UNCHANGED <<clock, active_delay_context, delay_amount, satisfied, control, done,
                 required>>

Stored(t, here, c, there) ==
  /\ pc[t] = here
  /\ delay_amount' = [delay_amount EXCEPT ![c] = asked[t][c]]
  /\ Goto(t, there)
  /\ UNCHANGED <<clock, active_delay_context, next, satisfied, control, done,
                 required, asked>>

StoreAmounts(t) == \/ Stored(t, "amount_sample", "audio", "amount_frame")
                   \/ Stored(t, "amount_frame", "graphics", "publish")

Publish(t) ==
  /\ pc[t] = "publish"
  /\ active_delay_context' = "MULTIPLE"
  /\ asked' = [asked EXCEPT ![t] = NoDelay]
  /\ Goto(t, "idle")
  /\ UNCHANGED <<clock, next, delay_amount, satisfied, control, done, required>>

Return(t) ==
  /\ pc[t] = "body"
  /\ done' = TRUE
  /\ Goto(t, "idle")
  /\ UNCHANGED <<clock, promise, control, required, asked>>

Pump(t) == \/ Offer(t) \/ Load(t) \/ Initialize(t)
           \/ Armed(t) \/ Reached(t) \/ Satisfy(t) \/ Require(t) \/ Test(t) \/ ClaimResume(t)
           \/ Clear(t) \/ Body(t) \/ StoreAmounts(t) \/ Publish(t) \/ Return(t)

------------------------------------------------------------------------------
(* Calls from a control thread *)

\* pause_all_tasks, resume_all_tasks.
Pause ==
  /\ auto_resume' = ~auto_resume
  /\ UNCHANGED <<clock, promise, should_terminate, first, done, pc, required, asked>>

\* What draining a cancel_task does to the routine.
Cancel ==
  /\ ~should_terminate
  /\ should_terminate' = TRUE
  /\ UNCHANGED <<clock, promise, auto_resume, first, done, pc, required, asked>>

CrossNext == (\E t \in Pumps : Pump(t)) \/ Pause \/ Cancel

\* Both threads go round for ever, and time does not stand still for the clocks.
AdvancingOffer(t) == Offer(t) /\ (clock[t] = MaxClock \/ clock'[t] > clock[t])

CrossSpec ==
  /\ CrossInit /\ [][CrossNext]_crossvars
  /\ \A t \in Pumps : WF_crossvars(Pump(t)) /\ SF_crossvars(AdvancingOffer(t))

------------------------------------------------------------------------------
Steps == {"idle", "load", "initialize", "armed", "reached", "satisfy", "require",
          "sample", "frame", "claim", "clear_sample", "clear_frame", "body",
          "amount_sample", "amount_frame", "publish"}

TypeOK == /\ clock \in [Pumps -> 0 .. MaxClock]
          /\ active_delay_context \in {"NONE", "AWAIT", "MULTIPLE"}
          /\ next \in [Pumps -> 0 .. MaxClock]
          /\ delay_amount \in [Pumps -> 0 .. MaxDelay]
          /\ satisfied \in [Pumps -> BOOLEAN]
          /\ auto_resume \in BOOLEAN
          /\ should_terminate \in BOOLEAN
          /\ done \in BOOLEAN
          /\ first \in {"AWAIT", "MULTIPLE"}
          /\ pc \in [Pumps -> Steps]
          /\ required \in [Pumps -> SUBSET Pumps]
          /\ asked \in [Pumps -> [Pumps -> 0 .. MaxDelay]]

\* The pump that has the resume: from its claim until the body is suspended.
InBody == {"clear_sample", "clear_frame", "body", "amount_sample", "amount_frame",
           "publish"}

\* The compare-exchange of the gate lets one pump at a time run the body,
\* however the two interleave with it and with each other's suspensions.  This
\* is for bodies that start on MultiRateDelay: the path out of GetCrossPromise
\* claims nothing, and both pumps can take it.
OneRunner ==
  first = "MULTIPLE" =>
    /\ ~(\A t \in Pumps : pc[t] \in InBody)
    /\ (\E t \in Pumps : pc[t] \in InBody) => active_delay_context = "NONE"

Stopped == done \/ ~auto_resume \/ should_terminate

\* A suspended body is always resumed: no order of the flags' sets, tests and
\* clears by the two pumps strands it, as long as it is not paused or cancelled.
EventuallyResumed ==
  active_delay_context # "NONE" ~> active_delay_context = "NONE" \/ Stopped
==============================================================================
