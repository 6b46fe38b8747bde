---------------------------- MODULE SoundRoutine -----------------------------
(***************************************************************************)
(* Vruta: how the scheduler times a SoundRoutine.  Every audio callback    *)
(* runs process_buffer_cycle_tasks once and then, for each of its frames,  *)
(* process_token(SAMPLE_ACCURATE, 1).  Both drain the pending queue and    *)
(* offer the routine the chance to resume, the first with the number of    *)
(* the buffer cycle, the second with the position of the sample clock; the *)
(* routine's promise says what it waits for and until when.                *)
(*                                                                         *)
(* A coroutine body runs from one co_await to the next: SampleDelay,       *)
(* BufferDelay, or, as the first thing it does, GetPromise.  What it does  *)
(* in between is no concern here, so the next await is any of them.        *)
(* Routines do not share promises; one stands for all.  The pending queue  *)
(* is a set of operations: its slots are those of module RootNode.         *)
(***************************************************************************)
EXTENDS Naturals

CONSTANTS BufferSize,  \* frames per callback
          MaxDelay,    \* longest delay a body asks for
          MaxCycles,   \* bound on the callbacks
          MaxCalls     \* bound on pause, resume, restart and cancel calls

ASSUME SoundRoutineAssumption ==
  /\ BufferSize \in Nat \ {0}
  /\ MaxDelay \in Nat \ {0}
  /\ MaxCycles \in Nat
  /\ MaxCalls \in Nat

VARIABLES
  m_current_sample, m_current_buffer_cycle,
  frames,           \* frames left in the current callback
  promise,          \* the audio_promise
  body,             \* the coroutine: "none" before it is created
  was_auto_resume,  \* the state entry pause_all_tasks writes; empty if unset
  added, in_tasks,  \* add_task was called; the entry is in m_tasks
  pending_ops,
  calls,
  wait,             \* history: the delay the body is in
  last,             \* history: the delay it was in before
  fresh             \* history: added before the first callback, and so far
                    \* never paused, restarted or in a SampleDelay

clocks == <<m_current_sample, m_current_buffer_cycle, frames>>
vars == <<clocks, promise, body, was_auto_resume, added, in_tasks, pending_ops,
          calls, wait, last, fresh>>

Contexts == {"NONE", "SAMPLE_BASED", "BUFFER_BASED", "AWAIT"}
Promises == [next_sample : Nat, next_buffer_cycle : Nat, delay_amount : Nat,
             active_delay_context : Contexts, auto_resume : BOOLEAN,
             should_terminate : BOOLEAN]

\* A delay of n units, begun at time from by a body that "create", "init",
\* "restart" or one of the two pumps ran; held: a pause got in its way; slack:
\* the delay_amount the promise had; took: how long it was.
Waits == [kind : {"none", "sample", "buffer"}, n : 0 .. MaxDelay, from : Nat,
          begun : {"create", "init", "restart", "sample", "buffer"},
          held : BOOLEAN, slack : 0 .. MaxDelay, took : Nat]
NoWait == [kind |-> "none", n |-> 0, from |-> 0, begun |-> "create", held |-> FALSE,
           slack |-> 0, took |-> 0]

Init == /\ m_current_sample = 0
        /\ m_current_buffer_cycle = 0
        /\ frames = 0
        /\ promise = [next_sample |-> 0, next_buffer_cycle |-> 0, delay_amount |-> 0,
                      active_delay_context |-> "NONE", auto_resume |-> TRUE,
                      should_terminate |-> FALSE]
        /\ body = "none"
        /\ was_auto_resume = {}
        /\ added = FALSE
        /\ in_tasks = FALSE
        /\ pending_ops = {}
        /\ calls = 0
        /\ wait = NoWait
        /\ last = NoWait
        /\ fresh = FALSE

is_active == body = "suspended"

------------------------------------------------------------------------------
(* The body runs to its next co_await, with promise p, called from by *)

\* The cycle number is advanced before the buffer pump runs a body.
Now(kind, by) ==
  CASE kind = "sample" -> m_current_sample
    [] kind = "buffer" /\ by = "buffer" -> m_current_buffer_cycle + 1
    [] OTHER -> m_current_buffer_cycle

Begin(p, kind, n, by) ==
  /\ wait' = [kind |-> kind, n |-> n, from |-> Now(kind, by), begun |-> by,
              held |-> FALSE, slack |-> p.delay_amount, took |-> 0]
  /\ body' = "suspended"

\* Variant: the delay counts from zero and not from the last due time.
SampleDelay_absolute(p, n, by) ==
  /\ Begin(p, "sample", n, by)
  /\ promise' = [p EXCEPT !.next_sample = n, !.active_delay_context = "SAMPLE_BASED"]

SampleDelay(p, n, by) ==
  /\ Begin(p, "sample", n, by)
  /\ promise' = [p EXCEPT !.next_sample = @ + n, !.active_delay_context = "SAMPLE_BASED"]

BufferDelay(p, n, by) ==
  /\ Begin(p, "buffer", n, by)
  /\ promise' = [p EXCEPT !.next_buffer_cycle = @ + n, !.delay_amount = n,
                          !.active_delay_context = "BUFFER_BASED"]

GetPromise(p, by) ==
  /\ by = "create"
  /\ Begin(p, "none", 0, by)
  /\ promise' = [p EXCEPT !.active_delay_context = "AWAIT"]

Return(p) ==
  /\ body' = "done"
  /\ promise' = p
  /\ wait' = NoWait

\* m_handle.resume(); a pump has seen the delay under way to its end.
Resume(p, by) ==
  /\ \/ \E n \in 1 .. MaxDelay : SampleDelay(p, n, by) \/ BufferDelay(p, n, by)
     \/ GetPromise(p, by)
     \/ Return(p)
  /\ last' = IF by \in {"sample", "buffer"}
             THEN [wait EXCEPT !.took = Now(wait.kind, by) - wait.from] ELSE NoWait

\* SoundRoutine::initialize_state.
Initialized(p, v) == [p EXCEPT !.next_sample = v, !.next_buffer_cycle = v]

------------------------------------------------------------------------------
(* Calls from a control thread *)

\* The coroutine function is called: initial_suspend never suspends.
Create ==
  /\ body = "none"
  /\ Resume(promise, "create")
  /\ UNCHANGED <<clocks, was_auto_resume, added, in_tasks, pending_ops, calls,
                 fresh>>

AddTask(initialize) ==
  /\ body # "none"
  /\ ~added
  /\ added' = TRUE
  /\ pending_ops' = pending_ops \cup {"add"}
  /\ IF initialize /\ is_active
     THEN Resume(Initialized(promise, m_current_sample), "init")
     ELSE UNCHANGED <<promise, body, wait, last>>
  /\ fresh' = (m_current_buffer_cycle = 0 /\ wait'.kind # "sample")
  /\ UNCHANGED <<clocks, was_auto_resume, in_tasks, calls>>

ControlCall == calls < MaxCalls /\ calls' = calls + 1

\* cancel_task(routine): the name is looked up in m_tasks now, and a task that
\* is still in the queue has none.
CancelTask ==
  /\ ControlCall
  /\ added
  /\ pending_ops' = pending_ops \cup {IF in_tasks THEN "cancel" ELSE "cancel_unnamed"}
  /\ UNCHANGED <<clocks, promise, body, was_auto_resume, added, in_tasks, wait, last, fresh>>

PauseAllTasks ==
  /\ ControlCall
  /\ in_tasks /\ is_active
  /\ was_auto_resume' = {promise.auto_resume}
  /\ promise' = [promise EXCEPT !.auto_resume = FALSE]
  /\ wait' = [wait EXCEPT !.held = TRUE]
  /\ fresh' = FALSE
  /\ UNCHANGED <<clocks, body, added, in_tasks, pending_ops, last>>

\* After two pauses the entry says FALSE, and this is another pause.
ResumeAllTasks ==
  /\ ControlCall
  /\ in_tasks /\ is_active
  /\ promise' = [promise EXCEPT !.auto_resume = was_auto_resume # {FALSE}]
  /\ wait' = [wait EXCEPT !.held = @ \/ was_auto_resume = {FALSE}]
  /\ UNCHANGED <<clocks, body, was_auto_resume, added, in_tasks, pending_ops, last,
                 fresh>>

\* restart_task: the body is resumed wherever it is.
RestartTask ==
  /\ ControlCall
  /\ in_tasks /\ is_active
  /\ Resume([promise EXCEPT !.auto_resume = TRUE], "restart")
  /\ fresh' = FALSE
  /\ UNCHANGED <<clocks, was_auto_resume, added, in_tasks, pending_ops>>

------------------------------------------------------------------------------
(* The audio callback *)

\* drain_pending_tasks.  A cancel finds its entry by name; the entry of a
\* "cancel" was in the list when it was queued, so no batch has it with the
\* add.
cancelling == "cancel" \in pending_ops /\ in_tasks

Drained == /\ pending_ops' = {}
           /\ in_tasks' = (~cancelling /\ (in_tasks \/ "add" \in pending_ops))

\* Variant: the kind of delay is looked at, its due time is not.
Due_always(p, v, context) ==
  \/ p.active_delay_context = "AWAIT"
  \/ p.active_delay_context = context

\* Variant: the due time itself does not count as reached.
Due_strict(p, v, context) ==
  \/ p.active_delay_context = "AWAIT"
  \/ /\ p.active_delay_context = context
     /\ v > IF context = "SAMPLE_BASED" THEN p.next_sample ELSE p.next_buffer_cycle

\* The tests of try_resume_with_context on what the promise waits for.
Due(p, v, context) ==
  \/ p.active_delay_context = "AWAIT"
  \/ /\ p.active_delay_context = context
     /\ v >= IF context = "SAMPLE_BASED" THEN p.next_sample ELSE p.next_buffer_cycle

\* Variant: the next delay counts from the due time, late as the resume may be.
Rebased_not(p, v) ==
  IF p.active_delay_context = "AWAIT" THEN Initialized(p, v) ELSE p

\* What it does to the promise before it resumes the body.
Rebased(p, v) ==
  CASE p.active_delay_context = "AWAIT" -> Initialized(p, v)
    [] p.active_delay_context = "SAMPLE_BASED" -> [p EXCEPT !.next_sample = v + p.delay_amount]
    [] OTHER -> p

\* One pump: drain, then for a task in the list requires_clock_sync (which
\* looks at next_sample in both pumps) and try_resume_with_context.
Pump(v, context, by) ==
  /\ Drained
  /\ IF /\ in_tasks' /\ is_active
        /\ v >= promise.next_sample
        /\ ~promise.should_terminate /\ promise.auto_resume
        /\ Due(promise, v, context)
     THEN /\ Resume(Rebased(promise, v), by)
          /\ fresh' = (fresh /\ wait'.kind # "sample")
     ELSE /\ promise' = [promise EXCEPT !.should_terminate = @ \/ (cancelling /\ is_active)]
          /\ UNCHANGED <<body, wait, last, fresh>>
  /\ UNCHANGED <<was_auto_resume, added, calls>>

\* process_buffer_cycle_tasks, at the start of a callback.
BufferCycle ==
  /\ frames = 0
  /\ m_current_buffer_cycle < MaxCycles
  /\ m_current_buffer_cycle' = m_current_buffer_cycle + 1
  /\ frames' = BufferSize
  /\ Pump(m_current_buffer_cycle + 1, "BUFFER_BASED", "buffer")
  /\ UNCHANGED m_current_sample

\* process_token(SAMPLE_ACCURATE, 1): the clock ticks after the tasks.
SampleTick ==
  /\ frames > 0
  /\ Pump(m_current_sample, "SAMPLE_BASED", "sample")
  /\ m_current_sample' = m_current_sample + 1
  /\ frames' = frames - 1
  /\ UNCHANGED m_current_buffer_cycle

Next == \/ Create
        \/ \E initialize \in BOOLEAN : AddTask(initialize)
        \/ CancelTask \/ PauseAllTasks \/ ResumeAllTasks \/ RestartTask
        \/ BufferCycle \/ SampleTick

Spec == Init /\ [][Next]_vars

------------------------------------------------------------------------------
TypeOK ==
  /\ m_current_sample \in 0 .. BufferSize * MaxCycles
  /\ m_current_buffer_cycle \in 0 .. MaxCycles
  /\ frames \in 0 .. BufferSize
  /\ promise \in Promises
  /\ body \in {"none", "suspended", "done"}
  /\ was_auto_resume \in {{}, {TRUE}, {FALSE}}
  /\ added \in BOOLEAN
  /\ in_tasks \in BOOLEAN
  /\ pending_ops \subseteq {"add", "cancel", "cancel_unnamed"}
  /\ calls \in 0 .. MaxCalls
  /\ wait \in Waits
  /\ last \in Waits
  /\ fresh \in BOOLEAN

\* "exactly the specified number of discrete time units" (SampleDelay): in a
\* body that has not used BufferDelay, a SampleDelay{n} that the sample pump
\* began and no pause held up lasts n samples, whichever pump first initialised
\* the body.  After a BufferDelay{k} it lasts n + k: the k is left in the
\* promise and never taken out.
SampleDelayExact ==
  last.kind = "sample" /\ last.begun = "sample" /\ ~last.held /\ last.slack = 0 =>
    last.took = last.n

\* A pause only ever makes a delay longer, and the delays after it start over
\* from the late resume instead of catching up.
PauseNeverShortens ==
  last.kind = "sample" /\ last.begun = "sample" => last.took >= last.n

\* No due time is missed: a task in the list and not paused never sees the
\* clock go past the end of its delay.
NeverOverdue ==
  /\ wait.kind = "sample" /\ wait.begun = "sample" /\ ~wait.held
  /\ is_active /\ in_tasks
  => m_current_sample <= wait.from + wait.n + wait.slack

\* BufferDelay "works identically to SampleDelay but at buffer cycle
\* granularity": for a task that was added before the first callback and uses
\* nothing else, each delay takes exactly n callbacks.
BufferDelayExact == fresh /\ last.kind = "buffer" => last.took = last.n
==============================================================================
