------------------------- MODULE SoundRoutine_proofs --------------------------
(***************************************************************************)
(* The delays of a SoundRoutine are exact, for every buffer size, every    *)
(* length of the delays and any number of callbacks and control calls.     *)
(***************************************************************************)
EXTENDS SoundRoutine, Integers, TLAPS

\* What the proofs need of the types.
WaitRecords == [kind : {"none", "sample", "buffer"}, n : Nat, from : Nat,
                begun : {"create", "init", "restart", "sample", "buffer"},
                held : BOOLEAN, slack : Nat, took : Int]

Typed ==
  /\ m_current_sample \in Nat /\ m_current_buffer_cycle \in Nat /\ frames \in Nat
  /\ promise \in Promises
  /\ body \in {"none", "suspended", "done"}
  /\ wait \in WaitRecords
  /\ last \in WaitRecords

\* A routine is added once: while it is in the list, after a pump has run it
\* and after a cancel was drained, the queue holds no addition of it.
AddedOnce ==
  /\ in_tasks => added /\ "add" \notin pending_ops
  /\ "add" \in pending_ops => added
  /\ wait.begun \in {"sample", "buffer"} => added /\ "add" \notin pending_ops
  /\ promise.should_terminate => added /\ "add" \notin pending_ops /\ ~in_tasks

\* GetPromise comes first, so no BufferDelay has left its amount yet.
AwaitIsFirst ==
  body = "none" \/ promise.active_delay_context = "AWAIT" => promise.delay_amount = 0

\* A SampleDelay the sample pump began: next_sample is its end, and the clock
\* does not pass it while the task is in the list and not paused.
SampleWait ==
  wait.kind = "sample" /\ wait.begun = "sample" =>
    /\ body = "suspended"
    /\ promise.active_delay_context = "SAMPLE_BASED"
    /\ promise.next_sample = wait.from + wait.n + wait.slack
    /\ ~wait.held => promise.auto_resume
    /\ ~wait.held /\ in_tasks => m_current_sample <= promise.next_sample

\* How long such a delay was, with what a BufferDelay left in the promise.
DelayAsComputed ==
  last.kind = "sample" /\ last.begun = "sample" /\ ~last.held =>
    last.took = last.n + last.slack

SampleInv == /\ Typed /\ AddedOnce /\ AwaitIsFirst /\ SampleWait
             /\ DelayAsComputed /\ PauseNeverShortens

\* Nothing is drained before the first callback.
BeforeFirst ==
  m_current_buffer_cycle = 0 =>
    /\ frames = 0 /\ m_current_sample = 0 /\ ~in_tasks
    /\ added => "add" \in pending_ops

\* A routine that the first callback will find, or that is still fresh.
Early == fresh \/ (~added /\ m_current_buffer_cycle = 0)

\* Its BufferDelays end at next_buffer_cycle, and no callback passes that by;
\* the look at next_sample, which both pumps take, never holds them up.
BufferWait ==
  Early =>
    /\ fresh => added /\ wait.kind # "sample"
    /\ was_auto_resume = {} /\ promise.auto_resume
    /\ wait.kind # "sample" => promise.next_sample <= 1
    /\ wait.kind = "none" /\ body = "suspended" =>
         /\ promise.active_delay_context = "AWAIT"
         /\ m_current_buffer_cycle = 0
    /\ wait.kind = "buffer" =>
         /\ body = "suspended"
         /\ promise.active_delay_context = "BUFFER_BASED"
         /\ promise.next_buffer_cycle = wait.from + wait.n
         /\ ~added \/ in_tasks \/ "add" \in pending_ops =>
              m_current_buffer_cycle < promise.next_buffer_cycle

\* Before the coroutine exists nothing has touched its promise, and before it
\* is added no pump has ended a delay of it.
NotCreated == body = "none" =>
  ~added /\ promise.next_sample = 0 /\ promise.next_buffer_cycle = 0
NotAdded == ~added => last.kind = "none"

BufferInv == /\ SampleInv /\ BeforeFirst /\ NotCreated /\ NotAdded
             /\ BufferWait /\ BufferDelayExact
------------------------------------------------------------------------------
(* The body runs to its next co_await *)

Callers == {"create", "init", "restart", "sample", "buffer"}

LEMMA NowIsNatural ==
  ASSUME Typed, NEW kind, NEW by PROVE Now(kind, by) \in Nat
BY DEF Now, Typed

\* The three ways to suspend and the return, field by field.
Suspends(p, by) ==
  /\ body' = "suspended"
  /\ wait'.begun = by /\ ~wait'.held
  /\ wait'.from = Now(wait'.kind, by)
  /\ wait'.slack = p.delay_amount
InSampleDelay(p, by) ==
  /\ Suspends(p, by)
  /\ wait'.kind = "sample" /\ wait'.n > 0
  /\ promise'.active_delay_context = "SAMPLE_BASED"
  /\ promise'.next_sample = p.next_sample + wait'.n
  /\ promise'.delay_amount = p.delay_amount
InBufferDelay(p, by) ==
  /\ Suspends(p, by)
  /\ wait'.kind = "buffer" /\ wait'.n > 0
  /\ promise'.active_delay_context = "BUFFER_BASED"
  /\ promise'.next_sample = p.next_sample
  /\ promise'.next_buffer_cycle = p.next_buffer_cycle + wait'.n
InGetPromise(p, by) ==
  /\ Suspends(p, by)
  /\ wait'.kind = "none" /\ by = "create"
  /\ promise'.active_delay_context = "AWAIT"
  /\ promise'.next_sample = p.next_sample
  /\ promise'.delay_amount = p.delay_amount
HasReturned(p) == body' = "done" /\ promise' = p /\ wait' = NoWait

LEMMA ResumeCases ==
  ASSUME Typed, NEW p \in Promises, NEW by \in Callers, Resume(p, by)
  PROVE  /\ promise' \in Promises /\ wait' \in WaitRecords /\ last' \in WaitRecords
         /\ promise'.auto_resume = p.auto_resume
         /\ promise'.should_terminate = p.should_terminate
         /\ \/ InSampleDelay(p, by) \/ InBufferDelay(p, by)
            \/ InGetPromise(p, by) \/ HasReturned(p)
<1> USE SoundRoutineAssumption, NowIsNatural
<1>1. last' \in WaitRecords
  <2>1. wait \in WaitRecords /\ Now(wait.kind, by) - wait.from \in Int
    BY DEF Typed, WaitRecords
  <2>2. NoWait \in WaitRecords
    BY DEF NoWait, WaitRecords
  <2> QED BY <2>1, <2>2 DEF Resume, WaitRecords
<1> DEFINE Kept == /\ promise' \in Promises /\ wait' \in WaitRecords
                   /\ promise'.auto_resume = p.auto_resume
                   /\ promise'.should_terminate = p.should_terminate
<1>2. ASSUME NEW n \in 1 .. MaxDelay, SampleDelay(p, n, by)
      PROVE  Kept /\ InSampleDelay(p, by)
  <2>1. /\ n \in Nat /\ n > 0 /\ p.delay_amount \in Nat
        /\ p.next_sample + n \in Nat
    BY DEF Promises
  <2>2. wait' \in WaitRecords
    BY <1>2, <2>1 DEF SampleDelay, Begin, WaitRecords, Callers
  <2>3. promise' \in Promises
    BY <1>2, <2>1 DEF SampleDelay, Promises, Contexts
  <2> QED
    BY <1>2, <2>1, <2>2, <2>3 DEF SampleDelay, Begin, Promises, InSampleDelay, Suspends
<1>3. ASSUME NEW n \in 1 .. MaxDelay, BufferDelay(p, n, by)
      PROVE  Kept /\ InBufferDelay(p, by)
  <2>1. /\ n \in Nat /\ n > 0 /\ p.delay_amount \in Nat
        /\ p.next_buffer_cycle + n \in Nat
    BY DEF Promises
  <2>2. wait' \in WaitRecords
    BY <1>3, <2>1 DEF BufferDelay, Begin, WaitRecords, Callers
  <2>3. promise' \in Promises
    BY <1>3, <2>1 DEF BufferDelay, Promises, Contexts
  <2> QED
    BY <1>3, <2>1, <2>2, <2>3 DEF BufferDelay, Begin, Promises, InBufferDelay, Suspends
<1>4. ASSUME GetPromise(p, by) PROVE Kept /\ InGetPromise(p, by)
  BY <1>4 DEF GetPromise, Begin, Promises, Contexts, WaitRecords, Callers,
              InGetPromise, Suspends
<1>5. ASSUME Return(p) PROVE Kept /\ HasReturned(p)
  BY <1>5 DEF Return, NoWait, WaitRecords, HasReturned
<1> QED BY <1>1, <1>2, <1>3, <1>4, <1>5 DEF Resume

\* Nothing is left to wait for once a body has returned.
LEMMA NoWaitFields ==
  /\ NoWait \in WaitRecords
  /\ NoWait.kind = "none" /\ NoWait.begun = "create" /\ ~NoWait.held
BY DEF NoWait, WaitRecords

------------------------------------------------------------------------------
(* Sample delays *)

LEMMA InitSample == Init => SampleInv
BY DEF Init, SampleInv, Typed, AddedOnce, AwaitIsFirst, SampleWait, DelayAsComputed,
       PauseNeverShortens, Promises, Contexts, NoWait, WaitRecords

\* A body that runs outside the pumps leaves no delay to measure.
LEMMA OutsidePumps ==
  ASSUME SampleInv, NEW p \in Promises, NEW by \in {"create", "init", "restart"},
         Resume(p, by), by = "create" => body = "none",
         p.active_delay_context = promise.active_delay_context,
         p.delay_amount = promise.delay_amount
  PROVE  /\ promise' \in Promises /\ wait' \in WaitRecords /\ last' \in WaitRecords
         /\ body' \in {"suspended", "done"}
         /\ promise'.should_terminate = p.should_terminate
         /\ wait'.begun \in {"create", "init", "restart"}
         /\ AwaitIsFirst' /\ SampleWait' /\ DelayAsComputed' /\ PauseNeverShortens'
<1>1. last' = NoWait
  BY DEF Resume
<1>2. DelayAsComputed' /\ PauseNeverShortens'
  BY <1>1, NoWaitFields DEF DelayAsComputed, PauseNeverShortens
<1>3. /\ promise' \in Promises /\ wait' \in WaitRecords /\ last' \in WaitRecords
      /\ promise'.should_terminate = p.should_terminate
      /\ \/ InSampleDelay(p, by) \/ InBufferDelay(p, by)
         \/ InGetPromise(p, by) \/ HasReturned(p)
  BY ResumeCases DEF Callers, SampleInv
<1>4. wait'.begun \in {"create", "init", "restart"} /\ body' \in {"suspended", "done"}
  BY <1>3, NoWaitFields
  DEF InSampleDelay, InBufferDelay, InGetPromise, HasReturned, Suspends
<1>5. AwaitIsFirst'
  BY <1>3 DEF InSampleDelay, InBufferDelay, InGetPromise, HasReturned, Suspends,
              SampleInv, AwaitIsFirst
<1>6. SampleWait'
  BY <1>4 DEF SampleWait
<1> QED BY <1>2, <1>3, <1>4, <1>5, <1>6

\* What drain_pending_tasks does to the list.
LEMMA DrainedList ==
  ASSUME SampleInv, Drained
  PROVE  /\ pending_ops' = {}
         /\ in_tasks' => added /\ ~promise.should_terminate
         /\ in_tasks' /\ wait.begun \in {"sample", "buffer"} => in_tasks
BY DEF Drained, cancelling, SampleInv, AddedOnce

\* A pump that finds nothing to run, or a task that is not due, changes the
\* promise's should_terminate at most.
LEMMA PumpPasses ==
  ASSUME SampleInv, Drained, UNCHANGED <<body, wait, last, added>>,
         promise' = [promise EXCEPT !.should_terminate = @ \/ (cancelling /\ is_active)]
  PROVE  /\ promise' \in Promises
         /\ AddedOnce' /\ AwaitIsFirst' /\ DelayAsComputed' /\ PauseNeverShortens'
         /\ promise'.next_sample = promise.next_sample
         /\ promise'.next_buffer_cycle = promise.next_buffer_cycle
         /\ promise'.auto_resume = promise.auto_resume
         /\ promise'.active_delay_context = promise.active_delay_context
         /\ promise'.delay_amount = promise.delay_amount
<1>1. /\ promise' \in Promises
      /\ promise'.next_sample = promise.next_sample
      /\ promise'.next_buffer_cycle = promise.next_buffer_cycle
      /\ promise'.auto_resume = promise.auto_resume
      /\ promise'.active_delay_context = promise.active_delay_context
      /\ promise'.delay_amount = promise.delay_amount
      /\ promise'.should_terminate = (promise.should_terminate \/ (cancelling /\ is_active))
  BY DEF SampleInv, Typed, Promises
<1>2. AddedOnce'
  BY <1>1, DrainedList DEF Drained, cancelling, SampleInv, AddedOnce
<1>3. AwaitIsFirst' /\ DelayAsComputed' /\ PauseNeverShortens'
  BY <1>1 DEF SampleInv, AwaitIsFirst, DelayAsComputed, PauseNeverShortens
<1> QED BY <1>1, <1>2, <1>3

\* A body a pump runs: the delay it was in goes to last with its length, and
\* a rebased promise counts from now.
LEMMA PumpRuns ==
  ASSUME SampleInv, NEW v \in Nat, NEW by \in {"sample", "buffer"},
         Drained, in_tasks', promise.auto_resume, Resume(Rebased(promise, v), by),
         UNCHANGED added
  PROVE  /\ promise' \in Promises /\ wait' \in WaitRecords /\ last' \in WaitRecords
         /\ body' \in {"suspended", "done"}
         /\ AddedOnce' /\ AwaitIsFirst'
         /\ promise'.auto_resume
         /\ last'.kind = wait.kind /\ last'.begun = wait.begun /\ last'.n = wait.n
         /\ last'.held = wait.held /\ last'.slack = wait.slack
         /\ last'.took = Now(wait.kind, by) - wait.from
         /\ \/ InSampleDelay(Rebased(promise, v), by)
            \/ InBufferDelay(Rebased(promise, v), by)
            \/ HasReturned(Rebased(promise, v))
<1> DEFINE p == Rebased(promise, v)
<1>1. /\ p \in Promises
      /\ p.auto_resume /\ p.should_terminate = promise.should_terminate
      /\ p.delay_amount = promise.delay_amount
      /\ p.active_delay_context = promise.active_delay_context
  <2>1. promise \in Promises /\ v + promise.delay_amount \in Nat
    BY DEF SampleInv, Typed, Promises
  <2> QED BY <2>1 DEF Rebased, Initialized, Promises
<1> HIDE DEF p
<1>2. Resume(p, by) /\ Typed /\ by \in Callers
  BY DEF p, SampleInv, Callers
<1>3. /\ promise' \in Promises /\ wait' \in WaitRecords /\ last' \in WaitRecords
      /\ promise'.auto_resume = p.auto_resume
      /\ promise'.should_terminate = p.should_terminate
      /\ \/ InSampleDelay(p, by) \/ InBufferDelay(p, by)
         \/ InGetPromise(p, by) \/ HasReturned(p)
  BY <1>1, <1>2, ResumeCases
<1>4. InSampleDelay(p, by) \/ InBufferDelay(p, by) \/ HasReturned(p)
  BY <1>3 DEF InGetPromise
<1>5. AwaitIsFirst' /\ body' \in {"suspended", "done"}
  BY <1>1, <1>4 DEF InSampleDelay, InBufferDelay, HasReturned, Suspends, SampleInv,
                    AwaitIsFirst
<1>6. AddedOnce'
  BY <1>1, <1>3, DrainedList DEF AddedOnce
<1>7. /\ last'.kind = wait.kind /\ last'.begun = wait.begun /\ last'.n = wait.n
      /\ last'.held = wait.held /\ last'.slack = wait.slack
      /\ last'.took = Now(wait.kind, by) - wait.from
  <2>1. /\ last' = [wait EXCEPT !.took = Now(wait.kind, by) - wait.from]
        /\ wait \in WaitRecords
    BY <1>2 DEF Resume, Typed
  <2> QED BY <2>1 DEF WaitRecords
<1> QED BY <1>1, <1>3, <1>4, <1>5, <1>6, <1>7 DEF p

\* The sample pump: a due delay ends now, and an unheld one not before it is
\* due and not after.
LEMMA SampleTickKeeps == SampleInv /\ SampleTick => SampleInv'
<1> SUFFICES ASSUME SampleInv, SampleTick PROVE SampleInv'
  OBVIOUS
<1>a. /\ Drained /\ UNCHANGED <<added, m_current_buffer_cycle>>
      /\ m_current_sample \in Nat /\ m_current_sample' = m_current_sample + 1
      /\ m_current_buffer_cycle \in Nat /\ frames' \in Nat
  BY DEF SampleTick, Pump, SampleInv, Typed
<1>p. promise \in Promises /\ wait \in WaitRecords
  BY DEF SampleInv, Typed
<1>1. CASE /\ in_tasks' /\ is_active
           /\ m_current_sample >= promise.next_sample
           /\ ~promise.should_terminate /\ promise.auto_resume
           /\ Due(promise, m_current_sample, "SAMPLE_BASED")
  <2> DEFINE p == Rebased(promise, m_current_sample)
  <2>1. Resume(p, "sample")
    BY <1>1 DEF SampleTick, Pump
  <2>2. /\ promise' \in Promises /\ wait' \in WaitRecords /\ last' \in WaitRecords
        /\ body' \in {"suspended", "done"} /\ AddedOnce' /\ AwaitIsFirst'
        /\ promise'.auto_resume
        /\ last'.kind = wait.kind /\ last'.begun = wait.begun /\ last'.n = wait.n
        /\ last'.held = wait.held /\ last'.slack = wait.slack
        /\ last'.took = Now(wait.kind, "sample") - wait.from
        /\ InSampleDelay(p, "sample") \/ InBufferDelay(p, "sample") \/ HasReturned(p)
    BY <1>1, <1>a, <2>1, PumpRuns
  <2>3. p.next_sample = m_current_sample + p.delay_amount /\ p.delay_amount \in Nat
    BY <1>1, <1>a, <1>p DEF Rebased, Initialized, Due, Promises, SampleInv, AwaitIsFirst
  <2> HIDE DEF p
  <2>4. SampleWait'
    <3>1. CASE InSampleDelay(p, "sample")
      <4>1. wait'.from = m_current_sample
        BY <3>1 DEF InSampleDelay, Suspends, Now
      <4>2. wait'.n \in Nat /\ wait'.slack \in Nat
        BY <2>2 DEF WaitRecords
      <4> QED BY <3>1, <4>1, <4>2, <2>2, <2>3, <1>a DEF InSampleDelay, Suspends, SampleWait
    <3>2. CASE InBufferDelay(p, "sample") \/ HasReturned(p)
      BY <3>2, NoWaitFields DEF InBufferDelay, HasReturned, SampleWait
    <3> QED BY <2>2, <3>1, <3>2
  <2>5. DelayAsComputed' /\ PauseNeverShortens'
    <3> SUFFICES ASSUME wait.kind = "sample", wait.begun = "sample"
                 PROVE  /\ last'.took >= last'.n
                        /\ ~wait.held => last'.took = last'.n + last'.slack
      BY <2>2 DEF DelayAsComputed, PauseNeverShortens
    <3>1. last'.took = m_current_sample - wait.from
      BY <2>2 DEF Now
    <3>2. promise.next_sample = wait.from + wait.n + wait.slack
      BY DEF SampleInv, SampleWait
    <3>3. wait.from \in Nat /\ wait.n \in Nat /\ wait.slack \in Nat
      BY <1>p DEF WaitRecords
    <3>4. ~wait.held => m_current_sample <= promise.next_sample
      BY <1>1, <1>a, DrainedList DEF SampleInv, SampleWait
    <3> QED BY <1>1, <1>a, <2>2, <3>1, <3>2, <3>3, <3>4
  <2> QED BY <1>a, <2>2, <2>4, <2>5 DEF SampleInv, Typed
<1>2. CASE ~ /\ in_tasks' /\ is_active
             /\ m_current_sample >= promise.next_sample
             /\ ~promise.should_terminate /\ promise.auto_resume
             /\ Due(promise, m_current_sample, "SAMPLE_BASED")
  <2>1. /\ UNCHANGED <<body, wait, last>>
        /\ promise' = [promise EXCEPT !.should_terminate = @ \/ (cancelling /\ is_active)]
    BY <1>2 DEF SampleTick, Pump
  <2>2. /\ promise' \in Promises
        /\ AddedOnce' /\ AwaitIsFirst' /\ DelayAsComputed' /\ PauseNeverShortens'
        /\ promise'.next_sample = promise.next_sample
        /\ promise'.auto_resume = promise.auto_resume
        /\ promise'.active_delay_context = promise.active_delay_context
    BY <1>a, <2>1, PumpPasses
  <2>3. SampleWait'
    <3> SUFFICES ASSUME wait.kind = "sample", wait.begun = "sample", ~wait.held, in_tasks'
                 PROVE  m_current_sample + 1 <= promise.next_sample
      BY <1>a, <2>1, <2>2 DEF SampleInv, SampleWait
    <3>1. in_tasks /\ ~promise.should_terminate
      BY <1>a, DrainedList
    <3>2. /\ is_active /\ promise.auto_resume
          /\ promise.active_delay_context = "SAMPLE_BASED"
      BY DEF SampleInv, SampleWait, is_active
    <3>3. ~(m_current_sample >= promise.next_sample)
      BY <1>2, <3>1, <3>2 DEF Due
    <3>4. promise.next_sample \in Nat
      BY <1>p DEF Promises
    <3> QED BY <1>a, <3>3, <3>4
  <2> QED BY <1>a, <2>1, <2>2, <2>3 DEF SampleInv, Typed
<1> QED BY <1>1, <1>2

\* The buffer pump neither begins nor ends such a delay.
LEMMA BufferCycleKeeps == SampleInv /\ BufferCycle => SampleInv'
<1> SUFFICES ASSUME SampleInv, BufferCycle PROVE SampleInv'
  OBVIOUS
<1> DEFINE v == m_current_buffer_cycle + 1
<1>a. /\ Drained /\ UNCHANGED <<added, m_current_sample>>
      /\ m_current_sample \in Nat /\ frames' \in Nat
      /\ m_current_buffer_cycle' \in Nat /\ v \in Nat
  BY SoundRoutineAssumption DEF BufferCycle, Pump, SampleInv, Typed
<1>1. CASE /\ in_tasks' /\ is_active /\ v >= promise.next_sample
           /\ ~promise.should_terminate /\ promise.auto_resume
           /\ Due(promise, v, "BUFFER_BASED")
  <2> DEFINE p == Rebased(promise, v)
  <2>1. Resume(p, "buffer")
    BY <1>1 DEF BufferCycle, Pump
  <2>2. /\ promise' \in Promises /\ wait' \in WaitRecords /\ last' \in WaitRecords
        /\ body' \in {"suspended", "done"} /\ AddedOnce' /\ AwaitIsFirst'
        /\ last'.kind = wait.kind /\ last'.begun = wait.begun
        /\ InSampleDelay(p, "buffer") \/ InBufferDelay(p, "buffer") \/ HasReturned(p)
    BY <1>1, <1>a, <2>1, PumpRuns
  <2> HIDE DEF p
  <2>3. SampleWait'
    BY <2>2, NoWaitFields
    DEF InSampleDelay, InBufferDelay, HasReturned, Suspends, SampleWait
  <2>4. ~(wait.kind = "sample" /\ wait.begun = "sample")
    BY <1>1 DEF Due, SampleInv, SampleWait
  <2>5. DelayAsComputed' /\ PauseNeverShortens'
    BY <2>2, <2>4 DEF DelayAsComputed, PauseNeverShortens
  <2> QED BY <1>a, <2>2, <2>3, <2>5 DEF SampleInv, Typed
<1>2. CASE ~ /\ in_tasks' /\ is_active /\ v >= promise.next_sample
             /\ ~promise.should_terminate /\ promise.auto_resume
             /\ Due(promise, v, "BUFFER_BASED")
  <2>1. /\ UNCHANGED <<body, wait, last>>
        /\ promise' = [promise EXCEPT !.should_terminate = @ \/ (cancelling /\ is_active)]
    BY <1>2 DEF BufferCycle, Pump
  <2>2. /\ promise' \in Promises
        /\ AddedOnce' /\ AwaitIsFirst' /\ DelayAsComputed' /\ PauseNeverShortens'
        /\ promise'.next_sample = promise.next_sample
        /\ promise'.auto_resume = promise.auto_resume
        /\ promise'.active_delay_context = promise.active_delay_context
    BY <1>a, <2>1, PumpPasses
  <2>3. SampleWait'
    BY <1>a, <2>1, <2>2, DrainedList DEF SampleInv, SampleWait
  <2> QED BY <1>a, <2>1, <2>2, <2>3 DEF SampleInv, Typed
<1> QED BY <1>1, <1>2

\* Every step of the audio thread and of the control threads keeps SampleInv.
LEMMA NextSample == SampleInv /\ [Next]_vars => SampleInv'
<1> SUFFICES ASSUME SampleInv, [Next]_vars PROVE SampleInv'
  OBVIOUS
<1>p. Typed /\ promise \in Promises /\ wait \in WaitRecords
  BY DEF SampleInv, Typed
<1>1. CASE Create
  <2>1. /\ body = "none" /\ Resume(promise, "create")
        /\ UNCHANGED <<clocks, added, in_tasks, pending_ops>>
    BY <1>1 DEF Create
  <2>2. /\ promise' \in Promises /\ wait' \in WaitRecords /\ last' \in WaitRecords
        /\ body' \in {"suspended", "done"}
        /\ promise'.should_terminate = promise.should_terminate
        /\ wait'.begun \in {"create", "init", "restart"}
        /\ AwaitIsFirst' /\ SampleWait' /\ DelayAsComputed' /\ PauseNeverShortens'
    BY <1>p, <2>1, OutsidePumps
  <2> QED BY <2>1, <2>2 DEF SampleInv, Typed, AddedOnce, clocks
<1>2. ASSUME NEW initialize \in BOOLEAN, AddTask(initialize) PROVE SampleInv'
  <2>1. /\ ~added /\ added' = TRUE
        /\ pending_ops' = pending_ops \cup {"add"}
        /\ UNCHANGED <<clocks, in_tasks>>
    BY <1>2 DEF AddTask
  <2>2. CASE Resume(Initialized(promise, m_current_sample), "init")
    <3> DEFINE p == Initialized(promise, m_current_sample)
    <3>1. /\ p \in Promises /\ p.should_terminate = promise.should_terminate
          /\ p.active_delay_context = promise.active_delay_context
          /\ p.delay_amount = promise.delay_amount
      BY <1>p DEF Initialized, Promises, Typed
    <3> HIDE DEF p
    <3>2. /\ promise' \in Promises /\ wait' \in WaitRecords /\ last' \in WaitRecords
          /\ body' \in {"suspended", "done"}
          /\ promise'.should_terminate = promise.should_terminate
          /\ wait'.begun \in {"create", "init", "restart"}
          /\ AwaitIsFirst' /\ SampleWait' /\ DelayAsComputed' /\ PauseNeverShortens'
      BY <2>2, <3>1, OutsidePumps DEF p
    <3> QED BY <2>1, <3>2 DEF SampleInv, Typed, AddedOnce, clocks
  <2>3. CASE UNCHANGED <<promise, body, wait, last>>
    BY <2>1, <2>3 DEF SampleInv, Typed, AddedOnce, AwaitIsFirst, SampleWait,
                      DelayAsComputed, PauseNeverShortens, clocks
  <2> QED BY <1>2, <2>2, <2>3 DEF AddTask
<1>3. CASE CancelTask
  BY <1>3 DEF CancelTask, SampleInv, Typed, AddedOnce, AwaitIsFirst, SampleWait,
              DelayAsComputed, PauseNeverShortens, clocks
<1>4. CASE PauseAllTasks \/ ResumeAllTasks
  <2>1. /\ UNCHANGED <<clocks, body, added, in_tasks, pending_ops, last>>
        /\ \E held \in BOOLEAN : wait' = [wait EXCEPT !.held = held]
        /\ \E on \in BOOLEAN : promise' = [promise EXCEPT !.auto_resume = on]
    BY <1>4, <1>p DEF PauseAllTasks, ResumeAllTasks, WaitRecords
  <2>2. ~wait'.held => ~wait.held /\ promise'.auto_resume
    BY <1>4, <1>p DEF PauseAllTasks, ResumeAllTasks, WaitRecords, Promises
  <2>3. /\ promise' \in Promises /\ wait' \in WaitRecords
        /\ promise'.should_terminate = promise.should_terminate
        /\ promise'.delay_amount = promise.delay_amount
        /\ promise'.active_delay_context = promise.active_delay_context
        /\ promise'.next_sample = promise.next_sample
    BY <1>p, <2>1 DEF Promises, WaitRecords
  <2>4. /\ wait'.kind = wait.kind /\ wait'.begun = wait.begun /\ wait'.n = wait.n
        /\ wait'.from = wait.from /\ wait'.slack = wait.slack
    BY <1>p, <2>1 DEF WaitRecords
  <2>5. SampleWait'
    BY <2>1, <2>2, <2>3, <2>4 DEF SampleInv, SampleWait, clocks
  <2> QED
    BY <2>1, <2>3, <2>4, <2>5 DEF SampleInv, Typed, AddedOnce, AwaitIsFirst,
       DelayAsComputed, PauseNeverShortens, clocks
<1>5. CASE RestartTask
  <2> DEFINE p == [promise EXCEPT !.auto_resume = TRUE]
  <2>1. /\ p \in Promises /\ p.should_terminate = promise.should_terminate
        /\ p.active_delay_context = promise.active_delay_context
        /\ p.delay_amount = promise.delay_amount
    BY <1>p DEF Promises
  <2>2. /\ Resume(p, "restart")
        /\ UNCHANGED <<clocks, added, in_tasks, pending_ops>>
    BY <1>5 DEF RestartTask
  <2> HIDE DEF p
  <2>3. /\ promise' \in Promises /\ wait' \in WaitRecords /\ last' \in WaitRecords
        /\ body' \in {"suspended", "done"}
        /\ promise'.should_terminate = promise.should_terminate
        /\ wait'.begun \in {"create", "init", "restart"}
        /\ AwaitIsFirst' /\ SampleWait' /\ DelayAsComputed' /\ PauseNeverShortens'
    BY <2>1, <2>2, OutsidePumps
  <2> QED BY <2>2, <2>3 DEF SampleInv, Typed, AddedOnce, clocks
<1>6. CASE BufferCycle
  BY <1>6, BufferCycleKeeps
<1>7. CASE SampleTick
  BY <1>7, SampleTickKeeps
<1>8. CASE UNCHANGED vars
  BY <1>8 DEF vars, clocks, SampleInv, Typed, AddedOnce, AwaitIsFirst, SampleWait,
              DelayAsComputed, PauseNeverShortens
<1> QED BY <1>1, <1>2, <1>3, <1>4, <1>5, <1>6, <1>7, <1>8 DEF Next

LEMMA SampleInvHolds == Spec => []SampleInv
BY InitSample, NextSample, PTL DEF Spec

\* For every buffer size and every length of the delays, whatever is paused,
\* restarted and cancelled: in a body that has not used BufferDelay, a
\* SampleDelay that the sample pump began and no pause held up lasts exactly
\* its samples (try_resume_with_context, SampleDelay::await_suspend).
THEOREM SampleDelaysExact == Spec => []SampleDelayExact
<1>1. SampleInv => SampleDelayExact
  BY DEF SampleInv, DelayAsComputed, SampleDelayExact, Typed, WaitRecords
<1> QED BY <1>1, SampleInvHolds, PTL

\* A pause, a second pause or a resume that pauses again never make such a
\* delay shorter.
THEOREM PausesNeverShorten == Spec => []PauseNeverShortens
<1>1. SampleInv => PauseNeverShortens
  BY DEF SampleInv
<1> QED BY <1>1, SampleInvHolds, PTL

\* The sample clock never gets past the end of such a delay while its task is
\* in the list and not paused: no callback overlooks a due task.
THEOREM NoneOverdue == Spec => []NeverOverdue
<1>1. SampleInv => NeverOverdue
  BY DEF SampleInv, SampleWait, NeverOverdue
<1> QED BY <1>1, SampleInvHolds, PTL

------------------------------------------------------------------------------
(* Buffer delays *)

LEMMA InitBuffer == Init => BufferInv
<1> SUFFICES ASSUME Init PROVE BufferInv
  OBVIOUS
<1>1. BeforeFirst /\ NotCreated /\ NotAdded /\ BufferWait
  BY DEF Init, BeforeFirst, NotCreated, NotAdded, BufferWait, Early, NoWait
<1>2. BufferDelayExact
  BY DEF Init, BufferDelayExact
<1> QED BY <1>1, <1>2, InitSample DEF BufferInv

LEMMA BeforeFirstKept == SampleInv /\ BeforeFirst /\ [Next]_vars => BeforeFirst'
<1> SUFFICES ASSUME SampleInv, BeforeFirst, [Next]_vars PROVE BeforeFirst'
  OBVIOUS
<1>1. m_current_buffer_cycle \in Nat /\ frames \in Nat
  BY DEF SampleInv, Typed
<1>2. CASE BufferCycle
  BY <1>1, <1>2 DEF BufferCycle, BeforeFirst
<1>3. CASE SampleTick
  BY <1>1, <1>3 DEF SampleTick, BeforeFirst
<1>4. CASE \/ Create \/ CancelTask \/ PauseAllTasks \/ ResumeAllTasks \/ RestartTask
           \/ UNCHANGED vars
  BY <1>4 DEF Create, CancelTask, PauseAllTasks, ResumeAllTasks, RestartTask, vars, clocks,
              BeforeFirst
<1>5. CASE \E initialize \in BOOLEAN : AddTask(initialize)
  BY <1>5 DEF AddTask, clocks, BeforeFirst
<1> QED BY <1>2, <1>3, <1>4, <1>5 DEF Next

LEMMA NotCreatedKept == SampleInv /\ NotCreated /\ [Next]_vars => NotCreated'
<1> SUFFICES ASSUME SampleInv, NotCreated, [Next]_vars, body' = "none" PROVE NotCreated'
  BY DEF NotCreated
<1>1. ASSUME NEW p, NEW by, Resume(p, by) PROVE FALSE
  BY <1>1 DEF Resume, SampleDelay, BufferDelay, GetPromise, Return, Begin
<1>2. UNCHANGED <<body, added>>
  BY <1>1 DEF Next, vars, Create, AddTask, CancelTask, PauseAllTasks, ResumeAllTasks,
              RestartTask, BufferCycle, SampleTick, Pump
<1>3. /\ promise'.next_sample = promise.next_sample
      /\ promise'.next_buffer_cycle = promise.next_buffer_cycle
  BY <1>1 DEF Next, vars, Create, AddTask, CancelTask, PauseAllTasks, ResumeAllTasks,
              RestartTask, BufferCycle, SampleTick, Pump, SampleInv, Typed, Promises
<1> QED BY <1>2, <1>3 DEF NotCreated

LEMMA NotAddedKept == SampleInv /\ NotAdded /\ [Next]_vars => NotAdded'
<1> SUFFICES ASSUME SampleInv, NotAdded, [Next]_vars, ~added' PROVE last'.kind = "none"
  BY DEF NotAdded
<1>1. ~added /\ (Drained => ~in_tasks')
  BY DEF Next, vars, Create, AddTask, CancelTask, PauseAllTasks, ResumeAllTasks, RestartTask,
         BufferCycle, SampleTick, Pump, Drained, SampleInv, AddedOnce
<1>2. ASSUME NEW p, Resume(p, "create") \/ Resume(p, "restart") PROVE last' = NoWait
  BY <1>2 DEF Resume
<1>3. last' = NoWait \/ UNCHANGED last
  BY <1>1, <1>2 DEF Next, vars, Create, AddTask, CancelTask, PauseAllTasks, ResumeAllTasks,
     RestartTask, BufferCycle, SampleTick, Pump
<1> QED BY <1>1, <1>3, NoWaitFields DEF NotAdded

\* The buffer pump with a fresh routine: it ends a BufferDelay exactly at its
\* due callback, and the first callback ends the wait in GetPromise.
LEMMA FreshBufferCycle ==
  ASSUME BufferInv, BufferCycle, fresh PROVE BufferWait' /\ BufferDelayExact'
<1> DEFINE v == m_current_buffer_cycle + 1
<1> USE DEF BufferInv
<1>a. /\ Drained /\ UNCHANGED <<added, was_auto_resume>>
      /\ m_current_buffer_cycle' = v /\ v \in Nat /\ v >= 1
      /\ m_current_buffer_cycle \in Nat
  BY DEF BufferCycle, Pump, SampleInv, Typed
<1>p. promise \in Promises /\ wait \in WaitRecords
  BY DEF SampleInv, Typed
<1>f. /\ added /\ wait.kind \in {"none", "buffer"}
      /\ was_auto_resume = {} /\ promise.auto_resume
      /\ promise.next_sample <= 1 /\ promise.next_sample \in Nat
      /\ promise.next_buffer_cycle \in Nat
  BY <1>p DEF BufferWait, Early, WaitRecords, Promises
<1>1. CASE /\ in_tasks' /\ is_active /\ v >= promise.next_sample
           /\ ~promise.should_terminate /\ promise.auto_resume
           /\ Due(promise, v, "BUFFER_BASED")
  <2> DEFINE p == Rebased(promise, v)
  <2>1. Resume(p, "buffer") /\ fresh' = (fresh /\ wait'.kind # "sample")
    BY <1>1 DEF BufferCycle, Pump
  <2>2. /\ promise' \in Promises /\ wait' \in WaitRecords /\ last' \in WaitRecords
        /\ promise'.auto_resume
        /\ last'.kind = wait.kind /\ last'.n = wait.n
        /\ last'.took = Now(wait.kind, "buffer") - wait.from
        /\ InSampleDelay(p, "buffer") \/ InBufferDelay(p, "buffer") \/ HasReturned(p)
    BY <1>1, <1>a, <2>1, PumpRuns
  <2>3. wait.kind = "buffer" => v = promise.next_buffer_cycle /\ v = wait.from + wait.n
    <3> SUFFICES ASSUME wait.kind = "buffer"
                 PROVE  v = promise.next_buffer_cycle /\ v = wait.from + wait.n
      OBVIOUS
    <3>1. /\ promise.active_delay_context = "BUFFER_BASED"
          /\ promise.next_buffer_cycle = wait.from + wait.n
          /\ ~added \/ in_tasks \/ "add" \in pending_ops =>
               m_current_buffer_cycle < promise.next_buffer_cycle
      BY DEF BufferWait, Early
    <3>2. v >= promise.next_buffer_cycle
      BY <1>1, <3>1 DEF Due
    <3>3. in_tasks \/ "add" \in pending_ops
      BY <1>1, <1>a DEF Drained
    <3> QED BY <1>a, <1>f, <3>1, <3>2, <3>3
  <2>4. p.next_buffer_cycle = v /\ p.next_sample <= 1
    <3>1. CASE wait.kind = "buffer"
      <4>1. promise.active_delay_context = "BUFFER_BASED"
        BY <3>1 DEF BufferWait, Early
      <4>2. p = promise
        BY <4>1 DEF Rebased
      <4> QED BY <4>2, <3>1, <2>3, <1>f
    <3>2. CASE wait.kind = "none"
      <4>1. promise.active_delay_context = "AWAIT" /\ m_current_buffer_cycle = 0
        BY <1>1, <3>2 DEF BufferWait, Early, is_active
      <4>2. p = Initialized(promise, v) /\ v = 1
        BY <4>1 DEF Rebased
      <4>3. /\ Initialized(promise, v).next_buffer_cycle = v
            /\ Initialized(promise, v).next_sample = v
        BY <1>p, <1>a DEF Initialized, Promises
      <4> QED BY <4>2, <4>3
    <3> QED BY <1>f, <3>1, <3>2
  <2> HIDE DEF p
  <2>5. BufferDelayExact'
    <3>1. wait.kind = "buffer" => last'.took = v - wait.from
      BY <2>2 DEF Now
    <3>2. wait.from \in Nat /\ wait.n \in Nat
      BY <1>p DEF WaitRecords
    <3> QED BY <1>a, <2>2, <2>3, <3>1, <3>2 DEF BufferDelayExact
  <2>6. BufferWait'
    <3>1. CASE InSampleDelay(p, "buffer")
      BY <1>a, <1>f, <2>1, <3>1 DEF InSampleDelay, BufferWait, Early
    <3>2. CASE InBufferDelay(p, "buffer")
      <4>1. wait'.from = v /\ wait'.n \in Nat
        BY <2>2, <3>2, <1>a DEF InBufferDelay, Suspends, Now, WaitRecords
      <4> QED
        BY <1>a, <1>f, <2>1, <2>2, <2>4, <3>2, <4>1
        DEF InBufferDelay, Suspends, BufferWait, Early
    <3>3. CASE HasReturned(p)
      BY <1>a, <1>f, <2>1, <2>2, <2>4, <3>3, NoWaitFields DEF HasReturned, BufferWait, Early
    <3> QED BY <2>2, <3>1, <3>2, <3>3
  <2> QED BY <2>5, <2>6
<1>2. CASE ~ /\ in_tasks' /\ is_active /\ v >= promise.next_sample
             /\ ~promise.should_terminate /\ promise.auto_resume
             /\ Due(promise, v, "BUFFER_BASED")
  <2>1. /\ UNCHANGED <<body, wait, last, fresh>>
        /\ promise' = [promise EXCEPT !.should_terminate = @ \/ (cancelling /\ is_active)]
    BY <1>2 DEF BufferCycle, Pump
  <2>2. /\ promise'.next_sample = promise.next_sample
        /\ promise'.next_buffer_cycle = promise.next_buffer_cycle
        /\ promise'.auto_resume = promise.auto_resume
        /\ promise'.active_delay_context = promise.active_delay_context
    BY <1>a, <2>1, PumpPasses
  <2>3. in_tasks' /\ is_active => ~Due(promise, v, "BUFFER_BASED")
    BY <1>2, <1>a, <1>f, DrainedList
  <2>4. ~(wait.kind = "none" /\ body = "suspended")
    <3> SUFFICES ASSUME wait.kind = "none", body = "suspended" PROVE FALSE
      OBVIOUS
    <3>1. promise.active_delay_context = "AWAIT" /\ m_current_buffer_cycle = 0
      BY DEF BufferWait, Early
    <3>2. in_tasks'
      BY <1>a, <1>f, <3>1 DEF BeforeFirst, Drained, cancelling
    <3> QED BY <2>3, <3>1, <3>2 DEF is_active, Due
  <2>5. wait.kind = "buffer" /\ in_tasks' => v < promise.next_buffer_cycle
    BY <1>a, <1>f, <2>3 DEF BufferWait, Early, is_active, Due
  <2>6. BufferWait'
    BY <1>a, <1>f, <2>1, <2>2, <2>4, <2>5 DEF Drained, BufferWait, Early
  <2>7. BufferDelayExact'
    BY <2>1 DEF BufferDelayExact
  <2> QED BY <2>6, <2>7
<1> QED BY <1>1, <1>2

\* A body that a call runs before the routine is added, in a callback that has
\* not begun.
LEMMA EarlyBody ==
  ASSUME BufferInv, NEW p \in Promises, NEW by \in {"create", "init"}, Resume(p, by),
         m_current_buffer_cycle = 0, UNCHANGED <<clocks, was_auto_resume>>,
         was_auto_resume = {}, p.auto_resume, p.next_buffer_cycle = 0, p.next_sample = 0,
         fresh' => added' /\ wait'.kind # "sample"
  PROVE  BufferWait' /\ BufferDelayExact'
<1>1. last' = NoWait
  BY DEF Resume
<1>2. BufferDelayExact'
  BY <1>1, NoWaitFields DEF BufferDelayExact
<1>3. /\ wait' \in WaitRecords /\ promise'.auto_resume
      /\ \/ InSampleDelay(p, by) \/ InBufferDelay(p, by)
         \/ InGetPromise(p, by) \/ HasReturned(p)
  BY ResumeCases DEF Callers, BufferInv, SampleInv
<1>4. wait'.kind = "buffer" => wait'.from = 0
  BY <1>3, NoWaitFields
  DEF InSampleDelay, InBufferDelay, InGetPromise, HasReturned, Suspends, Now
<1>5. wait'.n \in Nat /\ m_current_buffer_cycle' = 0
  BY <1>3 DEF WaitRecords, clocks
<1> QED
  BY <1>2, <1>3, <1>4, <1>5, NoWaitFields
  DEF InSampleDelay, InBufferDelay, InGetPromise, HasReturned, Suspends, BufferWait, Early

\* Every step keeps BufferInv.
LEMMA NextBuffer == BufferInv /\ [Next]_vars => BufferInv'
<1> SUFFICES ASSUME BufferInv, [Next]_vars PROVE BufferWait' /\ BufferDelayExact'
  BY NextSample, BeforeFirstKept, NotCreatedKept, NotAddedKept DEF BufferInv
<1> USE DEF BufferInv
<1>p. /\ Typed /\ promise \in Promises /\ wait \in WaitRecords
      /\ m_current_buffer_cycle \in Nat
  BY DEF SampleInv, Typed
<1>f. /\ fresh => added
      /\ in_tasks => added
  BY DEF BufferWait, Early, SampleInv, AddedOnce
<1>0. ASSUME ~fresh', added' \/ m_current_buffer_cycle' # 0
      PROVE  BufferWait' /\ BufferDelayExact'
  BY <1>0 DEF BufferWait, Early, BufferDelayExact
<1>1. CASE Create
  <2>1. /\ body = "none" /\ Resume(promise, "create") /\ ~added /\ ~fresh
        /\ UNCHANGED <<clocks, was_auto_resume, added, fresh>>
        /\ promise.next_sample = 0 /\ promise.next_buffer_cycle = 0
    BY <1>1, <1>f DEF Create, NotCreated
  <2>2. CASE m_current_buffer_cycle = 0
    <3>1. was_auto_resume = {} /\ promise.auto_resume
      BY <2>1, <2>2 DEF BufferWait, Early
    <3> QED BY <1>p, <2>1, <2>2, <3>1, EarlyBody
  <2>3. CASE m_current_buffer_cycle # 0
    BY <1>0, <2>1, <2>3 DEF clocks
  <2> QED BY <2>2, <2>3
<1>2. ASSUME NEW initialize \in BOOLEAN, AddTask(initialize)
      PROVE  BufferWait' /\ BufferDelayExact'
  <2>1. /\ ~added /\ added' = TRUE /\ ~fresh
        /\ pending_ops' = pending_ops \cup {"add"}
        /\ UNCHANGED <<clocks, was_auto_resume, in_tasks>>
        /\ fresh' = (m_current_buffer_cycle = 0 /\ wait'.kind # "sample")
    BY <1>2, <1>f DEF AddTask
  <2>2. CASE m_current_buffer_cycle # 0
    BY <1>0, <2>1, <2>2
  <2>3. CASE m_current_buffer_cycle = 0
    <3>1. Early /\ was_auto_resume = {} /\ promise.auto_resume /\ m_current_sample = 0
      BY <2>1, <2>3 DEF BufferWait, Early, BeforeFirst
    <3>2. CASE Resume(Initialized(promise, m_current_sample), "init")
      <4> DEFINE p == Initialized(promise, m_current_sample)
      <4>1. /\ p \in Promises /\ p.auto_resume
            /\ p.next_sample = 0 /\ p.next_buffer_cycle = 0
        BY <1>p, <3>1 DEF Initialized, Promises
      <4>2. Resume(p, "init")
        BY <3>2
      <4> HIDE DEF p
      <4> QED BY <2>1, <2>3, <3>1, <4>1, <4>2, EarlyBody
    <3>3. CASE UNCHANGED <<promise, body, wait, last>>
      <4>1. BufferWait'
        BY <2>1, <2>3, <3>1, <3>3 DEF BufferWait, Early, clocks
      <4>2. last.kind # "buffer"
        BY <2>1 DEF NotAdded
      <4> QED BY <4>1, <4>2, <3>3 DEF BufferDelayExact
    <3> QED BY <1>2, <3>2, <3>3 DEF AddTask
  <2> QED BY <2>2, <2>3
<1>3. CASE CancelTask
  BY <1>3, <1>f DEF CancelTask, BufferWait, Early, BufferDelayExact, clocks
<1>4. CASE PauseAllTasks \/ RestartTask
  BY <1>4, <1>0, <1>f DEF PauseAllTasks, RestartTask
<1>5. CASE ResumeAllTasks
  <2>1. /\ added /\ UNCHANGED <<clocks, body, was_auto_resume, added, in_tasks,
                                pending_ops, last, fresh>>
        /\ wait' = [wait EXCEPT !.held = @ \/ was_auto_resume = {FALSE}]
        /\ promise' = [promise EXCEPT !.auto_resume = was_auto_resume # {FALSE}]
    BY <1>5, <1>f DEF ResumeAllTasks
  <2>2. /\ promise'.next_sample = promise.next_sample
        /\ promise'.next_buffer_cycle = promise.next_buffer_cycle
        /\ promise'.active_delay_context = promise.active_delay_context
        /\ was_auto_resume = {} => promise'.auto_resume
        /\ wait'.kind = wait.kind /\ wait'.from = wait.from /\ wait'.n = wait.n
    BY <1>p, <2>1 DEF Promises, WaitRecords
  <2> QED BY <2>1, <2>2 DEF BufferWait, Early, BufferDelayExact, clocks
<1>6. CASE BufferCycle
  <2>1. CASE ~fresh
    <3>1. ~fresh'
      BY <1>6, <2>1 DEF BufferCycle, Pump
    <3>2. m_current_buffer_cycle' = m_current_buffer_cycle + 1
      BY <1>6 DEF BufferCycle
    <3>3. m_current_buffer_cycle' # 0
      BY <1>p, <3>2
    <3> QED BY <3>1, <3>3, <1>0
  <2> QED BY <1>6, <2>1, FreshBufferCycle
<1>7. CASE SampleTick
  <2>1. /\ UNCHANGED <<m_current_buffer_cycle, added, was_auto_resume>>
        /\ m_current_buffer_cycle # 0 /\ Drained
    BY <1>7, <1>p DEF SampleTick, Pump, BeforeFirst, SampleInv, Typed
  <2>2. CASE ~fresh
    <3>1. ~fresh'
      BY <1>7, <2>2 DEF SampleTick, Pump
    <3> QED BY <2>1, <3>1, <1>0
  <2>3. CASE fresh
    <3>1. ~(is_active /\ Due(promise, m_current_sample, "SAMPLE_BASED"))
      BY <2>1, <2>3, <1>p DEF BufferWait, Early, Due, is_active, WaitRecords
    <3>2. /\ UNCHANGED <<body, wait, last, fresh>>
          /\ promise' = [promise EXCEPT !.should_terminate = @ \/ (cancelling /\ is_active)]
      BY <1>7, <3>1 DEF SampleTick, Pump
    <3>3. /\ promise'.next_sample = promise.next_sample
          /\ promise'.next_buffer_cycle = promise.next_buffer_cycle
          /\ promise'.auto_resume = promise.auto_resume
          /\ promise'.active_delay_context = promise.active_delay_context
      BY <2>1, <3>2, PumpPasses
    <3>4. in_tasks' => in_tasks \/ "add" \in pending_ops
      BY <2>1 DEF Drained
    <3> QED
      BY <2>1, <2>3, <3>2, <3>3, <3>4 DEF BufferWait, Early, BufferDelayExact, Drained
  <2> QED BY <2>2, <2>3
<1>8. CASE UNCHANGED vars
  BY <1>8 DEF vars, clocks, BufferWait, Early, BufferDelayExact
<1> QED BY <1>1, <1>2, <1>3, <1>4, <1>5, <1>6, <1>7, <1>8 DEF Next

\* For every buffer size and every length of the delays: a routine that was
\* added before the first callback and was never paused, restarted or in a
\* SampleDelay is in each BufferDelay for exactly as many callbacks as it asked
\* for, however it started (BufferDelay, process_buffer_cycle_tasks).
THEOREM BufferDelaysExact == Spec => []BufferDelayExact
<1>1. BufferInv => BufferDelayExact
  BY DEF BufferInv
<1> QED BY <1>1, InitBuffer, NextBuffer, PTL DEF Spec
==============================================================================
