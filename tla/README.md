# MayaFlux: models, checks and proofs

MayaFlux is a C++20 engine in which audio, graphics, input and scripted control run on
threads of their own and share nodes, buffers, coroutines and queues, mostly without locks.
This directory holds TLA+ models of the parts where those threads meet, the TLC runs that
check them on small instances, and TLAPS proofs of what matters most. Paths below are
relative to `src/MayaFlux/` of the repository.

Contents: 1 the system, 2 the modules and how they correspond to the code, 3 the runs,
4 bounds and fairness, 5 proofs, 6 findings, 7 what is not modelled, 8 plan.

## 1. The system

Threads: the audio callback (RtAudio or another backend), the graphics loop, the input
processing thread, one thread per input backend (HID polling, MIDI callback, OSC), the
journal's worker, the conditional-task thread, and any number of control threads (the user's
program, the live-coding server).

| Component | State | Operations | Meets others through | Hard part |
|---|---|---|---|---|
| Rings (`Transitive/Memory/RingBuffer.hpp`) | slots, indices, ready flags | push, pop, size, snapshot | used by input and journal | plain slots between atomic indices |
| Input manager (`Core/Input`) | SPSC ring, notify/stop/running flags, registered nodes | enqueue, enqueue_batch, start, stop, processing_loop | backend threads push, nodes are called | wake-ups, stop against sleep, several producers |
| Journal (`Journal/Archivist`) | an MPSC and an SPSC ring, push lock, drop counter, worker, four flags | scribe, scribe_rt, drain_ring_buffer, shutdown, flush | every thread logs, three kinds of thread drain | one consumer, hand-over at shutdown, drops |
| Root node (`Nodes/RootNode`) | node list, 2048 pending slots, counter, is_processing | register, unregister, pre/postprocess, process, terminate | control threads queue, audio applies | claim before write, full queue, counter |
| Node (`Nodes/Node`) | channel masks, PROCESSED, ACTIVE, routing state | register/unregister usage, request_reset | several roots per frame | reset decided on a mask that changes |
| Node graph manager | registries, roots, routing states | add/remove root, route, update, cleanup | audio callback and control | fades over several callbacks, routes that cut each other short |
| Task scheduler (`Vruta/Scheduler`) | task lists, two pending queues, conditional thread, clocks | add, cancel by routine and by name, restart, pause/resume all, drain, pumps | coroutines resumed by audio and graphics | slots drained by other threads, names, two clocks |
| Routines (`Vruta/Routine`, `Kriya/Awaiters`) | promise: due positions, context, flags | try_resume_with_context, await_suspend | two pumps resume one coroutine | claim and flags of a suspension |
| Window events (`Vruta/WindowEventSource`, `EventManager`, `Kriya/InputEvents`) | pending events, waiter list, handlers, names | signal, dispatch, pop, add, cancel, terminate, cleanup | callbacks signal and change handlers | re-entrance, lifetime of awaiters |
| Broadcast source (`Vruta/BroadcastSource`, `Kriya/Awaiters`) | waiter pointer, pending value and flag | signal, co_await, clear | any thread signals and so runs the coroutine | register against signal, two resumes |
| Network source | waiters, message queue | signal, co_await | the io thread signals | as broadcast |
| Engine and subsystems (`Core`) | lifecycle flags, streams, threads | Init, Start, Pause, Resume, End | owns everything | joins, flags, teardown order |
| Buffers (`Buffers`) | children, pending ops, chains | add/remove child, process | as root node | as root node |
| Sequence locks | counter, data | begin/end write, read/retry | one writer, readers | torn reads |

Correctness, in one line each: what a ring accepts comes out once and in order; an accepted
input value is dispatched while the manager runs; a registration takes effect as called; a
shared node advances once per frame, and a route fades it over and takes it off a channel in
silence; a task added runs and a task cancelled stops; a delay lasts as long as it says; one thread at a
time runs a coroutine body; an event someone waits for is received once and in order; an entry
of the journal is written once or counted as dropped; stop, shutdown and End return and leave
no thread behind.
`PROJECT.json` lists every component (with the ones left out) and every hazard at its line.

## 2. Modules

Memory orders: every atomic access is a step, and the interleaving is sequentially
consistent. For the acquire/release pairs of the rings this loses nothing (each variable has
one writer and the data are published by it). `CrossRoutine` sets a flag and then reads the
other one; release/acquire alone allows both pumps to miss each other in one round. No
property that is checked depends on that round: the next offer repeats the test.

**FifoQueue** — the promise of a ring: a bounded FIFO. `accepted` and `delivered` are
sequences, a push may be refused only when `Limit` values are inside, a pop finds nothing
only when none is.

**LockFreeQueue** — `LockFreePolicy`. `push_lockfree` and `pop_lockfree` are three steps
each: load both indices and decide (`PushCheck`/`PushRefused`, `PopCheck`/`PopEmpty`), touch
the plain slot (`PushStore`, `PopCopy`), publish the index (`PushPublish`, `PopRelease`). Any
number of producers and consumers is allowed, so that a misuse can be modelled; `SPSC` is the
contract. `Fifo == INSTANCE FifoQueue WITH Limit <- Capacity - 1` is the refinement.

**InputManager** — extends LockFreeQueue: producers are backend threads inside `enqueue` or
`enqueue_batch`, the consumer is `processing_loop`, and the owner calls `start` and `stop`.
`atomic<bool>::wait(false)` is the guard of `LoopWake`. A value is dispatched when pop returns.

**MPSCQueue** — `MPSCPolicy`: `push_mpsc` is claim (fetch_add), test of the ready flag, store,
flag; `pop_mpsc` is copy, clear, advance, with the locals of each thread that pops. Nothing holds
a claim back: a push may come round to the slot of another that is still under way, which the
history `lapped` records.

**Archivist** — extends MPSCQueue with the rest of the journal: `scribe_rt` on the MPSC ring,
`scribe` on the SPSC ring behind `m_push_lock`, `drain_ring_buffer` on whichever thread calls
it, `worker_loop`, `shutdown` (two tests, flag, join, drain, two resets), `flush` at any time by
the threads in `Flushers`, and `~Impl`. The SPSC ring is used through the promise LockFreeQueue is
proved to keep, as two counts; the promise is for one consumer, and the history `shared` records
that two threads have been draining at once, after which nothing is said of it.

**RootNode** — one channel's `RootNode`. A call of `register_node`/`unregister_node` scans the
slots one at a time (`Claim`, `ScanOn`), writes node and kind (`WriteNode`, `WriteKind`), adds
to the counter (`Count`); with no free slot it waits until no cycle runs (`WaitIdle`) and edits the
list holding nothing (`Direct`, `DirectStore`). The processing thread runs `Preprocess`, a pass
over the slots (`Look`, `Apply`, `Store`, `Free`), the nodes (`Visited`), another pass, `Release`. An
edit of the plain vector is a read and a store; of two that overlap the later store wins, and
`overlap` records it. The counter keeps its wrap-around. A node has one owning controller
(`Owner`): two threads that register one node against each other have no defined outcome.
Applying a claimed slot whose contents are not yet written sets `torn`; a null node sets `crashed`
and the thread stops. The flags ACTIVE, INACTIVE and PENDING_REMOVAL are not modelled (6.13).
`MCRootNode` gives the owners.

**SharedNode** — one node and the roots of several channels: `add_to_root` and
`remove_from_root` change the masks and then queue the operation, the audio thread visits the
channels in turn and runs `request_reset_from_channel` as its three accesses. The slots of the
queue are abstracted to a sequence per channel (their protocol is RootNode's).

**NodeRouting** — extends SharedNode with routes and with what the audio callback does around its
frames. The control thread makes `add_to_root`, `remove_from_root` and `route_node_to_channels` at
any time, inside a frame or a cleanup too: a route reads the mask (`RouteRead`), stores the
`RoutingState` it made of it (`RouteStore`) and adds the node to the channels it lacks one by one
(`Join`). The audio thread runs `Update`, the frames, and `cleanup_completed_routing` as its test
(`Cleanup`), the reset (`CleanupReset`) and the removals (`CleanupRemove`). `RoutingState` and
`m_node_registry` are plain data of both threads: a store of the state, an update, a reset, and a
change of the registry with the bit it comes with are one step each. Levels are fractions of
`Unit`; `level` is a history of what each channel heard, `wanted` of the last route.

**TaskScheduler** — the two pending queues of `Vruta/Scheduler`: `add_task`, `cancel_task` by
routine and by name scan, claim, write and count a slot. `process_token` drains the timed queue on
the audio thread and on the graphics thread, the conditional thread drains its own, slot by slot
(`Drainers`). An edit of a list is a look and a store; `raced` records two threads editing one list
or draining one slot, `torn` a slot drained between claim and write. The module serves one run,
a violation; what the drains do to each other beside it is in 6.11.

**SoundRoutine** — one sound coroutine between the two pumps of the audio callback:
`BufferCycle` (`process_buffer_cycle_tasks`) and then `BufferSize` times `SampleTick`
(`process_token`). A body is a nondeterministic sequence of `SampleDelay`, `BufferDelay`, a
first `GetPromise`, and `Return`; `add_task` with and without `initialize`, `cancel_task`,
`restart_task`, `pause_all_tasks` and `resume_all_tasks` come from a control thread. The
pending queue is a set; the drain is atomic. `wait` and `last` are histories of the delay
under way and the one before it.

**CrossRoutine** — one cross coroutine offered by the audio and the graphics thread.
`try_resume_with_context` and `MultiRateDelay::await_suspend` are cut at every access to the
promise. The audio clock advances by one per offer, the graphics clock by what the wall clock
says (none, one or two). Pausing and cancelling set the two plain flags the gate looks at first.

**BroadcastSource** — one source and the coroutine of `on_signal`. `signal`, on any thread at any
time, is the exchange of the waiter (`BeginSignal`) and then either `Deliver`, on the signalling
thread, or `StoreValue` and `RaiseFlag`; `pop_pending` is its test (`AwaitReady`, `AwaitSuspend`),
`PopValue` and `ConsumeFlag`. `where` has the next access of each thread; the owner is the thread
that starts the coroutine. A copy or write of the plain `m_pending_value` beside another write
yields any value.

**WindowEvents** — one `WindowEventSource`, its awaiters, the loops of `key_pressed` and
`key_held`, and `EventManager`, on one thread that re-enters itself: `stack` holds the dispatch
loops under way, and callbacks signal, add, cancel and terminate from inside them. A dispatch may
come to an awaiter whose frame has been destroyed meanwhile; it then goes on as the memory was
left, or never does. The waiter list and its copies are sets, any order of dispatch included.
Handlers that are added on one thread while the graphics thread signals are outside the module
(7).

**Engine** — `Engine`, `SubsystemManager` and the life of each subsystem: the application's
calls walk over the subsystems in any order, `stop` runs them side by side, the render, notify
and graphics threads go on meanwhile. The stream is WASAPI's, with its time-outs: the stop and
pause of the stream wait two seconds for the render thread and then let go of it (`strays`, and
the history `gaveup`), and a render thread whose device is silent for two seconds ends by itself
and leaves `m_is_running` up (`"dry"`). What the threads do inside a buffer or a frame is the other
modules' subject. `Ordered` has Pause called on a started engine and End on a running one.

Composition: InputManager and Archivist compose the rings with their users; NodeRouting composes
routes, masks, roots and the callback; SoundRoutine and CrossRoutine compose scheduler, promise
and awaiters; BroadcastSource composes source, awaiter and event; Engine composes the subsystems.

Each module's `TypeOK`, where there is one, gives the shape of its state. It is not among the
properties of the runs.

Definitions marked *Variant* are plausible mistakes in the code (a dropped guard, a forgotten
reset). Nothing uses them; substituting one for the definition after it must break a property,
and `PROJECT.json` says which.

## 3. Runs

| Run | Shows |
|---|---|
| `input_manager` | `ImplementsFifo`: the ring under the input manager is the bounded FIFO; `NoLostWakeup`: the thread never sleeps on a non-empty queue unless a backend is about to wake it; `AllDispatched`: what is in the queue while the thread drains, sleeps or is being woken is dispatched, a stop notwithstanding; `StopReturns` |
| `input_two_backends` | violation of `NothingLost`, see 6.1 |
| `archivist` | `DropsAccounted`: every refused entry is told of once; `OwedIsWritten`: shutdown and destruction leave nothing behind that was in the rings when the worker was told to stop; `KeepsUp`; `ShutdownReturns` |
| `archivist_flush` | violation of `WrittenOnce`, see 6.4 |
| `root_node` | `CountMatches`: the wrapping counter equals the claimed slots less the calls not yet counted; `NoCallLost`: there are two ways to lose a call and no third; `EventuallySettled` |
| `node_routing` | `OncePerFrame`: after any history of additions, removals and routes, at rest the node is processed exactly once per frame; `RemovedInSilence`; `FadesOneWay`; `RegisteredRouteEnds` |
| `task_cancel_name` | violation of `NamedCancelTakesEffect`, see 6.2 |
| `sound_routine` | `SampleDelayExact`, `PauseNeverShortens`, `NeverOverdue`, `BufferDelayExact` |
| `cross_routine` | `OneRunner`: the gate admits one pump; `EventuallyResumed`: no order of sets, tests and clears strands a body |
| `broadcast_source` | violation of `OneRuns`, see 6.3 |
| `window_events` | `ReceivedInOrder`: nested signals, handlers that share a type and removals never reorder or repeat events of a type |
| `engine` | `FlagsTellTruth`; `QuietTeardown`; `EndIsClean`; `CallsReturn` |

What the conditions in the properties leave out, and where section 6 says what happens there:
- `AllDispatched` starts from the places of the loop before its stop test: a value that comes
  between the last empty pop and the test waits for the next start (6.5).
- `CaughtUp`, under `OwedIsWritten` and `KeepsUp`, ends where two threads have drained at once
  (6.4); its real-time half also where an entry was refused or a push lapped (6.7). `WrittenOnce`
  leaves lapped pushes out, so that the violation is the drain's.
- `NoCallLost` names the two ways to lose a call, a torn slot and overlapping edits of the list
  (6.8), and is about nodes that were only registered or only unregistered: operations of both
  kinds can be applied out of call order.
- `SampleDelayExact` is about bodies that have not used `BufferDelay` (6.10). `BufferDelayExact` is
  about tasks added before the first callback that use nothing else, because `initialize_state`
  puts a sample position into the buffer-cycle field.
- `OneRunner` is about bodies that start on `MultiRateDelay`: the path out of `GetCrossPromise` claims
  nothing.
- `OncePerFrame` is about nodes whose mask and list agree; `FadesOneWay` about fades that start at
  rest and are not cut short; `RegisteredRouteEnds` about nodes that stay registered (6.9).
- `FlagsTellTruth`, `QuietTeardown` and `EndIsClean` allow for a render thread that a two-second wait
  ran out on, and nothing else; `Ordered` leaves out the calls of 6.12.
- `NamedCancelTakesEffect` excuses torn slots and races of the drains: the violation needs neither.

## 4. Bounds and fairness

- Ring of 4 slots, 5 pushes, batches of 2, 2 starts: the indices wrap, the ring fills and
  empties, the thread is stopped and started with values inside.
- Archivist: rings of 1 slot each, 2 claims on the MPSC ring, 2 entries of 2 threads on either
  ring, 2 calls of shutdown or flush by 2 threads of which one flushes: both rings fill and refuse,
  pushes lap each other, two shutdowns meet, a flush meets the worker, and entries are written
  before, during and after a shutdown (333,822 states). The invariants also hold with an MPSC ring
  of 2 slots, 3 claims and 3 entries (2.25 million states), which is the instance of
  `archivist_flush`.
- RootNode: 2 slots, 3 calls of 2 controllers on 2 nodes: slots fill up, the fallback is taken
  beside a pass and beside another fallback, slots are reused during a pass. `CountModulus` 8 stands
  for 2^32: more than the largest difference, so the counter passes below zero the way the real one
  does.
- NodeRouting: 2 channels, fades of 1 and 2 callbacks, 3 calls of which 2 may be routes: a route
  cuts another short, and the control thread's steps fall into fades, updates and cleanups (808,311
  states). Callbacks are unbounded.
- TaskScheduler: 2 controllers, 1 timed and 1 conditional routine, 1 name, 2 and 1 slots, 3 calls:
  the conditional queue fills, and audio, graphics and conditional thread all drain.
- BroadcastSource: 4 signals of 2 threads: the first races with the owner's first await through
  every place of both, and later ones meet kept, delivered and discarded values.
- WindowEvents: 5 events, 2 handlers of presses and 1 of both types, 2 sharing a name: three
  nested dispatches, handlers destroyed under them (923,533 states). Engine has no bound: its state
  is finite (23,748 states).
- SoundRoutine: 2 frames per callback, 4 callbacks, delays up to 2 units, 4 control calls: a
  delay crosses a callback, the cycle count and sample clock separate, and a task is paused
  twice before it is resumed. CrossRoutine: delays
  of 0 or 1 on each clock, positions up to 2: two suspensions in a row, enough for a pump to
  meet the suspension after the one it looked at. A clock at its bound stays there and goes on
  offering; a body that cannot ask for more within the bound returns.
- `CHECK_DEADLOCK FALSE` where the bounds on calls, or a crash, let everything stop
  (InputManager, Archivist, RootNode, TaskScheduler, SoundRoutine, WindowEvents).

Fairness: a thread inside a call goes on with it (weak fairness on the steps of a push, a
stop, a registration, a shutdown, a call of the engine), the processing loop, the journal's
worker, the threads that drain the scheduler's queues and the audio callback keep running, and in
CrossRoutine both loops go round and their clocks advance again and again (strong fairness on
an offer with an advancing clock: a frame tick may find that no frame has passed, and time does
not stand still). In Engine the render threads get no fairness at all: `CallsReturn` rests on the
time-outs of the waits for them. Nobody is obliged to call anything. Spinning and `wait` are
guards, so a waiting thread needs its condition.

## 5. Proofs

Twenty-four theorems, for every value of the constants: any number of threads, slots, nodes,
channels, handlers and events, any bound on the calls. Each module's header says what it
proves; the invariants below are the strengthenings that make the properties inductive, each
checked by TLC on the run's instance before it was proved. The step proofs have one step per
action and, under it, one per conjunct the action can disturb. The arithmetic of remainders and
quotients that they rest on, which the provers lack, is proved at the head of the modules that
use it.

**Rings and input manager** (`InputManager_proofs`).
- `TypeCorrect`, `RingCorrect` (`RingInv`), `SlotsExclusive` and `RingImplementsFifo`
  (`ImplementsFifo`) are about the SPSC ring alone. `RingInv` adds to exclusion and refinement
  that a push between check and publish still has its slot outside the published part although
  `read_index` may have moved (`ProducerOwnsSlot`), that a pop keeps its slot inside it
  (`ConsumerOwnsSlot`), and that the published part holds the undelivered values (`Contents`).
- `InputRingCorrect` and `InputImplementsFifo` carry both over to the input manager with one
  backend thread: every step of the manager is a step of the ring or leaves it alone.
- `WakeupsKept` (`NoLostWakeup`) is for any number of backends. `Announced` says who will raise
  the flag: between the pop that found the ring empty and the sleep, the flag is up or a backend
  that has pushed has still to raise it.

**Root node** (`RootNode_proofs`).
- `CounterMatches` (`CountMatches`): claimed slots and uncounted calls as cardinalities, and
  congruence modulo any width, so that the pass below zero is covered.
- `CallsTakeEffect` (`NoCallLost`). `EditsInv`: as long as no two edits overlapped, a thread between
  the read and the store of an edit is the only one, and the list is still the one it read
  (`EditsAlone`). `CallsInv`: as long as nothing was torn either, a claimed slot has one writer or
  holds an operation somebody asked for (`SlotsSound`), and an addition nobody took back is in the
  list, in a complete slot or in the hands of a call (`NodesKept`).

**Journal** (`Archivist_proofs`). No hypothesis: any thread flushes at any time and any push laps.
- `DropsAreAccounted` (`DropsAccounted`): a claim is refused once, and a thread is in the ring just
  while its `scribe_rt` pushes (`CountInv`).
- `ShutdownLosesNothing` (`OwedIsWritten`). `DrainInv` has the places of all threads together: one
  caller at a time is past the exchange of `m_shutdown_in_progress`, and it drains only after the
  worker has ended, which is for good. `RtInv` is the real-time ring while no two threads have
  drained at once and no push was lapped: pushes under way hold distinct claims (`ClaimInv`) of one
  round (`RoundInv`), the ready flag tells whose slot it is (`FlagInv`), and while nothing was
  refused the ready slots are, one by one, the returned and untaken claims (`OrderInv`).
  `OwedInv`: the worker's last drain begins after the rings' contents were noted, and each ring it
  is through with has given them back.

**Routines and broadcast sources** (`SoundRoutine_proofs`, `Vruta_proofs`). The second holds two
independent developments, from `CrossSpec` and from `BSpec`.
- `SampleDelaysExact`, `PausesNeverShorten`, `NoneOverdue`: `SampleInv` ties `next_sample` to where the
  delay began, its length and what a `BufferDelay` left behind, and has the clock not pass it.
- `BufferDelaysExact`: `BufferInv` adds that nothing is drained before the first callback and that
  the position on the other clock, which both pumps look at, never holds such a task up.
- `GateExcludes` (`OneRunner`) needs `NeverAwaits`: a body that started on `MultiRateDelay` never
  returns to the AWAIT context, so that no pump is on the path without a claim.
- `CoroutineKept` (`NeverLost`) holds for any signals and is inductive with the places of the
  threads: whoever lets go of the coroutine has registered it or passes it on. It is all that is
  left of the source's promises under signals at any time (6.3, 6.6).

**Nodes and routes** (`NodeRouting_proofs`), with the control thread's routes and the cleanup in
steps beside each other.
- `NodeRunsOncePerFrame` (`OncePerFrame`): the property is about the end of a frame. `RestInv` says
  what the masks are at every step of one: in the first frame at rest the left-over reset bits go
  at some channel (`Settling`), and from then on the reset falls on the same channel in each
  frame, and the node is processed by the channel after it in the ring of channels (`Settled`).
- `RemovalsAreSilent` (`RemovedInSilence`), an action property. `SilenceInv`: what a completed route
  leaves, and what the cleanup has still to remove, has amount 0, and every channel the frames have
  been to has heard it; a route stored meanwhile changes neither.
- `FadesGoOneWay` (`FadesOneWay`), an action property: amounts are the share of the fade done
  (`AmountsInv`), and what a channel last heard lags behind them (`FadeInv`). `FadeInv` follows a
  clean fade from the read of the mask (`Waiting`) over the stored state (`Fading`) to the removals:
  meanwhile only additions of wanted channels (`OnlyJoins`) or removals of others (`OnlyLeaves`) are
  queued, so that no visit hears an amount out of turn (`VisitReady`).

**Window events** (`WindowEvents_proofs`). `EventsInOrder` (`ReceivedInOrder`), removals under a dispatch
included: the queue is in order, and what was received of a type is older than what is left of
it (`OrderInv`).

**Engine** (`Engine_proofs`). `FlagsTrue` (`FlagsTellTruth`), `TeardownQuiet` (`QuietTeardown`) and
`EndClean` (`EndIsClean`) assume `Ordered`; with the other orders all three are false (6.12). Every
subsystem has its conjunct of `EngineInv` (`AudioInv`, `GraphicsInv`, `InputInv`, `NetworkInv`), written
over `Life(s)`: what the calls made so far, and the one under way as far as it has come, have made
of the subsystem (not yet started, up, paused, being stopped, down). `CallInv` says which calls
can be under way in which state of the engine. `AudioInv` has a render thread that nobody waits for
any more only after a wait ran out. The invariants of the properties speak of the times between
calls and of the end; `Life` is what carries them through a walk over the subsystems in any order
and through stops side by side, where half of them are still up.

Assumptions: those named in the modules, which TLC evaluates on every run. They give constants
their types (capacities, widths and bounds are natural numbers, positive where the code's are),
keep the "none" values apart from the real ones, and say that the threads which log and those
which register nodes are finitely many (`ArchivistAssumption`, `RootNodeAssumption`: the theorems
count them). `SPSC` and `Ordered` are hypotheses of the theorems that name them. Behind all of them
are the sequentially consistent steps of section 2, and for fades that `Unit` is a multiple of
every fade length.

Only model-checked: liveness everywhere, since fairness and ENABLED are out of the prover's reach
(`AllDispatched`, `StopReturns`, `KeepsUp`, `ShutdownReturns`, `EventuallySettled`,
`RegisteredRouteEnds`, `EventuallyResumed`, `CallsReturn`). Every invariant and action property of a
passing run is stated by a theorem. The other way round, `RingInv`, `SlotExclusive` and `NeverLost`
are proved and in no run's list.

## 6. Findings

With a run:
1. `input_two_backends`: the input manager's queue has one producer by design and every
   backend thread pushes into it; two pushes at once lose an accepted value.
2. `task_cancel_name`: `cancel_task(name)` puts its operation into the conditional queue whatever
   the name belongs to, and returns true; a timed task of that name keeps running.
3. `broadcast_source`: `signal()` "may be called from any thread at any time"
   (`BroadcastSource.hpp:21`). A second signal during the owner's `await_suspend` takes the awaiter
   while the first one's value is popped; two threads then run the coroutine. What they do to its
   frame is undefined; past that point the model only says which thread would go where.
4. `archivist_flush`: `drain_ring_buffer` is "Safe to call from any thread"
   (`Journal/Archivist.cpp:105`), and `error()` and `fatal()` call it beside the worker. Two drains of
   one ready slot write an entry twice.

Met on the way, without a run of their own:

5. Input manager: `stop()` "Waits for thread to finish processing current queue before returning"
   (`Core/Input/InputManager.hpp:57`). A value pushed after the last empty pop (`InputManager.cpp:318`)
   and before the stop test (`:323`) stays in the queue when stop returns; the next start dispatches
   it. The log lines at `InputManager.cpp:103` and `:121` say "dropping oldest"; it is the newest
   value that is refused.
6. Broadcast sources: `BroadcastSource.hpp:25-28` has the window between `await_ready` and
   registration closed by a generation counter; the class has none. A signal that found no waiter
   before the registration and raises the flag after the second look leaves the coroutine asleep
   beside its value until the next signal. A signal that holds the awaiter it exchanged out
   (`:65-67`) delivers to it also when the coroutine's frame was destroyed in between, and two
   signals without a waiter write the plain `m_pending_value` at once.
7. MPSC ring: "each owns its claimed index exclusively" (`Transitive/Memory/RingBuffer.hpp:264`)
   is true of the index and not of the slot: a push that stalls between claim and store while the
   others go once round the ring shares its slot with the one that laps it (`:1202-1208`). With 4096
   slots it takes a thread that is stopped in mid-push. A refused push has already moved the
   claim index, and the consumer then waits at a slot nobody fills until the producers come round.
   Entries logged after `shutdown()` are accepted and written by nobody, and `API/Core.cpp:26-29`
   shuts the journal down before it destroys the engine.
8. Root node: pending slots (RootNode, Scheduler, RootBuffer) are visible as active before they are
   written, and a pass that meets one applies a null node or the kind of its last use
   (`Nodes/RootNode.cpp:23`). With all slots taken, a call waits for `m_is_processing` to go down, takes
   nothing, and edits the plain vector (`:36-44`, `:66-84`) beside another fallback or beside a pass
   that has begun meanwhile (`:209-210`): a registration is lost (in this model; in the program it is
   a data race on a vector). Operations can be applied out of call order.
9. Routes: a route on the caller's thread (`API/Graph.cpp:100-116`) reads the mask
   (`Nodes/NodeGraphManager.cpp:652`), stores its state (`:672`) and joins its channels. Stored between
   the test and the reset (`:748`) of a cleanup, the state is wiped; the removals of the earlier
   route then take away the channels the later one counted on, and the node is on no channel with
   nothing pending. TLC shows it in 27 states on 2 channels with one addition and two routes.
   `unset_channel_mask` takes a node out of `m_node_registry` although other channels use it (`:387`), after which a route
   within the channels the node has is never carried out, while `API/Graph.hpp:71` has `route_node`
   move the node "from its current channel(s) to the specified channel(s)". A node that joins a
   second channel during a frame gives its two channels successive samples in every later frame.
   A route that cuts another short restarts from level 0 or 1, which is heard as a jump. A route
   and a control call that cross on a channel leave mask and list disagreeing.
10. Delays: `Kriya/Awaiters/DelayAwaiters.hpp:11-18` has a `SampleDelay` last "exactly the specified
   number of discrete time units"; after a `BufferDelay{k}` it lasts k more, because the k stays in
   the promise's `delay_amount` (`Vruta/Routine.cpp:124`).
   Two calls of `pause_all_tasks` store the paused flag over the one to go back to, and
   `resume_all_tasks` ("Resume all previously paused tasks", `Vruta/Scheduler.hpp:324`) then leaves
   the task paused. A routine initialised by the buffer pump counts its first sample delay from the
   number of the buffer cycle. A pump that stalls between test and compare-exchange resumes the
   next suspension of a cross routine at once; the AWAIT path can be taken by both pumps;
   `restart_task` resumes past the gate. `Vruta/Routine.hpp` says of `MultiRateDelay` that "the
   first clock to reach its target resumes the coroutine", while the gate waits for all.
11. Scheduler: `process_token` drains the timed queue for every token (`Vruta/Scheduler.cpp:219`), so
   the graphics thread (`Core/Subsystems/GraphicsSubsystem.cpp:292`) drains it beside the audio
   thread. Both search, erase and `push_back` in the plain `m_tasks` (`:593-599`) and both subtract the
   slot from `m_pending_count`: an accepted task is lost, or is in the list twice under one name, and
   the counter goes below zero, so that a later zero hides an operation. A queued cancel goes by
   the name alone: `cancel_task(routine)` takes the name from the list as it is (`:114`), and by the
   time it is applied the name may be another task's, which is then stopped. `cancel_task(routine)`
   on a task still in the queue returns true and cancels nothing; with all conditional slots taken
   a cancel falls over to the timed queue (`:84`, `:110`).
12. Engine: End of an engine that was initialised and not started destroys a joinable notify
   thread, and End of a paused engine leaves the input loop behind and skips the graphics thread
   (`Core/Subsystems/GraphicsSubsystem.cpp:209`); both with `Ordered = FALSE`. `End` terminates events
   and node processing (`Core/Engine.cpp:336-342`) before it stops any thread that runs them, so that
   `QuietTeardown` can only be about what comes after `stop`: on the audio thread a cycle may be
   inside `process_pending_operations` while `terminate_all_nodes` is in it too. The stop and pause of
   the stream wait two seconds (`Core/Backends/Audio/WasapiBackend.cpp:514`, `:533`) and then let go of
   a render thread that is still in the callback; `AudioSubsystem.cpp:397-400` logs it and goes on, and
   the teardown runs beside it. After a pause that gave up, `resume` resets the stop event, and the old
   thread renders on beside the new one. A render loop that leaves because its device was silent for
   two seconds (`:661`) leaves `m_is_running` up. On macOS with the GLFW backend `WindowManager.cpp:212`
   has the graphics thread wait for the main thread (`dispatch_main_sync`, `Dispatch.hpp:54`), which
   may be the one that joins it in `End`: `CallsReturn` says nothing of that build, only of the
   Windows one.
13. Node flags: the list changes first and the ACTIVE bit later (`Nodes/RootNode.cpp:40-42`, `:72-84`,
   `:210-214`, `:220-230`), so that a listed node without the bit, and an unlisted one with it, can be
   seen from another thread; and `atomic_set_flag_strong` (`Nodes/NodeUtils.cpp:54-58`) is one
   compare-exchange that is not repeated, so that a change of another bit at that moment loses it.
14. Window events: `cancel_event` removes an event, "preventing it from executing further"
   (`Vruta/EventManager.hpp:40-41`). A named event stays alive in `m_named_events` with its awaiter
   registered (`EventManager.cpp:55`), and its callback runs once more before the loop looks at its
   flag. A callback that destroys a handler the dispatch around it still comes to has that dispatch
   resume a destroyed frame (`Vruta/EventSource.cpp:12` works through a copy of the list).

## 7. Not modelled

Listed with reasons in `PROJECT.json`. In short: signal processing, mathematics, data containers
and the graphics, file and network back ends are numeric code or I/O; the live-coding server
drives a third-party interpreter. This is most of the repository by lines: the models are about
the parts where threads meet. Sequence locks are a question of fences and plain reads, which
sequentially consistent steps cannot put; `RootBuffer`'s queue is RootNode's over again. Modelled
parts leave out: the input manager's registration list and binding resolution;
`terminate_all_nodes` (a data race on a vector); the ACTIVE bits of nodes, their snapshots and
buffer reference counts; `RoutingState` and `m_node_registry` torn word by word; the routes of
networks and buffers; task groups, graphics routines, `terminate_all_tasks` and the start of the
conditional thread as two steps (`Vruta/Scheduler.cpp:449` tests `joinable` and then assigns: two first
conditional adds at once can assign to a joinable thread); filters and sinks of the journal;
mouse and scroll handlers.

Window events across threads are left out as a whole. A window signals on the graphics thread
(`GraphicsSubsystem.cpp:302`, `WindowManager.cpp:208-217`, `WaylandWindow.cpp:180`, `:291`) while
`add_event` starts a handler on its caller's, and `Engine::End` terminates events from a third. The
queue, the waiter list and the manager's lists are plain containers without a lock: between the look
of `await_ready` (`EventAwaiter.cpp:13`) and `register_waiter` (`:24`) an event can be kept that the
handler then sleeps beside, and two threads in the same deque or vector are a data race. Steps as
coarse as a whole `pop_event` would hide the second and show only the first, so the module stays
with the use it describes: one thread, re-entered.

## 8. Next

1. RootNode: `terminate_all_nodes` against a running cycle, with the list as a sequence that is
   walked, and the ACTIVE bit as its own compare-exchange.
2. NetworkSource: BroadcastSource with a list of waiters and a queue in place of the one value.
3. Window events with signals from the graphics thread, the containers access by access.
4. Routes of networks beside those of nodes.
5. Abstract specifications: a queue for MPSCQueue with headroom (accepting at the claim, and
   without FifoQueue's rule on when a pop may find nothing, which a claimed and unpublished slot
   breaks), a registry (a set of nodes changed by calls) for RootNode without torn slots.
