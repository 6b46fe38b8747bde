----------------------------- MODULE InputManager ----------------------------
(***************************************************************************)
(* Core/Input/InputManager: backend threads enqueue input values into the  *)
(* lock-free ring, one processing thread drains it and dispatches to the   *)
(* nodes, and the owning subsystem starts and stops that thread.           *)
(*                                                                         *)
(* The ring is LockFreeQueue with the backend threads as its producers and *)
(* the processing thread as its consumer.  delivered is the sequence of    *)
(* dispatched values.  atomic<bool>::wait(false) returns once it sees      *)
(* true; only the processing thread stores false.                          *)
(***************************************************************************)
EXTENDS LockFreeQueue

CONSTANTS MaxBatch,   \* longest vector given to enqueue_batch
          MaxStarts   \* bound on the calls of start()

VARIABLES
  m_running, m_stop_requested, m_queue_notify,
  loop,     \* where processing_loop is, "none" when there is no thread
  backend,  \* backend[p]: where enqueue / enqueue_batch is, and its locals
  control,  \* where stop() is
  starts    \* calls of start() so far

flags == <<m_running, m_stop_requested, m_queue_notify>>
imvars == <<vars, flags, loop, backend, control, starts>>

BackendState == [at : {"idle", "push", "notify"}, left : 0 .. MaxBatch,
                 batch : BOOLEAN, any_pushed : BOOLEAN]

NoCall == [at |-> "idle", left |-> 0, batch |-> FALSE, any_pushed |-> FALSE]

IMInit == /\ Init
          /\ m_running = FALSE
          /\ m_stop_requested = FALSE
          /\ m_queue_notify = FALSE
          /\ loop = "none"
          /\ backend = [p \in Producers |-> NoCall]
          /\ control = "idle"
          /\ starts = 0

------------------------------------------------------------------------------
(* enqueue and enqueue_batch, on a backend thread *)

\* A call with n values; the empty batch returns at once.
Enqueue(p, n, batch) ==
  /\ backend[p].at = "idle"
  /\ Len(accepted) + n <= MaxPushes
  /\ ~batch => n = 1
  /\ backend' = [backend EXCEPT ![p] =
       [at |-> "push", left |-> n, batch |-> batch, any_pushed |-> FALSE]]
  /\ UNCHANGED <<vars, flags, loop, control, starts>>

\* Inside m_queue.push.
EnqueuePush(p) ==
  /\ backend[p].at = "push"
  /\ PushStore(p) \/ \E v \in Values : PushCheck(p, v)
  /\ UNCHANGED <<flags, loop, backend, control, starts>>

\* Variant: enqueue wakes the thread only when the queue was empty.
EnqueuePushed_wake_if_empty(p) ==
  /\ backend[p].at = "push"
  /\ PushPublish(p) \/ PushRefused(p)
  /\ backend' = [backend EXCEPT
       ![p] = IF @.left > 1 THEN [@ EXCEPT !.left = @ - 1]
              ELSE IF size = 0 THEN [@ EXCEPT !.at = "notify", !.left = 0]
              ELSE NoCall]
  /\ UNCHANGED <<flags, loop, control, starts>>

\* m_queue.push returned: the next value of the batch, or the wake-up, which
\* enqueue always does and enqueue_batch only when some push succeeded.
AfterPush(b, any) ==
  IF b.left > 1 THEN [b EXCEPT !.left = @ - 1, !.any_pushed = any]
  ELSE IF any \/ ~b.batch
    THEN [b EXCEPT !.at = "notify", !.left = 0, !.any_pushed = any]
  ELSE NoCall

EnqueuePushed(p) ==
  /\ backend[p].at = "push"
  /\ PushPublish(p) \/ PushRefused(p)
  /\ backend' = [backend EXCEPT
       ![p] = AfterPush(backend[p], backend[p].any_pushed \/ push_result')]
  /\ UNCHANGED <<flags, loop, control, starts>>

\* m_queue_notify.store(true); notify_one().
EnqueueNotify(p) ==
  /\ backend[p].at = "notify"
  /\ m_queue_notify' = TRUE
  /\ backend' = [backend EXCEPT ![p] = NoCall]
  /\ UNCHANGED <<vars, m_running, m_stop_requested, loop, control, starts>>

------------------------------------------------------------------------------
(* processing_loop *)

\* while (auto value = m_queue.pop()) dispatch_to_nodes(*value).
LoopPop(c) ==
  /\ loop = "drain"
  /\ PopCheck(c) \/ PopCopy(c) \/ PopRelease(c)
  /\ UNCHANGED <<flags, loop, backend, control, starts>>

LoopDrained(c) ==
  /\ loop = "drain"
  /\ PopEmpty(c)
  /\ loop' = "check"
  /\ UNCHANGED <<flags, backend, control, starts>>

LoopCheck ==
  /\ loop = "check"
  /\ loop' = IF m_stop_requested THEN "exit" ELSE "wait"
  /\ UNCHANGED <<vars, flags, backend, control, starts>>

\* m_queue_notify.wait(false) returns.
LoopWake ==
  /\ loop = "wait"
  /\ m_queue_notify
  /\ loop' = "clear"
  /\ UNCHANGED <<vars, flags, backend, control, starts>>

\* Variant: the thread goes back to the stop test instead of the drain.
LoopClear_no_drain ==
  /\ loop = "clear"
  /\ m_queue_notify' = FALSE
  /\ loop' = "check"
  /\ UNCHANGED <<vars, m_running, m_stop_requested, backend, control, starts>>

LoopClear ==
  /\ loop = "clear"
  /\ m_queue_notify' = FALSE
  /\ loop' = "drain"
  /\ UNCHANGED <<vars, m_running, m_stop_requested, backend, control, starts>>

------------------------------------------------------------------------------
(* start and stop, on the thread that owns the subsystem *)

Start ==
  /\ control = "idle"
  /\ ~m_running
  /\ starts < MaxStarts
  /\ m_stop_requested' = FALSE
  /\ m_running' = TRUE
  /\ loop' = "drain"
  /\ starts' = starts + 1
  /\ UNCHANGED <<vars, m_queue_notify, backend, control>>

StopRequest ==
  /\ control = "idle"
  /\ m_running
  /\ m_stop_requested' = TRUE
  /\ control' = "notify"
  /\ UNCHANGED <<vars, m_running, m_queue_notify, loop, backend, starts>>

\* Variant: stop() does not wake the sleeping thread.
StopNotify_silent ==
  /\ control = "notify"
  /\ control' = "join"
  /\ UNCHANGED <<vars, flags, loop, backend, starts>>

StopNotify ==
  /\ control = "notify"
  /\ m_queue_notify' = TRUE
  /\ control' = "join"
  /\ UNCHANGED <<vars, m_running, m_stop_requested, loop, backend, starts>>

StopJoin ==
  /\ control = "join"
  /\ loop = "exit"
  /\ loop' = "none"
  /\ m_running' = FALSE
  /\ control' = "idle"
  /\ UNCHANGED <<vars, m_stop_requested, m_queue_notify, backend, starts>>

------------------------------------------------------------------------------
Backend(p) == EnqueuePush(p) \/ EnqueuePushed(p) \/ EnqueueNotify(p)

Loop == \/ \E c \in Consumers : LoopPop(c) \/ LoopDrained(c)
        \/ LoopCheck \/ LoopWake \/ LoopClear

Stop == StopNotify \/ StopJoin

IMNext == \/ \E p \in Producers : Backend(p)
          \/ \E p \in Producers, n \in 1 .. MaxBatch, b \in BOOLEAN : Enqueue(p, n, b)
          \/ Loop
          \/ Start \/ StopRequest \/ Stop

\* A thread inside a call goes on with it; nobody has to call anything.
IMSpec == /\ IMInit /\ [][IMNext]_imvars
          /\ \A p \in Producers : WF_imvars(Backend(p))
          /\ WF_imvars(Loop)
          /\ WF_imvars(Stop)

------------------------------------------------------------------------------
IMTypeOK ==
  /\ TypeOK
  /\ flags \in BOOLEAN \X BOOLEAN \X BOOLEAN
  /\ loop \in {"none", "drain", "check", "wait", "clear", "exit"}
  /\ backend \in [Producers -> BackendState]
  /\ control \in {"idle", "notify", "join"}
  /\ starts \in 0 .. MaxStarts

\* "Wakes processing thread if sleeping" (enqueue): the thread never sleeps on
\* a non-empty queue unless a backend is about to wake it.  The flag is cleared
\* after the wait and not before it, which is what this hangs on.
NoLostWakeup ==
  loop = "wait" /\ ~m_queue_notify /\ size > 0 =>
    \E p \in Producers : backend[p].at # "idle"

\* A value that is in the queue while the thread drains it, sleeps on it or is
\* being woken is dispatched, also when stop() is called meanwhile, and a value
\* a stop left behind is dispatched after the next start.  Left behind are the
\* values that arrive between the last empty pop and the stop test, in the
\* states "check" and "exit".
AllDispatched ==
  \A n \in 1 .. MaxPushes :
    (Len(accepted) >= n /\ loop \in {"drain", "wait", "clear"}) ~> (Len(delivered) >= n)

\* stop() returns: the thread it joins is always woken and leaves its loop.
StopReturns == control # "idle" ~> control = "idle"

\* "Backends push to queue from their threads (thread-safe)": with every
\* backend outside enqueue and the thread not inside pop, the values accepted
\* and not yet dispatched are the ones in the ring.
NothingLost ==
  (\A p \in Producers : backend[p].at = "idle") /\ (\A c \in Consumers : consumer[c].at = "idle")
    => Len(accepted) = Len(delivered) + size
==============================================================================
