--------------------------- MODULE BroadcastSource ---------------------------
(***************************************************************************)
(* Vruta/BroadcastSource and Kriya's BroadcastAwaiter: one coroutine waits *)
(* for values that threads signal.  Owner is the thread that adds the      *)
(* handler and runs it to its first suspension; from then on the handler   *)
(* (Kriya::on_signal) runs inside the signal that resumes it.              *)
(*                                                                         *)
(* A thread is at one access of the shared members at a time.  The awaiter *)
(* of every round is at the same place in the coroutine's frame, so a      *)
(* waiter is registered or not.  A value is the number of its signal.      *)
(***************************************************************************)
EXTENDS Naturals

CONSTANTS
  Signallers, Owner,
  NoValue,
  MaxSignals   \* bound on the signals

VARIABLES
  m_waiter,                         \* whether an awaiter is registered
  m_pending_value, m_pending_flag,
  m_is_suspended, m_result,         \* of the awaiter
  where,                            \* what each thread is about to do
  inhand,                           \* the value a thread signals or has popped
  terminating,                      \* should_terminate of the event's promise
  sent, gone                        \* signals begun, coroutine over

source == <<m_waiter, m_pending_value, m_pending_flag>>
awaiter == <<m_is_suspended, m_result>>
history == <<terminating, sent, gone>>
bvars == <<source, awaiter, where, inhand, history>>

Threads == Signallers \union {Owner}

\* The places of a thread that runs the coroutine.  One at "check" has registered the
\* awaiter and may find that another has resumed the coroutine.
InCoroutine ==
  {"ready", "take", "consume", "register", "retake", "reconsume", "unregister", "body"}
InSignal == {"deliver", "value", "flag"}
Places == InCoroutine \union InSignal \union {"idle", "check"}

BInit ==
  /\ m_waiter = FALSE /\ m_pending_value = NoValue /\ m_pending_flag = FALSE
  /\ m_is_suspended = FALSE /\ m_result = NoValue
  /\ where = [t \in Threads |-> IF t = Owner THEN "ready" ELSE "idle"]
  /\ inhand = [t \in Threads |-> NoValue]
  /\ terminating = FALSE /\ sent = 0 /\ gone = FALSE

Move(t, from, to) == where[t] = from /\ where' = [where EXCEPT ![t] = to]

\* What an access of the plain member m_pending_value yields that should yield v: any
\* value while another thread writes it.
Accessed(t, v) ==
  IF \E u \in Threads \ {t} : where[u] = "value" THEN 0 .. sent \union {NoValue} ELSE {v}

------------------------------------------------------------------------------
(* signal *)

\* The exchange of m_waiter, on any thread at any time.
BeginSignal(t) ==
  /\ sent < MaxSignals
  /\ Move(t, "idle", IF m_waiter THEN "deliver" ELSE "value")
  /\ m_waiter' = FALSE
  /\ sent' = sent + 1
  /\ inhand' = [inhand EXCEPT ![t] = sent + 1]
  /\ UNCHANGED <<m_pending_value, m_pending_flag, awaiter, terminating, gone>>

\* BroadcastAwaiter::deliver resumes the coroutine on this thread.  (One whose frame is
\* gone has no behaviour to model: the thread stays here.)
Deliver(t) ==
  /\ ~gone
  /\ Move(t, "deliver", "body")
  /\ m_result' = inhand[t] /\ m_is_suspended' = FALSE
  /\ UNCHANGED <<source, inhand, history>>

StoreValue(t) ==
  /\ Move(t, "value", "flag")
  /\ m_pending_value' \in Accessed(t, inhand[t])
  /\ UNCHANGED <<m_waiter, m_pending_flag, awaiter, inhand, history>>

RaiseFlag(t) ==
  /\ Move(t, "flag", "idle")
  /\ m_pending_flag' = TRUE
  /\ UNCHANGED <<m_waiter, m_pending_value, awaiter, inhand, history>>

------------------------------------------------------------------------------
(* co_await source->next() *)

\* pop_pending of await_ready.
AwaitReady(t) ==
  /\ Move(t, "ready", IF m_pending_flag THEN "take" ELSE "register")
  /\ UNCHANGED <<source, awaiter, inhand, history>>

\* T val = m_pending_value
PopValue(t) ==
  /\ Move(t, "take", "consume") \/ Move(t, "retake", "reconsume")
  /\ \E v \in Accessed(t, m_pending_value) : inhand' = [inhand EXCEPT ![t] = v]
  /\ UNCHANGED <<source, awaiter, history>>

\* m_pending_flag.store(false), and the value goes into m_result when the coroutine
\* has not suspended.
ConsumeFlag(t) ==
  /\ \/ Move(t, "consume", "body") /\ m_result' = inhand[t]
     \/ Move(t, "reconsume", "unregister") /\ UNCHANGED m_result
  /\ m_pending_flag' = FALSE
  /\ UNCHANGED <<m_waiter, m_pending_value, m_is_suspended, inhand, history>>

\* await_suspend, up to register_waiter.
Register(t) ==
  /\ Move(t, "register", "check")
  /\ m_is_suspended' = TRUE /\ m_waiter' = TRUE
  /\ UNCHANGED <<m_pending_value, m_pending_flag, m_result, inhand, history>>

\* pop_pending of await_suspend; when it finds nothing the coroutine stays suspended and
\* the thread returns from it.
AwaitSuspend(t) ==
  /\ Move(t, "check", IF m_pending_flag THEN "retake" ELSE "idle")
  /\ UNCHANGED <<source, awaiter, inhand, history>>

\* unregister_waiter, and await_suspend returns false.
Unregister(t) ==
  /\ Move(t, "unregister", "body")
  /\ m_waiter' = FALSE
  /\ m_result' = inhand[t] /\ m_is_suspended' = FALSE
  /\ UNCHANGED <<m_pending_value, m_pending_flag, inhand, history>>

\* await_resume, the callback and the test of should_terminate.
Handle(t) ==
  /\ Move(t, "body", IF terminating THEN "idle" ELSE "ready")
  /\ gone' = (gone \/ terminating)
  /\ m_is_suspended' = FALSE
  /\ UNCHANGED <<source, m_result, inhand, terminating, sent>>

------------------------------------------------------------------------------
(* The owner, once its call has returned *)

\* EventManager::cancel_event of an event that somebody else still refers to.
CancelEvent ==
  /\ ~gone /\ where[Owner] = "idle"
  /\ terminating' = TRUE
  /\ UNCHANGED <<source, awaiter, where, inhand, sent, gone>>

\* The last reference to a suspended handler goes: its frame is destroyed, and with it
\* the awaiter.
DropEvent ==
  /\ ~gone /\ where[Owner] = "idle"
  /\ \A t \in Threads : where[t] \notin InCoroutine
  /\ gone' = TRUE
  /\ m_waiter' = (m_waiter /\ ~m_is_suspended)
  /\ UNCHANGED <<m_pending_value, m_pending_flag, awaiter, where, inhand, terminating,
                 sent>>

\* clear().
DiscardPending ==
  /\ m_pending_flag' = FALSE
  /\ UNCHANGED <<m_waiter, m_pending_value, awaiter, where, inhand, history>>

BNext ==
  \/ \E t \in Signallers : BeginSignal(t) \/ Deliver(t) \/ StoreValue(t) \/ RaiseFlag(t)
  \/ \E t \in Threads : \/ AwaitReady(t) \/ PopValue(t) \/ ConsumeFlag(t)
                        \/ Register(t) \/ AwaitSuspend(t) \/ Unregister(t) \/ Handle(t)
  \/ CancelEvent \/ DropEvent \/ DiscardPending

BSpec == BInit /\ [][BNext]_bvars

------------------------------------------------------------------------------
(* Properties *)

\* The threads that have the coroutine: they run it, or are about to resume it.
Holders == {t \in Threads : where[t] \in InCoroutine \union {"deliver"}}

\* However signals and awaits cross, the coroutine is never lost: until it ends, it is
\* registered or in the hands of a thread.
NeverLost == gone \/ m_waiter \/ Holders # {}

\* "signal() may be called from any thread at any time" (BroadcastSource.hpp): whatever
\* the signals, no two threads have the coroutine at once; a signal does not resume it
\* while await_suspend goes on by itself.
OneRuns == \A t, u \in Holders : t = u
==============================================================================
