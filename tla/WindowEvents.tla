----------------------------- MODULE WindowEvents ----------------------------
(***************************************************************************)
(* Vruta/WindowEventSource, Kriya/Awaiters/EventAwaiter, the handler       *)
(* coroutines of Kriya/InputEvents and Vruta/EventManager.                 *)
(*                                                                         *)
(* One thread, re-entered, as where handlers are added and windows polled  *)
(* on one thread.  (A window can also signal on the graphics thread beside *)
(* a caller that adds and removes handlers: nothing in the source, in the  *)
(* awaiter or in the manager is locked, and this module says nothing of    *)
(* that use.)                                                              *)
(*                                                                         *)
(* signal() queues the event and offers it to a copy of the waiter list; a *)
(* waiter that matches takes the oldest pending event of its filter and    *)
(* runs its callback on the spot, and the callback may signal again, add   *)
(* and remove.  stack holds the dispatch loops under way, the innermost    *)
(* last.  A handler lives while the manager refers to it; its destruction  *)
(* takes its awaiter out of the waiter list, not out of the copies: a      *)
(* dispatch may resume a destroyed frame, which here goes on as its memory *)
(* was left, or never does.  The list and its copies are sets: in which    *)
(* order the waiters of an event are gone through is left open.            *)
(***************************************************************************)
EXTENDS Naturals, Sequences, SequencesExt

CONSTANTS
  PressHandlers,  \* handlers that wait for presses (key_pressed)
  KeyHandlers,    \* handlers that wait for either type (key_held)
  Named,          \* the handlers that are added under one and the same name
  NoHandler,      \* no handler
  MaxEvents       \* bound on the events signalled

Handlers == PressHandlers \union KeyHandlers

ASSUME HandlersAssumption ==
  /\ NoHandler \notin Handlers
  /\ MaxEvents \in Nat

Types == {"press", "release"}

VARIABLES
  m_pending_events, m_waiters,
  m_events, named,  \* EventManager: m_events, and the holder of the name
  st,     \* new, live (added), done (its loop has ended) or gone (destroyed)
  term,   \* should_terminate
  stack,  \* the dispatch loops under way
  sent,   \* events signalled so far
  log     \* the events received, in order

source == <<m_pending_events, m_waiters>>
manager == <<m_events, named>>
vars == <<source, manager, st, term, stack, sent, log>>

Init ==
  /\ m_pending_events = << >> /\ m_waiters = {}
  /\ m_events = {} /\ named = NoHandler
  /\ st = [h \in Handlers |-> "new"]
  /\ term = [h \in Handlers |-> FALSE]
  /\ stack = << >> /\ sent = 0 /\ log = << >>

Idle == stack = << >>
Top == Last(stack)
InCallback == ~Idle /\ Top.cur # NoHandler
Rest == Front(stack)
Loop(type, todo, h) == [type |-> type, todo |-> todo, cur |-> h]

\* filter_matches.
Matches(h, type) == h \in KeyHandlers \/ type = "press"

\* The places in the queue of the events that pop_event(filter of h) accepts.
Candidates(h) == {i \in 1 .. Len(m_pending_events) : Matches(h, m_pending_events[i].type)}

\* Variant: the newest matching event is taken.
Popped_newest(h) == CHOOSE i \in Candidates(h) : \A j \in Candidates(h) : j <= i

\* The place of the event pop_event returns: the oldest match.
Popped(h) == CHOOSE i \in Candidates(h) : \A j \in Candidates(h) : i <= j

\* h takes its event and its callback begins.
Receive(h) ==
  /\ log' = Append(log, m_pending_events[Popped(h)])
  /\ m_pending_events' = RemoveAt(m_pending_events, Popped(h))

\* co_await WindowEventAwaiter on top of the dispatch loops rest: await_ready
\* takes a pending event, or await_suspend registers the awaiter.
Await(h, rest, loop, waiters) ==
  IF Candidates(h) # {}
    THEN /\ Receive(h)
         /\ stack' = Append(rest, [loop EXCEPT !.cur = h])
         /\ m_waiters' = waiters
    ELSE /\ m_waiters' = waiters \union {h}
         /\ stack' = Append(rest, [loop EXCEPT !.cur = NoHandler])
         /\ UNCHANGED <<m_pending_events, log>>

------------------------------------------------------------------------------
(* signal and dispatch *)

Signal(type) ==
  /\ sent < MaxEvents
  /\ Idle \/ InCallback
  /\ sent' = sent + 1
  /\ m_pending_events' = Append(m_pending_events, [id |-> sent + 1, type |-> type])
  /\ stack' = IF m_waiters = {} THEN stack ELSE Append(stack, Loop(type, m_waiters, NoHandler))
  /\ UNCHANGED <<m_waiters, manager, st, term, log>>

\* A waiter of the copied list: WindowEventAwaiter::try_resume.
TryResume(h) ==
  /\ ~Idle /\ Top.cur = NoHandler /\ h \in Top.todo
  /\ LET loop == [Top EXCEPT !.todo = @ \ {h}]
     IN IF Matches(h, Top.type) /\ Candidates(h) # {}
          THEN /\ Receive(h)
               /\ m_waiters' = m_waiters \ {h}
               /\ stack' = Append(Rest, [loop EXCEPT !.cur = h])
          ELSE stack' = Append(Rest, loop) /\ UNCHANGED <<source, log>>
  /\ UNCHANGED <<manager, st, term, sent>>

\* The callback returns to the handler's loop, which ends or waits again.
CallbackReturns ==
  /\ InCallback
  /\ IF term[Top.cur]
       THEN /\ st' = [st EXCEPT ![Top.cur] = IF @ = "gone" THEN @ ELSE "done"]
            /\ stack' = Append(Rest, [Top EXCEPT !.cur = NoHandler])
            /\ UNCHANGED <<source, log>>
       ELSE Await(Top.cur, Rest, Top, m_waiters) /\ UNCHANGED st
  /\ UNCHANGED <<manager, term, sent>>

DispatchEnds ==
  /\ ~Idle /\ Top.cur = NoHandler /\ Top.todo = {}
  /\ stack' = Rest
  /\ UNCHANGED <<source, manager, st, term, sent, log>>

------------------------------------------------------------------------------
(* EventManager *)

Allowed == Idle \/ InCallback

\* ~WindowEventAwaiter of the handlers that are destroyed.
Unregistered(gone) == m_waiters \ gone

\* The handlers the manager no longer refers to are destroyed.
Gone(before, after) == {h \in before : h \notin after /\ st[h] # "gone"}
Held(events, holder) == events \union {holder}

\* add_event: a taken name loses its old event, then the coroutine runs up to
\* its first wait.
AddEvent(h) ==
  /\ Allowed /\ st[h] = "new"
  /\ LET old == IF h \in Named THEN {named} \ {NoHandler} ELSE {}
     IN /\ m_events' = (m_events \ old) \union {h}
        /\ named' = IF h \in Named THEN h ELSE named
        /\ Await(h, stack, Loop("none", {}, NoHandler), Unregistered(old))
        /\ st' = [x \in Handlers |-> IF x \in old THEN "gone" ELSE IF x = h THEN "live" ELSE st[x]]
  /\ UNCHANGED <<term, sent>>

\* The effect of a removal that leaves the manager with events and holder, and
\* of the flags it raises first.
LetGo(cancelled, events, holder) ==
  LET gone == Gone(Held(m_events, named) \ {NoHandler}, Held(events, holder))
  IN /\ m_events' = events /\ named' = holder
     /\ term' = [h \in Handlers |-> term[h] \/ (h \in cancelled /\ st[h] \notin {"done", "gone"})]
     /\ st' = [h \in Handlers |-> IF h \in gone THEN "gone" ELSE st[h]]
     /\ m_waiters' = Unregistered(gone)
     /\ UNCHANGED <<m_pending_events, stack, sent, log>>

\* cancel_event(name).
CancelName ==
  /\ Allowed /\ named # NoHandler
  /\ LetGo({named}, m_events \ {named}, NoHandler)

\* cancel_event(event): the name keeps its event.
CancelEvent(h) ==
  /\ Allowed /\ h \in m_events
  /\ LetGo({h}, m_events \ {h}, named)

\* terminate_all_events: the names keep their events here too.
TerminateAll ==
  /\ Allowed /\ m_events # {}
  /\ LetGo(m_events, {}, named)

\* cleanup_completed_events.
Cleanup ==
  /\ Allowed
  /\ LET kept == {h \in Handlers : st[h] # "done"}
     IN LetGo({}, m_events \intersect kept, IF named \in kept THEN named ELSE NoHandler)

Next ==
  \/ \E type \in Types : Signal(type)
  \/ CallbackReturns \/ DispatchEnds
  \/ \E h \in Handlers : TryResume(h) \/ AddEvent(h) \/ CancelEvent(h)
  \/ CancelName \/ TerminateAll \/ Cleanup

Spec == Init /\ [][Next]_vars

------------------------------------------------------------------------------
(* Properties *)

\* Events of one type are received in the order they were signalled and each
\* of them once, however many handlers share the type, callbacks nest and
\* handlers are removed.
ReceivedInOrder ==
  \A i, j \in 1 .. Len(log) : i < j /\ log[i].type = log[j].type => log[i].id < log[j].id
==============================================================================
