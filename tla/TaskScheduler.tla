---------------------------- MODULE TaskScheduler ----------------------------
(***************************************************************************)
(* Vruta/Scheduler: the two pending queues of the task scheduler.          *)
(* Controllers on any thread add and cancel tasks: a call scans the slots  *)
(* of a queue for a free one, claims it, writes the entry and counts it.   *)
(* process_token drains the queue of timed tasks into m_tasks, on the      *)
(* audio thread and on the graphics thread alike; the conditional thread,  *)
(* once started, drains the other one into m_conditional_tasks.            *)
(*                                                                         *)
(* The lists are plain vectors.  An edit of one is two steps, the look at  *)
(* the list and the store of the edited one: of two drains of m_tasks that *)
(* overlap the later store wins, and both take the slot off the counter.   *)
(* A routine is alive from its add_task until its body returns or its      *)
(* should_terminate flag is set.  A slot that is drained between its claim *)
(* and its write is a torn operation.  The lists are sets of entries: a    *)
(* routine is added once, and order plays no part here.                    *)
(***************************************************************************)
EXTENDS Integers

CONSTANTS
  Controllers,   \* threads that call the scheduler
  Conditional,   \* routines whose token is CONDITIONAL
  Timed,         \* the other routines
  Names,         \* task names
  NoRoutine, NoName,
  TimedSlots,    \* MAX_PENDING_TASKS
  CondSlots,     \* MAX_PENDING_CONDITIONAL
  MaxCalls       \* bound on the calls made

Routines == Conditional \union Timed
Queues == {"timed", "cond"}
Size(q) == IF q = "timed" THEN TimedSlots ELSE CondSlots
QueueOf(r) == IF r \in Conditional THEN "cond" ELSE "timed"

\* The threads that drain, and the queue each one drains.
Drainers == {"audio", "graphics", "conditional"}
DrainedBy(d) == IF d = "conditional" THEN "cond" ELSE "timed"

VARIABLES
  slots,   \* slots[q][i]: PendingTaskOp
  count,   \* m_pending_count, m_conditional_pending_count; below zero for the
           \* values the unsigned counters wrap to
  tasks,   \* m_tasks, m_conditional_tasks
  state,   \* new, alive, done (the body returned) or terminated
  thread,  \* m_conditional_thread is joinable
  drain,   \* where each drainer is, and the list it is about to store
  ctl,     \* where each controller is, and the operation it carries
  calls,   \* calls made so far
  torn,    \* some slot was drained between its claim and its write
  raced,   \* some edit of a list began inside another edit of it
  promised \* routines a cancel_task(name) has returned true for

vars == <<slots, count, tasks, state, thread, drain, ctl, calls, torn, raced, promised>>

Empty == [active |-> FALSE, add |-> TRUE, routine |-> NoRoutine, name |-> NoName, by |-> "none"]
NoCall == [at |-> "idle", op |-> "none", routine |-> NoRoutine, name |-> NoName,
           q |-> "timed", i |-> 1, promise |-> {}]
NoDrain == [at |-> "idle", i |-> 1, list |-> {}]

Init ==
  /\ slots = [q \in Queues |-> [i \in 1 .. Size(q) |-> Empty]]
  /\ count = [q \in Queues |-> 0]
  /\ tasks = [q \in Queues |-> {}]
  /\ state = [r \in Routines |-> "new"]
  /\ thread = FALSE
  /\ drain = [d \in Drainers |-> NoDrain]
  /\ ctl = [c \in Controllers |-> NoCall]
  /\ calls = 0
  /\ torn = FALSE
  /\ raced = FALSE
  /\ promised = {}

Alive == {r \in Routines : state[r] = "alive"}
Listed(r) == \E e \in tasks[QueueOf(r)] : e.routine = r

------------------------------------------------------------------------------
(* add_task and cancel_task *)

\* promise holds the routines the call will have promised something about.
Begin(c, op, r, n, q, promise) ==
  /\ ctl[c].at = "idle" /\ calls < MaxCalls
  /\ calls' = calls + 1
  /\ ctl' = [ctl EXCEPT ![c] =
       [at |-> "claim", op |-> op, routine |-> r, name |-> n, q |-> q, i |-> 1,
        promise |-> promise]]

AddTask(c, r, n) ==
  /\ state[r] = "new"
  /\ Begin(c, "add", r, n, QueueOf(r), {})
  /\ state' = [state EXCEPT ![r] = "alive"]
  /\ UNCHANGED <<slots, count, tasks, thread, drain, torn, raced, promised>>

\* The name under which cancel_task(routine) finds the routine, NoName ("") if
\* it does not.
NameOf(r) ==
  IF Listed(r) THEN (CHOOSE e \in tasks[QueueOf(r)] : e.routine = r).name
               ELSE NoName

\* cancel_task(routine): the list is looked up on the caller's thread.
CancelRoutine(c, r) ==
  /\ state[r] # "new"
  /\ Begin(c, "cancel", r, NameOf(r), QueueOf(r), {})
  /\ UNCHANGED <<slots, count, tasks, state, thread, drain, torn, raced, promised>>

\* cancel_task(name): the slots of the conditional queue are tried first.
CancelName(c, n) ==
  /\ Begin(c, "named", NoRoutine, n, "cond", {r \in Routines : Listed(r) /\ NameOf(r) = n})
  /\ UNCHANGED <<slots, count, tasks, state, thread, drain, torn, raced, promised>>

\* Where the scan goes from a slot that is taken: the next slot; after the
\* conditional queue a cancel by name tries the timed one; otherwise the queue
\* is full and the call returns without effect.
NextSlot(k) ==
  IF k.i < Size(k.q) THEN [k EXCEPT !.i = @ + 1]
  ELSE IF k.q = "cond" /\ k.op # "add" THEN [k EXCEPT !.q = "timed", !.i = 1]
  ELSE NoCall

\* op.active.compare_exchange_strong(false, true).
Claim(c) ==
  LET k == ctl[c] IN
  /\ k.at = "claim"
  /\ IF slots[k.q][k.i].active
       THEN ctl' = [ctl EXCEPT ![c] = NextSlot(k)] /\ UNCHANGED slots
       ELSE /\ slots' = [slots EXCEPT ![k.q][k.i].active = TRUE, ![k.q][k.i].by = c]
            /\ ctl' = [ctl EXCEPT ![c].at = "write"]
  /\ UNCHANGED <<count, tasks, state, thread, drain, calls, torn, raced, promised>>

\* op.entry and op.is_addition; a cancel by name stores no routine.
Write(c) ==
  LET k == ctl[c] IN
  /\ k.at = "write"
  /\ slots' = [slots EXCEPT ![k.q][k.i] =
       [active |-> @.active, add |-> k.op = "add", name |-> k.name, by |-> "none",
        routine |-> IF k.op = "add" THEN k.routine ELSE NoRoutine]]
  /\ ctl' = [ctl EXCEPT ![c].at = "count"]
  /\ UNCHANGED <<count, tasks, state, thread, drain, calls, torn, raced, promised>>

\* fetch_add(1), and start_conditional_thread after a conditional add.
Count(c) ==
  LET k == ctl[c] IN
  /\ k.at = "count"
  /\ count' = [count EXCEPT ![k.q] = @ + 1]
  /\ thread' = (thread \/ (k.op = "add" /\ k.q = "cond"))
  /\ ctl' = [ctl EXCEPT ![c] = NoCall]
  /\ promised' = promised \union k.promise
  /\ UNCHANGED <<slots, tasks, state, drain, calls, torn, raced>>

------------------------------------------------------------------------------
(* drain_pending_tasks, drain_conditional_pending and the clean-up *)

Draining(d) == d = "conditional" => thread

\* The counter is looked at first.
DrainBegin(d) ==
  /\ Draining(d) /\ drain[d].at = "idle" /\ count[DrainedBy(d)] # 0
  /\ drain' = [drain EXCEPT ![d].at = "slot"]
  /\ UNCHANGED <<slots, count, tasks, state, thread, ctl, calls, torn, raced, promised>>

\* find_task_by_name: the first entry of the name, if there is one.
Found(list, n) ==
  LET named == {e \in list : e.name = n}
  IN IF named = {} THEN {} ELSE {CHOOSE e \in named : TRUE}

\* The entry that an addition stores.
Entry(op) == [routine |-> op.routine, name |-> op.name]

\* The list after a slot: the task of that name goes, an added one comes in.
Applied(list, op) ==
  (list \ Found(list, op.name)) \union (IF op.add THEN {Entry(op)} ELSE {})

\* The routine whose should_terminate flag the slot sets.
Evicted(list, op) == {e.routine : e \in Found(list, op.name)}

\* After the last slot the drain is over.
After(d) == IF drain[d].i < Size(DrainedBy(d))
              THEN [NoDrain EXCEPT !.at = "slot", !.i = drain[d].i + 1]
              ELSE NoDrain

\* Another thread is between its look at the list of queue q and its store.
Editing(q) == \E d \in Drainers : DrainedBy(d) = q /\ drain[d].at \in {"store", "clean"}

\* A slot is met: a free one is passed over, of an active one the entry and
\* the list are looked at and the task in its way is told to terminate.
DrainSlot(d) ==
  LET q == DrainedBy(d)
      op == slots[q][drain[d].i] IN
  /\ drain[d].at = "slot"
  /\ IF op.active
       THEN /\ drain' = [drain EXCEPT ![d].at = "store", ![d].list = Applied(tasks[q], op)]
            /\ state' = [r \in Routines |->
                 IF r \in Evicted(tasks[q], op) /\ state[r] = "alive"
                   THEN "terminated" ELSE state[r]]
            /\ torn' = (torn \/ op.by # "none")
            /\ raced' = (raced \/ Editing(q))
       ELSE /\ drain' = [drain EXCEPT ![d] = After(d)]
            /\ UNCHANGED <<state, torn, raced>>
  /\ UNCHANGED <<slots, count, tasks, thread, ctl, calls, promised>>

\* erase and push_back; then the slot is given back and taken off the counter.
DrainStore(d) ==
  LET q == DrainedBy(d) IN
  /\ drain[d].at = "store"
  /\ tasks' = [tasks EXCEPT ![q] = drain[d].list]
  /\ slots' = [slots EXCEPT ![q][drain[d].i] =
       [Empty EXCEPT !.add = slots[q][drain[d].i].add]]
  /\ count' = [count EXCEPT ![q] = @ - 1]
  /\ drain' = [drain EXCEPT ![d] = After(d)]
  /\ UNCHANGED <<state, thread, ctl, calls, torn, raced, promised>>

\* cleanup_completed_tasks, and the erase_if of pump_conditional.
CleanupFind(d) ==
  LET q == DrainedBy(d) IN
  /\ Draining(d) /\ drain[d].at = "idle"
  /\ \E e \in tasks[q] : e.routine \notin Alive
  /\ drain' = [drain EXCEPT ![d].at = "clean",
                            ![d].list = {e \in tasks[q] : e.routine \in Alive}]
  /\ raced' = (raced \/ Editing(q))
  /\ UNCHANGED <<slots, count, tasks, state, thread, ctl, calls, torn, promised>>

CleanupStore(d) ==
  /\ drain[d].at = "clean"
  /\ tasks' = [tasks EXCEPT ![DrainedBy(d)] = drain[d].list]
  /\ drain' = [drain EXCEPT ![d] = NoDrain]
  /\ UNCHANGED <<slots, count, state, thread, ctl, calls, torn, raced, promised>>

\* Between two drains the listed routines run, and a resumed body may return.
BodyReturns(d, r) ==
  /\ Draining(d) /\ drain[d].at = "idle" /\ DrainedBy(d) = QueueOf(r)
  /\ Listed(r) /\ state[r] = "alive"
  /\ state' = [state EXCEPT ![r] = "done"]
  /\ UNCHANGED <<slots, count, tasks, thread, drain, ctl, calls, torn, raced, promised>>

Working(c) == Claim(c) \/ Write(c) \/ Count(c)
Drain(d) == DrainBegin(d) \/ DrainSlot(d) \/ DrainStore(d) \/ CleanupStore(d)

Next ==
  \/ \E c \in Controllers :
       \/ \E r \in Routines : CancelRoutine(c, r) \/ \E n \in Names : AddTask(c, r, n)
       \/ \E n \in Names : CancelName(c, n)
       \/ Working(c)
  \/ \E d \in Drainers :
       \/ Drain(d) \/ CleanupFind(d)
       \/ \E r \in Routines : BodyReturns(d, r)

\* A call once begun goes on, the audio device and the display keep asking for
\* buffers and frames, and the conditional thread loops as long as it exists.
Spec ==
  /\ Init /\ [][Next]_vars
  /\ \A c \in Controllers : WF_vars(Working(c))
  /\ \A d \in Drainers : WF_vars(Drain(d))

------------------------------------------------------------------------------
\* cancel_task(name) "@return True if found and cancelled" (Scheduler.hpp): the
\* routine that has the name when the call is made stops, also when no slot is
\* torn and no two threads edit a list at once.
NamedCancelTakesEffect ==
  \A r \in Routines : r \in promised ~> state[r] # "alive" \/ torn \/ raced
==============================================================================
