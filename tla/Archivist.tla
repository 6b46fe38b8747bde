------------------------------ MODULE Archivist ------------------------------
(***************************************************************************)
(* The journal (Journal/Archivist.cpp): real-time threads log through an   *)
(* MPSC ring (scribe_rt), the others through an SPSC ring behind a spin    *)
(* lock (scribe); a worker thread drains both every 10 ms, shutdown() and  *)
(* flush() drain them from the thread that calls.                          *)
(*                                                                         *)
(* The real-time ring is module MPSCQueue, access by access.  The other    *)
(* ring is used through its promise: how many entries it took and gave     *)
(* back, which is what LockFreeQueue is proved to keep of FifoQueue for    *)
(* one producer (the spin lock) and one consumer (where two threads drain  *)
(* at once, which shared records, nothing is said of it).  The filters,    *)
(* the sinks and the text of entries are left out: an entry is one that    *)
(* should_log lets through, named by the thread that wrote it.             *)
(***************************************************************************)
EXTENDS MPSCQueue

CONSTANTS Worker,      \* m_worker_thread
          Callers,     \* threads that call shutdown
          Flushers,    \* those of them that also call flush
          NoThread,    \* m_push_lock is clear
          RingLimit,   \* what m_ring_buffer holds at once
          MaxScribes,  \* bound on the calls of scribe
          MaxEntries,  \* bound on the calls of scribe and scribe_rt together
          MaxCalls     \* bound on the calls of shutdown and flush

ASSUME ArchivistAssumption ==
  /\ Flushers \subseteq Callers
  /\ Worker \notin Callers /\ Consumers = Callers \cup {Worker}
  /\ NoThread \notin Producers /\ Producers \subseteq Values /\ IsFiniteSet(Producers)
  /\ {RingLimit, MaxScribes, MaxEntries, MaxCalls} \subseteq Nat

VARIABLES
  initialized, running, closing, accepting,  \* the four flags of Impl
  dropped,    \* m_dropped_messages
  reported,   \* history: the drops the journal has told of
  writer,     \* writer[p]: where scribe or scribe_rt is
  lock,       \* m_push_lock: its holder
  entered, written,  \* m_ring_buffer: the entries it accepted and delivered
  at,         \* at[c]: where the worker, shutdown, flush or ~Impl is
  drain,      \* drain[c]: where its drain_ring_buffer is
  calls,      \* calls of scribe, and of shutdown and flush, so far
  owed,       \* history: what was in the rings when the worker was told to stop
  shared      \* history: two threads were in drain_ring_buffer at once

flags == <<initialized, running, closing, accepting>>
counts == <<dropped, reported>>
ring == <<entered, written>>
threads == <<at, drain>>
avars == <<vars, flags, counts, writer, lock, ring, threads, calls, owed, shared>>

\* Impl() and init(): the worker starts with the first use of instance().
AInit ==
  /\ Init
  /\ initialized = TRUE /\ running = TRUE /\ closing = FALSE /\ accepting = TRUE
  /\ dropped = 0 /\ reported = 0
  /\ writer = [p \in Producers |-> "idle"]
  /\ lock = NoThread
  /\ entered = 0 /\ written = 0
  /\ at = [c \in Consumers |-> IF c = Worker THEN "sleep" ELSE "idle"]
  /\ drain = [c \in Consumers |-> "out"]
  /\ calls = [scribe |-> 0, control |-> 0]
  /\ owed = [rt |-> 0, ring |-> 0]
  /\ shared = FALSE

------------------------------------------------------------------------------
(* scribe_rt: push into the MPSC ring, count the entry if it is refused *)

ScribeRt(p) ==
  /\ writer[p] = "idle" /\ accepting
  /\ calls.scribe + claim_index < MaxEntries
  /\ PushClaim(p, p)
  /\ writer' = [writer EXCEPT ![p] = "rt"]
  /\ UNCHANGED <<flags, counts, lock, ring, threads, calls, owed, shared>>

RtPush(p) ==
  /\ Push(p)
  /\ writer' = [writer EXCEPT ![p] = IF producer'[p].at # "idle" THEN @
                                     ELSE IF refused' # refused THEN "drop" ELSE "idle"]
  /\ UNCHANGED <<flags, counts, lock, ring, threads, calls, owed, shared>>

\* m_dropped_messages.fetch_add(1), at the end of scribe and of scribe_rt.
Drop(p) ==
  /\ writer[p] = "drop"
  /\ dropped' = dropped + 1
  /\ writer' = [writer EXCEPT ![p] = "idle"]
  /\ UNCHANGED <<vars, flags, reported, lock, ring, threads, calls, owed, shared>>

------------------------------------------------------------------------------
(* scribe: push into the SPSC ring under m_push_lock *)

Scribe(p) ==
  /\ writer[p] = "idle" /\ accepting
  /\ calls.scribe < MaxScribes /\ calls.scribe + claim_index < MaxEntries
  /\ calls' = [calls EXCEPT !.scribe = @ + 1]
  /\ writer' = [writer EXCEPT ![p] = "spin"]
  /\ UNCHANGED <<vars, flags, counts, lock, ring, threads, owed, shared>>

\* test_and_set finds the flag clear.
Lock(p) ==
  /\ writer[p] = "spin" /\ lock = NoThread
  /\ lock' = p
  /\ writer' = [writer EXCEPT ![p] = "push"]
  /\ UNCHANGED <<vars, flags, counts, ring, threads, calls, owed, shared>>

RingPush(p) ==
  /\ writer[p] = "push"
  /\ \/ /\ entered - written < RingLimit
        /\ entered' = entered + 1
        /\ writer' = [writer EXCEPT ![p] = "pushed"]
     \/ /\ entered - written = RingLimit
        /\ writer' = [writer EXCEPT ![p] = "full"]
        /\ UNCHANGED entered
  /\ UNCHANGED <<vars, flags, counts, written, lock, threads, calls, owed, shared>>

Unlock(p) ==
  /\ writer[p] \in {"pushed", "full"}
  /\ lock' = NoThread
  /\ writer' = [writer EXCEPT ![p] = IF @ = "pushed" THEN "idle" ELSE "drop"]
  /\ UNCHANGED <<vars, flags, counts, ring, threads, calls, owed, shared>>

Writer(p) == RtPush(p) \/ Drop(p) \/ Lock(p) \/ RingPush(p) \/ Unlock(p)

------------------------------------------------------------------------------
(* drain_ring_buffer, on whichever thread calls it *)

DrainRt(c) ==
  /\ drain[c] = "rt"
  /\ PopFound(c)
  /\ UNCHANGED <<flags, counts, writer, lock, ring, threads, calls, owed, shared>>

DrainRtEnd(c) ==
  /\ drain[c] = "rt"
  /\ PopEmpty(c)
  /\ drain' = [drain EXCEPT ![c] = "ring"]
  /\ UNCHANGED <<flags, counts, writer, lock, ring, at, calls, owed, shared>>

DrainRing(c) ==
  /\ drain[c] = "ring"
  /\ \/ written < entered /\ written' = written + 1 /\ UNCHANGED drain
     \/ written = entered /\ drain' = [drain EXCEPT ![c] = "report"] /\ UNCHANGED written
  /\ UNCHANGED <<vars, flags, counts, writer, lock, entered, at, calls, owed, shared>>

\* Where a thread goes on once its drain is over.
AfterDrain(c) == CASE at[c] = "drain" -> IF c = Worker THEN "sleep" ELSE "reset"
                   [] at[c] = "last"  -> "ended"
                   [] at[c] = "flush" -> "idle"

\* Variant: the counter is read and not reset.
Report_not_reset(c) ==
  /\ drain[c] = "report"
  /\ reported' = reported + dropped
  /\ drain' = [drain EXCEPT ![c] = "out"]
  /\ at' = [at EXCEPT ![c] = AfterDrain(c)]
  /\ UNCHANGED <<vars, flags, dropped, writer, lock, ring, calls, owed, shared>>

\* m_dropped_messages.exchange(0).
Report(c) ==
  /\ drain[c] = "report"
  /\ reported' = reported + dropped
  /\ dropped' = 0
  /\ drain' = [drain EXCEPT ![c] = "out"]
  /\ at' = [at EXCEPT ![c] = AfterDrain(c)]
  /\ UNCHANGED <<vars, flags, writer, lock, ring, calls, owed, shared>>

Drain(c) == DrainRt(c) \/ DrainRtEnd(c) \/ DrainRing(c) \/ Report(c)

\* Thread c calls drain_ring_buffer and will be at place there.
Enter(c, place) == /\ at' = [at EXCEPT ![c] = place]
                   /\ drain' = [drain EXCEPT ![c] = "rt"]
                   /\ shared' = (shared \/ \E d \in Consumers \ {c} : drain[d] # "out")

------------------------------------------------------------------------------
(* worker_loop *)

\* Variant: the loop ends without the drain that follows it.
WorkerTest_no_last_drain ==
  /\ at[Worker] = "sleep"
  /\ IF running THEN Enter(Worker, "drain")
     ELSE at' = [at EXCEPT ![Worker] = "ended"] /\ UNCHANGED <<drain, shared>>
  /\ UNCHANGED <<vars, flags, counts, writer, lock, ring, calls, owed>>

\* The sleep of 10 ms ends (the first time there is none) and the loop tests
\* m_worker_running.
WorkerTest ==
  /\ at[Worker] = "sleep"
  /\ Enter(Worker, IF running THEN "drain" ELSE "last")
  /\ UNCHANGED <<vars, flags, counts, writer, lock, ring, calls, owed>>

------------------------------------------------------------------------------
(* shutdown, flush and ~Impl *)

\* The entries whose scribe has returned, on the real-time ring counted up to
\* the first claim that is still being written.
Entered == [rt |-> CHOOSE n \in 0 .. claim_index :
                     /\ \A p \in Producers : producer[p].at # "idle" => n <= producer[p].claim
                     /\ \/ n = claim_index
                        \/ \E p \in Producers : producer[p].at # "idle" /\ producer[p].claim = n,
            ring |-> entered]

CanCall(c) == at[c] = "idle" /\ calls.control < MaxCalls /\ accepting

\* shutdown() returns at once when the journal is not initialised.
Shutdown(c) ==
  /\ CanCall(c)
  /\ at' = [at EXCEPT ![c] = IF initialized THEN "enter" ELSE "idle"]
  /\ calls' = [calls EXCEPT !.control = @ + 1]
  /\ UNCHANGED <<vars, flags, counts, writer, lock, ring, drain, owed, shared>>

\* m_shutdown_in_progress.exchange(true): the second caller returns.
ShutdownEnter(c) ==
  /\ at[c] = "enter"
  /\ closing' = TRUE
  /\ at' = [at EXCEPT ![c] = IF closing THEN "idle" ELSE "lower"]
  /\ UNCHANGED <<vars, initialized, running, accepting, counts, writer, lock, ring, drain,
                 calls, owed, shared>>

\* Variant: the worker is not told to stop.
ShutdownLower_not(c) ==
  /\ at[c] = "lower"
  /\ at' = [at EXCEPT ![c] = "join"]
  /\ UNCHANGED <<vars, flags, counts, writer, lock, ring, drain, calls, owed, shared>>

\* m_worker_running.store(false), in shutdown.
ShutdownLower(c) ==
  /\ at[c] = "lower"
  /\ running' = FALSE
  /\ owed' = IF running THEN Entered ELSE owed
  /\ at' = [at EXCEPT ![c] = "join"]
  /\ UNCHANGED <<vars, initialized, closing, accepting, counts, writer, lock, ring, drain,
                 calls, shared>>

\* join, then drain once more.
ShutdownJoin(c) ==
  /\ at[c] = "join" /\ at[Worker] = "ended"
  /\ Enter(c, "drain")
  /\ UNCHANGED <<vars, flags, counts, writer, lock, ring, calls, owed>>

ShutdownReset(c) ==
  /\ \/ at[c] = "reset" /\ initialized' = FALSE /\ UNCHANGED closing
        /\ at' = [at EXCEPT ![c] = "leave"]
     \/ at[c] = "leave" /\ closing' = FALSE /\ UNCHANGED initialized
        /\ at' = [at EXCEPT ![c] = "idle"]
  /\ UNCHANGED <<vars, running, accepting, counts, writer, lock, ring, drain, calls, owed, shared>>

\* flush(); error() and fatal() call it on the thread that reports, whoever
\* else drains.
Flush(c) ==
  /\ c \in Flushers /\ CanCall(c)
  /\ Enter(c, "flush")
  /\ calls' = [calls EXCEPT !.control = @ + 1]
  /\ UNCHANGED <<vars, flags, counts, writer, lock, ring, owed>>

\* ~Impl, when the program's other threads have ended: no entry and no call
\* is under way, and none begins.
Destroy ==
  /\ accepting
  /\ \A p \in Producers : writer[p] = "idle"
  /\ \A c \in Callers : at[c] = "idle"
  /\ accepting' = FALSE
  /\ running' = FALSE
  /\ owed' = IF running THEN Entered ELSE owed
  /\ UNCHANGED <<vars, initialized, closing, counts, writer, lock, ring, threads, calls, shared>>

Call(c) == ShutdownEnter(c) \/ ShutdownLower(c) \/ ShutdownJoin(c) \/ ShutdownReset(c)

------------------------------------------------------------------------------
ANext ==
  \/ \E p \in Producers : Scribe(p) \/ ScribeRt(p) \/ Writer(p)
  \/ \E c \in Consumers : Drain(c)
  \/ WorkerTest
  \/ \E c \in Callers : Shutdown(c) \/ Flush(c) \/ Call(c)
  \/ Destroy

\* Threads that are inside a call go on, and the worker wakes from its sleep.
\* Nobody has to log, to flush or to shut down.
ASpec == /\ AInit /\ [][ANext]_avars
         /\ \A p \in Producers : WF_avars(Writer(p))
         /\ \A c \in Consumers : WF_avars(Drain(c))
         /\ WF_avars(WorkerTest)
         /\ \A c \in Callers : WF_avars(Call(c))

------------------------------------------------------------------------------
Times(v, seq) == Cardinality({k \in DOMAIN seq : seq[k] = v})

\* drain_ring_buffer is "Safe to call from any thread": whoever drains, no
\* real-time entry is written more often than it was logged (one of a ring
\* that no push was lapped on).
WrittenOnce == ~lapped => \A p \in Producers : Times(p, delivered) <= Times(p, claimed)

\* The calls of scribe whose push was refused.
RingRefused == calls.scribe - entered
                 - Cardinality({p \in Producers : writer[p] \in {"spin", "push"}})

\* No drop goes unaccounted for and none is told twice, however the threads
\* that count race with the drain that resets the counter.
DropsAccounted ==
  dropped + reported
    + Cardinality({p \in Producers : writer[p] \in {"full", "drop"}})
  = Cardinality(refused) + RingRefused

\* Everything that was due has been written: what is in the rings while the
\* worker runs, what was in them when it was told to stop afterwards.  The
\* rings are for one consumer, so this is for as long as no two threads were
\* draining at once; on the real-time ring also for as long as no entry was
\* refused (a refused claim leaves a gap behind which later entries wait, see
\* push_mpsc) and no push was lapped.
CaughtUp == ~shared => LET due == IF running THEN Entered ELSE owed IN
  /\ refused = {} /\ ~lapped => Len(delivered) >= due.rt
  /\ written >= due.ring

\* When shutdown() has returned, or ~Impl has joined the worker, every entry
\* that was in the rings before the worker was told to stop has been written.
OwedIsWritten == ~initialized \/ (~accepting /\ at[Worker] = "ended") => CaughtUp

\* The journal catches up again and again, whether it is left running, shut
\* down or destroyed.
KeepsUp == []<>CaughtUp

\* shutdown() returns to whoever calls it, worker and second caller
\* notwithstanding.
ShutdownReturns == \A c \in Callers : at[c] = "enter" ~> at[c] = "idle"
==============================================================================
