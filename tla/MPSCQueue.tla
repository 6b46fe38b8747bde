------------------------------ MODULE MPSCQueue ------------------------------
(***************************************************************************)
(* RingBuffer<T, FixedStorage, MPSCPolicy, QueueAccess>: the ring several  *)
(* threads push into and one thread pops from (the journal's real-time     *)
(* ring).  A push claims an index with fetch_add, looks at the ready flag  *)
(* of the slot it maps to, and either gives up or assigns the slot and     *)
(* raises the flag.  claim_index only ever grows; the consumer's           *)
(* read_index is a slot number.                                            *)
(***************************************************************************)
EXTENDS Naturals, Sequences, FiniteSets

CONSTANTS Capacity,   \* slots
          Producers,  \* threads that call push
          Consumers,  \* threads that call pop (the class allows one at a time)
          Values,     \* what can be pushed
          Default,    \* the value-initialised element
          MaxClaims   \* bound on the calls of push in a behaviour

ASSUME MPSCAssumption ==
  /\ Capacity \in Nat \ {0}
  /\ MaxClaims \in Nat

VARIABLES
  buffer, ready_flags,
  claim_index, read_index,
  producer,   \* producer[p]: where push is, and its locals
  consumer,   \* consumer[c]: where pop is, and its locals
  claimed,    \* history: claimed[k + 1] is what the push that claimed k pushes
  refused,    \* history: the claims whose push returned false
  delivered,  \* history: what pop returned
  lapped      \* history: a push claimed the slot another push still had in hand

vars == <<buffer, ready_flags, claim_index, read_index, producer, consumer,
          claimed, refused, delivered, lapped>>

Slots == 0 .. Capacity - 1
Cells == Values \cup {Default}
Claims == 0 .. MaxClaims - 1

slot(k) == k % Capacity

increment(i) == (i + 1) % Capacity

Init == /\ buffer = [s \in Slots |-> Default]
        /\ ready_flags = [s \in Slots |-> FALSE]
        /\ claim_index = 0
        /\ read_index = 0
        /\ producer = [p \in Producers |-> [at |-> "idle", claim |-> 0]]
        /\ consumer = [c \in Consumers |-> [at |-> "idle", slot |-> 0, value |-> Default]]
        /\ claimed = <<>>
        /\ refused = {}
        /\ delivered = <<>>
        /\ lapped = FALSE

------------------------------------------------------------------------------
(* push_mpsc *)

Laps(q) == producer[q].at # "idle" /\ claim_index - producer[q].claim >= Capacity

\* claim_index.fetch_add(1).  Nothing keeps the claims from going all the way
\* round under a push that is slow.
PushClaim(p, v) ==
  /\ producer[p].at = "idle"
  /\ claim_index < MaxClaims
  /\ producer' = [producer EXCEPT ![p] = [at |-> "test", claim |-> claim_index]]
  /\ claim_index' = claim_index + 1
  /\ claimed' = Append(claimed, v)
  /\ lapped' = (lapped \/ \E q \in Producers : Laps(q))
  /\ UNCHANGED <<buffer, ready_flags, read_index, consumer, refused, delivered>>

\* The slot still holds an unread value: push returns false.
PushRefused(p) ==
  /\ producer[p].at = "test"
  /\ ready_flags[slot(producer[p].claim)]
  /\ refused' = refused \cup {producer[p].claim}
  /\ producer' = [producer EXCEPT ![p].at = "idle"]
  /\ UNCHANGED <<buffer, ready_flags, claim_index, read_index, consumer, claimed,
                 delivered, lapped>>

PushFree(p) ==
  /\ producer[p].at = "test"
  /\ ~ready_flags[slot(producer[p].claim)]
  /\ producer' = [producer EXCEPT ![p].at = "store"]
  /\ UNCHANGED <<buffer, ready_flags, claim_index, read_index, consumer, claimed,
                 refused, delivered, lapped>>

\* buffer[slot] = value, a plain assignment.
PushStore(p) ==
  /\ producer[p].at = "store"
  /\ buffer' = [buffer EXCEPT ![slot(producer[p].claim)] = claimed[producer[p].claim + 1]]
  /\ producer' = [producer EXCEPT ![p].at = "ready"]
  /\ UNCHANGED <<ready_flags, claim_index, read_index, consumer, claimed, refused,
                 delivered, lapped>>

\* Variant: the ready flag is not raised.
PushReady_forgotten(p) ==
  /\ producer[p].at = "ready"
  /\ producer' = [producer EXCEPT ![p].at = "idle"]
  /\ UNCHANGED <<buffer, ready_flags, claim_index, read_index, consumer, claimed,
                 refused, delivered, lapped>>

\* ready_flags[slot].store(true); push returns true.
PushReady(p) ==
  /\ producer[p].at = "ready"
  /\ ready_flags' = [ready_flags EXCEPT ![slot(producer[p].claim)] = TRUE]
  /\ producer' = [producer EXCEPT ![p].at = "idle"]
  /\ UNCHANGED <<buffer, claim_index, read_index, consumer, claimed, refused,
                 delivered, lapped>>

------------------------------------------------------------------------------
(* pop_mpsc *)

\* pop returns nullopt.
PopEmpty(c) ==
  /\ consumer[c].at = "idle"
  /\ ~ready_flags[read_index]
  /\ UNCHANGED <<buffer, ready_flags, claim_index, read_index, producer, consumer,
                 claimed, refused, delivered, lapped>>

\* The flag of the slot read_index names is up: T value = buffer[slot].
PopCopy(c) ==
  /\ consumer[c].at = "idle"
  /\ ready_flags[read_index]
  /\ consumer' = [consumer EXCEPT ![c] =
                    [at |-> "clear", slot |-> read_index, value |-> buffer[read_index]]]
  /\ UNCHANGED <<buffer, ready_flags, claim_index, read_index, producer, claimed,
                 refused, delivered, lapped>>

\* ready_flags[slot].store(false).
PopClear(c) ==
  /\ consumer[c].at = "clear"
  /\ ready_flags' = [ready_flags EXCEPT ![consumer[c].slot] = FALSE]
  /\ consumer' = [consumer EXCEPT ![c].at = "advance"]
  /\ UNCHANGED <<buffer, claim_index, read_index, producer, claimed, refused,
                 delivered, lapped>>

\* read_index.store(increment(slot)); pop returns the value.
PopAdvance(c) ==
  /\ consumer[c].at = "advance"
  /\ read_index' = increment(consumer[c].slot)
  /\ delivered' = Append(delivered, consumer[c].value)
  /\ consumer' = [consumer EXCEPT ![c].at = "idle"]
  /\ UNCHANGED <<buffer, ready_flags, claim_index, producer, claimed, refused, lapped>>

------------------------------------------------------------------------------
Push(p) == PushRefused(p) \/ PushFree(p) \/ PushStore(p) \/ PushReady(p)

\* A pop that found a value goes on to its end.
PopFound(c) == PopCopy(c) \/ PopClear(c) \/ PopAdvance(c)

------------------------------------------------------------------------------
TypeOK ==
  /\ buffer \in [Slots -> Cells]
  /\ ready_flags \in [Slots -> BOOLEAN]
  /\ claim_index \in 0 .. MaxClaims
  /\ read_index \in Slots
  /\ producer \in [Producers -> [at : {"idle", "test", "store", "ready"}, claim : Nat]]
  /\ consumer \in [Consumers -> [at : {"idle", "clear", "advance"}, slot : Slots, value : Cells]]
  /\ claimed \in Seq(Values)
  /\ refused \subseteq Nat
  /\ delivered \in Seq(Cells)
  /\ lapped \in BOOLEAN
==============================================================================
