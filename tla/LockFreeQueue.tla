---------------------------- MODULE LockFreeQueue ----------------------------
(***************************************************************************)
(* RingBuffer<T, FixedStorage, LockFreePolicy, QueueAccess>: the           *)
(* single-producer single-consumer ring of Transitive/Memory/RingBuffer.   *)
(* The two index words are atomic; the slots are plain memory.  A push     *)
(* reads both indices, assigns the slot and publishes write_index; a pop   *)
(* reads both indices, copies the slot and publishes read_index.  Each of  *)
(* these is a step of its own, so the two threads interleave between them. *)
(* The acquire/release pairs of the code order the slot accesses with the  *)
(* index accesses; the model takes them as sequentially consistent.        *)
(*                                                                         *)
(* The threads are parameters: the class asks for one producer and one     *)
(* consumer (SPSC below), and its users do not all keep to that.           *)
(***************************************************************************)
EXTENDS Naturals, Sequences

CONSTANTS Capacity,   \* slots of the FixedStorage
          Producers,  \* threads that call push
          Consumers,  \* threads that call pop
          Values,     \* what can be pushed
          Default,    \* the value-initialised element a fresh slot holds
          MaxPushes   \* bound on the values accepted in a behaviour

ASSUME CapacityAssumption == Capacity \in Nat \ {0}
ASSUME BoundAssumption    == MaxPushes \in Nat

VARIABLES
  buffer,       \* the slots
  write_index, read_index,
  producer,     \* producer[p]: where push() is, and its locals
  consumer,     \* consumer[c]: where pop() is, and its locals
  accepted,     \* history: values whose push returned true
  delivered,    \* history: values pop returned
  push_result,  \* history: last answer of push
  pop_result    \* history: whether the last pop returned a value

ring    == <<buffer, write_index, read_index>>
history == <<accepted, delivered, push_result, pop_result>>
vars    == <<ring, producer, consumer, history>>

Slots == 0 .. Capacity - 1
Cells == Values \cup {Default}

\* (index + 1) & (capacity - 1): the capacity is a power of two.
increment(i) == (i + 1) % Capacity

ProducerState == [at : {"idle", "store", "publish"}, slot : Slots, value : Cells]
ConsumerState == [at : {"idle", "copy", "release"}, slot : Slots, value : Cells]

Idle == [at |-> "idle", slot |-> 0, value |-> Default]

Init == /\ buffer = [s \in Slots |-> Default]
        /\ write_index = 0
        /\ read_index = 0
        /\ producer = [p \in Producers |-> Idle]
        /\ consumer = [c \in Consumers |-> Idle]
        /\ accepted = <<>>
        /\ delivered = <<>>
        /\ push_result = TRUE
        /\ pop_result = TRUE

------------------------------------------------------------------------------
(* push_lockfree *)

\* The load of read_index shows the ring full: push returns false.
PushRefused(p) ==
  /\ producer[p].at = "idle"
  /\ increment(write_index) = read_index
  /\ push_result' = FALSE
  /\ UNCHANGED <<ring, producer, consumer, accepted, delivered, pop_result>>

\* The loads of both indices: there is room at the slot write_index names.
PushCheck(p, v) ==
  /\ producer[p].at = "idle"
  /\ Len(accepted) < MaxPushes
  /\ increment(write_index) # read_index
  /\ producer' = [producer EXCEPT ![p] =
                    [at |-> "store", slot |-> write_index, value |-> v]]
  /\ UNCHANGED <<ring, consumer, history>>

\* buffer[write] = value, a plain assignment.
PushStore(p) ==
  /\ producer[p].at = "store"
  /\ buffer' = [buffer EXCEPT ![producer[p].slot] = producer[p].value]
  /\ producer' = [producer EXCEPT ![p].at = "publish"]
  /\ UNCHANGED <<write_index, read_index, consumer, history>>

\* The release store of write_index; push returns true.
PushPublish(p) ==
  /\ producer[p].at = "publish"
  /\ write_index' = increment(producer[p].slot)
  /\ accepted' = Append(accepted, producer[p].value)
  /\ push_result' = TRUE
  /\ producer' = [producer EXCEPT ![p] = Idle]
  /\ UNCHANGED <<buffer, read_index, consumer, delivered, pop_result>>

------------------------------------------------------------------------------
(* pop_lockfree *)

\* The load of write_index shows the ring empty: pop returns nullopt.
PopEmpty(c) ==
  /\ consumer[c].at = "idle"
  /\ read_index = write_index
  /\ pop_result' = FALSE
  /\ UNCHANGED <<ring, producer, consumer, accepted, delivered, push_result>>

\* The loads of both indices: there is a value at the slot read_index names.
PopCheck(c) ==
  /\ consumer[c].at = "idle"
  /\ read_index # write_index
  /\ consumer' = [consumer EXCEPT ![c] =
                    [at |-> "copy", slot |-> read_index, value |-> Default]]
  /\ UNCHANGED <<ring, producer, history>>

\* Variant: the newest published slot is copied instead of the oldest.
PopCopy_newest(c) ==
  /\ consumer[c].at = "copy"
  /\ consumer' = [consumer EXCEPT ![c].at = "release",
       ![c].value = buffer[(write_index + Capacity - 1) % Capacity]]
  /\ UNCHANGED <<ring, producer, history>>

\* T value = buffer[read], a plain read.
PopCopy(c) ==
  /\ consumer[c].at = "copy"
  /\ consumer' = [consumer EXCEPT ![c].at = "release",
                                  ![c].value = buffer[consumer[c].slot]]
  /\ UNCHANGED <<ring, producer, history>>

\* The release store of read_index; pop returns the copy.
PopRelease(c) ==
  /\ consumer[c].at = "release"
  /\ read_index' = increment(consumer[c].slot)
  /\ delivered' = Append(delivered, consumer[c].value)
  /\ pop_result' = TRUE
  /\ consumer' = [consumer EXCEPT ![c] = Idle]
  /\ UNCHANGED <<buffer, write_index, producer, accepted, push_result>>

------------------------------------------------------------------------------
Push(p) == PushRefused(p) \/ (\E v \in Values : PushCheck(p, v))
             \/ PushStore(p) \/ PushPublish(p)

Pop(c) == PopEmpty(c) \/ PopCheck(c) \/ PopCopy(c) \/ PopRelease(c)

Next == (\E p \in Producers : Push(p)) \/ (\E c \in Consumers : Pop(c))

Spec == Init /\ [][Next]_vars

\* The contract of LockFreePolicy: one writer thread, one reader thread.
SPSC == /\ \A p, q \in Producers : p = q
        /\ \A c, d \in Consumers : c = d

------------------------------------------------------------------------------
TypeOK ==
  /\ buffer \in [Slots -> Cells]
  /\ write_index \in Slots
  /\ read_index \in Slots
  /\ producer \in [Producers -> ProducerState]
  /\ consumer \in [Consumers -> ConsumerState]
  /\ accepted \in Seq(Cells)
  /\ delivered \in Seq(Cells)
  /\ push_result \in BOOLEAN
  /\ pop_result \in BOOLEAN

\* size(): the distance from read_index to write_index round the ring.
size == IF write_index >= read_index
        THEN write_index - read_index
        ELSE Capacity - read_index + write_index

\* "No concurrent access to same slot (guaranteed by SPSC protocol)"
\* (RingBuffer.hpp, LockFreePolicy): no producer assigns a slot while a
\* consumer copies it, although slots are plain memory and neither thread
\* waits for the other.
SlotExclusive ==
  \A p \in Producers, c \in Consumers :
    ~ /\ producer[p].at = "store"
      /\ consumer[c].at = "copy"
      /\ producer[p].slot = consumer[c].slot

\* The slot k places after i, for i + k < 2 * Capacity.
Wrap(i) == IF i >= Capacity THEN i - Capacity ELSE i

\* A push between its check and its publish still owns the slot at
\* write_index, although read_index may have moved since the check.
ProducerOwnsSlot ==
  \A p \in Producers :
    /\ producer[p].at # "idle" =>
         /\ producer[p].slot = write_index
         /\ producer[p].value \in Values
         /\ increment(write_index) # read_index
    /\ producer[p].at = "publish" => buffer[write_index] = producer[p].value

\* A pop between its check and its release still owns the slot at
\* read_index, and what it copied is the oldest accepted value.
ConsumerOwnsSlot ==
  \A c \in Consumers :
    /\ consumer[c].at # "idle" =>
         /\ consumer[c].slot = read_index
         /\ read_index # write_index
    /\ consumer[c].at = "release" =>
         consumer[c].value = accepted[Len(delivered) + 1]

\* The slots from read_index to write_index hold, in order, exactly the
\* accepted values that are not delivered yet, at every step of both threads:
\* this is what makes the two-index protocol correct.
Contents ==
  /\ Len(accepted) = Len(delivered) + size
  /\ \A k \in 0 .. size - 1 :
       buffer[Wrap(read_index + k)] = accepted[Len(delivered) + 1 + k]

\* The inductive invariant of the ring: the published slots hold the
\* undelivered values and each thread owns the slot it works on.
RingInv == ProducerOwnsSlot /\ ConsumerOwnsSlot /\ Contents

\* The ring refines the bounded FIFO it stands for: what pop hands out is
\* what push accepted, in order, nothing lost, repeated or invented; a push
\* is refused only when Capacity - 1 values are inside and a pop finds
\* nothing only when none is.
Fifo == INSTANCE FifoQueue WITH Limit <- Capacity - 1
ImplementsFifo == Fifo!Spec
==============================================================================
