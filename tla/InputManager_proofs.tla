------------------------- MODULE InputManager_proofs -------------------------
(***************************************************************************)
(* The SPSC ring is correct for every capacity, every value set and every  *)
(* bound: RingInv is inductive, and from it follow slot exclusivity and    *)
(* the refinement of the bounded FIFO.                                     *)
(*                                                                         *)
(* The input manager around it, for every number of backend threads, every *)
(* capacity and every batch: the processing thread never sleeps on a value *)
(* nobody is about to announce.  With one backend thread the ring inside   *)
(* it delivers what was enqueued, in order: every step of the manager is a *)
(* step of the ring or leaves it alone, so the ring's lemmas carry over.   *)
(***************************************************************************)
EXTENDS InputManager, Integers, TLAPS

------------------------------------------------------------------------------
(* The ring *)

\* increment() walks the slots and wraps at the capacity.
LEMMA IncrementWraps ==
  ASSUME NEW i \in Slots
  PROVE  /\ increment(i) \in Slots
         /\ increment(i) = IF i + 1 = Capacity THEN 0 ELSE i + 1
<1>1. i \in Nat /\ i < Capacity /\ Capacity \in Nat \ {0}
  BY CapacityAssumption DEF Slots
<1>2. CASE i + 1 = Capacity
  <2>1. Capacity % Capacity = 0
    BY <1>1
  <2> QED BY <1>1, <1>2, <2>1 DEF increment, Slots
<1>3. CASE i + 1 # Capacity
  <2>1. i + 1 < Capacity
    BY <1>1, <1>3
  <2>2. (i + 1) % Capacity = i + 1
    BY <1>1, <2>1
  <2> QED BY <1>1, <1>3, <2>1, <2>2 DEF increment, Slots
<1> QED BY <1>2, <1>3

\* The constants and the wrap-around, as the step proofs use them.
LEMMA SlotFacts ==
  /\ Capacity \in Nat /\ Capacity > 0
  /\ 0 \in Slots
  /\ Default \in Cells /\ Values \subseteq Cells
  /\ Idle \in ProducerState /\ Idle \in ConsumerState
  /\ \A i \in Slots : increment(i) \in Slots
<1>1. Capacity \in Nat /\ Capacity > 0 /\ 0 \in Slots
  BY CapacityAssumption DEF Slots
<1>2. Default \in Cells /\ Values \subseteq Cells
  BY DEF Cells
<1>3. Idle \in ProducerState /\ Idle \in ConsumerState
  BY <1>1, <1>2 DEF Idle, ProducerState, ConsumerState
<1> QED BY <1>1, <1>2, <1>3, IncrementWraps

LEMMA InitType == Init => TypeOK
BY SlotFacts DEF Init, TypeOK

\* Every step of every thread keeps the types, whatever the number of threads.
LEMMA NextType == TypeOK /\ [Next]_vars => TypeOK'
<1> SUFFICES ASSUME TypeOK, [Next]_vars PROVE TypeOK'
  OBVIOUS
<1> USE DEF TypeOK
<1>1. ASSUME NEW p \in Producers, PushRefused(p) PROVE TypeOK'
  BY <1>1 DEF PushRefused, ring
<1>2. ASSUME NEW p \in Producers, NEW v \in Values, PushCheck(p, v) PROVE TypeOK'
  BY <1>2, SlotFacts DEF PushCheck, ring, history, ProducerState
<1>3. ASSUME NEW p \in Producers, PushStore(p) PROVE TypeOK'
  BY <1>3 DEF PushStore, history, ProducerState
<1>4. ASSUME NEW p \in Producers, PushPublish(p) PROVE TypeOK'
  BY <1>4, SlotFacts DEF PushPublish, ProducerState
<1>5. ASSUME NEW c \in Consumers, PopEmpty(c) PROVE TypeOK'
  BY <1>5 DEF PopEmpty, ring
<1>6. ASSUME NEW c \in Consumers, PopCheck(c) PROVE TypeOK'
  BY <1>6, SlotFacts DEF PopCheck, ring, history, ConsumerState
<1>7. ASSUME NEW c \in Consumers, PopCopy(c) PROVE TypeOK'
  BY <1>7 DEF PopCopy, ring, history, ConsumerState
<1>8. ASSUME NEW c \in Consumers, PopRelease(c) PROVE TypeOK'
  BY <1>8, SlotFacts DEF PopRelease, ConsumerState
<1>9. CASE UNCHANGED vars
  BY <1>9 DEF vars, ring, history
<1> QED
  BY <1>1, <1>2, <1>3, <1>4, <1>5, <1>6, <1>7, <1>8, <1>9 DEF Next, Push, Pop

\* Type correctness of the ring: indices stay inside the storage and only
\* pushed values (or the default element) travel through it.
THEOREM TypeCorrect == Spec => []TypeOK
BY InitType, NextType, PTL DEF Spec

------------------------------------------------------------------------------
LEMMA InitRing == Init => RingInv
BY SlotFacts DEF Init, RingInv, ProducerOwnsSlot, ConsumerOwnsSlot, Contents,
                 Idle, size

\* With one producer and one consumer every step keeps RingInv.
LEMMA NextRing == SPSC /\ TypeOK /\ RingInv /\ [Next]_vars => RingInv'
<1> SUFFICES ASSUME SPSC, TypeOK, RingInv, [Next]_vars PROVE RingInv'
  OBVIOUS
<1> USE DEF RingInv
<1>t. TypeOK'
  BY NextType
<1>a. /\ Capacity \in Nat /\ Capacity > 0
      /\ write_index \in 0 .. Capacity - 1 /\ read_index \in 0 .. Capacity - 1
  BY SlotFacts DEF TypeOK, Slots
<1>s. /\ size \in 0 .. Capacity - 1
      /\ size = 0 <=> read_index = write_index
  BY <1>a DEF size
<1>w. /\ write_index \in Slots /\ read_index \in Slots
      /\ buffer \in [Slots -> Cells]
      /\ accepted \in Seq(Cells) /\ delivered \in Seq(Cells)
      /\ producer \in [Producers -> ProducerState]
      /\ consumer \in [Consumers -> ConsumerState]
  BY DEF TypeOK
<1>1. ASSUME NEW p \in Producers, PushRefused(p) PROVE RingInv'
  BY <1>1 DEF PushRefused, ring, ProducerOwnsSlot, ConsumerOwnsSlot, Contents, size
<1>2. ASSUME NEW p \in Producers, NEW v \in Values, PushCheck(p, v) PROVE RingInv'
  <2>1. ProducerOwnsSlot'
    BY <1>2, <1>w DEF PushCheck, ring, ProducerOwnsSlot, SPSC, ProducerState
  <2>2. ConsumerOwnsSlot' /\ Contents'
    BY <1>2 DEF PushCheck, ring, history, ConsumerOwnsSlot, Contents, size
  <2> QED BY <2>1, <2>2
<1>3. ASSUME NEW p \in Producers, PushStore(p) PROVE RingInv'
  <2>1. ProducerOwnsSlot'
    BY <1>3, <1>w DEF PushStore, ProducerOwnsSlot, SPSC, ProducerState
  <2>2. ConsumerOwnsSlot'
    BY <1>3 DEF PushStore, history, ConsumerOwnsSlot
  <2>3. \A k \in 0 .. size - 1 : Wrap(read_index + k) # write_index
    BY <1>a DEF size, Wrap
  <2>4. \A k \in 0 .. size - 1 : Wrap(read_index + k) \in Slots
    BY <1>a DEF size, Wrap, Slots
  <2>5. size' = size /\ read_index' = read_index /\ accepted' = accepted
        /\ delivered' = delivered
        /\ buffer' = [buffer EXCEPT ![write_index] = producer[p].value]
    BY <1>3 DEF PushStore, history, size, ProducerOwnsSlot
  <2>6. Contents'
    BY <2>3, <2>4, <2>5, <1>w DEF Contents, Wrap
  <2> QED BY <2>1, <2>2, <2>6
<1>4. ASSUME NEW p \in Producers, PushPublish(p) PROVE RingInv'
  <2>1. ProducerOwnsSlot'
    BY <1>4, <1>w DEF PushPublish, ProducerOwnsSlot, SPSC, ProducerState, Idle
  <2>2. /\ write_index' = increment(write_index)
        /\ increment(write_index) = IF write_index + 1 = Capacity THEN 0 ELSE write_index + 1
        /\ increment(write_index) # read_index
        /\ accepted' = Append(accepted, buffer[write_index])
        /\ UNCHANGED <<buffer, read_index, delivered, consumer>>
    BY <1>4, <1>w, IncrementWraps DEF PushPublish, ProducerOwnsSlot
  <2>3. size \in Nat /\ size' = size + 1
    <3>1. write_index' = (IF write_index + 1 = Capacity THEN 0 ELSE write_index + 1)
          /\ write_index' # read_index /\ read_index' = read_index
      BY <2>2
    <3> QED BY <3>1, <1>a DEF size
  <2>4. Wrap(read_index + size) = write_index
    BY <1>a DEF size, Wrap
  <2>5. Contents'
    <3>1. Len(accepted') = Len(delivered') + size'
      BY <2>2, <2>3, <1>w DEF Contents
    <3>2. ASSUME NEW k \in 0 .. size' - 1
          PROVE  buffer'[Wrap(read_index' + k)] = accepted'[Len(delivered') + 1 + k]
      <4>1. Len(accepted) = Len(delivered) + size /\ Len(delivered) \in Nat
        BY <1>w DEF Contents
      <4>2. CASE k = size
        BY <4>1, <4>2, <2>2, <2>3, <2>4, <1>w
      <4>3. CASE k # size
        <5>1. k \in 0 .. size - 1
          BY <4>3, <2>3
        <5>2. Len(delivered) + 1 + k \in 1 .. Len(accepted)
          BY <5>1, <4>1, <2>3
        <5> QED BY <5>1, <5>2, <2>2, <1>w DEF Contents
      <4> QED BY <4>2, <4>3
    <3> QED BY <3>1, <3>2 DEF Contents, Wrap
  <2>6. ConsumerOwnsSlot'
    <3> SUFFICES ASSUME NEW c \in Consumers, consumer[c].at # "idle"
                 PROVE  /\ consumer[c].slot = read_index
                        /\ read_index # write_index'
                        /\ consumer[c].at = "release" =>
                              consumer[c].value = accepted'[Len(delivered) + 1]
      BY <2>2 DEF ConsumerOwnsSlot
    <3>1. size > 0
      BY <1>s DEF ConsumerOwnsSlot
    <3>2. Len(delivered) + 1 \in 1 .. Len(accepted)
      BY <1>w, <1>s, <3>1 DEF Contents
    <3> QED BY <3>2, <2>2, <1>w DEF ConsumerOwnsSlot
  <2> QED BY <2>1, <2>5, <2>6
<1>5. ASSUME NEW c \in Consumers, PopEmpty(c) PROVE RingInv'
  BY <1>5 DEF PopEmpty, ring, ProducerOwnsSlot, ConsumerOwnsSlot, Contents, size
<1>6. ASSUME NEW c \in Consumers, PopCheck(c) PROVE RingInv'
  <2>1. ConsumerOwnsSlot'
    BY <1>6, <1>w DEF PopCheck, ring, history, ConsumerOwnsSlot, SPSC, ConsumerState
  <2>2. ProducerOwnsSlot' /\ Contents'
    BY <1>6 DEF PopCheck, ring, history, ProducerOwnsSlot, Contents, size
  <2> QED BY <2>1, <2>2
<1>7. ASSUME NEW c \in Consumers, PopCopy(c) PROVE RingInv'
  <2>0. read_index # write_index
    BY <1>7 DEF PopCopy, ConsumerOwnsSlot
  <2>1. 0 \in 0 .. size - 1 /\ Wrap(read_index + 0) = read_index
    BY <2>0, <1>a, <1>s DEF Wrap
  <2>2. buffer[read_index] = accepted[Len(delivered) + 1]
    BY <2>1, <1>w DEF Contents
  <2>3. ConsumerOwnsSlot'
    BY <1>7, <2>2, <1>w DEF PopCopy, ring, history, ConsumerOwnsSlot, SPSC, ConsumerState
  <2>4. ProducerOwnsSlot' /\ Contents'
    BY <1>7 DEF PopCopy, ring, history, ProducerOwnsSlot, Contents, size
  <2> QED BY <2>3, <2>4
<1>8. ASSUME NEW c \in Consumers, PopRelease(c) PROVE RingInv'
  <2>1. ConsumerOwnsSlot'
    BY <1>8, <1>w DEF PopRelease, ConsumerOwnsSlot, SPSC, ConsumerState, Idle
  <2>2. /\ read_index # write_index
        /\ read_index' = IF read_index + 1 = Capacity THEN 0 ELSE read_index + 1
        /\ Len(delivered') = Len(delivered) + 1 /\ Len(delivered) \in Nat
        /\ UNCHANGED <<buffer, write_index, accepted, producer>>
    BY <1>8, <1>w, IncrementWraps DEF PopRelease, ConsumerOwnsSlot, ConsumerState
  <2>3. size \in Nat /\ size' = size - 1
    <3>1. /\ read_index' = (IF read_index + 1 = Capacity THEN 0 ELSE read_index + 1)
          /\ write_index' = write_index /\ read_index # write_index
      BY <2>2
    <3> QED BY <3>1, <1>a DEF size
  <2>4. Contents'
    <3>1. Len(accepted') = Len(delivered') + size'
      BY <2>2, <2>3, <1>w DEF Contents
    <3>2. ASSUME NEW k \in 0 .. size' - 1
          PROVE  buffer'[Wrap(read_index' + k)] = accepted'[Len(delivered') + 1 + k]
      <4>1. k + 1 \in 0 .. size - 1
        BY <2>3
      <4>2. Wrap(read_index' + k) = Wrap(read_index + (k + 1))
        <5>1. /\ read_index' = (IF read_index + 1 = Capacity THEN 0 ELSE read_index + 1)
              /\ k \in Nat
          BY <2>2, <2>3
        <5> QED BY <5>1, <4>1, <1>a DEF Wrap, size
      <4>3. buffer[Wrap(read_index + (k + 1))] = accepted[Len(delivered) + 1 + (k + 1)]
        BY <4>1 DEF Contents
      <4>4. Len(delivered') + 1 + k = Len(delivered) + 1 + (k + 1)
        BY <2>2, <2>3
      <4> QED BY <4>2, <4>3, <4>4, <2>2
    <3> QED BY <3>1, <3>2 DEF Contents, Wrap
  <2>5. ProducerOwnsSlot'
    <3>1. increment(write_index) = IF write_index + 1 = Capacity THEN 0 ELSE write_index + 1
      BY <1>w, IncrementWraps
    <3>2. increment(write_index) # read_index'
      BY <3>1, <2>2, <1>a
    <3> QED BY <3>2, <2>2 DEF ProducerOwnsSlot, increment
  <2> QED BY <2>1, <2>4, <2>5
<1>9. CASE UNCHANGED vars
  BY <1>9 DEF vars, ring, history, ProducerOwnsSlot, ConsumerOwnsSlot, Contents, size
<1> QED
  BY <1>1, <1>2, <1>3, <1>4, <1>5, <1>6, <1>7, <1>8, <1>9 DEF Next, Push, Pop

\* With one producer and one consumer the slots between the indices always
\* hold the undelivered values in order, whatever the interleaving.
THEOREM RingCorrect ==
  ASSUME SPSC PROVE Spec => []RingInv
<1>1. TypeOK /\ RingInv /\ [Next]_vars => RingInv'
  BY NextRing
<1>2. Spec => []TypeOK
  BY TypeCorrect
<1> QED BY <1>1, <1>2, InitRing, PTL DEF Spec

\* Producer and consumer never touch the same slot at the same time.
THEOREM SlotsExclusive ==
  ASSUME SPSC PROVE Spec => []SlotExclusive
<1>1. RingInv => SlotExclusive
  BY DEF RingInv, ProducerOwnsSlot, ConsumerOwnsSlot, SlotExclusive
<1>2. Spec => []RingInv
  BY RingCorrect
<1> QED BY <1>1, <1>2, PTL

------------------------------------------------------------------------------
LEMMA InitFifo == Init => Fifo!Init
BY DEF Init, Fifo!Init

\* Every step of the ring is a step of the FIFO or leaves its view unchanged.
LEMMA NextFifo ==
  TypeOK /\ RingInv /\ [Next]_vars => [Fifo!Next]_(Fifo!vars)
<1> SUFFICES ASSUME TypeOK, RingInv, [Next]_vars PROVE [Fifo!Next]_(Fifo!vars)
  OBVIOUS
<1> USE DEF RingInv
<1>a. /\ Capacity \in Nat /\ Capacity > 0
      /\ write_index \in 0 .. Capacity - 1 /\ read_index \in 0 .. Capacity - 1
      /\ increment(write_index) = IF write_index + 1 = Capacity THEN 0 ELSE write_index + 1
  BY SlotFacts, IncrementWraps DEF TypeOK, Slots
<1>b. Fifo!Pending = size /\ size \in 0 .. Capacity - 1
  <2>1. size \in 0 .. Capacity - 1
    BY <1>a DEF size
  <2>2. Len(accepted) \in Nat /\ Len(delivered) \in Nat
    BY DEF TypeOK
  <2> QED BY <2>1, <2>2 DEF Contents, Fifo!Pending
<1>1. ASSUME NEW p \in Producers, PushRefused(p) PROVE Fifo!Refuse
  <2>1. size = Capacity - 1
    BY <1>1, <1>a DEF PushRefused, size
  <2> QED BY <1>1, <1>b, <2>1 DEF PushRefused, Fifo!Refuse
<1>2. ASSUME NEW p \in Producers, NEW v \in Values, PushCheck(p, v)
      PROVE  UNCHANGED Fifo!vars
  BY <1>2 DEF PushCheck, history, Fifo!vars
<1>3. ASSUME NEW p \in Producers, PushStore(p) PROVE UNCHANGED Fifo!vars
  BY <1>3 DEF PushStore, history, Fifo!vars
<1>4. ASSUME NEW p \in Producers, PushPublish(p)
      PROVE  \E v \in Values : Fifo!Accept(v)
  <2>1. increment(write_index) # read_index /\ producer[p].value \in Values
    BY <1>4 DEF PushPublish, ProducerOwnsSlot
  <2>2. size < Capacity - 1
    BY <2>1, <1>a DEF size
  <2> QED BY <1>4, <1>b, <2>1, <2>2 DEF PushPublish, Fifo!Accept
<1>5. ASSUME NEW c \in Consumers, PopEmpty(c) PROVE Fifo!FindEmpty
  <2>1. size = 0
    BY <1>5, <1>a DEF PopEmpty, size
  <2> QED BY <1>5, <1>b, <2>1 DEF PopEmpty, Fifo!FindEmpty
<1>6. ASSUME NEW c \in Consumers, PopCheck(c) PROVE UNCHANGED Fifo!vars
  BY <1>6 DEF PopCheck, history, Fifo!vars
<1>7. ASSUME NEW c \in Consumers, PopCopy(c) PROVE UNCHANGED Fifo!vars
  BY <1>7 DEF PopCopy, history, Fifo!vars
<1>8. ASSUME NEW c \in Consumers, PopRelease(c) PROVE Fifo!Deliver
  <2>1. /\ read_index # write_index
        /\ consumer[c].value = accepted[Len(delivered) + 1]
    BY <1>8 DEF PopRelease, ConsumerOwnsSlot
  <2>2. size > 0
    BY <2>1, <1>a DEF size
  <2> QED BY <1>8, <1>b, <2>1, <2>2 DEF PopRelease, Fifo!Deliver
<1>9. CASE UNCHANGED vars
  BY <1>9 DEF vars, history, Fifo!vars
<1> QED
  BY <1>1, <1>2, <1>3, <1>4, <1>5, <1>6, <1>7, <1>8, <1>9
  DEF Next, Push, Pop, Fifo!Next

\* The SPSC ring implements the bounded FIFO for every capacity: accepted
\* values come out once, in order; refusals mean full, misses mean empty.
THEOREM RingImplementsFifo ==
  ASSUME SPSC PROVE Spec => ImplementsFifo
<1>1. Spec => []TypeOK
  BY TypeCorrect
<1>2. Spec => []RingInv
  BY RingCorrect
<1> QED BY <1>1, <1>2, InitFifo, NextFifo, PTL DEF Spec, ImplementsFifo, Fifo!Spec

------------------------------------------------------------------------------
(* The input manager *)

\* What the manager does to the ring is a step of the ring.
LEMMA RingSteps == [IMNext]_imvars => [Next]_vars
<1> SUFFICES ASSUME [IMNext]_imvars PROVE [Next]_vars
  OBVIOUS
<1>1. ASSUME NEW p \in Producers, Backend(p) PROVE [Next]_vars
  BY <1>1 DEF Backend, EnqueuePush, EnqueuePushed, EnqueueNotify, Next, Push
<1>2. ASSUME NEW p \in Producers, NEW n \in 1 .. MaxBatch, NEW b \in BOOLEAN,
             Enqueue(p, n, b)
      PROVE  [Next]_vars
  BY <1>2 DEF Enqueue
<1>3. ASSUME NEW c \in Consumers, LoopPop(c) \/ LoopDrained(c) PROVE [Next]_vars
  BY <1>3 DEF LoopPop, LoopDrained, Next, Pop
<1>4. ASSUME LoopCheck \/ LoopWake \/ LoopClear PROVE [Next]_vars
  BY <1>4 DEF LoopCheck, LoopWake, LoopClear
<1>5. ASSUME Start \/ StopRequest \/ Stop PROVE [Next]_vars
  BY <1>5 DEF Start, StopRequest, Stop, StopNotify, StopJoin
<1>6. ASSUME UNCHANGED imvars PROVE [Next]_vars
  BY <1>6 DEF imvars
<1> QED BY <1>1, <1>2, <1>3, <1>4, <1>5, <1>6 DEF IMNext, Loop

\* The specification without its fairness, which no safety property needs.
LEMMA SafetyPart == IMSpec => IMInit /\ [][IMNext]_imvars
BY PTL DEF IMSpec

\* Types of the ring, for every number of threads.
LEMMA IMRingTyped == IMSpec => []TypeOK
<1>1. IMInit => TypeOK
  BY InitType DEF IMInit
<1>2. TypeOK /\ [IMNext]_imvars => TypeOK'
  BY RingSteps, NextType
<1> QED BY <1>1, <1>2, SafetyPart, PTL

\* With one backend thread the ring between it and the processing thread keeps
\* RingInv: stop, restart and batches never hand a thread a slot it does not own.
THEOREM InputRingCorrect ==
  ASSUME SPSC PROVE IMSpec => []RingInv
<1>1. IMInit => RingInv
  BY InitRing DEF IMInit
<1>2. TypeOK /\ RingInv /\ [IMNext]_imvars => RingInv'
  BY RingSteps, NextRing
<1> QED BY <1>1, <1>2, IMRingTyped, SafetyPart, PTL

\* With one backend thread the values dispatched to the nodes are the values
\* enqueue accepted, in order, none twice, across stops and restarts.
THEOREM InputImplementsFifo ==
  ASSUME SPSC PROVE IMSpec => ImplementsFifo
<1>1. IMInit => Fifo!Init
  BY InitFifo DEF IMInit
<1>2. TypeOK /\ RingInv /\ [IMNext]_imvars => [Fifo!Next]_(Fifo!vars)
  BY RingSteps, NextFifo
<1> QED
  BY <1>1, <1>2, IMRingTyped, InputRingCorrect, SafetyPart, PTL DEF ImplementsFifo, Fifo!Spec

------------------------------------------------------------------------------
\* Where the backends are, for any MaxBatch.
BackendRecords == [at : {"idle", "push", "notify"}, left : Int,
                   batch : BOOLEAN, any_pushed : BOOLEAN]

BackendsTyped == backend \in [Producers -> BackendRecords]

LEMMA AfterPushTyped ==
  ASSUME NEW b \in BackendRecords, NEW any \in BOOLEAN
  PROVE  AfterPush(b, any) \in BackendRecords
<1>1. b.left \in Int /\ b.left - 1 \in Int /\ 0 \in Int
  BY DEF BackendRecords
<1>2. [b EXCEPT !.left = b.left - 1, !.any_pushed = any] \in BackendRecords
  BY <1>1 DEF BackendRecords
<1>3. [b EXCEPT !.at = "notify", !.left = 0, !.any_pushed = any] \in BackendRecords
  BY <1>1, Zenon DEF BackendRecords
<1>4. NoCall \in BackendRecords
  BY DEF BackendRecords, NoCall
<1> QED BY <1>2, <1>3, <1>4 DEF AfterPush

\* Between the pop that found the ring empty and the wake-up, the flag is up or
\* a backend that has pushed is still on its way to raising it.
Announced ==
  loop \in {"check", "wait"} /\ ~m_queue_notify /\ size > 0 =>
    \E p \in Producers : backend[p].at # "idle" /\ backend[p].any_pushed

WakeInv == TypeOK /\ BackendsTyped /\ Announced

LEMMA InitWake == IMInit => WakeInv
BY InitType DEF IMInit, WakeInv, BackendsTyped, BackendRecords, Announced, NoCall

\* Every step of every thread keeps WakeInv.
LEMMA NextWake == WakeInv /\ [IMNext]_imvars => WakeInv'
<1> SUFFICES ASSUME WakeInv, [IMNext]_imvars PROVE BackendsTyped' /\ Announced'
  BY RingSteps, NextType DEF WakeInv
<1> USE DEF WakeInv
<1>i. read_index \in Nat /\ write_index \in Nat /\ Capacity \in Nat
  BY SlotFacts DEF TypeOK, Slots
<1>1. ASSUME NEW p \in Producers, NEW n \in 1 .. MaxBatch, NEW b \in BOOLEAN,
             Enqueue(p, n, b)
      PROVE  BackendsTyped' /\ Announced'
  <2>1. UNCHANGED <<vars, flags, loop>> /\ backend[p].at = "idle"
        /\ backend' = [backend EXCEPT ![p] =
             [at |-> "push", left |-> n, batch |-> b, any_pushed |-> FALSE]]
    BY <1>1 DEF Enqueue
  <2>2. BackendsTyped'
    BY <2>1 DEF BackendsTyped, BackendRecords
  <2>3. \A q \in Producers : q # p => backend'[q] = backend[q]
    BY <2>1 DEF BackendsTyped
  <2>4. size' = size /\ m_queue_notify' = m_queue_notify /\ loop' = loop
    BY <2>1 DEF vars, ring, flags, size
  <2> QED BY <2>1, <2>2, <2>3, <2>4 DEF Announced
<1>2. ASSUME NEW p \in Producers, EnqueuePush(p) PROVE BackendsTyped' /\ Announced'
  <2>1. UNCHANGED <<read_index, write_index, m_queue_notify, loop, backend>>
    BY <1>2 DEF EnqueuePush, PushStore, PushCheck, ring, flags
  <2> QED BY <2>1 DEF BackendsTyped, Announced, size
<1>3. ASSUME NEW p \in Producers, EnqueuePushed(p) PROVE BackendsTyped' /\ Announced'
  <2> DEFINE any == backend[p].any_pushed \/ push_result'
  <2>1. /\ UNCHANGED <<m_queue_notify, loop>>
        /\ backend[p].at = "push"
        /\ push_result' \in BOOLEAN
        /\ push_result' \/ size' = size
    BY <1>3 DEF EnqueuePushed, PushPublish, PushRefused, flags, ring, size
  <2>m. backend' = [backend EXCEPT ![p] = AfterPush(backend[p], any)]
    BY <1>3 DEF EnqueuePushed
  <2>2. BackendsTyped'
    <3>1. backend[p] \in BackendRecords /\ any \in BOOLEAN
      BY <2>1 DEF BackendsTyped, BackendRecords
    <3> HIDE DEF any
    <3>2. AfterPush(backend[p], any) \in BackendRecords
      BY <3>1, AfterPushTyped
    <3> QED BY <2>m, <3>2 DEF BackendsTyped
  <2>3. \A q \in Producers : q # p => backend'[q] = backend[q]
    BY <2>m DEF BackendsTyped
  <2>4. CASE any
    <3>1. backend'[p].at # "idle" /\ backend'[p].any_pushed
      BY <2>1, <2>m, <2>4 DEF BackendsTyped, BackendRecords, AfterPush
    <3> QED BY <2>2, <3>1 DEF Announced
  <2>5. CASE ~any
    BY <2>1, <2>2, <2>3, <2>5 DEF Announced
  <2> QED BY <2>4, <2>5
<1>4. ASSUME NEW p \in Producers, EnqueueNotify(p) PROVE BackendsTyped' /\ Announced'
  BY <1>4 DEF EnqueueNotify, BackendsTyped, BackendRecords, Announced, NoCall
<1>5. ASSUME NEW c \in Consumers, LoopPop(c) PROVE BackendsTyped' /\ Announced'
  BY <1>5 DEF LoopPop, BackendsTyped, Announced
<1>6. ASSUME NEW c \in Consumers, LoopDrained(c) PROVE BackendsTyped' /\ Announced'
  <2>1. size' = 0 /\ UNCHANGED backend
    BY <1>6, <1>i DEF LoopDrained, PopEmpty, ring, size
  <2> QED BY <2>1 DEF BackendsTyped, Announced
<1>7. CASE LoopCheck \/ LoopWake
  <2>1. UNCHANGED <<vars, flags, backend>> /\ (loop' # "wait" \/ loop = "check")
        /\ loop' # "check"
    BY <1>7 DEF LoopCheck, LoopWake
  <2> QED BY <2>1 DEF BackendsTyped, Announced, size, vars, ring, flags
<1>8. CASE LoopClear
  BY <1>8 DEF LoopClear, BackendsTyped, Announced
<1>9. CASE Start \/ Stop
  BY <1>9 DEF Start, Stop, StopNotify, StopJoin, BackendsTyped, Announced
<1>10. CASE StopRequest \/ UNCHANGED imvars
  <2>1. UNCHANGED <<read_index, write_index, m_queue_notify, loop, backend>>
    BY <1>10 DEF StopRequest, imvars, vars, ring, flags
  <2> QED BY <2>1 DEF BackendsTyped, Announced, size
<1> QED
  BY <1>1, <1>2, <1>3, <1>4, <1>5, <1>6, <1>7, <1>8, <1>9, <1>10
  DEF IMNext, Loop, Backend

\* No wake-up is lost, for any number of backend threads, any capacity and any
\* batch: with a value in the ring the processing thread does not go to sleep
\* for good, because a backend that pushed has still to store m_queue_notify.
THEOREM WakeupsKept == IMSpec => []NoLostWakeup
<1>1. WakeInv => NoLostWakeup
  BY DEF WakeInv, Announced, NoLostWakeup
<1> QED BY <1>1, InitWake, NextWake, SafetyPart, PTL
==============================================================================
