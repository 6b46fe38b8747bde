--------------------------- MODULE RootNode_proofs ---------------------------
(***************************************************************************)
(* The pending-operation queue of RootNode for every number of             *)
(* controllers, nodes and slots, every bound on the calls and every width  *)
(* of the counter: the counter agrees with the slots modulo its width, and *)
(* no call is lost unless a slot was applied before it was written or two  *)
(* edits of the list overlapped.                                           *)
(***************************************************************************)
EXTENDS RootNode, FiniteSetTheorems, TLAPS

------------------------------------------------------------------------------
(* Numbers: remainders, for the counter of fixed width *)

\* What x % M and x \div M are.
LEMMA DivMod ==
  ASSUME NEW x \in Int, NEW M \in Nat \ {0}
  PROVE  /\ x \div M \in Int /\ x % M \in Int
         /\ 0 <= x % M /\ x % M < M
         /\ x % M = x - M * (x \div M)
<1>1. M \in Int /\ M > 0
  OBVIOUS
<1>2. x % M = x - M * (x \div M)
  BY <1>1
<1>3. x \div M \in Int /\ x % M \in Int /\ 0 <= x % M /\ x % M < M
  BY <1>1
<1> QED BY <1>2, <1>3, Zenon

\* The remainder is unique.
LEMMA OneRemainder ==
  ASSUME NEW M \in Nat \ {0}, NEW q \in Int, NEW r \in Int, NEW k \in Int, NEW s \in Int,
         0 <= r, r < M, 0 <= s, s < M, M * q + r = M * k + s
  PROVE  r = s
<1>1. CASE q = k
  BY <1>1
<1>2. CASE q > k
  <2>1. M * q >= M * k + M
    BY <1>2
  <2> QED BY <2>1
<1>3. CASE q < k
  <2>1. M * k >= M * q + M
    BY <1>3
  <2> QED BY <2>1
<1> QED BY <1>1, <1>2, <1>3

\* Whole rounds do not change the remainder.
LEMMA ModShift ==
  ASSUME NEW x \in Int, NEW M \in Nat \ {0}, NEW k \in Int
  PROVE  (x + M * k) % M = x % M
<1> DEFINE y == x + M * k
           q == x \div M
           r == x % M
           p == y \div M
           s == y % M
<1>1. y \in Int
  OBVIOUS
<1>2. q \in Int /\ r \in Int /\ 0 <= r /\ r < M /\ r = x - M * q
  BY DivMod
<1>3. p \in Int /\ s \in Int /\ 0 <= s /\ s < M /\ s = y - M * p
  BY <1>1, DivMod
<1>4. y = M * (q + k) + r
  BY <1>2
<1> HIDE DEF q, r, y, p, s
<1>5. M * (q + k) + r = M * p + s /\ q + k \in Int
  BY <1>1, <1>2, <1>3, <1>4
<1>6. r = s
  BY <1>2, <1>3, <1>5, OneRemainder, Zenon
<1> QED BY <1>6 DEF r, s, y

\* A remainder may be taken before or after an addition.
LEMMA ModAdd ==
  ASSUME NEW x \in Int, NEW y \in Int, NEW M \in Nat \ {0}
  PROVE  ((x % M) + y) % M = (x + y) % M
<1> DEFINE q == x \div M
           r == x % M
<1>1. q \in Int /\ r \in Int /\ r = x - M * q
  BY DivMod
<1> HIDE DEF q, r
<1>2. r + y \in Int
  BY <1>1
<1>3. ((r + y) + M * q) % M = (r + y) % M
  BY <1>1, <1>2, ModShift, Zenon
<1>4. (r + y) + M * q = x + y
  BY <1>1
<1> QED BY <1>3, <1>4 DEF r

------------------------------------------------------------------------------
(* Types *)

SlotRecords == [active : BOOLEAN, node : Nodes \cup {NoNode}, is_addition : BOOLEAN]

\* The types, with what the control state adds to them: a call under way is
\* about a node, an operation that is being applied too, and its slot is still
\* claimed.
Typed == /\ TypeOK
         /\ \A c \in Controllers : call[c].at # "idle" => call[c].node \in Nodes
         /\ cycle.at \in {"apply", "store", "free"} => m_pending_ops[cycle.slot].active
         /\ cycle.at = "store" /\ ~crashed => cycle.node \in Nodes

\* A controller is writing slot s: it has claimed it and owes it a member.
Writing(c, s) == call[c].at \in {"node", "kind"} /\ call[c].slot = s

\* Slot s holds an operation somebody asked for.
Complete(s) ==
  /\ m_pending_ops[s].node \in Nodes
  /\ m_pending_ops[s].is_addition \in called[m_pending_ops[s].node]

\* A claimed slot has one writer, who has written what he has passed, or it is
\* complete; the slot being applied or freed has none, the operation in hand is
\* the slot's, and by the time it is freed its addition has taken effect.
SlotsSound ==
  /\ \A c \in Controllers : Writing(c, call[c].slot) =>
       /\ m_pending_ops[call[c].slot].active
       /\ \A d \in Controllers : Writing(d, call[c].slot) => d = c
       /\ call[c].at = "kind" => m_pending_ops[call[c].slot].node = call[c].node
  /\ \A s \in Slots : m_pending_ops[s].active => HalfWritten(s) \/ Complete(s)
  /\ cycle.at \in {"store", "free"} => ~HalfWritten(cycle.slot)
  /\ cycle.at = "store" => /\ cycle.node = m_pending_ops[cycle.slot].node
                            /\ cycle.add = m_pending_ops[cycle.slot].is_addition
  /\ cycle.at = "free" =>
       (called[m_pending_ops[cycle.slot].node] = {TRUE} =>
          m_pending_ops[cycle.slot].node \in m_Nodes)

\* What a call asks for is in called.
CallsNoted ==
  \A c \in Controllers : call[c].at # "idle" => call[c].add \in called[call[c].node]

\* An addition nobody took back is in the list, in a complete slot, or in the
\* hands of a call that has not written its slot.
Kept(n) == \/ n \in m_Nodes
           \/ \E s \in Slots : /\ m_pending_ops[s].active /\ ~HalfWritten(s)
                               /\ m_pending_ops[s].node = n
           \/ \E c \in Controllers : /\ call[c].node = n
                                     /\ call[c].at \notin {"idle", "count"}

NodesKept == \A n \in Nodes : /\ called[n] = {TRUE} => Kept(n)
                              /\ TRUE \notin called[n] => n \notin m_Nodes

\* Until two edits overlap there is one editor, and the list he read is still
\* the list.
EditsAlone ==
  /\ \A c \in Controllers : call[c].at = "store" =>
       /\ call[c].list = m_Nodes
       /\ cycle.at # "store"
       /\ \A d \in Controllers : call[d].at = "store" => d = c
  /\ cycle.at = "store" => cycle.list = m_Nodes

EditsInv == overlap \/ EditsAlone

\* The inductive invariant behind NoCallLost.
CallsInv == CallsNoted /\ (torn \/ overlap \/ (SlotsSound /\ NodesKept))

------------------------------------------------------------------------------
LEMMA SlotFacts ==
  /\ Slots \subseteq Nat /\ 1 \in Slots
  /\ \A s \in Slots : s < MaxPending => s + 1 \in Slots
BY RootNodeAssumption DEF Slots

LEMMA Records ==
  /\ NoCall \in CallState /\ NoCycle \in CycleState
  /\ \A at \in {"look", "visit", "release"} : [NoCycle EXCEPT !.at = at] \in CycleState
BY SlotFacts DEF NoCall, CallState, NoCycle, CycleState

LEMMA NextSlotTyped ==
  ASSUME NEW c \in CycleState
  PROVE  NextSlot(c) \in CycleState /\ NextSlot(c).at \in {"look", "visit", "release"}
<1>1. c.slot \in Slots
  BY DEF CycleState
<1>2. CASE c.slot < MaxPending
  <2>1. c.slot + 1 \in Slots
    BY <1>1, <1>2, SlotFacts
  <2>2. NextSlot(c) = [NoCycle EXCEPT !.at = "look", !.slot = c.slot + 1, !.pass = c.pass]
    BY <1>2 DEF NextSlot
  <2> QED BY <2>1, <2>2 DEF CycleState, NoCycle
<1>3. CASE ~(c.slot < MaxPending)
  <2>1. NextSlot(c) = [NoCycle EXCEPT !.at = IF c.pass = "pre" THEN "visit" ELSE "release"]
    BY <1>3 DEF NextSlot
  <2> QED BY <2>1, SlotFacts DEF NoCycle, CycleState
<1> QED BY <1>2, <1>3

LEMMA CountTyped ==
  ASSUME NEW k \in 0 .. CountModulus - 1
  PROVE  /\ (k + 1) % CountModulus \in 0 .. CountModulus - 1
         /\ (k + CountModulus - 1) % CountModulus \in 0 .. CountModulus - 1
BY RootNodeAssumption

LEMMA InitTyped == Init => Typed
<1> SUFFICES ASSUME Init PROVE Typed
  OBVIOUS
<1>1. m_pending_ops \in [Slots -> [active : BOOLEAN, node : Nodes \cup {NoNode},
                                   is_addition : BOOLEAN]]
  BY DEF Init
<1>2. m_pending_count \in 0 .. CountModulus - 1 /\ calls \in 0 .. MaxCalls
  BY RootNodeAssumption DEF Init
<1>3. TypeOK
  BY <1>1, <1>2, Records DEF Init, TypeOK
<1> QED BY <1>3 DEF Init, Typed, NoCall, NoCycle

\* A controller that moves on inside its call keeps what the call is about.
LEMMA CallMoves ==
  ASSUME TypeOK, NEW c \in Controllers,
         NEW at \in {"node", "kind", "count", "wait", "direct"},
         call' = [call EXCEPT ![c].at = at]
  PROVE  /\ call' \in [Controllers -> CallState]
         /\ call'[c].at = at /\ call'[c].slot = call[c].slot
         /\ call'[c].node = call[c].node /\ call'[c].add = call[c].add
         /\ \A d \in Controllers : d # c => call'[d] = call[d]
BY DEF TypeOK, CallState

\* A call that returns leaves the other controllers alone.
LEMMA CallReturns ==
  ASSUME TypeOK, NEW c \in Controllers, call' = [call EXCEPT ![c] = NoCall]
  PROVE  /\ call' \in [Controllers -> CallState]
         /\ call'[c] = NoCall /\ NoCall.at = "idle"
         /\ \A d \in Controllers : d # c => call'[d] = call[d]
BY Records DEF TypeOK, NoCall

\* A controller reads the list.
LEMMA CallReads ==
  ASSUME TypeOK, NEW c \in Controllers,
         call' = [call EXCEPT ![c].at = "store", ![c].list = m_Nodes]
  PROVE  /\ call' \in [Controllers -> CallState]
         /\ call'[c].at = "store" /\ call'[c].list = m_Nodes
         /\ call'[c].node = call[c].node /\ call'[c].add = call[c].add
         /\ \A d \in Controllers : d # c => call'[d] = call[d]
BY DEF TypeOK, CallState

\* ScanOn moves to the next slot or to the fallback.
LEMMA CallScans ==
  ASSUME TypeOK, NEW c \in Controllers, ScanOn(c)
  PROVE  /\ call' \in [Controllers -> CallState]
         /\ call'[c].at \in {"scan", "wait"}
         /\ call'[c].node = call[c].node /\ call'[c].add = call[c].add
         /\ \A d \in Controllers : d # c => call'[d] = call[d]
<1>1. call[c] \in CallState /\ call[c].slot \in Slots
  BY DEF TypeOK, CallState
<1>2. CASE call[c].slot < MaxPending
  <2>1. call[c].slot + 1 \in Slots
    BY <1>1, <1>2, SlotFacts
  <2>2. call' = [call EXCEPT ![c] = [call[c] EXCEPT !.slot = call[c].slot + 1]]
    BY <1>2 DEF ScanOn
  <2>3. call[c].at = "scan"
    BY DEF ScanOn
  <2>4. [call[c] EXCEPT !.slot = call[c].slot + 1] \in CallState
    BY <1>1, <2>1 DEF CallState
  <2>5. call' \in [Controllers -> CallState]
    BY <2>2, <2>4 DEF TypeOK
  <2>6. call'[c] = [call[c] EXCEPT !.slot = call[c].slot + 1]
        /\ \A d \in Controllers : d # c => call'[d] = call[d]
    BY <2>2 DEF TypeOK
  <2> QED BY <1>1, <2>3, <2>5, <2>6 DEF CallState
<1>3. CASE ~(call[c].slot < MaxPending)
  <2>1. call' = [call EXCEPT ![c] = [call[c] EXCEPT !.at = "wait"]]
    BY <1>3 DEF ScanOn
  <2> QED BY <1>1, <2>1 DEF TypeOK, CallState
<1> QED BY <1>2, <1>3

\* The member writes of one slot.
LEMMA SlotClaimed ==
  ASSUME TypeOK, NEW s \in Slots, m_pending_ops' = [m_pending_ops EXCEPT ![s].active = TRUE]
  PROVE  /\ m_pending_ops' \in [Slots -> SlotRecords]
         /\ m_pending_ops'[s].active
         /\ \A q \in Slots : /\ m_pending_ops'[q].node = m_pending_ops[q].node
                             /\ m_pending_ops'[q].is_addition = m_pending_ops[q].is_addition
                             /\ q # s => m_pending_ops'[q] = m_pending_ops[q]
BY DEF TypeOK, SlotRecords

LEMMA SlotNamed ==
  ASSUME TypeOK, NEW s \in Slots, NEW n \in Nodes,
         m_pending_ops' = [m_pending_ops EXCEPT ![s].node = n]
  PROVE  /\ m_pending_ops' \in [Slots -> SlotRecords]
         /\ m_pending_ops'[s].node = n
         /\ \A q \in Slots : /\ m_pending_ops'[q].active = m_pending_ops[q].active
                             /\ q # s => m_pending_ops'[q] = m_pending_ops[q]
BY DEF TypeOK, SlotRecords

LEMMA SlotKinded ==
  ASSUME TypeOK, NEW s \in Slots, NEW add \in BOOLEAN,
         m_pending_ops' = [m_pending_ops EXCEPT ![s].is_addition = add]
  PROVE  /\ m_pending_ops' \in [Slots -> SlotRecords]
         /\ m_pending_ops'[s].is_addition = add
         /\ \A q \in Slots : /\ m_pending_ops'[q].active = m_pending_ops[q].active
                             /\ m_pending_ops'[q].node = m_pending_ops[q].node
                             /\ q # s => m_pending_ops'[q] = m_pending_ops[q]
BY DEF TypeOK, SlotRecords

LEMMA SlotFreed ==
  ASSUME TypeOK, NEW s \in Slots,
         m_pending_ops' = [m_pending_ops EXCEPT ![s].active = FALSE, ![s].node = NoNode]
  PROVE  /\ m_pending_ops' \in [Slots -> SlotRecords]
         /\ ~m_pending_ops'[s].active
         /\ \A q \in Slots : q # s => m_pending_ops'[q] = m_pending_ops[q]
BY DEF TypeOK, SlotRecords

\* The list after an operation on a node.
LEMMA ListAfter ==
  ASSUME TypeOK, NEW n \in Nodes, NEW add \in BOOLEAN, NEW list \in SUBSET Nodes
  PROVE  /\ Edited(list, n, add) \subseteq Nodes
         /\ \A m \in Nodes : m # n => (m \in Edited(list, n, add) <=> m \in list)
         /\ n \in Edited(list, n, add) <=> add
BY DEF Edited

\* Every step keeps the types.
LEMMA NextTyped ==
  Typed /\ [Next]_vars => Typed'
<1> SUFFICES ASSUME Typed, [Next]_vars PROVE Typed'
  OBVIOUS
<1>t. TypeOK
  BY DEF Typed
<1>k. cycle \in CycleState /\ cycle.slot \in Slots
  BY <1>t DEF TypeOK, CycleState
<1>c. \A d \in Controllers : /\ call[d].slot \in Slots
                             /\ call[d].at # "idle" => call[d].node \in Nodes
  BY <1>t DEF Typed, TypeOK, CallState
<1>b. \A c \in Controllers : call[c].add \in BOOLEAN
  BY <1>t DEF TypeOK, CallState
<1>1. ASSUME NEW c \in Controllers, NEW n \in Nodes, NEW add \in BOOLEAN, Call(c, n, add)
      PROVE  Typed'
  <2>1. [NoCall EXCEPT !.at = "scan", !.node = n, !.add = add] \in CallState
    BY SlotFacts DEF CallState, NoCall
  <2>2. calls' \in 0 .. MaxCalls
    BY <1>1, <1>t, RootNodeAssumption DEF Call, TypeOK
  <2>3. called' \in [Nodes -> SUBSET BOOLEAN]
    BY <1>1, <1>t DEF Call, TypeOK
  <2>4. TypeOK'
    BY <1>1, <1>t, <2>1, <2>2, <2>3 DEF Call, TypeOK, queue
  <2>5. /\ call'[c].node = n
        /\ \A d \in Controllers : d # c => call'[d] = call[d]
    BY <1>1, <1>t DEF Call, TypeOK, NoCall
  <2>6. \A d \in Controllers : call'[d].at # "idle" => call'[d].node \in Nodes
    BY <1>c, <2>5
  <2> QED BY <1>1, <2>4, <2>6 DEF Call, Typed, queue
<1>2. ASSUME NEW c \in Controllers, Claim(c)
      PROVE  Typed'
  <2>0. call[c].at = "scan"
    BY <1>2 DEF Claim
  <2>1. call[c].slot \in Slots /\ call[c].at = "scan"
    BY <1>c, <1>b, <2>0
  <2>2. /\ call' \in [Controllers -> CallState]
        /\ \A d \in Controllers : call'[d].node = call[d].node
                                 /\ (call'[d].at # "idle" => call[d].at # "idle")
    BY <1>2, <1>t, <2>1, CallMoves DEF Claim
  <2>3. /\ m_pending_ops' \in [Slots -> SlotRecords]
        /\ \A s \in Slots : m_pending_ops[s].active => m_pending_ops'[s].active
    BY <1>2, <1>t, <2>1, SlotClaimed DEF Claim
  <2>4. TypeOK'
    BY <1>2, <1>t, <2>2, <2>3 DEF Claim, TypeOK, SlotRecords
  <2> QED BY <1>2, <1>c, <1>k, <2>2, <2>3, <2>4 DEF Claim, Typed
<1>3. ASSUME NEW c \in Controllers, ScanOn(c)
      PROVE  Typed'
  <2>1. /\ call' \in [Controllers -> CallState] /\ call[c].at = "scan"
        /\ \A d \in Controllers : call'[d].node = call[d].node
                                 /\ (call'[d].at # "idle" => call[d].at # "idle")
    BY <1>3, <1>t, CallScans DEF ScanOn
  <2>2. TypeOK'
    BY <1>3, <1>t, <2>1 DEF ScanOn, TypeOK, queue
  <2> QED BY <1>3, <1>c, <2>1, <2>2 DEF ScanOn, Typed, queue
<1>4. ASSUME NEW c \in Controllers, WriteNode(c)
      PROVE  Typed'
  <2>0. call[c].at = "node"
    BY <1>4 DEF WriteNode
  <2>1. call[c].slot \in Slots /\ call[c].at = "node" /\ call[c].node \in Nodes
    BY <1>c, <1>b, <2>0
  <2>2. /\ call' \in [Controllers -> CallState]
        /\ \A d \in Controllers : call'[d].node = call[d].node
                                 /\ (call'[d].at # "idle" => call[d].at # "idle")
    BY <1>4, <1>t, <2>1, CallMoves DEF WriteNode
  <2>3. /\ m_pending_ops' \in [Slots -> SlotRecords]
        /\ \A s \in Slots : m_pending_ops[s].active => m_pending_ops'[s].active
    BY <1>4, <1>t, <2>1, SlotNamed DEF WriteNode
  <2>4. TypeOK'
    BY <1>4, <1>t, <2>2, <2>3 DEF WriteNode, TypeOK, SlotRecords
  <2> QED BY <1>4, <1>c, <1>k, <2>2, <2>3, <2>4 DEF WriteNode, Typed
<1>5. ASSUME NEW c \in Controllers, WriteKind(c)
      PROVE  Typed'
  <2>0. call[c].at = "kind"
    BY <1>5 DEF WriteKind
  <2>1. call[c].slot \in Slots /\ call[c].at = "kind" /\ call[c].add \in BOOLEAN
    BY <1>c, <1>b, <2>0
  <2>2. /\ call' \in [Controllers -> CallState]
        /\ \A d \in Controllers : call'[d].node = call[d].node
                                 /\ (call'[d].at # "idle" => call[d].at # "idle")
    BY <1>5, <1>t, <2>1, CallMoves DEF WriteKind
  <2>3. /\ m_pending_ops' \in [Slots -> SlotRecords]
        /\ \A s \in Slots : m_pending_ops[s].active => m_pending_ops'[s].active
    BY <1>5, <1>t, <2>1, SlotKinded DEF WriteKind
  <2>4. TypeOK'
    BY <1>5, <1>t, <2>2, <2>3 DEF WriteKind, TypeOK, SlotRecords
  <2> QED BY <1>5, <1>c, <1>k, <2>2, <2>3, <2>4 DEF WriteKind, Typed
<1>6. ASSUME NEW c \in Controllers, Count(c)
      PROVE  Typed'
  <2>1. /\ call' \in [Controllers -> CallState]
        /\ call'[c].at = "idle" /\ \A d \in Controllers : d # c => call'[d] = call[d]
    BY <1>6, <1>t, CallReturns DEF Count
  <2>2. m_pending_count' \in 0 .. CountModulus - 1
    BY <1>6, <1>t, CountTyped DEF Count, TypeOK
  <2>3. TypeOK'
    BY <1>6, <1>t, <2>1, <2>2 DEF Count, TypeOK
  <2> QED BY <1>6, <1>c, <2>1, <2>3 DEF Count, Typed
<1>7. ASSUME NEW c \in Controllers, WaitIdle(c)
      PROVE  Typed'
  <2>1. /\ call' \in [Controllers -> CallState] /\ call[c].at = "wait"
        /\ \A d \in Controllers : call'[d].node = call[d].node
                                 /\ (call'[d].at # "idle" => call[d].at # "idle")
    BY <1>7, <1>t, CallMoves DEF WaitIdle
  <2>2. TypeOK'
    BY <1>7, <1>t, <2>1 DEF WaitIdle, TypeOK, queue
  <2> QED BY <1>7, <1>c, <2>1, <2>2 DEF WaitIdle, Typed, queue
<1>8. ASSUME NEW c \in Controllers, Direct(c)
      PROVE  Typed'
  <2>1. /\ call' \in [Controllers -> CallState] /\ call[c].at = "direct"
        /\ \A d \in Controllers : call'[d].node = call[d].node
                                 /\ (call'[d].at # "idle" => call[d].at # "idle")
    BY <1>8, <1>t, CallReads DEF Direct
  <2>2. overlap' \in BOOLEAN
    BY <1>8 DEF Direct
  <2>3. TypeOK'
    BY <1>8, <1>t, <2>1, <2>2 DEF Direct, TypeOK, queue
  <2> QED BY <1>8, <1>c, <2>1, <2>3 DEF Direct, Typed, queue
<1>8a. ASSUME NEW c \in Controllers, DirectStore(c)
       PROVE  Typed'
  <2>1. /\ call' \in [Controllers -> CallState] /\ call[c].at = "store"
        /\ call'[c].at = "idle" /\ \A d \in Controllers : d # c => call'[d] = call[d]
    BY <1>8a, <1>t, CallReturns DEF DirectStore
  <2>2. call[c].node \in Nodes /\ call[c].add \in BOOLEAN /\ call[c].list \in SUBSET Nodes
    BY <1>c, <1>b, <1>t, <2>1 DEF TypeOK, CallState
  <2>3. m_Nodes' \subseteq Nodes
    BY <1>8a, <1>t, <2>2, ListAfter DEF DirectStore
  <2>4. TypeOK'
    BY <1>8a, <1>t, <2>1, <2>3 DEF DirectStore, TypeOK, queue
  <2> QED BY <1>8a, <1>c, <2>1, <2>4 DEF DirectStore, Typed, queue
<1>9. ASSUME Preprocess \/ Visited \/ Release
      PROVE  Typed'
  <2>1. /\ UNCHANGED <<m_Nodes, queue, call, calls, called, torn, overlap, crashed>>
        /\ m_is_processing' \in BOOLEAN
    BY <1>9, <1>t DEF Preprocess, Visited, Release, TypeOK
  <2>2. cycle' \in CycleState /\ cycle'.at \notin {"apply", "store", "free"}
    <3>1. CASE Preprocess
      BY <3>1, SlotFacts DEF Preprocess, NoCycle, CycleState
    <3>2. CASE Visited
      BY <3>2, SlotFacts DEF Visited, NoCycle, CycleState
    <3>3. CASE Release
      BY <3>3, SlotFacts DEF Release, NoCycle, CycleState
    <3> QED BY <1>9, <3>1, <3>2, <3>3
  <2> QED BY <1>t, <2>1, <2>2 DEF Typed, TypeOK, queue
<1>10. ASSUME Look PROVE Typed'
  <2>1. UNCHANGED <<m_Nodes, queue, m_is_processing, call, calls, called,
                    torn, overlap, crashed>>
    BY <1>10 DEF Look
  <2>2. /\ cycle' \in CycleState
        /\ cycle'.at \in {"apply", "store", "free"} => m_pending_ops[cycle'.slot].active
        /\ cycle'.at # "store"
    <3>1. CASE m_pending_ops[cycle.slot].active
      BY <1>10, <1>k, <3>1 DEF Look, CycleState
    <3>2. CASE ~m_pending_ops[cycle.slot].active
      BY <1>10, <1>k, <3>2, NextSlotTyped DEF Look
    <3> QED BY <3>1, <3>2
  <2> QED BY <1>t, <2>1, <2>2 DEF Typed, TypeOK, queue
<1>11. ASSUME Apply PROVE Typed'
  <2> DEFINE op == m_pending_ops[cycle.slot]
  <2>1. /\ UNCHANGED <<m_Nodes, queue, m_is_processing, call, calls, called>>
        /\ cycle' = [cycle EXCEPT !.at = "store", !.node = op.node, !.add = op.is_addition,
                                  !.list = m_Nodes]
        /\ cycle.at = "apply" /\ crashed' = (op.node = NoNode)
        /\ torn' \in BOOLEAN /\ overlap' \in BOOLEAN /\ crashed' \in BOOLEAN
    BY <1>11 DEF Apply
  <2>2. op.node \in Nodes \cup {NoNode} /\ op.is_addition \in BOOLEAN /\ m_Nodes \in SUBSET Nodes
    BY <1>t, <1>k DEF TypeOK
  <2> HIDE DEF op
  <2>3. cycle' \in CycleState /\ cycle'.slot = cycle.slot /\ cycle'.node = op.node
    BY <2>1, <2>2, <1>k DEF CycleState
  <2>4. TypeOK'
    BY <1>t, <2>1, <2>3 DEF TypeOK, queue
  <2> QED BY <2>1, <2>2, <2>3, <2>4 DEF Typed, queue
<1>11a. ASSUME Store PROVE Typed'
  <2>1. /\ UNCHANGED <<queue, m_is_processing, call, calls, called, torn, overlap, crashed>>
        /\ cycle' = [cycle EXCEPT !.at = "free"] /\ cycle.at = "store" /\ ~crashed
        /\ m_Nodes' = Edited(cycle.list, cycle.node, cycle.add)
    BY <1>11a DEF Store
  <2>2. cycle.node \in Nodes /\ cycle.add \in BOOLEAN /\ cycle.list \in SUBSET Nodes
    BY <1>k, <2>1 DEF Typed, CycleState
  <2>3. cycle' \in CycleState /\ cycle'.slot = cycle.slot /\ cycle'.at = "free"
    BY <2>1, <1>k DEF CycleState
  <2>4. m_Nodes' \subseteq Nodes
    BY <1>t, <2>1, <2>2, ListAfter
  <2>5. TypeOK'
    BY <1>t, <2>1, <2>3, <2>4 DEF TypeOK, queue
  <2> QED BY <2>1, <2>3, <2>5 DEF Typed, queue
<1>12. ASSUME Free PROVE Typed'
  <2>1. /\ UNCHANGED <<m_Nodes, m_is_processing, call, calls, called,
                       torn, overlap, crashed>>
        /\ cycle' = NextSlot(cycle)
    BY <1>12 DEF Free
  <2>2. m_pending_ops' \in [Slots -> SlotRecords]
    BY <1>12, <1>t, <1>k, SlotFreed DEF Free
  <2>3. m_pending_count' \in 0 .. CountModulus - 1
    BY <1>12, <1>t, CountTyped DEF Free, TypeOK
  <2>4. cycle' \in CycleState /\ cycle'.at \notin {"apply", "store", "free"}
    BY <1>k, <2>1, NextSlotTyped
  <2>5. TypeOK'
    BY <1>t, <2>1, <2>2, <2>3, <2>4 DEF TypeOK, SlotRecords
  <2> QED BY <2>1, <2>4, <2>5 DEF Typed
<1>13. ASSUME UNCHANGED vars PROVE Typed'
  BY <1>13, <1>t DEF vars, Typed, TypeOK
<1> QED
  BY <1>1, <1>2, <1>3, <1>4, <1>5, <1>6, <1>7, <1>8, <1>8a, <1>9, <1>10, <1>11, <1>11a,
     <1>12, <1>13
  DEF Next, Controller, Process

------------------------------------------------------------------------------
(* Arithmetic of the unsigned counter *)

\* The three ways the counter, the calls in flight and the slots move together.
LEMMA CountMoves ==
  ASSUME NEW m \in Int, NEW i \in Int, NEW a \in Int, NEW M \in Nat \ {0},
         (m + i) % M = a % M
  PROVE  /\ (m + (i + 1)) % M = (a + 1) % M
         /\ (((m + 1) % M) + (i - 1)) % M = a % M
         /\ (((m + M - 1) % M) + i) % M = (a - 1) % M
<1>0. /\ m + i \in Int /\ m + 1 \in Int /\ i - 1 \in Int /\ m + M - 1 \in Int
      /\ (m + i) + (-1) \in Int /\ 1 \in Int /\ -1 \in Int
  OBVIOUS
<1>1. ASSUME NEW k \in Int PROVE ((m + i) + k) % M = (a + k) % M
  <2>1. \A x \in Int : ((x % M) + k) % M = (x + k) % M
    BY ModAdd, Zenon
  <2>2. /\ (((m + i) % M) + k) % M = ((m + i) + k) % M
        /\ ((a % M) + k) % M = (a + k) % M
    BY <1>0, <2>1, Zenon
  <2> QED BY <2>2
<1>2. (m + (i + 1)) % M = (a + 1) % M
  <2>1. m + (i + 1) = (m + i) + 1
    OBVIOUS
  <2> QED BY <1>1, <2>1
<1>3. (((m + 1) % M) + (i - 1)) % M = a % M
  <2>1. (((m + 1) % M) + (i - 1)) % M = ((m + 1) + (i - 1)) % M
    BY <1>0, ModAdd, Zenon
  <2>2. (m + 1) + (i - 1) = m + i
    OBVIOUS
  <2> QED BY <2>1, <2>2
<1>4. (((m + M - 1) % M) + i) % M = (a - 1) % M
  <2>1. (((m + M - 1) % M) + i) % M = ((m + M - 1) + i) % M
    BY <1>0, ModAdd, Zenon
  <2>2. (m + M - 1) + i = ((m + i) + (-1)) + M * 1
    OBVIOUS
  <2>3. (((m + i) + (-1)) + M * 1) % M = ((m + i) + (-1)) % M
    BY <1>0, ModShift, Zenon
  <2>4. ((m + i) + (-1)) % M = (a + (-1)) % M
    BY <1>1
  <2>5. a + (-1) = a - 1
    OBVIOUS
  <2> QED BY <2>1, <2>2, <2>3, <2>4, <2>5
<1> QED BY <1>2, <1>3, <1>4

------------------------------------------------------------------------------
LEMMA CountedFinite ==
  /\ IsFiniteSet(InFlight) /\ Cardinality(InFlight) \in Nat
  /\ IsFiniteSet(Active) /\ Cardinality(Active) \in Nat
<1>1. IsFiniteSet(Slots)
  BY RootNodeAssumption, FS_Interval DEF Slots
<1>2. IsFiniteSet(InFlight)
  BY RootNodeAssumption, FS_Subset DEF InFlight
<1>3. IsFiniteSet(Active)
  BY <1>1, FS_Subset DEF Active
<1> QED BY <1>2, <1>3, FS_CardinalityType

LEMMA InitCount == Init => CountMatches
<1> SUFFICES ASSUME Init PROVE CountMatches
  OBVIOUS
<1>1. InFlight = {} /\ Active = {} /\ m_pending_count = 0
  BY DEF Init, InFlight, Active, NoCall
<1>2. Cardinality(InFlight) = 0 /\ Cardinality(Active) = 0
  BY <1>1, FS_EmptySet
<1> QED BY <1>1, <1>2 DEF CountMatches

\* Every step moves the counter with the slots and the calls in flight.
LEMMA NextCount == Typed /\ CountMatches /\ [Next]_vars => CountMatches'
<1> SUFFICES ASSUME Typed, CountMatches, [Next]_vars PROVE CountMatches'
  OBVIOUS
<1> DEFINE i == Cardinality(InFlight)
           a == Cardinality(Active)
           m == m_pending_count
<1>t. TypeOK
  BY DEF Typed
<1>n. /\ m \in Int /\ i \in Int /\ a \in Int /\ CountModulus \in Nat \ {0}
      /\ (m + i) % CountModulus = a % CountModulus
  BY <1>t, CountedFinite, RootNodeAssumption DEF TypeOK, CountMatches
<1>s. ASSUME m_pending_count' = m, InFlight' = InFlight, Active' = Active PROVE CountMatches'
  BY <1>s DEF CountMatches
<1> HIDE DEF i, a, m
<1>m. /\ (m + (i + 1)) % CountModulus = (a + 1) % CountModulus
      /\ (((m + 1) % CountModulus) + (i - 1)) % CountModulus = a % CountModulus
      /\ (((m + CountModulus - 1) % CountModulus) + i) % CountModulus = (a - 1) % CountModulus
  BY <1>n, CountMoves
<1>k. cycle \in CycleState /\ cycle.slot \in Slots
  BY <1>t DEF TypeOK, CycleState
<1>c. \A d \in Controllers : call[d].slot \in Slots
  BY <1>t DEF TypeOK, CallState
<1>1. ASSUME NEW c \in Controllers, NEW n \in Nodes, NEW add \in BOOLEAN, Call(c, n, add)
      PROVE  CountMatches'
  <2>1. /\ call[c].at = "idle" /\ call'[c].at = "scan"
        /\ \A d \in Controllers : d # c => call'[d] = call[d]
        /\ UNCHANGED queue
    BY <1>1, <1>t DEF Call, TypeOK, NoCall
  <2> QED BY <2>1, <1>s DEF InFlight, Active, queue, m
<1>2. ASSUME NEW c \in Controllers, Claim(c) PROVE CountMatches'
  <2>1. /\ call[c].at = "scan" /\ call[c].slot \in Slots
        /\ ~m_pending_ops[call[c].slot].active /\ m_pending_count' = m
    BY <1>2, <1>c DEF Claim, m
  <2>2. call'[c].at = "node" /\ \A d \in Controllers : d # c => call'[d] = call[d]
    BY <1>2, <1>t, CallMoves DEF Claim
  <2>3. /\ m_pending_ops'[call[c].slot].active
        /\ \A q \in Slots : q # call[c].slot => m_pending_ops'[q] = m_pending_ops[q]
    BY <1>2, <1>t, <2>1, SlotClaimed DEF Claim
  <2>4. InFlight' = InFlight \cup {c} /\ c \notin InFlight
    BY <2>1, <2>2 DEF InFlight
  <2>5. Active' = Active \cup {call[c].slot} /\ call[c].slot \notin Active
    BY <2>1, <2>3 DEF Active
  <2>6. Cardinality(InFlight') = i + 1 /\ Cardinality(Active') = a + 1
    BY <2>4, <2>5, CountedFinite, FS_AddElement DEF i, a
  <2> QED BY <2>1, <2>6, <1>m DEF CountMatches
<1>3. ASSUME NEW c \in Controllers, ScanOn(c) PROVE CountMatches'
  <2>1. /\ call[c].at = "scan" /\ call'[c].at \in {"scan", "wait"}
        /\ \A d \in Controllers : d # c => call'[d] = call[d]
        /\ UNCHANGED queue
    BY <1>3, <1>t, CallScans DEF ScanOn
  <2> QED BY <2>1, <1>s DEF InFlight, Active, queue, m
<1>4. ASSUME NEW c \in Controllers, WriteNode(c) PROVE CountMatches'
  <2>1. /\ call[c].at = "node" /\ call'[c].at = "kind" /\ m_pending_count' = m
        /\ \A d \in Controllers : d # c => call'[d] = call[d]
    BY <1>4, <1>t, CallMoves DEF WriteNode, m
  <2>2. \A q \in Slots : m_pending_ops'[q].active = m_pending_ops[q].active
    <3>1. call[c].node \in Nodes /\ call[c].slot \in Slots
      BY <1>c, <2>1 DEF Typed
    <3> QED BY <1>4, <1>t, <3>1, SlotNamed DEF WriteNode
  <2> QED BY <2>1, <2>2, <1>s DEF InFlight, Active
<1>5. ASSUME NEW c \in Controllers, WriteKind(c) PROVE CountMatches'
  <2>1. /\ call[c].at = "kind" /\ call'[c].at = "count" /\ m_pending_count' = m
        /\ \A d \in Controllers : d # c => call'[d] = call[d]
    BY <1>5, <1>t, CallMoves DEF WriteKind, m
  <2>2. \A q \in Slots : m_pending_ops'[q].active = m_pending_ops[q].active
    <3>1. call[c].add \in BOOLEAN /\ call[c].slot \in Slots
      BY <1>t DEF TypeOK, CallState
    <3> QED BY <1>5, <1>t, <3>1, SlotKinded DEF WriteKind
  <2> QED BY <2>1, <2>2, <1>s DEF InFlight, Active
<1>6. ASSUME NEW c \in Controllers, Count(c) PROVE CountMatches'
  <2>1. /\ call[c].at = "count" /\ m_pending_count' = (m + 1) % CountModulus
        /\ UNCHANGED m_pending_ops
    BY <1>6 DEF Count, m
  <2>2. call'[c].at = "idle" /\ \A d \in Controllers : d # c => call'[d] = call[d]
    BY <1>6, <1>t, CallReturns DEF Count
  <2>3. InFlight' = InFlight \ {c} /\ c \in InFlight /\ Active' = Active
    BY <2>1, <2>2 DEF InFlight, Active
  <2>4. Cardinality(InFlight') = i - 1 /\ Cardinality(Active') = a
    BY <2>3, CountedFinite, FS_RemoveElement DEF i, a
  <2> QED BY <2>1, <2>4, <1>m DEF CountMatches
<1>7. ASSUME NEW c \in Controllers, WaitIdle(c) PROVE CountMatches'
  <2>1. /\ call[c].at = "wait" /\ call'[c].at = "direct" /\ UNCHANGED queue
        /\ \A d \in Controllers : d # c => call'[d] = call[d]
    BY <1>7, <1>t, CallMoves DEF WaitIdle
  <2> QED BY <2>1, <1>s DEF InFlight, Active, queue, m
<1>8. ASSUME NEW c \in Controllers, Direct(c) PROVE CountMatches'
  <2>1. /\ call[c].at = "direct" /\ call'[c].at = "store" /\ UNCHANGED queue
        /\ \A d \in Controllers : d # c => call'[d] = call[d]
    BY <1>8, <1>t, CallReads DEF Direct
  <2> QED BY <2>1, <1>s DEF InFlight, Active, queue, m
<1>8a. ASSUME NEW c \in Controllers, DirectStore(c) PROVE CountMatches'
  <2>1. /\ call[c].at = "store" /\ call'[c].at = "idle" /\ UNCHANGED queue
        /\ \A d \in Controllers : d # c => call'[d] = call[d]
    BY <1>8a, <1>t, CallReturns DEF DirectStore
  <2> QED BY <2>1, <1>s DEF InFlight, Active, queue, m
<1>9. ASSUME Preprocess \/ Visited \/ Release \/ Look \/ Apply \/ Store \/ UNCHANGED vars
      PROVE  CountMatches'
  <2>1. UNCHANGED <<call, queue>>
    BY <1>9 DEF Preprocess, Visited, Release, Look, Apply, Store, vars, queue
  <2> QED BY <2>1, <1>s DEF InFlight, Active, queue, m
<1>10. ASSUME Free PROVE CountMatches'
  <2>1. /\ m_pending_count' = (m + CountModulus - 1) % CountModulus
        /\ UNCHANGED call /\ cycle.at = "free"
    BY <1>10 DEF Free, m
  <2>2. /\ ~m_pending_ops'[cycle.slot].active
        /\ \A q \in Slots : q # cycle.slot => m_pending_ops'[q] = m_pending_ops[q]
    BY <1>10, <1>t, <1>k, SlotFreed DEF Free
  <2>3. Active' = Active \ {cycle.slot} /\ cycle.slot \in Active /\ InFlight' = InFlight
    BY <1>k, <2>1, <2>2 DEF Typed, Active, InFlight
  <2>4. Cardinality(Active') = a - 1 /\ Cardinality(InFlight') = i
    BY <2>3, CountedFinite, FS_RemoveElement DEF i, a
  <2> QED BY <2>1, <2>4, <1>m DEF CountMatches
<1> QED
  BY <1>1, <1>2, <1>3, <1>4, <1>5, <1>6, <1>7, <1>8, <1>8a, <1>9, <1>10
  DEF Next, Controller, Process

\* For any number of controllers and slots and any width of the counter, also
\* one that wraps: m_pending_count is the claimed slots less the calls that have
\* not counted theirs, so a zero counter never hides a slot for good.
THEOREM CounterMatches == Spec => []CountMatches
<1>1. Spec => []Typed
  BY InitTyped, NextTyped, PTL DEF Spec
<1> QED BY <1>1, InitCount, NextCount, PTL DEF Spec

------------------------------------------------------------------------------
LEMMA InitCalls == Init => EditsInv /\ CallsInv
<1> SUFFICES ASSUME Init PROVE EditsInv /\ CallsInv
  OBVIOUS
<1>1. \A c \in Controllers : call[c].at = "idle"
  BY DEF Init, NoCall
<1>2. \A s \in Slots : ~m_pending_ops[s].active
  BY DEF Init
<1>3. cycle.at = "idle" /\ m_Nodes = {} /\ \A n \in Nodes : called[n] = {}
  BY DEF Init, NoCycle
<1>4. SlotsSound
  BY <1>1, <1>2, <1>3 DEF SlotsSound, Writing
<1>5. NodesKept
  BY <1>3 DEF NodesKept
<1> QED BY <1>1, <1>3, <1>4, <1>5 DEF CallsInv, CallsNoted, EditsInv, EditsAlone

\* A cycle that begins, goes on to the nodes or ends applies nothing.
LEMMA CycleTurns ==
  ASSUME Preprocess \/ Visited \/ Release \/ UNCHANGED vars
  PROVE  cycle'.at \notin {"store", "free"} \/ cycle' = cycle
<1>1. CASE Preprocess
  BY <1>1 DEF Preprocess, NoCycle
<1>2. CASE Visited
  BY <1>2 DEF Visited, NoCycle
<1>3. CASE Release
  BY <1>3 DEF Release, NoCycle
<1>4. CASE UNCHANGED vars
  BY <1>4 DEF vars
<1> QED BY <1>1, <1>2, <1>3, <1>4

\* A step that begins no edit and leaves the list alone keeps the edits alone.
LEMMA EditsKept ==
  ASSUME EditsInv, UNCHANGED <<m_Nodes, overlap>>,
         cycle'.at = "store" => cycle' = cycle,
         \A d \in Controllers : call'[d].at = "store" => call'[d] = call[d]
  PROVE  EditsInv'
BY DEF EditsInv, EditsAlone

LEMMA NextEdits == Typed /\ EditsInv /\ [Next]_vars => EditsInv'
<1> SUFFICES ASSUME Typed, EditsInv, [Next]_vars PROVE EditsInv'
  OBVIOUS
<1>t. TypeOK
  BY DEF Typed
<1>k. cycle \in CycleState
  BY <1>t DEF TypeOK
<1>1. ASSUME NEW c \in Controllers, NEW n \in Nodes, NEW add \in BOOLEAN, Call(c, n, add)
      PROVE  EditsInv'
  <2>1. /\ call'[c].at = "scan" /\ \A d \in Controllers : d # c => call'[d] = call[d]
        /\ UNCHANGED <<m_Nodes, overlap, cycle>>
    BY <1>1, <1>t DEF Call, TypeOK, NoCall
  <2> QED BY <2>1, EditsKept
<1>2. ASSUME NEW c \in Controllers,
             Claim(c) \/ WriteNode(c) \/ WriteKind(c) \/ WaitIdle(c)
      PROVE  EditsInv'
  <2>1. /\ call'[c].at \in {"node", "kind", "count", "direct"}
        /\ \A d \in Controllers : d # c => call'[d] = call[d]
        /\ UNCHANGED <<m_Nodes, overlap, cycle>>
    BY <1>2, <1>t DEF Claim, WriteNode, WriteKind, WaitIdle, TypeOK, CallState
  <2> QED BY <2>1, EditsKept
<1>3. ASSUME NEW c \in Controllers, ScanOn(c) PROVE EditsInv'
  <2>1. /\ call'[c].at \in {"scan", "wait"}
        /\ \A d \in Controllers : d # c => call'[d] = call[d]
        /\ UNCHANGED <<m_Nodes, overlap, cycle>>
    BY <1>3, <1>t, CallScans DEF ScanOn
  <2> QED BY <2>1, EditsKept
<1>4. ASSUME NEW c \in Controllers, Count(c) PROVE EditsInv'
  <2>1. /\ call'[c].at = "idle" /\ \A d \in Controllers : d # c => call'[d] = call[d]
        /\ UNCHANGED <<m_Nodes, overlap, cycle>>
    BY <1>4, <1>t, CallReturns DEF Count
  <2> QED BY <2>1, EditsKept
<1>5. ASSUME NEW c \in Controllers, Direct(c) PROVE EditsInv'
  <2>1. /\ call'[c].at = "store" /\ call'[c].list = m_Nodes
        /\ \A d \in Controllers : d # c => call'[d] = call[d]
        /\ UNCHANGED <<m_Nodes, cycle>> /\ overlap' = (overlap \/ Editing)
    BY <1>5, <1>t, CallReads DEF Direct
  <2> QED BY <2>1 DEF EditsInv, EditsAlone, Editing
<1>6. ASSUME NEW c \in Controllers, DirectStore(c) PROVE EditsInv'
  <2>1. /\ call[c].at = "store" /\ call'[c].at = "idle"
        /\ \A d \in Controllers : d # c => call'[d] = call[d]
        /\ UNCHANGED <<cycle, overlap>>
    BY <1>6, <1>t, CallReturns DEF DirectStore
  <2> QED BY <2>1 DEF EditsInv, EditsAlone
<1>7. ASSUME Preprocess \/ Visited \/ Release \/ Look \/ Free \/ UNCHANGED vars
      PROVE  EditsInv'
  <2>1. UNCHANGED <<m_Nodes, overlap, call>>
    BY <1>7 DEF Preprocess, Visited, Release, Look, Free, vars
  <2>2. cycle'.at # "store" \/ cycle' = cycle
    <3>1. CASE Preprocess \/ Visited \/ Release \/ UNCHANGED vars
      BY <3>1, CycleTurns
    <3>2. CASE Look \/ Free
      BY <1>k, <3>2, NextSlotTyped DEF Look, Free, CycleState
    <3> QED BY <1>7, <3>1, <3>2
  <2> QED BY <2>1, <2>2, EditsKept
<1>8. ASSUME Apply PROVE EditsInv'
  <2>1. /\ cycle'.list = m_Nodes /\ UNCHANGED <<m_Nodes, call>>
        /\ overlap' = (overlap \/ Editing)
    BY <1>8, <1>k DEF Apply, CycleState
  <2> QED BY <2>1 DEF EditsInv, EditsAlone, Editing
<1>9. ASSUME Store PROVE EditsInv'
  <2>1. cycle.at = "store" /\ cycle'.at = "free" /\ UNCHANGED <<call, overlap>>
    BY <1>9, <1>k DEF Store, CycleState
  <2> QED BY <2>1 DEF EditsInv, EditsAlone
<1> QED
  BY <1>1, <1>2, <1>3, <1>4, <1>5, <1>6, <1>7, <1>8, <1>9
  DEF Next, Controller, Process

\* What a step that leaves the slots and the list alone keeps: nobody becomes
\* or stops being a writer, and nobody drops a call that still owes its slot.
LEMMA CallsKept ==
  ASSUME Typed, Typed', CallsInv,
         UNCHANGED <<m_Nodes, m_pending_ops, called, torn, overlap>>,
         cycle'.at \in {"store", "free"} => cycle' = cycle,
         \A d \in Controllers :
           \/ call'[d] = call[d]
           \/ /\ call[d].at \notin {"node", "kind"} /\ call'[d].at \notin {"node", "kind"}
              /\ \/ call'[d].at = "idle" /\ call[d].at = "count"
                 \/ /\ call[d].at \notin {"idle", "count"} /\ call'[d].at # "count"
                    /\ call'[d].at # "idle"
                    /\ call'[d].node = call[d].node /\ call'[d].add = call[d].add
  PROVE  CallsInv'
<1>1. CallsNoted'
  BY DEF CallsInv, CallsNoted
<1>2. SUFFICES ASSUME ~torn, ~overlap, SlotsSound, NodesKept
                PROVE  SlotsSound' /\ NodesKept'
  BY <1>1 DEF CallsInv
<1>3. \A d \in Controllers, s \in Slots : Writing(d, s)' <=> Writing(d, s)
  BY DEF Writing
<1>4. \A d \in Controllers : Writing(d, call[d].slot)' => call'[d] = call[d]
  BY DEF Writing
<1>5. \A s \in Slots : HalfWritten(s)' <=> HalfWritten(s)
  BY <1>3 DEF HalfWritten, Writing
<1>6. SlotsSound'
  <2>1. \A d \in Controllers : Writing(d, call[d].slot)' =>
          /\ m_pending_ops[call[d].slot].active
          /\ \A e \in Controllers : Writing(e, call[d].slot)' => e = d
          /\ call[d].at = "kind" => m_pending_ops[call[d].slot].node = call[d].node
    BY <1>2 DEF SlotsSound, Writing
  <2>2. \A s \in Slots : m_pending_ops'[s].active => HalfWritten(s)' \/ Complete(s)'
    BY <1>2, <1>5 DEF SlotsSound, Complete
  <2>3. cycle'.at \in {"store", "free"} =>
          /\ ~HalfWritten(cycle.slot)'
          /\ cycle'.at = "store" => /\ cycle'.node = m_pending_ops'[cycle'.slot].node
                                     /\ cycle'.add = m_pending_ops'[cycle'.slot].is_addition
          /\ cycle'.at = "free" =>
               (called'[m_pending_ops'[cycle'.slot].node] = {TRUE} =>
                  m_pending_ops'[cycle'.slot].node \in m_Nodes')
    <3>1. cycle.slot \in Slots
      BY DEF Typed, TypeOK, CycleState
    <3> QED BY <1>2, <1>5, <3>1 DEF SlotsSound
  <2> QED BY <1>4, <2>1, <2>2, <2>3 DEF SlotsSound
<1>7. \A n \in Nodes : Kept(n) => Kept(n)'
  BY <1>5 DEF Kept
<1> QED BY <1>2, <1>6, <1>7 DEF NodesKept

LEMMA NextCalls == Typed /\ EditsInv /\ CallsInv /\ [Next]_vars => CallsInv'
<1> SUFFICES ASSUME Typed, EditsInv, CallsInv, [Next]_vars PROVE CallsInv'
  OBVIOUS
<1>t. TypeOK
  BY DEF Typed
<1>u. Typed'
  BY NextTyped
<1>k. cycle \in CycleState /\ cycle.slot \in Slots
  BY <1>t DEF TypeOK, CycleState
<1>c. \A d \in Controllers : /\ call[d].slot \in Slots
                             /\ call[d].at # "idle" => call[d].node \in Nodes
  BY <1>t DEF Typed, TypeOK, CallState
<1>b. \A d \in Controllers : call[d].add \in BOOLEAN
  BY <1>t DEF TypeOK, CallState
<1>1. ASSUME NEW c \in Controllers, NEW n \in Nodes, NEW add \in BOOLEAN, Call(c, n, add)
      PROVE  CallsInv'
  <2>1. /\ call[c].at = "idle" /\ call'[c].at = "scan"
        /\ call'[c].node = n /\ call'[c].add = add
        /\ \A d \in Controllers : d # c => call'[d] = call[d]
        /\ UNCHANGED <<m_Nodes, m_pending_ops, cycle, torn, overlap>>
    BY <1>1, <1>t DEF Call, TypeOK, queue, NoCall
  <2>2. /\ called'[n] = called[n] \cup {add}
        /\ \A q \in Nodes : q # n => called'[q] = called[q]
    BY <1>1, <1>t DEF Call, TypeOK
  <2>3. \A q \in Nodes : called[q] \subseteq called'[q]
    BY <2>2
  <2>4. CallsNoted'
    BY <1>c, <2>1, <2>2, <2>3 DEF CallsInv, CallsNoted
  <2>5. SUFFICES ASSUME ~torn, ~overlap, SlotsSound, NodesKept
                PROVE  SlotsSound' /\ NodesKept'
    BY <2>1, <2>4 DEF CallsInv
  <2>6. \A s \in Slots : HalfWritten(s)' <=> HalfWritten(s)
    BY <2>1 DEF HalfWritten
  <2>7. \A q \in Nodes : called'[q] = {TRUE} => q = n \/ called[q] = {TRUE}
    BY <2>2
  <2>8. \A s \in Slots : Complete(s) => Complete(s)'
    BY <2>1, <2>3 DEF Complete
  <2>9. SlotsSound'
    <3>1. \A d \in Controllers : Writing(d, call[d].slot)' =>
             /\ m_pending_ops[call[d].slot].active
             /\ \A e \in Controllers : Writing(e, call[d].slot)' => e = d
             /\ call[d].at = "kind" => m_pending_ops[call[d].slot].node = call[d].node
      BY <2>1, <2>5 DEF SlotsSound, Writing
    <3>2. \A d \in Controllers : Writing(d, call[d].slot)' => call'[d] = call[d]
      BY <2>1 DEF Writing
    <3>3. \A s \in Slots : m_pending_ops'[s].active => HalfWritten(s)' \/ Complete(s)'
      BY <2>1, <2>5, <2>6, <2>8 DEF SlotsSound
    <3>4. ASSUME cycle.at \in {"store", "free"}
          PROVE  /\ ~HalfWritten(cycle.slot)'
                 /\ cycle.at = "free" =>
                      (called'[m_pending_ops[cycle.slot].node] = {TRUE} =>
                         m_pending_ops[cycle.slot].node \in m_Nodes)
      <4>1. ~HalfWritten(cycle.slot) /\ Complete(cycle.slot)
        BY <1>k, <2>5, <3>4 DEF SlotsSound, Typed
      <4>2. called'[m_pending_ops[cycle.slot].node] = {TRUE} =>
              called[m_pending_ops[cycle.slot].node] = {TRUE}
        BY <2>3, <4>1 DEF Complete
      <4> QED BY <1>k, <2>1, <2>5, <2>6, <3>4, <4>1, <4>2 DEF SlotsSound
    <3> QED BY <2>1, <2>5, <3>1, <3>2, <3>3, <3>4 DEF SlotsSound
  <2>10. NodesKept'
    <3>1. \A q \in Nodes : Kept(q) => Kept(q)'
      BY <2>1, <2>6 DEF Kept
    <3>2. Kept(n)'
      BY <2>1 DEF Kept
    <3> QED BY <2>1, <2>3, <2>5, <2>7, <3>1, <3>2 DEF NodesKept
  <2> QED BY <2>9, <2>10
<1>2. ASSUME NEW c \in Controllers, Claim(c) PROVE CallsInv'
  <2>0. call[c].at = "scan" /\ ~m_pending_ops[call[c].slot].active
        /\ UNCHANGED <<m_Nodes, cycle, called, torn, overlap>>
    BY <1>2 DEF Claim
  <2>1. /\ call'[c].at = "node" /\ call'[c].slot = call[c].slot
        /\ call'[c].node = call[c].node /\ call'[c].add = call[c].add
        /\ \A d \in Controllers : d # c => call'[d] = call[d]
    BY <1>2, <1>t, CallMoves DEF Claim
  <2>2. /\ m_pending_ops'[call[c].slot].active
        /\ \A q \in Slots : /\ m_pending_ops'[q].node = m_pending_ops[q].node
                            /\ m_pending_ops'[q].is_addition = m_pending_ops[q].is_addition
                            /\ q # call[c].slot => m_pending_ops'[q] = m_pending_ops[q]
    BY <1>2, <1>c, <1>t, SlotClaimed DEF Claim
  <2>3. CallsNoted'
    BY <2>0, <2>1 DEF CallsInv, CallsNoted
  <2>4. SUFFICES ASSUME ~torn, ~overlap, SlotsSound, NodesKept
                PROVE  SlotsSound' /\ NodesKept'
    BY <2>0, <2>3 DEF CallsInv
  <2>5. /\ HalfWritten(call[c].slot)'
        /\ \A s \in Slots : s # call[c].slot => (HalfWritten(s)' <=> HalfWritten(s))
    BY <2>0, <2>1 DEF HalfWritten
  <2>6. ~HalfWritten(call[c].slot)
    BY <2>0, <2>4 DEF SlotsSound, HalfWritten, Writing
  <2>7. SlotsSound'
    <3>1. ASSUME NEW d \in Controllers, Writing(d, call[d].slot)'
          PROVE  /\ m_pending_ops'[call'[d].slot].active
                 /\ \A e \in Controllers : Writing(e, call[d].slot)' => e = d
                 /\ call'[d].at = "kind" =>
                      m_pending_ops'[call'[d].slot].node = call'[d].node
      <4>1. CASE d = c
        BY <2>1, <2>2, <2>6, <4>1 DEF Writing, HalfWritten
      <4>2. CASE d # c
        <5>1. call'[d] = call[d] /\ Writing(d, call[d].slot)
          BY <2>1, <3>1, <4>2 DEF Writing
        <5>2. call[d].slot # call[c].slot
          BY <2>6, <5>1 DEF Writing, HalfWritten
        <5> QED BY <1>c, <2>1, <2>2, <2>4, <5>1, <5>2 DEF SlotsSound, Writing
      <4> QED BY <4>1, <4>2
    <3>2. ASSUME NEW s \in Slots, m_pending_ops'[s].active
          PROVE  HalfWritten(s)' \/ Complete(s)'
      <4>1. CASE s = call[c].slot
        BY <2>1, <2>5, <4>1 DEF HalfWritten
      <4>2. CASE s # call[c].slot
        <5>1. HalfWritten(s) \/ Complete(s)
          BY <2>2, <2>4, <3>2, <4>2 DEF SlotsSound
        <5>2. Complete(s) => Complete(s)'
          BY <2>0, <2>2, <4>2 DEF Complete
        <5> QED BY <2>5, <4>2, <5>1, <5>2
      <4> QED BY <4>1, <4>2
    <3>3. cycle.at \in {"store", "free"} => cycle.slot # call[c].slot
      BY <2>0 DEF Typed
    <3> QED BY <1>k, <2>0, <2>2, <2>4, <2>5, <3>1, <3>2, <3>3 DEF SlotsSound
  <2>8. \A n \in Nodes : Kept(n) => Kept(n)'
    BY <2>0, <2>1, <2>2, <2>5 DEF Kept
  <2> QED BY <2>0, <2>4, <2>7, <2>8 DEF NodesKept
<1>3. ASSUME NEW c \in Controllers, ScanOn(c) PROVE CallsInv'
  <2>1. /\ call[c].at = "scan" /\ call'[c].at \in {"scan", "wait"}
        /\ call'[c].node = call[c].node /\ call'[c].add = call[c].add
        /\ \A d \in Controllers : d # c => call'[d] = call[d]
        /\ UNCHANGED <<m_Nodes, m_pending_ops, called, torn, overlap, cycle>>
    BY <1>3, <1>t, CallScans DEF ScanOn, queue
  <2> QED BY <1>u, <2>1, CallsKept
<1>4. ASSUME NEW c \in Controllers, WriteNode(c) PROVE CallsInv'
  <2>0. call[c].at = "node" /\ UNCHANGED <<m_Nodes, cycle, called, torn, overlap>>
    BY <1>4 DEF WriteNode
  <2>1. /\ call'[c].at = "kind" /\ call'[c].slot = call[c].slot
        /\ call'[c].node = call[c].node /\ call'[c].add = call[c].add
        /\ \A d \in Controllers : d # c => call'[d] = call[d]
    BY <1>4, <1>t, CallMoves DEF WriteNode
  <2>2. /\ m_pending_ops'[call[c].slot].node = call[c].node
        /\ \A q \in Slots : /\ m_pending_ops'[q].active = m_pending_ops[q].active
                            /\ q # call[c].slot => m_pending_ops'[q] = m_pending_ops[q]
    <3>1. call[c].node \in Nodes /\ call[c].slot \in Slots
      BY <1>c, <2>0
    <3> QED BY <1>4, <1>t, <3>1, SlotNamed DEF WriteNode
  <2>3. CallsNoted'
    BY <2>0, <2>1 DEF CallsInv, CallsNoted
  <2>4. SUFFICES ASSUME ~torn, ~overlap, SlotsSound, NodesKept
                PROVE  SlotsSound' /\ NodesKept'
    BY <2>0, <2>3 DEF CallsInv
  <2>5. /\ \A d \in Controllers, s \in Slots : Writing(d, s)' <=> Writing(d, s)
        /\ \A s \in Slots : HalfWritten(s)' <=> HalfWritten(s)
        /\ HalfWritten(call[c].slot)
    BY <2>0, <2>1 DEF HalfWritten, Writing
  <2>6. SlotsSound'
    <3>1. ASSUME NEW d \in Controllers, Writing(d, call[d].slot)'
          PROVE  /\ m_pending_ops'[call'[d].slot].active
                 /\ \A e \in Controllers : Writing(e, call[d].slot)' => e = d
                 /\ call'[d].at = "kind" =>
                      m_pending_ops'[call'[d].slot].node = call'[d].node
      <4>1. Writing(d, call[d].slot) /\ call'[d].slot = call[d].slot
        BY <2>0, <2>1, <3>1 DEF Writing
      <4>2. \A e \in Controllers : Writing(e, call[d].slot)' => e = d
        BY <1>c, <2>4, <2>5, <4>1 DEF SlotsSound
      <4>3. CASE d = c
        BY <1>c, <2>1, <2>2, <2>4, <4>1, <4>2, <4>3 DEF SlotsSound
      <4>4. CASE d # c
        <5>1. call[d].slot # call[c].slot
          BY <2>0, <2>4, <4>1, <4>4 DEF SlotsSound, Writing
        <5> QED BY <1>c, <2>1, <2>2, <2>4, <4>1, <4>2, <4>4, <5>1 DEF SlotsSound
      <4> QED BY <4>3, <4>4
    <3>2. \A s \in Slots : m_pending_ops'[s].active => HalfWritten(s)' \/ Complete(s)'
      BY <2>0, <2>2, <2>4, <2>5 DEF SlotsSound, Complete
    <3>3. cycle.at \in {"store", "free"} => cycle.slot # call[c].slot
      BY <2>4, <2>5 DEF SlotsSound
    <3> QED BY <1>k, <2>0, <2>2, <2>4, <2>5, <3>1, <3>2, <3>3 DEF SlotsSound
  <2>7. \A n \in Nodes : Kept(n) => Kept(n)'
    BY <2>0, <2>1, <2>2, <2>5 DEF Kept
  <2> QED BY <2>0, <2>4, <2>6, <2>7 DEF NodesKept
<1>5. ASSUME NEW c \in Controllers, WriteKind(c) PROVE CallsInv'
  <2>0. call[c].at = "kind" /\ UNCHANGED <<m_Nodes, cycle, called, torn, overlap>>
    BY <1>5 DEF WriteKind
  <2>1. /\ call'[c].at = "count" /\ call'[c].slot = call[c].slot
        /\ call'[c].node = call[c].node /\ call'[c].add = call[c].add
        /\ \A d \in Controllers : d # c => call'[d] = call[d]
    BY <1>5, <1>t, CallMoves DEF WriteKind
  <2>2. /\ m_pending_ops'[call[c].slot].is_addition = call[c].add
        /\ \A q \in Slots : /\ m_pending_ops'[q].active = m_pending_ops[q].active
                            /\ m_pending_ops'[q].node = m_pending_ops[q].node
                            /\ q # call[c].slot => m_pending_ops'[q] = m_pending_ops[q]
    BY <1>5, <1>t, <1>c, <1>b, SlotKinded DEF WriteKind
  <2>3. CallsNoted'
    BY <2>0, <2>1 DEF CallsInv, CallsNoted
  <2>4. SUFFICES ASSUME ~torn, ~overlap, SlotsSound, NodesKept
                PROVE  SlotsSound' /\ NodesKept'
    BY <2>0, <2>3 DEF CallsInv
  <2>5. /\ m_pending_ops[call[c].slot].active
        /\ m_pending_ops[call[c].slot].node = call[c].node
        /\ \A d \in Controllers : Writing(d, call[c].slot) => d = c
    BY <2>0, <2>4 DEF SlotsSound, Writing
  <2>6. /\ ~HalfWritten(call[c].slot)' /\ HalfWritten(call[c].slot)
        /\ \A s \in Slots : s # call[c].slot => (HalfWritten(s)' <=> HalfWritten(s))
    BY <2>0, <2>1, <2>5 DEF HalfWritten, Writing
  <2>7. Complete(call[c].slot)'
    BY <1>c, <2>0, <2>1, <2>2, <2>5 DEF Complete, CallsInv, CallsNoted
  <2>8. SlotsSound'
    <3>1. ASSUME NEW d \in Controllers, Writing(d, call[d].slot)'
          PROVE  /\ m_pending_ops'[call'[d].slot].active
                 /\ \A e \in Controllers : Writing(e, call[d].slot)' => e = d
                 /\ call'[d].at = "kind" =>
                      m_pending_ops'[call'[d].slot].node = call'[d].node
      <4>1. d # c /\ call'[d] = call[d] /\ Writing(d, call[d].slot)
        BY <2>1, <3>1 DEF Writing
      <4> QED BY <1>c, <2>1, <2>2, <2>4, <4>1 DEF SlotsSound, Writing
    <3>2. ASSUME NEW s \in Slots, m_pending_ops'[s].active
          PROVE  HalfWritten(s)' \/ Complete(s)'
      <4>1. CASE s = call[c].slot
        BY <2>1, <2>7, <4>1 DEF Complete
      <4>2. CASE s # call[c].slot
        <5>1. HalfWritten(s) \/ Complete(s)
          BY <2>2, <2>4, <3>2, <4>2 DEF SlotsSound
        <5>2. Complete(s) => Complete(s)'
          BY <2>0, <2>2, <4>2 DEF Complete
        <5> QED BY <2>6, <4>2, <5>1, <5>2
      <4> QED BY <4>1, <4>2
    <3>3. cycle.at \in {"store", "free"} => cycle.slot # call[c].slot
      BY <2>4, <2>6 DEF SlotsSound
    <3> QED BY <1>k, <2>0, <2>2, <2>4, <2>6, <3>1, <3>2, <3>3 DEF SlotsSound
  <2>9. \A n \in Nodes : Kept(n) => Kept(n)'
    BY <1>c, <2>0, <2>1, <2>2, <2>5, <2>6 DEF Kept
  <2> QED BY <2>0, <2>4, <2>8, <2>9 DEF NodesKept
<1>6. ASSUME NEW c \in Controllers, Count(c) PROVE CallsInv'
  <2>1. /\ call[c].at = "count" /\ call'[c].at = "idle"
        /\ \A d \in Controllers : d # c => call'[d] = call[d]
        /\ UNCHANGED <<m_Nodes, m_pending_ops, called, torn, overlap, cycle>>
    BY <1>6, <1>t, CallReturns DEF Count
  <2> QED BY <1>u, <2>1, CallsKept
<1>7. ASSUME NEW c \in Controllers, WaitIdle(c) PROVE CallsInv'
  <2>1. /\ call[c].at = "wait" /\ call'[c].at = "direct"
        /\ call'[c].node = call[c].node /\ call'[c].add = call[c].add
        /\ \A d \in Controllers : d # c => call'[d] = call[d]
        /\ UNCHANGED <<m_Nodes, m_pending_ops, called, torn, overlap, cycle>>
    BY <1>7, <1>t, CallMoves DEF WaitIdle, queue
  <2> QED BY <1>u, <2>1, CallsKept
<1>8. ASSUME NEW c \in Controllers, Direct(c) PROVE CallsInv'
  <2>1. /\ call[c].at = "direct" /\ call'[c].at = "store"
        /\ call'[c].node = call[c].node /\ call'[c].add = call[c].add
        /\ \A d \in Controllers : d # c => call'[d] = call[d]
        /\ UNCHANGED <<m_Nodes, m_pending_ops, called, torn, cycle>>
        /\ overlap' = (overlap \/ Editing)
    BY <1>8, <1>t, CallReads DEF Direct, queue
  <2>2. CASE overlap'
    BY <2>1, <2>2 DEF CallsInv, CallsNoted
  <2>3. CASE ~overlap'
    <3>1. overlap' = overlap
      BY <1>t, <2>1, <2>3 DEF TypeOK
    <3> QED BY <1>u, <2>1, <3>1, CallsKept
  <2> QED BY <2>2, <2>3
<1>8a. ASSUME NEW c \in Controllers, DirectStore(c) PROVE CallsInv'
  <2>1. /\ call[c].at = "store" /\ call'[c].at = "idle"
        /\ \A d \in Controllers : d # c => call'[d] = call[d]
        /\ UNCHANGED <<m_pending_ops, called, torn, overlap, cycle>>
    BY <1>8a, <1>t, CallReturns DEF DirectStore, queue
  <2> DEFINE n == call[c].node
             add == call[c].add
  <2>2. n \in Nodes /\ add \in BOOLEAN /\ add \in called[n]
    BY <1>b, <1>c, <2>1 DEF CallsInv, CallsNoted
  <2>4. CallsNoted'
    BY <2>1 DEF CallsInv, CallsNoted
  <2>5. SUFFICES ASSUME ~torn, ~overlap, SlotsSound, NodesKept
                PROVE  SlotsSound' /\ NodesKept'
    BY <2>1, <2>4 DEF CallsInv
  <2>3. /\ cycle.at # "store"
        /\ \A q \in Nodes : q # n => (q \in m_Nodes' <=> q \in m_Nodes)
        /\ n \in m_Nodes' <=> add
    <3>1. call[c].list = m_Nodes /\ cycle.at # "store" /\ m_Nodes \in SUBSET Nodes
      BY <1>t, <2>1, <2>5 DEF EditsInv, EditsAlone, TypeOK
    <3>2. m_Nodes' = Edited(m_Nodes, n, add)
      BY <1>8a, <3>1 DEF DirectStore
    <3> QED BY <1>t, <2>2, <3>1, <3>2, ListAfter
  <2> HIDE DEF add
  <2>6. \A q \in Nodes : called[q] = {TRUE} /\ (q = n \/ q \in m_Nodes) => q \in m_Nodes'
    BY <2>2, <2>3
  <2>7. \A s \in Slots : HalfWritten(s)' <=> HalfWritten(s)
    BY <2>1 DEF HalfWritten
  <2>8. SlotsSound'
    <3>1. ASSUME NEW d \in Controllers, Writing(d, call[d].slot)'
          PROVE  /\ m_pending_ops'[call'[d].slot].active
                 /\ \A e \in Controllers : Writing(e, call[d].slot)' => e = d
                 /\ call'[d].at = "kind" =>
                      m_pending_ops'[call'[d].slot].node = call'[d].node
      BY <2>1, <2>5, <3>1 DEF SlotsSound, Writing
    <3>2. \A s \in Slots : m_pending_ops'[s].active => HalfWritten(s)' \/ Complete(s)'
      BY <2>1, <2>5, <2>7 DEF SlotsSound, Complete
    <3>3. ASSUME cycle.at = "free"
          PROVE  /\ ~HalfWritten(cycle.slot)'
                 /\ called[m_pending_ops[cycle.slot].node] = {TRUE} =>
                      m_pending_ops[cycle.slot].node \in m_Nodes'
      <4>1. ~HalfWritten(cycle.slot) /\ Complete(cycle.slot)
        BY <1>k, <2>5, <3>3 DEF SlotsSound, Typed
      <4> QED BY <1>k, <2>1, <2>5, <2>6, <2>7, <3>3, <4>1 DEF SlotsSound, Complete
    <3> QED BY <2>1, <2>3, <3>1, <3>2, <3>3 DEF SlotsSound
  <2>9. \A q \in Nodes : called[q] = {TRUE} /\ Kept(q) => Kept(q)'
    BY <2>1, <2>6, <2>7 DEF Kept
  <2>10. \A q \in Nodes : TRUE \notin called[q] => q \notin m_Nodes'
    BY <2>2, <2>3, <2>5 DEF NodesKept
  <2> QED BY <2>1, <2>5, <2>8, <2>9, <2>10 DEF NodesKept
<1>9. ASSUME Preprocess \/ Visited \/ Release \/ UNCHANGED vars PROVE CallsInv'
  <2>1. /\ UNCHANGED <<m_Nodes, m_pending_ops, called, torn, overlap, call>>
        /\ cycle'.at \notin {"store", "free"} \/ cycle' = cycle
    BY <1>9, CycleTurns DEF Preprocess, Visited, Release, vars, queue
  <2> QED BY <1>u, <2>1, CallsKept
<1>10. ASSUME Look PROVE CallsInv'
  <2>1. UNCHANGED <<m_Nodes, m_pending_ops, called, torn, overlap, call>>
    BY <1>10 DEF Look, queue
  <2>2. cycle'.at \notin {"store", "free"}
    BY <1>10, <1>k, NextSlotTyped DEF Look, CycleState
  <2> QED BY <1>u, <2>1, <2>2, CallsKept
<1>11. ASSUME Apply PROVE CallsInv'
  <2> DEFINE op == m_pending_ops[cycle.slot]
  <2>1. /\ UNCHANGED <<m_Nodes, m_pending_ops, call, called>> /\ cycle.at = "apply"
        /\ cycle' = [cycle EXCEPT !.at = "store", !.node = op.node, !.add = op.is_addition,
                                  !.list = m_Nodes]
        /\ torn' = (torn \/ HalfWritten(cycle.slot))
        /\ overlap' = (overlap \/ Editing)
    BY <1>11 DEF Apply, queue
  <2>2. CallsNoted'
    BY <2>1 DEF CallsInv, CallsNoted
  <2>3. SUFFICES ASSUME ~torn', ~overlap' PROVE SlotsSound' /\ NodesKept'
    BY <2>2 DEF CallsInv
  <2>4. SlotsSound /\ NodesKept /\ ~HalfWritten(cycle.slot)
    BY <2>1, <2>3 DEF CallsInv
  <2>5. \A s \in Slots : HalfWritten(s)' <=> HalfWritten(s)
    BY <2>1 DEF HalfWritten
  <2>6. /\ cycle'.slot = cycle.slot /\ cycle'.at = "store"
        /\ cycle'.node = m_pending_ops[cycle.slot].node
        /\ cycle'.add = m_pending_ops[cycle.slot].is_addition
    BY <1>k, <2>1 DEF CycleState
  <2> HIDE DEF op
  <2>7. SlotsSound'
    <3>1. \A s \in Slots : m_pending_ops'[s].active => HalfWritten(s)' \/ Complete(s)'
      BY <2>1, <2>4, <2>5 DEF SlotsSound, Complete
    <3>2. \A d \in Controllers : Writing(d, call[d].slot)' =>
             /\ m_pending_ops[call[d].slot].active
             /\ \A e \in Controllers : Writing(e, call[d].slot)' => e = d
             /\ call[d].at = "kind" => m_pending_ops[call[d].slot].node = call[d].node
      BY <2>1, <2>4 DEF SlotsSound, Writing
    <3>3. ~HalfWritten(cycle.slot)'
      BY <1>k, <2>4, <2>5, <2>6
    <3> QED BY <2>1, <2>6, <3>1, <3>2, <3>3 DEF SlotsSound
  <2>8. \A q \in Nodes : Kept(q) => Kept(q)'
    BY <2>1, <2>5 DEF Kept
  <2> QED BY <2>1, <2>4, <2>7, <2>8 DEF NodesKept
<1>11a. ASSUME Store PROVE CallsInv'
  <2> DEFINE op == m_pending_ops[cycle.slot]
  <2>1. /\ UNCHANGED <<m_pending_ops, call, called, torn, overlap>> /\ cycle.at = "store"
        /\ cycle' = [cycle EXCEPT !.at = "free"]
        /\ m_Nodes' = Edited(cycle.list, cycle.node, cycle.add)
    BY <1>11a DEF Store, queue
  <2>2. CallsNoted'
    BY <2>1 DEF CallsInv, CallsNoted
  <2>3. SUFFICES ASSUME ~torn, ~overlap, SlotsSound, NodesKept PROVE SlotsSound' /\ NodesKept'
    BY <2>1, <2>2 DEF CallsInv
  <2>4. /\ ~HalfWritten(cycle.slot) /\ cycle.list = m_Nodes
        /\ cycle.node = op.node /\ cycle.add = op.is_addition
    BY <2>1, <2>3 DEF SlotsSound, EditsInv, EditsAlone
  <2>5. Complete(cycle.slot)
    BY <1>k, <2>1, <2>3, <2>4 DEF SlotsSound, Typed
  <2>6. op.node \in Nodes /\ op.is_addition \in called[op.node] /\ op.is_addition \in BOOLEAN
    BY <1>k, <1>t, <2>5 DEF Complete, TypeOK
  <2>7. /\ \A q \in Nodes : q # op.node => (q \in m_Nodes' <=> q \in m_Nodes)
        /\ op.node \in m_Nodes' <=> op.is_addition
    <3>1. m_Nodes' = Edited(m_Nodes, op.node, op.is_addition) /\ m_Nodes \in SUBSET Nodes
      BY <1>t, <2>1, <2>4 DEF TypeOK
    <3> QED BY <1>t, <2>6, <3>1, ListAfter
  <2>8. \A s \in Slots : HalfWritten(s)' <=> HalfWritten(s)
    BY <2>1 DEF HalfWritten
  <2>9. cycle'.slot = cycle.slot /\ cycle'.at = "free"
    BY <1>k, <2>1 DEF CycleState
  <2> HIDE DEF op
  <2>10. \A q \in Nodes : called[q] = {TRUE} /\ (q = op.node \/ q \in m_Nodes) => q \in m_Nodes'
    BY <2>6, <2>7
  <2>11. SlotsSound'
    <3>1. \A s \in Slots : m_pending_ops'[s].active => HalfWritten(s)' \/ Complete(s)'
      BY <2>1, <2>3, <2>8 DEF SlotsSound, Complete
    <3>2. \A d \in Controllers : Writing(d, call[d].slot)' =>
             /\ m_pending_ops[call[d].slot].active
             /\ \A e \in Controllers : Writing(e, call[d].slot)' => e = d
             /\ call[d].at = "kind" => m_pending_ops[call[d].slot].node = call[d].node
      BY <2>1, <2>3 DEF SlotsSound, Writing
    <3>3. ~HalfWritten(cycle.slot)'
      BY <1>k, <2>4, <2>8, <2>9
    <3>4. called'[m_pending_ops'[cycle'.slot].node] = {TRUE} =>
             m_pending_ops'[cycle'.slot].node \in m_Nodes'
      BY <2>1, <2>6, <2>9, <2>10 DEF op
    <3> QED BY <2>1, <2>9, <3>1, <3>2, <3>3, <3>4 DEF SlotsSound
  <2>12. \A q \in Nodes : called[q] = {TRUE} /\ Kept(q) => Kept(q)'
    BY <2>1, <2>8, <2>10 DEF Kept
  <2>13. \A q \in Nodes : TRUE \notin called[q] => q \notin m_Nodes'
    BY <2>3, <2>6, <2>7 DEF NodesKept
  <2> QED BY <2>1, <2>3, <2>11, <2>12, <2>13 DEF NodesKept
<1>12. ASSUME Free PROVE CallsInv'
  <2>1. /\ UNCHANGED <<m_Nodes, call, called, torn, overlap>> /\ cycle.at = "free"
        /\ cycle'.at \notin {"store", "free"}
    BY <1>12, <1>k, NextSlotTyped DEF Free
  <2>2. /\ ~m_pending_ops'[cycle.slot].active
        /\ \A q \in Slots : q # cycle.slot => m_pending_ops'[q] = m_pending_ops[q]
    BY <1>12, <1>t, <1>k, SlotFreed DEF Free
  <2>3. CallsNoted'
    BY <2>1 DEF CallsInv, CallsNoted
  <2>4. SUFFICES ASSUME ~torn, ~overlap, SlotsSound, NodesKept
                PROVE  SlotsSound' /\ NodesKept'
    BY <2>1, <2>3 DEF CallsInv
  <2>5. /\ ~HalfWritten(cycle.slot)
        /\ called[m_pending_ops[cycle.slot].node] = {TRUE} =>
             m_pending_ops[cycle.slot].node \in m_Nodes
    BY <2>1, <2>4 DEF SlotsSound
  <2>6. \A s \in Slots : HalfWritten(s)' <=> HalfWritten(s)
    BY <2>1 DEF HalfWritten
  <2>7. SlotsSound'
    <3>1. ASSUME NEW d \in Controllers, Writing(d, call[d].slot)'
          PROVE  /\ m_pending_ops'[call'[d].slot].active
                 /\ \A e \in Controllers : Writing(e, call[d].slot)' => e = d
                 /\ call'[d].at = "kind" =>
                      m_pending_ops'[call'[d].slot].node = call'[d].node
      <4>1. Writing(d, call[d].slot) /\ call[d].slot # cycle.slot
        BY <2>1, <2>5, <3>1 DEF Writing, HalfWritten
      <4> QED BY <1>c, <2>1, <2>2, <2>4, <4>1 DEF SlotsSound, Writing
    <3>2. \A s \in Slots : m_pending_ops'[s].active => HalfWritten(s)' \/ Complete(s)'
      BY <2>1, <2>2, <2>4, <2>6 DEF SlotsSound, Complete
    <3> QED BY <2>1, <3>1, <3>2 DEF SlotsSound
  <2>8. \A q \in Nodes : called[q] = {TRUE} /\ Kept(q) => Kept(q)'
    BY <2>1, <2>2, <2>5, <2>6 DEF Kept
  <2> QED BY <2>1, <2>4, <2>7, <2>8 DEF NodesKept
<1> QED
  BY <1>1, <1>2, <1>3, <1>4, <1>5, <1>6, <1>7, <1>8, <1>8a, <1>9, <1>10, <1>11,
     <1>11a, <1>12
  DEF Next, Controller, Process

\* A registration is lost in two ways only, for any number of controllers,
\* nodes and slots, and however calls, passes and the full-queue fallback
\* interleave: once all is settled the list holds every node that was only
\* registered and none that was only unregistered, unless a slot was applied
\* before it was written or two edits of the unlocked list overlapped.
THEOREM CallsTakeEffect == Spec => []NoCallLost
<1>1. CallsInv => NoCallLost
  <2> SUFFICES ASSUME CallsInv, Settled, ~torn, ~overlap, NEW n \in Nodes
               PROVE  /\ called[n] = {TRUE} => n \in m_Nodes
                      /\ TRUE \notin called[n] => n \notin m_Nodes
    BY DEF NoCallLost
  <2>1. NodesKept
    BY DEF CallsInv
  <2>2. Kept(n) => n \in m_Nodes
    BY DEF Kept, Settled, Active
  <2> QED BY <2>1, <2>2 DEF NodesKept
<1>2. Spec => []Typed
  BY InitTyped, NextTyped, PTL DEF Spec
<1>3. Spec => []EditsInv
  BY <1>2, InitCalls, NextEdits, PTL DEF Spec
<1> QED BY <1>1, <1>2, <1>3, InitCalls, NextCalls, PTL DEF Spec
==============================================================================
