------------------------- MODULE WindowEvents_proofs -------------------------
(***************************************************************************)
(* Window events for any handlers, any number of events and any nesting of *)
(* signals: events of one type are received in the order of their signals. *)
(***************************************************************************)
EXTENDS WindowEvents, Integers, FiniteSetTheorems, WellFoundedInduction, TLAPS

------------------------------------------------------------------------------
(* Numbers *)

\* A set of naturals has a least element: the initial segments of Nat are finite, and strict inclusion between finite
\* sets is well-founded.
LEMMA LeastNatural ==
  ASSUME NEW T, T \subseteq Nat, T # {}
  PROVE  \E x \in T : \A y \in T : x <= y
<1> DEFINE D == {0 .. x : x \in T}
           F == FiniteSubsetsOf(Nat)
           R == StrictSubsetOrdering(Nat)
<1>1. D \subseteq F /\ D # {}
  <2>1. \A x \in T : 0 .. x \in SUBSET Nat /\ IsFiniteSet(0 .. x)
    BY FS_Interval
  <2> QED BY <2>1 DEF FiniteSubsetsOf
<1>2. PICK d \in D : \A e \in D : ~(<<e, d>> \in R)
  <2>1. IsWellFoundedOn(R, F)
    BY FS_StrictSubsetOrderingWellFounded
  <2> HIDE DEF R, F, D
  <2> QED BY <1>1, <2>1, WFMin
<1>3. PICK x \in T : d = 0 .. x
  OBVIOUS
<1>4. ASSUME NEW y \in T, y < x PROVE FALSE
  <2>1. 0 .. y \subseteq 0 .. x /\ 0 .. y # 0 .. x /\ 0 .. y \in D
    BY <1>4
  <2>2. <<0 .. y, d>> \in R
    BY <1>3, <2>1 DEF StrictSubsetOrdering
  <2> QED BY <1>2, <2>1, <2>2
<1> QED BY <1>4

------------------------------------------------------------------------------
(* The invariant *)

Event == [id : Nat, type : Types]

\* What the proof uses of the types.
Typed == m_pending_events \in Seq(Event) /\ log \in Seq(Event) /\ sent \in Nat

\* ReceivedInOrder is not inductive: it takes that the queue is in order, and that
\* what was received of a type is older than what is left of it.
OrderInv ==
  /\ \A i, j \in 1 .. Len(m_pending_events) : i < j => m_pending_events[i].id < m_pending_events[j].id
  /\ \A i \in 1 .. Len(m_pending_events) : m_pending_events[i].id <= sent
  /\ \A i \in 1 .. Len(log) : \A j \in 1 .. Len(m_pending_events) :
       log[i].type = m_pending_events[j].type => log[i].id < m_pending_events[j].id
  /\ \A i \in 1 .. Len(log) : log[i].id <= sent
  /\ ReceivedInOrder

------------------------------------------------------------------------------
(* The queue *)

LEMMA RemoveAtFacts ==
  ASSUME NEW S, NEW s \in Seq(S), NEW i \in 1 .. Len(s)
  PROVE  /\ RemoveAt(s, i) \in Seq(S)
         /\ Len(RemoveAt(s, i)) = Len(s) - 1
         /\ \A j \in 1 .. Len(s) - 1 : RemoveAt(s, i)[j] = IF j < i THEN s[j] ELSE s[j + 1]
<1>1. /\ SubSeq(s, 1, i - 1) \in Seq(S) /\ Len(SubSeq(s, 1, i - 1)) = i - 1
      /\ \A j \in 1 .. i - 1 : SubSeq(s, 1, i - 1)[j] = s[j]
  OBVIOUS
<1>2. /\ SubSeq(s, i + 1, Len(s)) \in Seq(S) /\ Len(SubSeq(s, i + 1, Len(s))) = Len(s) - i
      /\ \A j \in 1 .. Len(s) - i : SubSeq(s, i + 1, Len(s))[j] = s[i + j]
  OBVIOUS
<1> DEFINE a == SubSeq(s, 1, i - 1)
           c == SubSeq(s, i + 1, Len(s))
<1> HIDE DEF a, c
<1>3. a \in Seq(S) /\ c \in Seq(S) /\ Len(a) = i - 1 /\ Len(c) = Len(s) - i
  BY <1>1, <1>2 DEF a, c
<1>4. /\ a \o c \in Seq(S) /\ Len(a \o c) = Len(s) - 1
      /\ \A j \in 1 .. Len(s) - 1 : (a \o c)[j] = IF j < i THEN a[j] ELSE c[j - (i - 1)]
  BY <1>3
<1>5. \A j \in 1 .. Len(s) - 1 : (a \o c)[j] = IF j < i THEN s[j] ELSE s[j + 1]
  <2> SUFFICES ASSUME NEW j \in 1 .. Len(s) - 1
               PROVE  (a \o c)[j] = IF j < i THEN s[j] ELSE s[j + 1]
    OBVIOUS
  <2>1. CASE j < i
    BY <1>1, <1>4, <2>1 DEF a
  <2>2. CASE ~(j < i)
    <3>1. j - (i - 1) \in 1 .. Len(s) - i /\ i + (j - (i - 1)) = j + 1
      BY <2>2
    <3>2. c[j - (i - 1)] = s[i + (j - (i - 1))]
      BY <1>2, <3>1 DEF c
    <3> QED BY <1>4, <2>2, <3>1, <3>2
  <2> QED BY <2>1, <2>2
<1>6. RemoveAt(s, i) = a \o c
  BY DEF RemoveAt, a, c
<1> QED BY <1>4, <1>5, <1>6

\* pop_event finds the oldest match.
LEMMA PoppedFacts ==
  ASSUME Typed, NEW h, Candidates(h) # {}
  PROVE  Popped(h) \in Candidates(h) /\ \A j \in Candidates(h) : Popped(h) <= j
<1>1. Candidates(h) \subseteq Nat
  BY DEF Candidates, Typed
<1>2. \E i \in Candidates(h) : \A j \in Candidates(h) : i <= j
  BY <1>1, LeastNatural
<1> QED BY <1>2 DEF Popped

\* What the steps do to the queue and to the log: a signal puts its event last, a
\* receipt takes the oldest match, the others leave them alone.
LEMMA EventSteps ==
  ASSUME [Next]_vars
  PROVE  \/ UNCHANGED <<m_pending_events, log, sent>>
         \/ \E type \in Types : Signal(type)
         \/ \E h \in Handlers \union {Top.cur} : Candidates(h) # {} /\ Receive(h) /\ sent' = sent
<1>1. ASSUME NEW h \in Handlers, TryResume(h)
      PROVE  \/ UNCHANGED <<m_pending_events, log, sent>>
             \/ Candidates(h) # {} /\ Receive(h) /\ sent' = sent
  BY <1>1 DEF TryResume, source
<1>2. ASSUME CallbackReturns
      PROVE  \/ UNCHANGED <<m_pending_events, log, sent>>
             \/ Candidates(Top.cur) # {} /\ Receive(Top.cur) /\ sent' = sent
  BY <1>2 DEF CallbackReturns, Await, source
<1>3. ASSUME NEW h \in Handlers, AddEvent(h)
      PROVE  \/ UNCHANGED <<m_pending_events, log, sent>>
             \/ Candidates(h) # {} /\ Receive(h) /\ sent' = sent
  BY <1>3 DEF AddEvent, Await
<1>4. ASSUME CancelName \/ (\E h \in Handlers : CancelEvent(h)) \/ TerminateAll \/ Cleanup
      PROVE  UNCHANGED <<m_pending_events, log, sent>>
  BY <1>4 DEF CancelName, CancelEvent, TerminateAll, Cleanup, LetGo
<1>5. ASSUME DispatchEnds \/ UNCHANGED vars PROVE UNCHANGED <<m_pending_events, log, sent>>
  BY <1>5 DEF DispatchEnds, vars, source
<1> QED BY <1>1, <1>2, <1>3, <1>4, <1>5 DEF Next

------------------------------------------------------------------------------
(* The order of receipt *)

LEMMA OrderSignal ==
  ASSUME Typed, OrderInv, NEW type \in Types, Signal(type)
  PROVE  OrderInv'
<1> DEFINE n == Len(m_pending_events)
           e == [id |-> sent + 1, type |-> type]
<1>1. m_pending_events \in Seq(Event) /\ sent \in Nat /\ n \in Nat /\ log \in Seq(Event)
  BY DEF Typed
<1>2. e \in Event /\ e.id = sent + 1
  BY <1>1 DEF Event
<1>3. m_pending_events' = Append(m_pending_events, e) /\ sent' = sent + 1 /\ log' = log
  BY DEF Signal
<1> HIDE DEF e
<1>4. /\ Len(m_pending_events') = n + 1
      /\ \A i \in 1 .. n : m_pending_events'[i] = m_pending_events[i]
      /\ m_pending_events'[n + 1] = e
  BY <1>1, <1>2, <1>3
<1>11. \A x \in Event : x.id \in Nat
  BY DEF Event
<1>5. \A i \in 1 .. n : m_pending_events[i].id \in Nat /\ m_pending_events[i].id <= sent
  BY <1>1, <1>11 DEF OrderInv
<1>6. \A i \in 1 .. Len(log) : log[i].id \in Nat /\ log[i].id <= sent
  BY <1>1, <1>11 DEF OrderInv
<1> HIDE DEF n
<1>7. \A i, j \in 1 .. n + 1 : i < j => m_pending_events'[i].id < m_pending_events'[j].id
  <2> SUFFICES ASSUME NEW i \in 1 .. n + 1, NEW j \in 1 .. n + 1, i < j
               PROVE  m_pending_events'[i].id < m_pending_events'[j].id
    OBVIOUS
  <2>1. i \in 1 .. n /\ m_pending_events'[i] = m_pending_events[i]
    BY <1>1, <1>4
  <2>2. CASE j = n + 1
    BY <1>1, <1>2, <1>4, <1>5, <2>1, <2>2
  <2>3. CASE j # n + 1
    <3>1. j \in 1 .. n
      BY <1>1, <2>3
    <3> QED BY <1>4, <2>1, <3>1 DEF OrderInv, n
  <2> QED BY <2>2, <2>3
<1>8. \A i \in 1 .. n + 1 : m_pending_events'[i].id <= sent'
  BY <1>1, <1>2, <1>3, <1>4, <1>5
<1>9. \A i \in 1 .. Len(log) : \A j \in 1 .. n + 1 :
        log[i].type = m_pending_events'[j].type => log[i].id < m_pending_events'[j].id
  <2> SUFFICES ASSUME NEW i \in 1 .. Len(log), NEW j \in 1 .. n + 1, log[i].type = m_pending_events'[j].type
               PROVE  log[i].id < m_pending_events'[j].id
    OBVIOUS
  <2>1. CASE j = n + 1
    BY <1>1, <1>2, <1>4, <1>6, <2>1
  <2>2. CASE j # n + 1
    <3>1. j \in 1 .. n
      BY <1>1, <2>2
    <3> QED BY <1>4, <3>1 DEF OrderInv, n
  <2> QED BY <2>1, <2>2
<1>10. /\ ReceivedInOrder'
       /\ \A i \in 1 .. Len(log') : log'[i].id <= sent'
  BY <1>1, <1>3, <1>6 DEF OrderInv, ReceivedInOrder
<1> QED BY <1>3, <1>4, <1>7, <1>8, <1>9, <1>10 DEF OrderInv

LEMMA OrderReceive ==
  ASSUME Typed, OrderInv, NEW h, Candidates(h) # {}, Receive(h), sent' = sent
  PROVE  OrderInv'
<1> DEFINE n == Len(m_pending_events)
           k == Popped(h)
           e == m_pending_events[k]
<1>1. m_pending_events \in Seq(Event) /\ sent \in Nat /\ n \in Nat /\ log \in Seq(Event)
  BY DEF Typed
<1>2. k \in 1 .. n /\ Matches(h, e.type) /\ e \in Event
  BY <1>1, PoppedFacts DEF Candidates
<1>3. \A j \in 1 .. n : m_pending_events[j].type = e.type => k <= j
  BY <1>2, PoppedFacts DEF Candidates
<1>4. m_pending_events' = RemoveAt(m_pending_events, k) /\ log' = Append(log, e)
  BY DEF Receive
<1> HIDE DEF k
<1>5. /\ Len(m_pending_events') = n - 1
      /\ \A j \in 1 .. n - 1 : m_pending_events'[j] = IF j < k THEN m_pending_events[j] ELSE m_pending_events[j + 1]
  BY <1>1, <1>2, <1>4, RemoveAtFacts
<1> DEFINE at(j) == IF j < k THEN j ELSE j + 1
<1>6. /\ \A j \in 1 .. n - 1 : at(j) \in 1 .. n /\ at(j) # k /\ m_pending_events'[j] = m_pending_events[at(j)]
      /\ \A i, j \in 1 .. n - 1 : i < j => at(i) < at(j)
  BY <1>1, <1>2, <1>5
<1> HIDE DEF n, e, at
<1>7. /\ Len(log') = Len(log) + 1 /\ Len(log) \in Nat /\ log'[Len(log) + 1] = e
      /\ \A i \in 1 .. Len(log) : log'[i] = log[i]
  BY <1>1, <1>2, <1>4
<1>8. \A i, j \in 1 .. n - 1 : i < j => m_pending_events'[i].id < m_pending_events'[j].id
  BY <1>6 DEF OrderInv, n
<1>9. \A i \in 1 .. n - 1 : m_pending_events'[i].id <= sent
  BY <1>6 DEF OrderInv, n
<1>10. \A i \in 1 .. Len(log) + 1 : \A j \in 1 .. n - 1 :
         log'[i].type = m_pending_events'[j].type => log'[i].id < m_pending_events'[j].id
  <2> SUFFICES ASSUME NEW i \in 1 .. Len(log) + 1, NEW j \in 1 .. n - 1, log'[i].type = m_pending_events'[j].type
               PROVE  log'[i].id < m_pending_events'[j].id
    OBVIOUS
  <2>1. CASE i = Len(log) + 1
    <3>1. log'[i] = e /\ at(j) \in 1 .. n /\ m_pending_events[at(j)].type = e.type /\ at(j) # k
      BY <1>6, <1>7, <2>1
    <3>2. k < at(j)
      BY <1>1, <1>2, <1>3, <3>1
    <3>3. m_pending_events[k].id < m_pending_events[at(j)].id
      BY <1>2, <3>1, <3>2 DEF OrderInv, n
    <3> QED BY <1>6, <3>1, <3>3 DEF e
  <2>2. CASE i # Len(log) + 1
    <3>1. i \in 1 .. Len(log) /\ log'[i] = log[i]
      BY <1>7, <2>2
    <3> QED BY <1>6, <3>1 DEF OrderInv, n
  <2> QED BY <2>1, <2>2
<1>11. ReceivedInOrder'
  <2> SUFFICES ASSUME NEW i \in 1 .. Len(log) + 1, NEW j \in 1 .. Len(log) + 1, i < j, log'[i].type = log'[j].type
               PROVE  log'[i].id < log'[j].id
    BY <1>7 DEF ReceivedInOrder
  <2>1. i \in 1 .. Len(log) /\ log'[i] = log[i]
    BY <1>7
  <2>2. CASE j = Len(log) + 1
    <3>1. log'[j] = m_pending_events[k]
      BY <1>7, <2>2 DEF e
    <3> QED BY <1>2, <2>1, <3>1 DEF OrderInv, n
  <2>3. CASE j # Len(log) + 1
    <3>1. j \in 1 .. Len(log) /\ log'[j] = log[j]
      BY <1>7, <2>3
    <3> QED BY <2>1, <3>1 DEF OrderInv, ReceivedInOrder
  <2> QED BY <2>2, <2>3
<1>12. \A i \in 1 .. Len(log) + 1 : log'[i].id <= sent
  <2>1. e.id <= sent
    BY <1>2 DEF OrderInv, n, e
  <2> QED BY <1>7, <2>1 DEF OrderInv
<1> QED BY <1>5, <1>7, <1>8, <1>9, <1>10, <1>11, <1>12 DEF OrderInv

LEMMA ReceiveTyped ==
  ASSUME Typed, NEW h, Candidates(h) # {}, Receive(h), sent' = sent
  PROVE  Typed'
<1>1. Popped(h) \in 1 .. Len(m_pending_events)
  BY PoppedFacts DEF Candidates
<1>2. m_pending_events[Popped(h)] \in Event
  BY <1>1 DEF Typed
<1>3. m_pending_events' \in Seq(Event)
  BY <1>1, RemoveAtFacts DEF Receive, Typed
<1>4. log' \in Seq(Event)
  BY <1>2 DEF Receive, Typed
<1> QED BY <1>3, <1>4 DEF Typed

LEMMA OrderStep == Typed /\ OrderInv /\ [Next]_vars => Typed' /\ OrderInv'
<1> SUFFICES ASSUME Typed, OrderInv, [Next]_vars PROVE Typed' /\ OrderInv'
  OBVIOUS
<1>1. CASE UNCHANGED <<m_pending_events, log, sent>>
  BY <1>1 DEF Typed, OrderInv, ReceivedInOrder
<1>2. ASSUME NEW type \in Types, Signal(type) PROVE Typed'
  <2>1. [id |-> sent + 1, type |-> type] \in Event
    BY DEF Typed, Event
  <2> QED BY <1>2, <2>1 DEF Signal, Typed
<1> QED BY <1>1, <1>2, EventSteps, OrderSignal, OrderReceive, ReceiveTyped

\* pop_event: events of one type are received in the order of their signals, each of
\* them once, whoever takes them, however deep the signals nest and whatever is removed.
THEOREM EventsInOrder == Spec => []ReceivedInOrder
<1>1. Init => Typed /\ OrderInv
  BY DEF Init, Typed, OrderInv, ReceivedInOrder
<1>2. OrderInv => ReceivedInOrder
  BY DEF OrderInv
<1> QED BY <1>1, <1>2, OrderStep, PTL DEF Spec
==============================================================================
