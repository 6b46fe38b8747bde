--------------------------- MODULE Archivist_proofs ---------------------------
(***************************************************************************)
(* What the journal counts and what it writes, for any number of threads   *)
(* that log, shut down and flush, and rings of any size.                   *)
(***************************************************************************)
EXTENDS Archivist, Integers, FiniteSetTheorems, WellFoundedInduction, TLAPS

------------------------------------------------------------------------------
(* Numbers: remainders, for the slots of claims, and least elements *)

\* What x % M and x \div M are.
LEMMA DivMod ==
  ASSUME NEW x \in Int, NEW M \in Nat \ {0}
  PROVE  /\ x \div M \in Int /\ x % M \in Int
         /\ 0 <= x % M /\ x % M < M
         /\ x % M = x - M * (x \div M)
<1>1. M \in Int /\ M > 0
  OBVIOUS
<1>2. x % M = x - M * (x \div M)
  BY <1>1
<1>3. x \div M \in Int /\ x % M \in Int /\ 0 <= x % M /\ x % M < M
  BY <1>1
<1> QED BY <1>2, <1>3, Zenon

\* The remainder is unique.
LEMMA OneRemainder ==
  ASSUME NEW M \in Nat \ {0}, NEW q \in Int, NEW r \in Int, NEW k \in Int, NEW s \in Int,
         0 <= r, r < M, 0 <= s, s < M, M * q + r = M * k + s
  PROVE  r = s
<1>1. CASE q = k
  BY <1>1
<1>2. CASE q > k
  <2>1. M * q >= M * k + M
    BY <1>2
  <2> QED BY <2>1
<1>3. CASE q < k
  <2>1. M * k >= M * q + M
    BY <1>3
  <2> QED BY <2>1
<1> QED BY <1>1, <1>2, <1>3

\* Whole rounds do not change the remainder.
LEMMA ModShift ==
  ASSUME NEW x \in Int, NEW M \in Nat \ {0}, NEW k \in Int
  PROVE  (x + M * k) % M = x % M
<1> DEFINE y == x + M * k
           q == x \div M
           r == x % M
           p == y \div M
           s == y % M
<1>1. y \in Int
  OBVIOUS
<1>2. q \in Int /\ r \in Int /\ 0 <= r /\ r < M /\ r = x - M * q
  BY DivMod
<1>3. p \in Int /\ s \in Int /\ 0 <= s /\ s < M /\ s = y - M * p
  BY <1>1, DivMod
<1>4. y = M * (q + k) + r
  BY <1>2
<1> HIDE DEF q, r, y, p, s
<1>5. M * (q + k) + r = M * p + s /\ q + k \in Int
  BY <1>1, <1>2, <1>3, <1>4
<1>6. r = s
  BY <1>2, <1>3, <1>5, OneRemainder, Zenon
<1> QED BY <1>6 DEF r, s, y

\* A remainder may be taken before or after an addition.
LEMMA ModAdd ==
  ASSUME NEW x \in Int, NEW y \in Int, NEW M \in Nat \ {0}
  PROVE  ((x % M) + y) % M = (x + y) % M
<1> DEFINE q == x \div M
           r == x % M
<1>1. q \in Int /\ r \in Int /\ r = x - M * q
  BY DivMod
<1> HIDE DEF q, r
<1>2. r + y \in Int
  BY <1>1
<1>3. ((r + y) + M * q) % M = (r + y) % M
  BY <1>1, <1>2, ModShift, Zenon
<1>4. (r + y) + M * q = x + y
  BY <1>1
<1> QED BY <1>3, <1>4 DEF r

\* Numbers less than one round apart have different remainders.
LEMMA ModWindow ==
  ASSUME NEW x \in Int, NEW y \in Int, NEW M \in Nat \ {0}, x < y, y < x + M
  PROVE  x % M # y % M
<1> DEFINE q == x \div M
           r == x % M
           p == y \div M
           s == y % M
<1>1. q \in Int /\ r \in Int /\ r = x - M * q
  BY DivMod
<1>2. p \in Int /\ s \in Int /\ s = y - M * p
  BY DivMod
<1> HIDE DEF q, r, p, s
<1>3. SUFFICES ASSUME r = s PROVE FALSE
  BY DEF r, s
<1>4. y - x = M * (p - q)
  BY <1>1, <1>2, <1>3
<1>5. CASE p - q <= 0
  <2>1. M * (p - q) <= 0
    BY <1>1, <1>2, <1>5
  <2> QED BY <1>4, <2>1
<1>6. CASE p - q >= 1
  <2>1. M * (p - q) >= M
    BY <1>1, <1>2, <1>6
  <2> QED BY <1>4, <2>1
<1> QED BY <1>1, <1>2, <1>5, <1>6

\* A set of naturals has a least element: the initial segments of Nat are finite, and strict inclusion between finite
\* sets is well-founded.
LEMMA LeastNatural ==
  ASSUME NEW T, T \subseteq Nat, T # {}
  PROVE  \E x \in T : \A y \in T : x <= y
<1> DEFINE D == {0 .. x : x \in T}
           F == FiniteSubsetsOf(Nat)
           R == StrictSubsetOrdering(Nat)
<1>1. D \subseteq F /\ D # {}
  <2>1. \A x \in T : 0 .. x \in SUBSET Nat /\ IsFiniteSet(0 .. x)
    BY FS_Interval
  <2> QED BY <2>1 DEF FiniteSubsetsOf
<1>2. PICK d \in D : \A e \in D : ~(<<e, d>> \in R)
  <2>1. IsWellFoundedOn(R, F)
    BY FS_StrictSubsetOrderingWellFounded
  <2> HIDE DEF R, F, D
  <2> QED BY <1>1, <2>1, WFMin
<1>3. PICK x \in T : d = 0 .. x
  OBVIOUS
<1>4. ASSUME NEW y \in T, y < x PROVE FALSE
  <2>1. 0 .. y \subseteq 0 .. x /\ 0 .. y # 0 .. x /\ 0 .. y \in D
    BY <1>4
  <2>2. <<0 .. y, d>> \in R
    BY <1>3, <2>1 DEF StrictSubsetOrdering
  <2> QED BY <1>2, <2>1, <2>2
<1> QED BY <1>4

------------------------------------------------------------------------------
(* What the histories say *)

WriterSteps == {"idle", "rt", "drop", "spin", "push", "pushed", "full"}

\* What cannot be undone: that a push was lapped, that two threads drained at
\* once.
LEMMA HistoryKept ==
  ASSUME [ANext]_avars PROVE (lapped => lapped') /\ (shared => shared')
<1>1. ASSUME NEW p \in Producers, Scribe(p) \/ Writer(p) PROVE UNCHANGED <<lapped, shared>>
  BY <1>1 DEF Scribe, Writer, RtPush, Drop, Lock, RingPush, Unlock, vars, Push, PushRefused,
              PushFree, PushStore, PushReady
<1>2. ASSUME NEW p \in Producers, ScribeRt(p) PROVE (lapped => lapped') /\ UNCHANGED shared
  <2>1. lapped' = (lapped \/ \E q \in Producers : Laps(q)) /\ UNCHANGED shared
    BY <1>2 DEF ScribeRt, PushClaim
  <2> QED BY <2>1, Zenon
<1>3. ASSUME NEW c \in Consumers, Drain(c) PROVE UNCHANGED <<lapped, shared>>
  BY <1>3 DEF Drain, DrainRt, DrainRtEnd, DrainRing, Report, vars, PopFound, PopCopy, PopClear,
              PopAdvance, PopEmpty
<1>4. ASSUME NEW c, NEW place, Enter(c, place) PROVE shared => shared'
  <2>1. shared' = (shared \/ \E d \in Consumers \ {c} : drain[d] # "out")
    BY <1>4 DEF Enter
  <2> QED BY <2>1, Zenon
<1>5. ASSUME WorkerTest PROVE UNCHANGED lapped /\ \E place : Enter(Worker, place)
  BY <1>5 DEF WorkerTest, vars
<1>6. ASSUME NEW c \in Callers, Flush(c) \/ ShutdownJoin(c)
      PROVE  UNCHANGED lapped /\ \E place : Enter(c, place)
  BY <1>6 DEF Flush, ShutdownJoin, vars
<1>7. ASSUME NEW c \in Callers,
             Shutdown(c) \/ ShutdownEnter(c) \/ ShutdownLower(c) \/ ShutdownReset(c)
      PROVE  UNCHANGED <<lapped, shared>>
  BY <1>7 DEF Shutdown, ShutdownEnter, ShutdownLower, ShutdownReset, vars
<1>8. ASSUME Destroy \/ UNCHANGED avars PROVE UNCHANGED <<lapped, shared>>
  BY <1>8 DEF Destroy, avars, vars
<1> QED BY <1>1, <1>2, <1>3, <1>4, <1>5, <1>6, <1>7, <1>8 DEF ANext, Call

\* One thread is in drain_ring_buffer.
OneDrainer == \A c, d \in Consumers : drain[c] # "out" /\ drain[d] # "out" => c = d

\* shared is there to tell when it was not so.
AloneInv == /\ drain \in [Consumers -> {"out", "rt", "ring", "report"}]
            /\ ~shared => OneDrainer

LEMMA InitAlone == AInit => AloneInv
BY DEF AInit, AloneInv, OneDrainer

\* Only Enter brings a thread into drain_ring_buffer.
LEMMA NextAlone == AloneInv /\ [ANext]_avars => AloneInv'
<1> SUFFICES ASSUME AloneInv, [ANext]_avars PROVE AloneInv'
  OBVIOUS
<1>1. ASSUME UNCHANGED <<drain, shared>> PROVE AloneInv'
  BY <1>1 DEF AloneInv, OneDrainer
<1>2. ASSUME NEW c \in Consumers, NEW place, Enter(c, place) PROVE AloneInv'
  BY <1>2 DEF Enter, AloneInv, OneDrainer
<1>3. ASSUME NEW c \in Consumers, drain[c] # "out", UNCHANGED shared,
             NEW there \in {"out", "ring", "report"}, drain' = [drain EXCEPT ![c] = there]
      PROVE  AloneInv'
  BY <1>3 DEF AloneInv, OneDrainer
<1>4. ASSUME NEW p \in Producers, Scribe(p) \/ ScribeRt(p) \/ Writer(p) PROVE AloneInv'
  BY <1>1, <1>4 DEF Scribe, ScribeRt, Writer, RtPush, Drop, Lock, RingPush, Unlock, threads
<1>5. ASSUME NEW c \in Consumers, Drain(c) PROVE AloneInv'
  <2>1. \/ UNCHANGED <<drain, shared>>
        \/ /\ drain[c] # "out" /\ UNCHANGED shared
           /\ \E there \in {"out", "ring", "report"} : drain' = [drain EXCEPT ![c] = there]
    BY <1>5 DEF Drain, DrainRt, DrainRtEnd, DrainRing, Report, threads
  <2> QED BY <1>1, <1>3, <2>1
<1>6. ASSUME WorkerTest PROVE AloneInv'
  BY <1>2, <1>6, ArchivistAssumption DEF WorkerTest
<1>7. ASSUME NEW c \in Callers, Flush(c) \/ ShutdownJoin(c) PROVE AloneInv'
  BY <1>2, <1>7, ArchivistAssumption DEF Flush, ShutdownJoin
<1>8. ASSUME NEW c \in Callers,
             Shutdown(c) \/ ShutdownEnter(c) \/ ShutdownLower(c) \/ ShutdownReset(c)
      PROVE  AloneInv'
  BY <1>1, <1>8 DEF Shutdown, ShutdownEnter, ShutdownLower, ShutdownReset
<1>9. ASSUME Destroy \/ UNCHANGED avars PROVE AloneInv'
  BY <1>1, <1>9 DEF Destroy, avars, threads
<1> QED BY <1>4, <1>5, <1>6, <1>7, <1>8, <1>9 DEF ANext, Call

------------------------------------------------------------------------------
(* The hand-over of the drain *)

WorkerSteps == {"sleep", "drain", "last", "ended"}
CallerSteps == {"idle", "enter", "lower", "join", "drain", "flush", "reset", "leave"}

\* Past m_shutdown_in_progress, with the flag still up.
InShutdown == {"lower", "join", "drain", "reset", "leave"}

Places == /\ at \in [Consumers -> WorkerSteps \cup CallerSteps]
          /\ drain \in [Consumers -> {"out", "rt", "ring", "report"}]
          /\ at[Worker] \in WorkerSteps
          /\ \A c \in Callers : at[c] \in CallerSteps

\* A thread that drains is at a place that calls drain_ring_buffer.
DrainsSomewhere == \A c \in Consumers :
  drain[c] # "out" => at[c] \in {"drain", "last", "flush"}

\* One caller at a time is past the exchange of the flag, and it drains only
\* when the worker has ended.
OneShutdown == \A c \in Callers :
  /\ at[c] \in InShutdown => closing /\ \A d \in Callers \ {c} : at[d] \notin InShutdown
  /\ at[c] \in {"drain", "reset", "leave"} => at[Worker] = "ended"

\* A caller that drains in shutdown has joined the worker; only a flush can meet
\* another drain.
DrainInv == Places /\ DrainsSomewhere /\ OneShutdown

LEMMA InitDrain == AInit => DrainInv
<1> SUFFICES ASSUME AInit PROVE DrainInv
  OBVIOUS
<1>1. /\ at = [c \in Consumers |-> IF c = Worker THEN "sleep" ELSE "idle"]
      /\ drain = [c \in Consumers |-> "out"]
  BY DEF AInit
<1> QED
  BY <1>1, ArchivistAssumption
  DEF DrainInv, Places, DrainsSomewhere, OneShutdown, WorkerSteps, CallerSteps, InShutdown

LEMMA NextDrain ==
  DrainInv /\ [ANext]_avars => DrainInv'
<1> SUFFICES ASSUME DrainInv, [ANext]_avars PROVE DrainInv'
  OBVIOUS
<1> USE ArchivistAssumption
<1> USE DEF DrainInv, Places, DrainsSomewhere, OneShutdown, WorkerSteps, CallerSteps,
            InShutdown
<1>1. ASSUME UNCHANGED <<initialized, closing, at, drain>> PROVE DrainInv'
  BY <1>1
<1>2. ASSUME NEW p \in Producers, Scribe(p) \/ ScribeRt(p) \/ Writer(p) PROVE DrainInv'
  <2>1. UNCHANGED <<initialized, closing, at, drain>>
    BY <1>2 DEF Scribe, ScribeRt, Writer, RtPush, Drop, Lock, RingPush, Unlock, flags, threads
  <2> QED BY <2>1, <1>1
<1>3. ASSUME NEW c \in Consumers, DrainRt(c) PROVE DrainInv'
  BY <1>3, <1>1 DEF DrainRt, flags, threads
<1>4. ASSUME NEW c \in Consumers, DrainRtEnd(c) \/ DrainRing(c) PROVE DrainInv'
  <2>1. UNCHANGED <<initialized, closing, at>>
    BY <1>4 DEF DrainRtEnd, DrainRing, flags
  <2>2. drain[c] # "out" /\ \E place \in {"rt", "ring", "report"} :
          drain' = [drain EXCEPT ![c] = place]
    BY <1>4 DEF DrainRtEnd, DrainRing
  <2> QED BY <2>1, <2>2
<1>5. ASSUME NEW c \in Consumers, Report(c) PROVE DrainInv'
  <2>1. UNCHANGED <<initialized, closing>>
    BY <1>5 DEF Report, flags
  <2>2. /\ drain' = [drain EXCEPT ![c] = "out"]
        /\ at' = [at EXCEPT ![c] = AfterDrain(c)]
        /\ at[c] \in {"drain", "last", "flush"}
    BY <1>5 DEF Report
  <2>3. CASE c = Worker
    <3>1. at[Worker] # "ended" /\ AfterDrain(c) \in {"sleep", "ended"}
      BY <2>2, <2>3 DEF AfterDrain
    <3>2. \A d \in Callers : at[d] \notin {"drain", "reset", "leave"}
      BY <3>1
    <3> QED BY <2>1, <2>2, <2>3, <3>1, <3>2
  <2>4. CASE c \in Callers /\ at[c] = "drain"
    <3>1. AfterDrain(c) = "reset"
      BY <2>4 DEF AfterDrain
    <3> QED BY <2>1, <2>2, <2>4, <3>1
  <2>5. CASE c \in Callers /\ at[c] = "flush"
    <3>1. AfterDrain(c) = "idle"
      BY <2>5 DEF AfterDrain
    <3> QED BY <2>1, <2>2, <2>5, <3>1
  <2> QED BY <2>2, <2>3, <2>4, <2>5
<1>6. ASSUME WorkerTest PROVE DrainInv'
  <2>1. UNCHANGED <<initialized, closing>> /\ at[Worker] = "sleep"
    BY <1>6 DEF WorkerTest, flags
  <2>2. \E place \in {"drain", "last"} : /\ at' = [at EXCEPT ![Worker] = place]
                                         /\ drain' = [drain EXCEPT ![Worker] = "rt"]
    BY <1>6 DEF WorkerTest, Enter
  <2>3. \A d \in Callers : at[d] \notin {"drain", "reset", "leave"}
    BY <2>1
  <2> QED BY <2>1, <2>2, <2>3
<1>7. ASSUME NEW c \in Callers, Shutdown(c) PROVE DrainInv'
  <2>1. UNCHANGED <<initialized, closing, drain>> /\ at[c] = "idle"
    BY <1>7 DEF Shutdown, CanCall, flags
  <2>2. at' = [at EXCEPT ![c] = IF initialized THEN "enter" ELSE "idle"]
    BY <1>7 DEF Shutdown
  <2> QED BY <2>1, <2>2
<1>8. ASSUME NEW c \in Callers, Flush(c) PROVE DrainInv'
  <2>1. UNCHANGED <<initialized, closing>> /\ at[c] = "idle"
    BY <1>8 DEF Flush, CanCall, flags
  <2>2. /\ at' = [at EXCEPT ![c] = "flush"]
        /\ drain' = [drain EXCEPT ![c] = "rt"]
    BY <1>8 DEF Flush, Enter
  <2> QED BY <2>1, <2>2
<1>9. ASSUME NEW c \in Callers, ShutdownEnter(c) PROVE DrainInv'
  <2>1. UNCHANGED <<initialized, drain>> /\ at[c] = "enter" /\ closing' = TRUE
    BY <1>9 DEF ShutdownEnter
  <2>2. at' = [at EXCEPT ![c] = IF closing THEN "idle" ELSE "lower"]
    BY <1>9 DEF ShutdownEnter
  <2> QED BY <2>1, <2>2
<1>10. ASSUME NEW c \in Callers, ShutdownLower(c) PROVE DrainInv'
  <2>1. UNCHANGED <<initialized, closing, drain>> /\ at[c] = "lower"
    BY <1>10 DEF ShutdownLower
  <2>2. at' = [at EXCEPT ![c] = "join"]
    BY <1>10 DEF ShutdownLower
  <2> QED BY <2>1, <2>2
<1>11. ASSUME NEW c \in Callers, ShutdownJoin(c) PROVE DrainInv'
  <2>1. UNCHANGED <<initialized, closing>> /\ at[c] = "join" /\ at[Worker] = "ended"
    BY <1>11 DEF ShutdownJoin, flags
  <2>2. /\ at' = [at EXCEPT ![c] = "drain"]
        /\ drain' = [drain EXCEPT ![c] = "rt"]
    BY <1>11 DEF ShutdownJoin, Enter
  <2> QED BY <2>1, <2>2
<1>12. ASSUME NEW c \in Callers, ShutdownReset(c) PROVE DrainInv'
  <2>1. UNCHANGED drain
    BY <1>12 DEF ShutdownReset
  <2>2. CASE /\ at[c] = "reset" /\ initialized' = FALSE /\ UNCHANGED closing
             /\ at' = [at EXCEPT ![c] = "leave"]
    BY <2>1, <2>2
  <2>3. CASE /\ at[c] = "leave" /\ closing' = FALSE /\ UNCHANGED initialized
             /\ at' = [at EXCEPT ![c] = "idle"]
    BY <2>1, <2>3
  <2> QED BY <1>12, <2>2, <2>3 DEF ShutdownReset
<1>13. ASSUME Destroy \/ UNCHANGED avars PROVE DrainInv'
  BY <1>13, <1>1 DEF Destroy, avars, flags, threads
<1> QED
  BY <1>2, <1>3, <1>4, <1>5, <1>6, <1>7, <1>8, <1>9, <1>10, <1>11, <1>12, <1>13
  DEF ANext, Drain, Call

------------------------------------------------------------------------------
(* The real-time ring: claims, flags and order *)

Busy(p) == producer[p].at # "idle"

Writing(p) == producer[p].at \in {"store", "ready"}

\* The pushes under way hold distinct claims.
ClaimInv ==
  /\ Len(claimed) = claim_index
  /\ \A p \in Producers : Busy(p) =>
       /\ producer[p].claim < claim_index
       /\ \A q \in Producers : Busy(q) /\ producer[q].claim = producer[p].claim => q = p

\* Claims are less than one round old as long as no push was lapped.
RoundInv == \A p \in Producers : Busy(p) => claim_index <= producer[p].claim + Capacity

\* Whose slot it is shows in the flag: down while a push writes it, up until
\* the pop that copies it is done.
FlagInv ==
  /\ \A p \in Producers : Writing(p) => ~ready_flags[slot(producer[p].claim)]
  /\ \A c \in Consumers :
       /\ consumer[c].at # "idle" => drain[c] = "rt" /\ consumer[c].slot = read_index
       /\ consumer[c].at = "clear" => ready_flags[read_index]

\* The claims whose slot the consumer has given back.
Taken == IF \E c \in Consumers : consumer[c].at = "advance" THEN Len(delivered) + 1
                                                           ELSE Len(delivered)

\* Claim k was made and its push has returned.
Returned(k) == k < claim_index /\ \A p \in Producers : Busy(p) => producer[p].claim # k

\* While nothing was refused the ready slots are, one by one, the claims whose
\* push has returned and which are not taken yet, all within one round.
OrderInv ==
  /\ Taken <= claim_index /\ read_index = slot(Len(delivered))
  /\ \A k \in Nat : Taken <= k /\ Returned(k) =>
       /\ k < Taken + Capacity
       /\ ready_flags[slot(k)] /\ buffer[slot(k)] = claimed[k + 1]
  /\ \A s \in Slots : ready_flags[s] =>
       \E k \in Nat : Taken <= k /\ Returned(k) /\ slot(k) = s
  /\ \A p \in Producers :
       /\ Busy(p) => Taken <= producer[p].claim
       /\ Writing(p) => producer[p].claim < Taken + Capacity
       /\ producer[p].at = "ready" =>
            buffer[slot(producer[p].claim)] = claimed[producer[p].claim + 1]
  /\ \A c \in Consumers : consumer[c].at # "idle" =>
       Len(delivered) < claim_index /\ consumer[c].value = claimed[Len(delivered) + 1]
  /\ \A k \in 1 .. Len(delivered) : delivered[k] = claimed[k]

\* The ring as it is used by one consumer and by pushes that are not lapped.
MpscInv == TypeOK /\ ClaimInv /\ RoundInv /\ FlagInv /\ (refused = {} => OrderInv)

LEMMA CapacityFacts ==
  /\ Capacity \in Nat \ {0} /\ Capacity \in Int
  /\ \A k \in Nat : slot(k) \in Slots
  /\ \A x, y \in Nat : x < y /\ y < x + Capacity => slot(x) # slot(y)
  /\ \A k \in Nat : slot(k + Capacity) = slot(k)
  /\ \A k \in Nat : increment(slot(k)) = slot(k + 1)
<1>1. Capacity \in Nat \ {0} /\ Capacity \in Int
  BY MPSCAssumption
<1>2. \A k \in Nat : slot(k) \in Slots
  BY <1>1 DEF slot, Slots
<1>3. ASSUME NEW x \in Nat, NEW y \in Nat, x < y, y < x + Capacity
      PROVE  slot(x) # slot(y)
  <2>1. x \in Int /\ y \in Int
    OBVIOUS
  <2> QED BY <1>1, <1>3, <2>1, ModWindow, Zenon DEF slot
<1>4. ASSUME NEW k \in Nat PROVE slot(k + Capacity) = slot(k)
  <2>1. k \in Int /\ 1 \in Int /\ Capacity * 1 = Capacity
    BY <1>1
  <2>2. (k + Capacity * 1) % Capacity = k % Capacity
    BY <1>1, <2>1, ModShift, Zenon
  <2> QED BY <2>1, <2>2 DEF slot
<1>5. ASSUME NEW k \in Nat PROVE increment(slot(k)) = slot(k + 1)
  <2>1. k \in Int /\ 1 \in Int
    OBVIOUS
  <2> QED BY <1>1, <2>1, ModAdd, Zenon DEF slot, increment
<1> QED BY <1>1, <1>2, <1>3, <1>4, <1>5

LEMMA InitMpsc == AInit => MpscInv
<1> SUFFICES ASSUME AInit PROVE MpscInv
  OBVIOUS
<1>1. Init /\ Default \in Cells /\ 0 \in Slots /\ MaxClaims \in Nat
  BY MPSCAssumption DEF AInit, Cells, Slots
<1>2. TypeOK
  <2>1. lapped = FALSE
    BY <1>1 DEF Init
  <2>2. lapped \in BOOLEAN
    BY <2>1, Zenon
  <2> QED BY <1>1, <2>2 DEF Init, TypeOK
<1>3. ClaimInv /\ RoundInv /\ FlagInv
  BY <1>1 DEF Init, ClaimInv, RoundInv, FlagInv, Busy, Writing
<1>4. Taken = 0 /\ slot(0) = 0
  BY <1>1, CapacityFacts DEF Init, Taken, slot
<1>5. OrderInv
  BY <1>1, <1>4 DEF Init, OrderInv, Returned, Busy, Writing
<1> QED BY <1>2, <1>3, <1>5 DEF MpscInv

\* What the journal does beside the ring keeps the ring's invariant, as long as
\* no thread leaves the drain loop in the middle of a pop.
LEMMA MpscStill ==
  ASSUME MpscInv, UNCHANGED vars,
         \A c \in Consumers : consumer[c].at # "idle" => drain'[c] = "rt"
  PROVE  MpscInv'
BY DEF MpscInv, TypeOK, ClaimInv, RoundInv, FlagInv, OrderInv, Taken, Returned, Busy, Writing, vars

\* A push that moves on inside its call keeps its claim.
LEMMA PushMoves ==
  ASSUME TypeOK, NEW p \in Producers, NEW a \in {"idle", "store", "ready"},
         producer' = [producer EXCEPT ![p].at = a]
  PROVE  /\ producer' \in [Producers -> [at : {"idle", "test", "store", "ready"}, claim : Nat]]
         /\ producer'[p].at = a /\ producer'[p].claim = producer[p].claim
         /\ \A q \in Producers : q # p => producer'[q] = producer[q]
BY DEF TypeOK

\* Two pushes under way have different slots.
LEMMA BusySlots ==
  ASSUME TypeOK, ClaimInv, RoundInv, NEW p \in Producers, NEW q \in Producers, p # q, Busy(p), Busy(q)
  PROVE  slot(producer[p].claim) # slot(producer[q].claim)
<1>1. producer[p].claim \in Nat /\ producer[q].claim \in Nat /\ claim_index \in Nat
  BY MPSCAssumption DEF TypeOK
<1>2. /\ producer[p].claim # producer[q].claim
      /\ producer[p].claim < claim_index /\ claim_index <= producer[p].claim + Capacity
      /\ producer[q].claim < claim_index /\ claim_index <= producer[q].claim + Capacity
  BY DEF ClaimInv, RoundInv
<1>3. CASE producer[p].claim < producer[q].claim
  <2>1. producer[q].claim < producer[p].claim + Capacity
    BY <1>1, <1>2, CapacityFacts
  <2> QED BY <1>1, <1>3, <2>1, CapacityFacts
<1>4. CASE producer[q].claim < producer[p].claim
  <2>1. producer[p].claim < producer[q].claim + Capacity
    BY <1>1, <1>2, CapacityFacts
  <2> QED BY <1>1, <1>4, <2>1, CapacityFacts
<1> QED BY <1>1, <1>2, <1>3, <1>4

\* The numbers of MpscInv, as the step proofs use them.
LEMMA MpscNumbers ==
  ASSUME TypeOK
  PROVE  /\ claim_index \in Nat /\ Capacity \in Nat /\ Capacity > 0
         /\ Len(delivered) \in Nat /\ Taken \in Nat /\ Len(claimed) \in Nat
         /\ \A p \in Producers : /\ producer[p].claim \in Nat
                                 /\ slot(producer[p].claim) \in Slots
<1>1. /\ claim_index \in Nat /\ Capacity \in Nat /\ Capacity > 0
      /\ Len(delivered) \in Nat /\ Len(claimed) \in Nat
  BY MPSCAssumption DEF TypeOK
<1>2. Taken \in Nat
  BY <1>1 DEF Taken
<1>3. \A p \in Producers : producer[p].claim \in Nat
  BY DEF TypeOK
<1> QED BY <1>1, <1>2, <1>3, CapacityFacts

\* A new claim is one past all the others; if it laps none of them, none is a
\* round old.
LEMMA ClaimMade ==
  ASSUME TypeOK, ClaimInv, NEW p \in Producers, NEW v \in Values, PushClaim(p, v)
  PROVE  TypeOK' /\ ClaimInv' /\ (~lapped' => RoundInv')
<1>1. /\ producer[p].at = "idle" /\ claim_index < MaxClaims
      /\ lapped' = (lapped \/ \E q \in Producers : Laps(q))
      /\ claim_index' = claim_index + 1 /\ claimed' = Append(claimed, v)
      /\ UNCHANGED <<buffer, ready_flags, read_index, consumer, refused, delivered>>
      /\ producer' = [producer EXCEPT ![p] = [at |-> "test", claim |-> claim_index]]
  BY DEF PushClaim
<1>2. /\ producer'[p].at = "test" /\ producer'[p].claim = claim_index
      /\ \A q \in Producers : q # p => producer'[q] = producer[q]
      /\ producer' \in [Producers -> [at : {"idle", "test", "store", "ready"}, claim : Nat]]
  BY <1>1, MpscNumbers DEF TypeOK
<1>3. /\ claim_index' \in 0 .. MaxClaims /\ claimed' \in Seq(Values)
      /\ Len(claimed') = claim_index'
      /\ \A k \in Nat : k < claim_index => claimed'[k + 1] = claimed[k + 1]
  BY <1>1, MPSCAssumption DEF TypeOK, ClaimInv
<1>4. TypeOK'
  BY <1>1, <1>2, <1>3 DEF TypeOK
<1>5. ClaimInv'
  <2>1. ASSUME NEW q \in Producers, Busy(q)'
        PROVE  /\ producer'[q].claim < claim_index'
               /\ \A r \in Producers :
                    Busy(r)' /\ producer'[r].claim = producer'[q].claim => r = q
    <3>1. CASE q = p
      <4>1. \A r \in Producers : r # p /\ Busy(r)' => producer'[r].claim < claim_index
        BY <1>2 DEF Busy, ClaimInv
      <4> QED BY <1>1, <1>2, <3>1, <4>1, MpscNumbers
    <3>2. CASE q # p
      <4>1. producer'[q] = producer[q] /\ Busy(q)
        BY <1>2, <2>1, <3>2 DEF Busy
      <4>2. producer[q].claim < claim_index
        BY <4>1 DEF Busy, ClaimInv
      <4>3. \A r \in Producers :
              Busy(r)' /\ producer'[r].claim = producer'[q].claim => r = q
        BY <1>2, <4>1, <4>2, MpscNumbers DEF ClaimInv, Busy
      <4> QED BY <1>1, <4>1, <4>2, <4>3, MpscNumbers
    <3> QED BY <3>1, <3>2
  <2> QED BY <1>3, <2>1 DEF ClaimInv
<1>6. ASSUME ~lapped', NEW q \in Producers, Busy(q)'
      PROVE  claim_index' <= producer'[q].claim + Capacity
  <2>1. CASE q = p
    BY <1>1, <1>2, <2>1, MpscNumbers
  <2>2. CASE q # p
    <3>1. producer'[q] = producer[q] /\ Busy(q) /\ ~Laps(q)
      BY <1>1, <1>2, <1>6, <2>2 DEF Busy
    <3>2. claim_index - producer[q].claim < Capacity
      BY <3>1, MpscNumbers DEF Laps, Busy
    <3> QED BY <1>1, <3>1, <3>2, MpscNumbers
  <2> QED BY <2>1, <2>2
<1> QED BY <1>4, <1>5, <1>6 DEF RoundInv

LEMMA ClaimStep ==
  ASSUME MpscInv, NEW p \in Producers, NEW v \in Values, PushClaim(p, v), UNCHANGED drain,
         ~lapped'
  PROVE  MpscInv'
<1>n. TypeOK /\ ClaimInv /\ RoundInv /\ FlagInv
  BY DEF MpscInv
<1>1. /\ producer[p].at = "idle" /\ claim_index < MaxClaims
      /\ claim_index' = claim_index + 1 /\ claimed' = Append(claimed, v)
      /\ UNCHANGED <<buffer, ready_flags, read_index, consumer, refused, delivered>>
      /\ producer' = [producer EXCEPT ![p] = [at |-> "test", claim |-> claim_index]]
  BY DEF PushClaim
<1>2. /\ producer'[p].at = "test" /\ producer'[p].claim = claim_index
      /\ \A q \in Producers : q # p => producer'[q] = producer[q]
      /\ producer' \in [Producers -> [at : {"idle", "test", "store", "ready"}, claim : Nat]]
  BY <1>1, <1>n, MpscNumbers DEF TypeOK
<1>3. /\ claim_index' \in 0 .. MaxClaims /\ claimed' \in Seq(Values)
      /\ Len(claimed') = claim_index'
      /\ \A k \in Nat : k < claim_index => claimed'[k + 1] = claimed[k + 1]
  <2>1. claim_index \in 0 .. MaxClaims /\ claimed \in Seq(Values) /\ Len(claimed) = claim_index
    BY <1>n DEF TypeOK, ClaimInv
  <2> QED BY <1>1, <2>1, MPSCAssumption
<1>4. TypeOK' /\ ClaimInv' /\ RoundInv'
  BY <1>n, ClaimMade
<1>6. FlagInv'
  BY <1>1, <1>2, <1>n DEF FlagInv, Writing
<1>7. ASSUME refused' = {} PROVE OrderInv'
  <2>1. OrderInv /\ Taken' = Taken /\ Taken <= claim_index
    BY <1>1, <1>7 DEF MpscInv, Taken, OrderInv
  <2>2. \A k \in Nat : Returned(k)' <=> Returned(k)
    BY <1>1, <1>2, <1>n, MpscNumbers DEF Returned, Busy, ClaimInv
  <2>3. \A k \in Nat : Returned(k) => claimed'[k + 1] = claimed[k + 1]
    BY <1>3 DEF Returned
  <2>4. ASSUME NEW q \in Producers
        PROVE  /\ Busy(q)' => Taken' <= producer'[q].claim
               /\ Writing(q)' => producer'[q].claim < Taken' + Capacity
               /\ producer'[q].at = "ready" =>
                    buffer'[slot(producer'[q].claim)] = claimed'[producer'[q].claim + 1]
    <3>1. CASE q = p
      BY <1>2, <2>1, <3>1 DEF Busy, Writing
    <3>2. CASE q # p
      <4>1. producer[q].at = "ready" => producer[q].claim < claim_index
        BY <1>n DEF ClaimInv, Busy
      <4>2. producer'[q] = producer[q] /\ producer[q].claim \in Nat
        BY <1>2, <1>n, <3>2, MpscNumbers
      <4>3. /\ Busy(q) => Taken <= producer[q].claim
            /\ Writing(q) => producer[q].claim < Taken + Capacity
            /\ producer[q].at = "ready" =>
                 buffer[slot(producer[q].claim)] = claimed[producer[q].claim + 1]
        BY <2>1 DEF OrderInv
      <4>4. producer[q].at = "ready" =>
              claimed'[producer[q].claim + 1] = claimed[producer[q].claim + 1]
        BY <1>3, <4>1, <4>2
      <4> QED BY <1>1, <2>1, <4>2, <4>3, <4>4 DEF Busy, Writing
    <3> QED BY <3>1, <3>2
  <2>5. \A c \in Consumers : consumer[c].at # "idle" =>
          /\ Len(delivered) < claim_index'
          /\ consumer[c].value = claimed'[Len(delivered) + 1]
    BY <1>1, <1>3, <1>n, <2>1, MpscNumbers DEF OrderInv
  <2>6. \A k \in 1 .. Len(delivered) : delivered[k] = claimed'[k]
    <3>1. Len(delivered) <= claim_index
      BY <1>n, <2>1, MpscNumbers DEF Taken
    <3> SUFFICES ASSUME NEW k \in 1 .. Len(delivered) PROVE delivered[k] = claimed'[k]
      OBVIOUS
    <3>2. k - 1 \in Nat /\ k - 1 < claim_index /\ (k - 1) + 1 = k
      BY <1>n, <3>1, MpscNumbers
    <3> QED BY <1>3, <2>1, <3>2 DEF OrderInv
  <2>7. \A k \in Nat : Taken' <= k /\ Returned(k)' =>
          /\ k < Taken' + Capacity
          /\ ready_flags'[slot(k)] /\ buffer'[slot(k)] = claimed'[k + 1]
    BY <1>1, <2>1, <2>2, <2>3 DEF OrderInv
  <2>8. \A s \in Slots : ready_flags'[s] =>
          \E k \in Nat : Taken' <= k /\ Returned(k)' /\ slot(k) = s
    BY <1>1, <2>1, <2>2 DEF OrderInv
  <2>9. Taken' <= claim_index' /\ read_index' = slot(Len(delivered'))
    BY <1>1, <1>n, <2>1, MpscNumbers DEF OrderInv
  <2> QED BY <1>1, <2>4, <2>5, <2>6, <2>7, <2>8, <2>9 DEF OrderInv
<1> QED BY <1>4, <1>6, <1>7 DEF MpscInv

\* A push that moves on or returns keeps the claims apart.
LEMMA ClaimsKept ==
  ASSUME TypeOK, ClaimInv, NEW p \in Producers, NEW a \in {"idle", "store", "ready"},
         Busy(p), producer' = [producer EXCEPT ![p].at = a], UNCHANGED <<claim_index, claimed>>
  PROVE  ClaimInv' /\ (RoundInv => RoundInv')
<1>1. /\ producer'[p].claim = producer[p].claim
      /\ \A q \in Producers : q # p => producer'[q] = producer[q]
  BY PushMoves
<1>2. \A q \in Producers : /\ producer'[q].claim = producer[q].claim
                           /\ Busy(q)' => Busy(q)
  BY <1>1 DEF Busy
<1> QED BY <1>2 DEF ClaimInv, RoundInv

LEMMA RefuseStep ==
  ASSUME MpscInv, NEW p \in Producers, PushRefused(p), UNCHANGED drain
  PROVE  MpscInv'
<1>n. TypeOK /\ ClaimInv /\ RoundInv /\ FlagInv /\ Busy(p)
  BY DEF MpscInv, PushRefused, Busy
<1>1. /\ producer' \in [Producers -> [at : {"idle", "test", "store", "ready"}, claim : Nat]]
      /\ producer'[p].at = "idle"
      /\ \A q \in Producers : q # p => producer'[q] = producer[q]
  BY <1>n, PushMoves DEF PushRefused
<1>2. producer[p].claim \in Nat
  BY <1>n DEF TypeOK
<1>3. TypeOK'
  BY <1>n, <1>1, <1>2 DEF PushRefused, TypeOK
<1>4. ClaimInv' /\ RoundInv'
  BY <1>n, ClaimsKept DEF PushRefused
<1>5. FlagInv'
  BY <1>n, <1>1 DEF PushRefused, FlagInv, Writing
<1>6. refused' # {}
  BY DEF PushRefused
<1> QED BY <1>3, <1>4, <1>5, <1>6 DEF MpscInv

LEMMA FreeStep ==
  ASSUME MpscInv, NEW p \in Producers, PushFree(p), UNCHANGED drain
  PROVE  MpscInv'
<1>n. TypeOK /\ ClaimInv /\ RoundInv /\ FlagInv /\ Busy(p)
  BY DEF MpscInv, PushFree, Busy
<1>1. /\ producer' \in [Producers -> [at : {"idle", "test", "store", "ready"}, claim : Nat]]
      /\ producer'[p].at = "store" /\ producer'[p].claim = producer[p].claim
      /\ \A q \in Producers : q # p => producer'[q] = producer[q]
  BY <1>n, PushMoves DEF PushFree
<1>2. /\ ~ready_flags[slot(producer[p].claim)]
      /\ UNCHANGED <<buffer, ready_flags, claim_index, read_index, consumer, claimed,
                     refused, delivered, lapped>>
  BY DEF PushFree
<1>3. TypeOK'
  BY <1>n, <1>1, <1>2 DEF TypeOK
<1>4. ClaimInv' /\ RoundInv'
  BY <1>n, ClaimsKept DEF PushFree
<1>5. FlagInv'
  BY <1>n, <1>1, <1>2 DEF FlagInv, Writing
<1>6. ASSUME refused' = {} PROVE OrderInv'
  <2>1. OrderInv /\ Taken' = Taken
    BY <1>2, <1>6 DEF MpscInv, Taken
  <2>2. \A k \in Nat : Returned(k)' <=> Returned(k)
    BY <1>1, <1>2, <1>n DEF Returned, Busy
  <2>3. producer[p].claim < Taken + Capacity
    <3> SUFFICES ASSUME producer[p].claim >= Taken + Capacity PROVE FALSE
      BY <1>n, MpscNumbers
    <3> DEFINE j == producer[p].claim - Capacity
    <3>1. j \in Nat /\ Taken <= j /\ j + Capacity = producer[p].claim /\ j < claim_index
      BY <1>n, MpscNumbers DEF ClaimInv
    <3>2. Returned(j)
      <4>1. ASSUME NEW q \in Producers, Busy(q) PROVE producer[q].claim # j
        <5>1. /\ claim_index <= producer[q].claim + Capacity
              /\ producer[p].claim < claim_index
          BY <1>n, <4>1 DEF ClaimInv, RoundInv
        <5> QED BY <1>n, <3>1, <5>1, MpscNumbers
      <4> HIDE DEF j
      <4> QED BY <3>1, <4>1 DEF Returned
    <3> HIDE DEF j
    <3>3. ready_flags[slot(j)]
      BY <2>1, <3>1, <3>2 DEF OrderInv
    <3>4. slot(j) = slot(producer[p].claim)
      BY <3>1, CapacityFacts
    <3> QED BY <1>2, <3>3, <3>4
  <2>4. ASSUME NEW q \in Producers
        PROVE  /\ Busy(q)' => Taken' <= producer'[q].claim
               /\ Writing(q)' => producer'[q].claim < Taken' + Capacity
               /\ producer'[q].at = "ready" =>
                    buffer'[slot(producer'[q].claim)] = claimed'[producer'[q].claim + 1]
    <3>1. CASE q = p
      BY <1>1, <1>n, <2>1, <2>3, <3>1 DEF OrderInv, Writing
    <3>2. CASE q # p
      BY <1>1, <1>2, <2>1, <3>2 DEF OrderInv, Busy, Writing
    <3> QED BY <3>1, <3>2
  <2>5. \A k \in Nat : Taken' <= k /\ Returned(k)' =>
          /\ k < Taken' + Capacity
          /\ ready_flags'[slot(k)] /\ buffer'[slot(k)] = claimed'[k + 1]
    BY <1>2, <2>1, <2>2 DEF OrderInv
  <2>6. \A s \in Slots : ready_flags'[s] =>
          \E k \in Nat : Taken' <= k /\ Returned(k)' /\ slot(k) = s
    BY <1>2, <2>1, <2>2 DEF OrderInv
  <2> QED BY <1>2, <2>1, <2>4, <2>5, <2>6 DEF OrderInv
<1> QED BY <1>3, <1>4, <1>5, <1>6 DEF MpscInv

LEMMA StoreStep ==
  ASSUME MpscInv, NEW p \in Producers, PushStore(p), UNCHANGED drain
  PROVE  MpscInv'
<1>n. TypeOK /\ ClaimInv /\ RoundInv /\ FlagInv /\ Busy(p) /\ Writing(p)
  BY DEF MpscInv, PushStore, Busy, Writing
<1> DEFINE m == producer[p].claim
<1>1. /\ producer' \in [Producers -> [at : {"idle", "test", "store", "ready"}, claim : Nat]]
      /\ producer'[p].at = "ready" /\ producer'[p].claim = m
      /\ \A q \in Producers : q # p => producer'[q] = producer[q]
  BY <1>n, PushMoves DEF PushStore
<1>2. /\ buffer' = [buffer EXCEPT ![slot(m)] = claimed[m + 1]]
      /\ UNCHANGED <<ready_flags, claim_index, read_index, consumer, claimed, refused,
                     delivered, lapped>>
  BY DEF PushStore
<1>3. m \in Nat /\ slot(m) \in Slots /\ m < claim_index /\ Len(claimed) = claim_index
  BY <1>n, MpscNumbers DEF ClaimInv
<1>4. claimed[m + 1] \in Cells
  BY <1>n, <1>3, MpscNumbers DEF TypeOK, Cells
<1>5. /\ buffer' \in [Slots -> Cells] /\ buffer'[slot(m)] = claimed[m + 1]
      /\ \A s \in Slots : s # slot(m) => buffer'[s] = buffer[s]
  BY <1>n, <1>2, <1>3, <1>4 DEF TypeOK
<1>6. TypeOK'
  BY <1>n, <1>1, <1>2, <1>5 DEF TypeOK
<1>7. ClaimInv' /\ RoundInv'
  BY <1>n, ClaimsKept DEF PushStore
<1>8. FlagInv'
  BY <1>n, <1>1, <1>2 DEF FlagInv, Writing
<1> HIDE DEF m
<1>9. ASSUME refused' = {} PROVE OrderInv'
  <2>1. OrderInv /\ Taken' = Taken
    BY <1>2, <1>9 DEF MpscInv, Taken
  <2>2. \A k \in Nat : Returned(k)' <=> Returned(k)
    BY <1>1, <1>2, <1>n DEF Returned, Busy, m
  <2>3. Taken <= m /\ m < Taken + Capacity
    BY <1>n, <2>1 DEF OrderInv, m
  <2>4. ASSUME NEW k \in Nat, Taken <= k, Returned(k)
        PROVE  /\ k < Taken + Capacity
               /\ ready_flags[slot(k)] /\ buffer'[slot(k)] = claimed[k + 1]
    <3>1. /\ k < Taken + Capacity
          /\ ready_flags[slot(k)] /\ buffer[slot(k)] = claimed[k + 1]
      BY <2>1, <2>4 DEF OrderInv
    <3>2. ~ready_flags[slot(m)]
      BY <1>n DEF FlagInv, m
    <3> QED BY <1>5, <3>1, <3>2, CapacityFacts
  <2>5. ASSUME NEW q \in Producers
        PROVE  /\ Busy(q)' => Taken' <= producer'[q].claim
               /\ Writing(q)' => producer'[q].claim < Taken' + Capacity
               /\ producer'[q].at = "ready" =>
                    buffer'[slot(producer'[q].claim)] = claimed'[producer'[q].claim + 1]
    <3>1. CASE q = p
      BY <1>1, <1>2, <1>5, <2>1, <2>3, <3>1
    <3>2. CASE q # p
      <4>1. producer'[q] = producer[q] /\ slot(producer[q].claim) \in Slots
        BY <1>1, <1>n, <3>2, MpscNumbers
      <4>2. producer[q].at = "ready" => slot(producer[q].claim) # slot(m)
        BY <1>n, <3>2, BusySlots DEF Busy, m
      <4>3. /\ Busy(q) => Taken <= producer[q].claim
            /\ Writing(q) => producer[q].claim < Taken + Capacity
            /\ producer[q].at = "ready" =>
                 buffer[slot(producer[q].claim)] = claimed[producer[q].claim + 1]
        BY <2>1 DEF OrderInv
      <4> QED BY <1>2, <1>5, <2>1, <4>1, <4>2, <4>3 DEF Busy, Writing
    <3> QED BY <3>1, <3>2
  <2>6. \A s \in Slots : ready_flags'[s] =>
          \E k \in Nat : Taken' <= k /\ Returned(k)' /\ slot(k) = s
    BY <1>2, <2>1, <2>2 DEF OrderInv
  <2>7. \A k \in Nat : Taken' <= k /\ Returned(k)' =>
          /\ k < Taken' + Capacity
          /\ ready_flags'[slot(k)] /\ buffer'[slot(k)] = claimed'[k + 1]
    BY <1>2, <2>1, <2>2, <2>4
  <2> QED BY <1>2, <2>1, <2>5, <2>6, <2>7 DEF OrderInv
<1> QED BY <1>6, <1>7, <1>8, <1>9 DEF MpscInv

LEMMA ReadyStep ==
  ASSUME MpscInv, NEW p \in Producers, PushReady(p), UNCHANGED drain
  PROVE  MpscInv'
<1>n. TypeOK /\ ClaimInv /\ RoundInv /\ FlagInv /\ Busy(p) /\ Writing(p) /\ producer[p].at = "ready"
  BY DEF MpscInv, PushReady, Busy, Writing
<1> DEFINE m == producer[p].claim
<1>1. /\ producer' \in [Producers -> [at : {"idle", "test", "store", "ready"}, claim : Nat]]
      /\ producer'[p].at = "idle" /\ producer'[p].claim = m
      /\ \A q \in Producers : q # p => producer'[q] = producer[q]
  BY <1>n, PushMoves DEF PushReady
<1>2. /\ ready_flags' = [ready_flags EXCEPT ![slot(m)] = TRUE]
      /\ UNCHANGED <<buffer, claim_index, read_index, consumer, claimed, refused, delivered, lapped>>
  BY DEF PushReady
<1>3. m \in Nat /\ slot(m) \in Slots /\ m < claim_index
  BY <1>n, MpscNumbers DEF ClaimInv
<1>4. /\ ready_flags' \in [Slots -> BOOLEAN] /\ ready_flags'[slot(m)]
      /\ \A s \in Slots : s # slot(m) => ready_flags'[s] = ready_flags[s]
  BY <1>n, <1>2, <1>3 DEF TypeOK
<1>5. TypeOK'
  BY <1>n, <1>1, <1>2, <1>4 DEF TypeOK
<1>6. ClaimInv' /\ RoundInv'
  BY <1>n, ClaimsKept DEF PushReady
<1>7. FlagInv'
  <2>1. ASSUME NEW q \in Producers, Writing(q)'
        PROVE  ~ready_flags'[slot(producer'[q].claim)]
    <3>1. q # p /\ producer'[q] = producer[q] /\ Writing(q)
      BY <1>1, <2>1 DEF Writing
    <3>2. slot(producer[q].claim) # slot(m) /\ slot(producer[q].claim) \in Slots
      BY <1>n, <3>1, BusySlots, MpscNumbers DEF Busy, Writing
    <3> QED BY <1>n, <1>4, <3>1, <3>2 DEF FlagInv
  <2>2. \A s \in Slots : ready_flags[s] => ready_flags'[s]
    BY <1>4
  <2>3. read_index \in Slots
    BY <1>n DEF TypeOK
  <2> QED BY <1>n, <1>2, <2>1, <2>2, <2>3 DEF FlagInv
<1> HIDE DEF m
<1>8. ASSUME refused' = {} PROVE OrderInv'
  <2>1. OrderInv /\ Taken' = Taken
    BY <1>2, <1>8 DEF MpscInv, Taken
  <2>2. \A k \in Nat : Returned(k)' <=> Returned(k) \/ k = m
    <3>1. \A q \in Producers : Busy(q)' <=> Busy(q) /\ q # p
      BY <1>1 DEF Busy
    <3>2. \A q \in Producers : Busy(q) /\ producer[q].claim = m => q = p
      BY <1>n DEF ClaimInv, m
    <3> QED BY <1>1, <1>2, <1>3, <1>n, <3>1, <3>2 DEF Returned, m
  <2>3. /\ Taken <= m /\ m < Taken + Capacity
        /\ buffer[slot(m)] = claimed[m + 1]
    BY <1>n, <2>1 DEF OrderInv, m
  <2>4. ASSUME NEW q \in Producers
        PROVE  /\ Busy(q)' => Taken' <= producer'[q].claim
               /\ Writing(q)' => producer'[q].claim < Taken' + Capacity
               /\ producer'[q].at = "ready" =>
                    buffer'[slot(producer'[q].claim)] = claimed'[producer'[q].claim + 1]
    <3>1. CASE q = p
      BY <1>1, <3>1 DEF Busy, Writing
    <3>2. CASE q # p
      BY <1>1, <1>2, <2>1, <3>2 DEF OrderInv, Busy, Writing
    <3> QED BY <3>1, <3>2
  <2>5. ASSUME NEW k \in Nat, Taken' <= k, Returned(k)'
        PROVE  /\ k < Taken' + Capacity
               /\ ready_flags'[slot(k)] /\ buffer'[slot(k)] = claimed'[k + 1]
    <3>1. CASE k = m
      BY <1>2, <1>4, <2>1, <2>3, <3>1
    <3>2. CASE k # m
      <4>1. /\ k < Taken + Capacity
            /\ ready_flags[slot(k)] /\ buffer[slot(k)] = claimed[k + 1]
        BY <2>1, <2>2, <2>5, <3>2 DEF OrderInv
      <4> QED BY <1>2, <1>4, <2>1, <4>1, CapacityFacts
    <3> QED BY <3>1, <3>2
  <2>6. ASSUME NEW s \in Slots, ready_flags'[s]
        PROVE  \E k \in Nat : Taken' <= k /\ Returned(k)' /\ slot(k) = s
    <3>1. CASE s = slot(m)
      BY <1>3, <2>1, <2>2, <2>3, <3>1
    <3>2. CASE s # slot(m)
      BY <1>4, <2>1, <2>2, <2>6, <3>2 DEF OrderInv
    <3> QED BY <3>1, <3>2
  <2> QED BY <1>2, <2>1, <2>4, <2>5, <2>6 DEF OrderInv
<1> QED BY <1>5, <1>6, <1>7, <1>8 DEF MpscInv

\* The thread that drains is the only one in a pop.
LEMMA OnePopper ==
  ASSUME FlagInv, OneDrainer, NEW c \in Consumers, drain[c] = "rt"
  PROVE  \A d \in Consumers : d # c => consumer[d].at = "idle"
BY DEF FlagInv, OneDrainer

\* A ready slot at read_index holds the oldest claim that is not taken.
LEMMA OldestReady ==
  ASSUME TypeOK, OrderInv, ready_flags[read_index], Taken = Len(delivered)
  PROVE  /\ Returned(Len(delivered))
         /\ buffer[read_index] = claimed[Len(delivered) + 1]
<1> DEFINE d == Len(delivered)
<1>1. d \in Nat /\ Capacity \in Nat /\ read_index \in Slots /\ read_index = slot(d)
  BY MpscNumbers DEF TypeOK, OrderInv
<1>2. PICK k \in Nat : d <= k /\ Returned(k) /\ slot(k) = slot(d)
  BY <1>1 DEF OrderInv
<1>3. k < d + Capacity /\ buffer[slot(k)] = claimed[k + 1]
  BY <1>2 DEF OrderInv
<1> HIDE DEF d
<1>4. k = d
  <2>1. ~(d < k /\ k < d + Capacity)
    BY <1>1, <1>2, CapacityFacts
  <2> QED BY <1>1, <1>2, <1>3, <2>1
<1> QED BY <1>1, <1>2, <1>3, <1>4 DEF d

LEMMA CopyStep ==
  ASSUME MpscInv, OneDrainer, NEW c \in Consumers, drain[c] = "rt", PopCopy(c), UNCHANGED drain
  PROVE  MpscInv'
<1>n. TypeOK /\ ClaimInv /\ RoundInv /\ FlagInv
  BY DEF MpscInv
<1>1. /\ consumer[c].at = "idle" /\ ready_flags[read_index]
      /\ UNCHANGED <<buffer, ready_flags, claim_index, read_index, producer, claimed,
                     refused, delivered, lapped>>
      /\ consumer' = [consumer EXCEPT ![c] =
                        [at |-> "clear", slot |-> read_index, value |-> buffer[read_index]]]
  BY DEF PopCopy
<1>2. read_index \in Slots /\ buffer[read_index] \in Cells
  BY <1>n DEF TypeOK
<1>3. /\ consumer' \in [Consumers -> [at : {"idle", "clear", "advance"}, slot : Slots, value : Cells]]
      /\ consumer'[c].at = "clear" /\ consumer'[c].slot = read_index
      /\ consumer'[c].value = buffer[read_index]
      /\ \A d \in Consumers : d # c => consumer'[d] = consumer[d]
  BY <1>n, <1>1, <1>2 DEF TypeOK
<1>4. \A d \in Consumers : consumer[d].at = "idle" /\ (d # c => consumer'[d].at = "idle")
  BY <1>n, <1>1, <1>3, OnePopper
<1>5. Taken = Len(delivered) /\ Taken' = Len(delivered)
  BY <1>1, <1>3, <1>4 DEF Taken
<1>6. TypeOK'
  BY <1>n, <1>1, <1>3 DEF TypeOK
<1>7. ClaimInv' /\ RoundInv'
  BY <1>n, <1>1 DEF ClaimInv, RoundInv, Busy
<1>8. FlagInv'
  BY <1>n, <1>1, <1>3, <1>4 DEF FlagInv, Writing
<1>9. ASSUME refused' = {} PROVE OrderInv'
  <2>1. OrderInv
    BY <1>1, <1>9 DEF MpscInv
  <2>2. /\ Len(delivered) < claim_index
        /\ buffer[read_index] = claimed[Len(delivered) + 1]
    BY <1>n, <1>1, <1>5, <2>1, OldestReady DEF Returned
  <2>3. \A k \in Nat : Returned(k)' <=> Returned(k)
    BY <1>1 DEF Returned, Busy
  <2>4. \A d \in Consumers : consumer'[d].at # "idle" =>
          Len(delivered) < claim_index /\ consumer'[d].value = claimed[Len(delivered) + 1]
    BY <1>3, <1>4, <2>2
  <2> QED BY <1>1, <1>5, <2>1, <2>3, <2>4 DEF OrderInv, Busy, Writing
<1> QED BY <1>6, <1>7, <1>8, <1>9 DEF MpscInv

\* A pop that moves on inside its call keeps its slot and its value.
LEMMA PopMoves ==
  ASSUME TypeOK, NEW c \in Consumers, NEW a \in {"idle", "advance"},
         consumer' = [consumer EXCEPT ![c].at = a]
  PROVE  /\ consumer' \in [Consumers -> [at : {"idle", "clear", "advance"}, slot : Slots, value : Cells]]
         /\ consumer'[c].at = a /\ consumer'[c].slot = consumer[c].slot
         /\ consumer'[c].value = consumer[c].value
         /\ \A d \in Consumers : d # c => consumer'[d] = consumer[d]
BY DEF TypeOK

LEMMA ClearStep ==
  ASSUME MpscInv, OneDrainer, NEW c \in Consumers, drain[c] = "rt", PopClear(c), UNCHANGED drain
  PROVE  MpscInv'
<1>n. TypeOK /\ ClaimInv /\ RoundInv /\ FlagInv
  BY DEF MpscInv
<1>1. /\ consumer[c].at = "clear" /\ consumer[c].slot = read_index /\ ready_flags[read_index]
      /\ UNCHANGED <<buffer, claim_index, read_index, producer, claimed, refused, delivered, lapped>>
      /\ ready_flags' = [ready_flags EXCEPT ![read_index] = FALSE]
  BY <1>n DEF PopClear, FlagInv
<1>2. /\ consumer' \in [Consumers -> [at : {"idle", "clear", "advance"}, slot : Slots, value : Cells]]
      /\ consumer'[c].at = "advance" /\ consumer'[c].slot = read_index
      /\ consumer'[c].value = consumer[c].value
      /\ \A d \in Consumers : d # c => consumer'[d] = consumer[d]
  BY <1>n, <1>1, PopMoves DEF PopClear
<1>3. \A d \in Consumers : d # c => consumer[d].at = "idle" /\ consumer'[d].at = "idle"
  BY <1>n, <1>2, OnePopper
<1>4. Taken = Len(delivered) /\ Taken' = Len(delivered) + 1
  BY <1>1, <1>2, <1>3 DEF Taken
<1>5. /\ ready_flags' \in [Slots -> BOOLEAN] /\ ~ready_flags'[read_index]
      /\ \A s \in Slots : s # read_index => ready_flags'[s] = ready_flags[s]
  BY <1>n, <1>1 DEF TypeOK
<1>6. TypeOK'
  BY <1>n, <1>1, <1>2, <1>5 DEF TypeOK
<1>7. ClaimInv' /\ RoundInv'
  BY <1>n, <1>1 DEF ClaimInv, RoundInv, Busy
<1>8. FlagInv'
  <2>1. ASSUME NEW p \in Producers, Writing(p)' PROVE ~ready_flags'[slot(producer'[p].claim)]
    <3>1. ~ready_flags[slot(producer[p].claim)] /\ slot(producer[p].claim) \in Slots
      BY <1>n, <1>1, <2>1, MpscNumbers DEF FlagInv, Writing
    <3> QED BY <1>1, <1>5, <3>1
  <2> QED BY <1>n, <1>1, <1>2, <1>3, <2>1 DEF FlagInv
<1>9. ASSUME refused' = {} PROVE OrderInv'
  <2> DEFINE d == Len(delivered)
  <2>1. OrderInv /\ d \in Nat /\ claim_index \in Nat /\ Capacity \in Nat
    BY <1>n, <1>1, <1>9, MpscNumbers DEF MpscInv
  <2>2. Returned(d) /\ read_index = slot(d)
    BY <1>n, <1>1, <1>4, <2>1, OldestReady DEF OrderInv
  <2>3. \A k \in Nat : Returned(k)' <=> Returned(k)
    BY <1>1 DEF Returned, Busy
  <2>t. Taken = d /\ Taken' = d + 1
    BY <1>4
  <2>v. /\ d < claim_index /\ consumer[c].value = claimed[d + 1]
        /\ \A k \in 1 .. d : delivered[k] = claimed[k]
    BY <1>1, <2>1 DEF OrderInv
  <2> HIDE DEF d
  <2>4. ASSUME NEW k \in Nat, Taken' <= k, Returned(k)'
        PROVE  /\ k < Taken' + Capacity
               /\ ready_flags'[slot(k)] /\ buffer'[slot(k)] = claimed'[k + 1]
    <3>1. /\ k < d + Capacity
          /\ ready_flags[slot(k)] /\ buffer[slot(k)] = claimed[k + 1]
      <4>1. Taken <= k /\ Returned(k)
        BY <2>1, <2>3, <2>4, <2>t
      <4> QED BY <2>1, <2>t, <4>1 DEF OrderInv
    <3>2. slot(k) # slot(d) /\ slot(k) \in Slots
      <4>1. d < k
        BY <2>1, <2>4, <2>t
      <4> QED BY <2>1, <3>1, <4>1, CapacityFacts
    <3>3. k < Taken' + Capacity
      BY <2>1, <2>t, <3>1
    <3> QED BY <1>1, <1>5, <2>2, <3>1, <3>2, <3>3
  <2>5. ASSUME NEW s \in Slots, ready_flags'[s]
        PROVE  \E k \in Nat : Taken' <= k /\ Returned(k)' /\ slot(k) = s
    <3>1. s # slot(d) /\ ready_flags[s]
      BY <1>5, <2>2, <2>5
    <3>2. PICK k \in Nat : Taken <= k /\ Returned(k) /\ slot(k) = s
      BY <2>1, <3>1 DEF OrderInv
    <3>3. k # d
      BY <3>1, <3>2
    <3>4. Taken' <= k
      BY <2>1, <2>t, <3>2, <3>3
    <3> QED BY <2>3, <3>2, <3>4
  <2>6. ASSUME NEW p \in Producers
        PROVE  /\ Busy(p)' => Taken' <= producer'[p].claim
               /\ Writing(p)' => producer'[p].claim < Taken' + Capacity
               /\ producer'[p].at = "ready" =>
                    buffer'[slot(producer'[p].claim)] = claimed'[producer'[p].claim + 1]
    <3>1. /\ Busy(p) => Taken <= producer[p].claim
          /\ Writing(p) => producer[p].claim < Taken + Capacity
          /\ producer[p].at = "ready" =>
               buffer[slot(producer[p].claim)] = claimed[producer[p].claim + 1]
      BY <2>1 DEF OrderInv
    <3>2. producer[p].claim \in Nat /\ (Busy(p) => producer[p].claim # d)
      BY <1>n, <2>2, MpscNumbers DEF Returned
    <3>3. Busy(p) => Taken' <= producer[p].claim
      BY <2>1, <2>t, <3>1, <3>2
    <3>4. Writing(p) => producer[p].claim < Taken' + Capacity
      BY <2>1, <2>t, <3>1, <3>2
    <3> QED BY <1>1, <3>1, <3>3, <3>4 DEF Busy, Writing
  <2>7. Taken' <= claim_index'
    BY <1>1, <2>1, <2>t, <2>v
  <2>8. \A e \in Consumers : consumer'[e].at # "idle" =>
          Len(delivered) < claim_index /\ consumer'[e].value = claimed[Len(delivered) + 1]
    BY <1>2, <1>3, <2>v DEF d
  <2>9. read_index' = slot(Len(delivered')) /\ \A k \in 1 .. Len(delivered') : delivered'[k] = claimed'[k]
    BY <1>1, <2>2, <2>v DEF d
  <2> QED BY <1>1, <2>4, <2>5, <2>6, <2>7, <2>8, <2>9 DEF OrderInv
<1> QED BY <1>6, <1>7, <1>8, <1>9 DEF MpscInv

LEMMA AdvanceStep ==
  ASSUME MpscInv, OneDrainer, NEW c \in Consumers, drain[c] = "rt", PopAdvance(c), UNCHANGED drain
  PROVE  MpscInv'
<1>n. TypeOK /\ ClaimInv /\ RoundInv /\ FlagInv
  BY DEF MpscInv
<1>1. /\ consumer[c].at = "advance" /\ consumer[c].slot = read_index
      /\ read_index' = increment(read_index)
      /\ delivered' = Append(delivered, consumer[c].value)
      /\ UNCHANGED <<buffer, ready_flags, claim_index, producer, claimed, refused, lapped>>
  BY <1>n DEF PopAdvance, FlagInv
<1>2. /\ consumer' \in [Consumers -> [at : {"idle", "clear", "advance"}, slot : Slots, value : Cells]]
      /\ consumer'[c].at = "idle"
      /\ \A d \in Consumers : d # c => consumer'[d] = consumer[d]
  BY <1>n, <1>1, PopMoves DEF PopAdvance
<1>3. \A d \in Consumers : consumer'[d].at = "idle"
  BY <1>n, <1>2, OnePopper
<1>4. /\ consumer[c].value \in Cells /\ delivered' \in Seq(Cells)
      /\ Len(delivered') = Len(delivered) + 1
      /\ delivered'[Len(delivered) + 1] = consumer[c].value
      /\ \A k \in 1 .. Len(delivered) : delivered'[k] = delivered[k]
  BY <1>n, <1>1 DEF TypeOK
<1>5. Taken = Len(delivered) + 1 /\ Taken' = Taken
  BY <1>1, <1>3, <1>4 DEF Taken
<1>6. read_index' \in Slots
  BY <1>n, <1>1, MPSCAssumption DEF TypeOK, Slots, increment
<1>7. TypeOK'
  BY <1>n, <1>1, <1>2, <1>4, <1>6 DEF TypeOK
<1>8. ClaimInv' /\ RoundInv'
  BY <1>n, <1>1 DEF ClaimInv, RoundInv, Busy
<1>9. FlagInv'
  BY <1>n, <1>1, <1>3 DEF FlagInv, Writing
<1>10. ASSUME refused' = {} PROVE OrderInv'
  <2>1. OrderInv /\ Len(delivered) \in Nat
    BY <1>n, <1>1, <1>10, MpscNumbers DEF MpscInv
  <2>2. \A k \in Nat : Returned(k)' <=> Returned(k)
    BY <1>1 DEF Returned, Busy
  <2>3. read_index' = slot(Len(delivered'))
    BY <1>1, <1>4, <2>1, CapacityFacts DEF OrderInv
  <2>4. consumer[c].value = claimed[Len(delivered) + 1]
    BY <1>1, <2>1 DEF OrderInv
  <2>5. \A k \in 1 .. Len(delivered) : delivered[k] = claimed[k]
    BY <2>1 DEF OrderInv
  <2>6. \A k \in 1 .. Len(delivered') : delivered'[k] = claimed'[k]
    <3> SUFFICES ASSUME NEW k \in 1 .. Len(delivered') PROVE delivered'[k] = claimed'[k]
      OBVIOUS
    <3>1. k \in 1 .. Len(delivered) \/ k = Len(delivered) + 1
      BY <1>4, <2>1
    <3> QED BY <1>1, <1>4, <2>4, <2>5, <3>1
  <2> QED BY <1>1, <1>3, <1>5, <2>1, <2>2, <2>3, <2>6 DEF OrderInv, Busy, Writing
<1> QED BY <1>7, <1>8, <1>9, <1>10 DEF MpscInv

\* Only DrainRt moves a pop, and a thread leaves the loop of drain_ring_buffer
\* only where pop found nothing.
LEMMA NextMpsc ==
  ASSUME DrainInv, MpscInv, OneDrainer, ~lapped', [ANext]_avars PROVE MpscInv'
<1>1. OneDrainer /\ FlagInv
  BY DEF MpscInv
<1>2. ASSUME NEW p \in Producers, ScribeRt(p) PROVE MpscInv'
  <2>1. PushClaim(p, p) /\ p \in Values /\ UNCHANGED drain
    BY <1>2, ArchivistAssumption DEF ScribeRt, threads
  <2> QED BY <2>1, ClaimStep
<1>3. ASSUME NEW p \in Producers, RtPush(p) PROVE MpscInv'
  <2>1. Push(p) /\ UNCHANGED drain
    BY <1>3 DEF RtPush, threads
  <2> QED BY <2>1, RefuseStep, FreeStep, StoreStep, ReadyStep DEF Push
<1>4. ASSUME NEW c \in Consumers, DrainRt(c) PROVE MpscInv'
  <2>1. PopFound(c) /\ drain[c] = "rt" /\ UNCHANGED drain
    BY <1>4 DEF DrainRt, threads
  <2> QED BY <1>1, <2>1, CopyStep, ClearStep, AdvanceStep DEF PopFound
<1>5. ASSUME UNCHANGED vars, NEW c \in Consumers, NEW there \in {"out", "rt", "ring", "report"},
             drain' = [drain EXCEPT ![c] = there], consumer[c].at = "idle"
      PROVE  MpscInv'
  <2>1. \A d \in Consumers : consumer[d].at # "idle" => drain'[d] = "rt"
    BY <1>1, <1>5 DEF DrainInv, Places, FlagInv
  <2> QED BY <1>5, <2>1, MpscStill
<1>6. ASSUME UNCHANGED <<vars, drain>> PROVE MpscInv'
  <2>1. \A d \in Consumers : consumer[d].at # "idle" => drain'[d] = "rt"
    BY <1>1, <1>6 DEF FlagInv
  <2> QED BY <1>6, <2>1, MpscStill
<1>7. \A c \in Consumers : drain[c] # "rt" => consumer[c].at = "idle"
  BY <1>1 DEF FlagInv
<1>8. ASSUME NEW c \in Consumers, DrainRtEnd(c) PROVE MpscInv'
  <2>1. UNCHANGED vars /\ consumer[c].at = "idle" /\ drain' = [drain EXCEPT ![c] = "ring"]
    BY <1>8 DEF DrainRtEnd, PopEmpty, vars
  <2> QED BY <1>5, <2>1
<1>9. ASSUME NEW c \in Consumers, DrainRing(c) PROVE MpscInv'
  <2>1. /\ UNCHANGED vars /\ drain[c] # "rt"
        /\ UNCHANGED drain \/ drain' = [drain EXCEPT ![c] = "report"]
    BY <1>9 DEF DrainRing
  <2> QED BY <1>5, <1>6, <1>7, <2>1
<1>10. ASSUME NEW c \in Consumers, Report(c) PROVE MpscInv'
  <2>1. UNCHANGED vars /\ drain[c] # "rt" /\ drain' = [drain EXCEPT ![c] = "out"]
    BY <1>10 DEF Report
  <2> QED BY <1>5, <1>7, <2>1
<1>11. ASSUME NEW c \in Consumers, NEW place, Enter(c, place), UNCHANGED vars PROVE MpscInv'
  <2>1. \A d \in Consumers : consumer[d].at # "idle" => drain'[d] = "rt"
    BY <1>1, <1>11 DEF Enter, DrainInv, Places, FlagInv
  <2> QED BY <1>11, <2>1, MpscStill
<1>12. ASSUME WorkerTest PROVE MpscInv'
  BY <1>11, <1>12, ArchivistAssumption DEF WorkerTest
<1>13. ASSUME NEW c \in Callers, Flush(c) \/ ShutdownJoin(c) PROVE MpscInv'
  BY <1>11, <1>13, ArchivistAssumption DEF Flush, ShutdownJoin
<1>14. ASSUME NEW c \in Callers,
              Shutdown(c) \/ ShutdownEnter(c) \/ ShutdownLower(c) \/ ShutdownReset(c)
       PROVE  UNCHANGED <<vars, drain>>
  BY <1>14 DEF Shutdown, ShutdownEnter, ShutdownLower, ShutdownReset
<1>15. ASSUME NEW p \in Producers,
              Scribe(p) \/ Drop(p) \/ Lock(p) \/ RingPush(p) \/ Unlock(p)
       PROVE  UNCHANGED <<vars, drain>>
  BY <1>15 DEF Scribe, Drop, Lock, RingPush, Unlock, threads
<1>16. ASSUME Destroy \/ UNCHANGED avars PROVE UNCHANGED <<vars, drain>>
  BY <1>16 DEF Destroy, avars, threads
<1> QED
  BY <1>2, <1>3, <1>4, <1>6, <1>8, <1>9, <1>10, <1>12, <1>13, <1>14, <1>15, <1>16
  DEF ANext, Writer, Drain, Call

\* The ring is in order until two threads drain it at once or a push is lapped.
RtInv == AloneInv /\ (~shared /\ ~lapped => MpscInv)

LEMMA InitRt == AInit => RtInv
BY InitAlone, InitMpsc DEF RtInv

LEMMA NextRt == DrainInv /\ RtInv /\ [ANext]_avars => RtInv'
<1> SUFFICES ASSUME DrainInv, RtInv, [ANext]_avars PROVE RtInv'
  OBVIOUS
<1>1. AloneInv'
  BY NextAlone DEF RtInv
<1>2. ASSUME ~shared', ~lapped' PROVE MpscInv'
  <2>1. MpscInv /\ OneDrainer
    BY <1>2, HistoryKept DEF RtInv, AloneInv
  <2> QED BY <1>2, <2>1, NextMpsc
<1> QED BY <1>1, <1>2 DEF RtInv

------------------------------------------------------------------------------
(* The drops that are counted, reported or about to be counted *)

\* What the counts rest on: a claim is refused once and not while its push runs,
\* and a thread is in the real-time ring just while its scribe_rt pushes.
CountInv ==
  /\ dropped \in Nat /\ reported \in Nat /\ entered \in Nat
  /\ calls \in [scribe : Nat, control : Nat]
  /\ writer \in [Producers -> WriterSteps]
  /\ \A p \in Producers : Busy(p) => writer[p] = "rt"
  /\ IsFiniteSet(refused) /\ \A k \in refused : Returned(k)

DropInv == TypeOK /\ ClaimInv /\ CountInv /\ DropsAccounted

LEMMA PushKept ==
  ASSUME TypeOK, ClaimInv, NEW p \in Producers, Push(p)
  PROVE  TypeOK' /\ ClaimInv'
<1>1. Busy(p) /\ UNCHANGED <<claim_index, claimed>>
      /\ \E a \in {"idle", "store", "ready"} : producer' = [producer EXCEPT ![p].at = a]
  BY DEF Push, PushRefused, PushFree, PushStore, PushReady, Busy
<1>2. ClaimInv'
  BY <1>1, ClaimsKept
<1>3. /\ producer' \in [Producers -> [at : {"idle", "test", "store", "ready"}, claim : Nat]]
      /\ UNCHANGED <<claim_index, claimed, read_index, consumer, delivered, lapped>>
  BY <1>1, PushMoves DEF Push, PushRefused, PushFree, PushStore, PushReady
<1>4. producer[p].claim \in Nat /\ slot(producer[p].claim) \in Slots
  BY MpscNumbers
<1>5. claimed[producer[p].claim + 1] \in Cells
  BY <1>1, <1>4, MpscNumbers DEF TypeOK, ClaimInv, Cells
<1>6. buffer' \in [Slots -> Cells]
  BY <1>4, <1>5 DEF TypeOK, Push, PushRefused, PushFree, PushStore, PushReady
<1>7. ready_flags' \in [Slots -> BOOLEAN]
  BY <1>4 DEF TypeOK, Push, PushRefused, PushFree, PushStore, PushReady
<1>8. refused' \subseteq Nat
  BY <1>4 DEF TypeOK, Push, PushRefused, PushFree, PushStore, PushReady
<1>9. TypeOK'
  BY <1>3, <1>6, <1>7, <1>8 DEF TypeOK
<1> QED BY <1>2, <1>9

LEMMA PopKept ==
  ASSUME TypeOK, ClaimInv, NEW c \in Consumers, PopFound(c)
  PROVE  TypeOK' /\ ClaimInv'
<1>1. UNCHANGED <<buffer, claim_index, producer, claimed, refused, lapped>>
  BY DEF PopFound, PopCopy, PopClear, PopAdvance
<1>2. /\ read_index \in Slots /\ buffer[read_index] \in Cells
      /\ consumer[c].slot \in Slots /\ consumer[c].value \in Cells
  BY DEF TypeOK
<1>3. increment(consumer[c].slot) \in Slots
  BY <1>2, MPSCAssumption DEF Slots, increment
<1>4. consumer' \in [Consumers -> [at : {"idle", "clear", "advance"}, slot : Slots, value : Cells]]
  <2>1. CASE PopCopy(c)
    BY <1>2, <2>1 DEF TypeOK, PopCopy
  <2>2. CASE PopClear(c) \/ PopAdvance(c)
    BY <2>2, PopMoves DEF PopClear, PopAdvance
  <2> QED BY <2>1, <2>2 DEF PopFound
<1>9. ready_flags' = ready_flags \/ ready_flags' = [ready_flags EXCEPT ![consumer[c].slot] = FALSE]
  BY DEF PopFound, PopCopy, PopClear, PopAdvance
<1>5. ready_flags' \in [Slots -> BOOLEAN]
  BY <1>2, <1>9 DEF TypeOK
<1>6. read_index' \in Slots /\ delivered' \in Seq(Cells)
  <2>1. \/ UNCHANGED <<read_index, delivered>>
        \/ /\ read_index' = increment(consumer[c].slot)
           /\ delivered' = Append(delivered, consumer[c].value)
    BY DEF PopFound, PopCopy, PopClear, PopAdvance
  <2>2. delivered \in Seq(Cells) /\ Append(delivered, consumer[c].value) \in Seq(Cells)
    BY <1>2 DEF TypeOK
  <2> QED BY <1>2, <1>3, <2>1, <2>2
<1>7. TypeOK'
  BY <1>1, <1>4, <1>5, <1>6 DEF TypeOK
<1>8. ClaimInv'
  BY <1>1 DEF ClaimInv, Busy
<1> QED BY <1>7, <1>8

LEMMA RingStill ==
  ASSUME TypeOK, ClaimInv, UNCHANGED vars
  PROVE  TypeOK' /\ ClaimInv'
BY DEF TypeOK, ClaimInv, Busy, vars

\* How many threads are at one of the places S.
Count(S) == Cardinality({p \in Producers : writer[p] \in S})

LEMMA CountType ==
  ASSUME NEW S
  PROVE  IsFiniteSet({p \in Producers : writer[p] \in S}) /\ Count(S) \in Nat
<1>1. IsFiniteSet({p \in Producers : writer[p] \in S})
  BY ArchivistAssumption, FS_Subset
<1> QED BY <1>1, FS_CardinalityType DEF Count

\* A thread that goes from one place to another is counted where it went and no
\* longer where it was.
LEMMA CountMoves ==
  ASSUME NEW S, writer \in [Producers -> WriterSteps], NEW p \in Producers, NEW there,
         writer' = [writer EXCEPT ![p] = there]
  PROVE  /\ (writer[p] \in S <=> there \in S) => Count(S)' = Count(S)
         /\ writer[p] \notin S /\ there \in S => Count(S)' = Count(S) + 1
         /\ writer[p] \in S /\ there \notin S => Count(S)' = Count(S) - 1
<1> DEFINE B == {q \in Producers : writer[q] \in S}
           A == {q \in Producers : writer'[q] \in S}
<1>1. writer'[p] = there /\ \A q \in Producers : q # p => writer'[q] = writer[q]
  OBVIOUS
<1>2. IsFiniteSet(B) /\ Count(S) = Cardinality(B) /\ Count(S)' = Cardinality(A)
  BY CountType DEF Count
<1>3. CASE writer[p] \in S <=> there \in S
  <2>1. A = B
    BY <1>1, <1>3
  <2> QED BY <1>2, <1>3, <2>1
<1>4. CASE writer[p] \notin S /\ there \in S
  <2>1. A = B \cup {p} /\ p \notin B
    BY <1>1, <1>4
  <2> HIDE DEF A, B
  <2>2. Cardinality(A) = Cardinality(B) + 1
    BY <1>2, <2>1, FS_AddElement, Zenon
  <2> QED BY <1>2, <1>4, <2>2
<1>5. CASE writer[p] \in S /\ there \notin S
  <2>1. A = B \ {p} /\ p \in B
    BY <1>1, <1>5
  <2> HIDE DEF A, B
  <2>2. Cardinality(A) = Cardinality(B) - 1
    BY <1>2, <2>1, FS_RemoveElement, Zenon
  <2> QED BY <1>2, <1>5, <2>2
<1> QED BY <1>3, <1>4, <1>5

Failing == {"full", "drop"}
Trying == {"spin", "push"}

\* DropsAccounted, over numbers only.
LEMMA Balance ==
  DropsAccounted <=> dropped + reported + Count(Failing)
                       = Cardinality(refused) + (calls.scribe - entered - Count(Trying))
BY DEF DropsAccounted, RingRefused, Count, Failing, Trying

LEMMA InitDrop == AInit => DropInv
<1> SUFFICES ASSUME AInit PROVE DropInv
  OBVIOUS
<1>1. TypeOK /\ ClaimInv
  BY InitMpsc DEF MpscInv
<1>2. /\ dropped = 0 /\ reported = 0 /\ entered = 0 /\ refused = {}
      /\ calls = [scribe |-> 0, control |-> 0] /\ writer = [p \in Producers |-> "idle"]
      /\ \A p \in Producers : ~Busy(p)
  BY DEF AInit, Init, Busy
<1>3. Cardinality(refused) = 0 /\ IsFiniteSet(refused)
  BY <1>2, FS_EmptySet
<1>4. CountInv
  BY <1>2, <1>3 DEF CountInv, WriterSteps
<1>5. {p \in Producers : writer[p] \in Failing} = {} /\ {p \in Producers : writer[p] \in Trying} = {}
  BY <1>2 DEF Failing, Trying
<1>6. Count(Failing) = 0 /\ Count(Trying) = 0
  BY <1>5, FS_EmptySet DEF Count
<1>7. DropsAccounted
  BY <1>2, <1>3, <1>6, Balance
<1> QED BY <1>1, <1>4, <1>7 DEF DropInv

\* The refusals stay as they are when no push makes or gives up a claim.
LEMMA RefusedStill ==
  ASSUME CountInv, UNCHANGED <<refused, claim_index, producer>>
  PROVE  /\ IsFiniteSet(refused') /\ Cardinality(refused') = Cardinality(refused)
         /\ \A k \in refused' : Returned(k)'
BY DEF CountInv, Returned, Busy

\* scribe, from the call to its last count.
LEMMA ScribeDrops ==
  ASSUME DropInv, NEW p \in Producers,
         Scribe(p) \/ Drop(p) \/ Lock(p) \/ RingPush(p) \/ Unlock(p)
  PROVE  DropInv'
<1> DEFINE F == Count(Failing)
           T == Count(Trying)
           R == Cardinality(refused)
<1>1. TypeOK /\ ClaimInv /\ CountInv /\ UNCHANGED vars
  BY DEF DropInv, Scribe, Drop, Lock, RingPush, Unlock
<1>2. TypeOK' /\ ClaimInv'
  BY <1>1, RingStill
<1>3. /\ UNCHANGED <<refused, claim_index, producer>> /\ ~Busy(p)
      /\ \A q \in Producers : Busy(q)' <=> Busy(q)
  BY <1>1 DEF vars, Busy, CountInv, Scribe, Drop, Lock, RingPush, Unlock
<1>4. /\ IsFiniteSet(refused') /\ Cardinality(refused') = R
      /\ \A k \in refused' : Returned(k)'
  BY <1>1, <1>3, RefusedStill
<1>5. /\ dropped \in Nat /\ reported \in Nat /\ entered \in Nat /\ calls.scribe \in Nat
      /\ F \in Nat /\ T \in Nat /\ R \in Nat
      /\ writer \in [Producers -> WriterSteps]
      /\ calls \in [scribe : Nat, control : Nat]
  BY <1>1, CountType, FS_CardinalityType DEF CountInv
<1>6. dropped + reported + F = R + (calls.scribe - entered - T)
  BY Balance DEF DropInv
<1>7. DropsAccounted' <=> dropped' + reported' + Count(Failing)'
                            = R + (calls'.scribe - entered' - Count(Trying)')
  BY <1>4 DEF DropsAccounted, RingRefused, Count, Failing, Trying
<1>8. ASSUME NEW there \in WriterSteps, writer' = [writer EXCEPT ![p] = there],
             dropped' \in Nat, reported' \in Nat, entered' \in Nat,
             calls' \in [scribe : Nat, control : Nat]
      PROVE  CountInv'
  <2>1. writer' \in [Producers -> WriterSteps]
    BY <1>5, <1>8
  <2>2. \A q \in Producers : Busy(q)' => writer'[q] = "rt"
    BY <1>1, <1>3, <1>8 DEF CountInv
  <2> QED BY <1>4, <1>8, <2>1, <2>2 DEF CountInv
<1> HIDE DEF F, T, R
<1>m. /\ "full" \in Failing /\ "drop" \in Failing
      /\ \A a \in {"idle", "rt", "spin", "push", "pushed"} : a \notin Failing
      /\ "spin" \in Trying /\ "push" \in Trying
      /\ \A a \in {"idle", "rt", "drop", "pushed", "full"} : a \notin Trying
  BY DEF Failing, Trying
<1>9. CASE Scribe(p)
  <2>1. /\ writer[p] = "idle" /\ writer' = [writer EXCEPT ![p] = "spin"]
        /\ calls' = [calls EXCEPT !.scribe = @ + 1]
        /\ UNCHANGED <<dropped, reported, entered>>
    BY <1>9 DEF Scribe, counts, ring
  <2>2. calls' \in [scribe : Nat, control : Nat] /\ calls'.scribe = calls.scribe + 1
    BY <1>5, <2>1
  <2>3. Count(Failing)' = F /\ Count(Trying)' = T + 1
    BY <1>5, <2>1, <1>m, CountMoves DEF F, T
  <2>4. DropsAccounted'
    BY <1>5, <1>6, <1>7, <2>1, <2>2, <2>3
  <2>5. CountInv'
    BY <1>5, <1>8, <2>1, <2>2 DEF WriterSteps
  <2> QED BY <1>2, <2>4, <2>5 DEF DropInv
<1>10. CASE Drop(p)
  <2>1. /\ writer[p] = "drop" /\ writer' = [writer EXCEPT ![p] = "idle"]
        /\ dropped' = dropped + 1 /\ UNCHANGED <<calls, reported, entered>>
    BY <1>10 DEF Drop, ring
  <2>2. Count(Failing)' = F - 1 /\ Count(Trying)' = T
    BY <1>5, <2>1, <1>m, CountMoves DEF F, T
  <2>3. DropsAccounted'
    BY <1>5, <1>6, <1>7, <2>1, <2>2
  <2>4. CountInv'
    BY <1>5, <1>8, <2>1 DEF WriterSteps
  <2> QED BY <1>2, <2>3, <2>4 DEF DropInv
<1>11. CASE Lock(p)
  <2>1. /\ writer[p] = "spin" /\ writer' = [writer EXCEPT ![p] = "push"]
        /\ UNCHANGED <<calls, dropped, reported, entered>>
    BY <1>11 DEF Lock, counts, ring
  <2>2. Count(Failing)' = F /\ Count(Trying)' = T
    BY <1>5, <2>1, <1>m, CountMoves DEF F, T
  <2>3. DropsAccounted'
    BY <1>5, <1>6, <1>7, <2>1, <2>2
  <2>4. CountInv'
    BY <1>5, <1>8, <2>1 DEF WriterSteps
  <2> QED BY <1>2, <2>3, <2>4 DEF DropInv
<1>12. CASE RingPush(p) /\ entered' = entered + 1 /\ writer' = [writer EXCEPT ![p] = "pushed"]
  <2>1. writer[p] = "push" /\ UNCHANGED <<calls, dropped, reported>>
    BY <1>12 DEF RingPush, counts
  <2>2. Count(Failing)' = F /\ Count(Trying)' = T - 1
    BY <1>5, <1>12, <2>1, <1>m, CountMoves DEF F, T
  <2>3. DropsAccounted'
    BY <1>5, <1>6, <1>7, <1>12, <2>1, <2>2
  <2>4. CountInv'
    BY <1>5, <1>8, <1>12, <2>1 DEF WriterSteps
  <2> QED BY <1>2, <2>3, <2>4 DEF DropInv
<1>13. CASE RingPush(p) /\ entered' = entered /\ writer' = [writer EXCEPT ![p] = "full"]
  <2>1. writer[p] = "push" /\ UNCHANGED <<calls, dropped, reported>>
    BY <1>13 DEF RingPush, counts
  <2>2. Count(Failing)' = F + 1 /\ Count(Trying)' = T - 1
    BY <1>5, <1>13, <2>1, <1>m, CountMoves DEF F, T
  <2>3. DropsAccounted'
    BY <1>5, <1>6, <1>7, <1>13, <2>1, <2>2
  <2>4. CountInv'
    BY <1>5, <1>8, <1>13, <2>1 DEF WriterSteps
  <2> QED BY <1>2, <2>3, <2>4 DEF DropInv
<1>14. CASE Unlock(p)
  <2>1. PICK there \in {"idle", "drop"} :
          /\ writer' = [writer EXCEPT ![p] = there] /\ writer[p] \in {"pushed", "full"}
          /\ there = IF writer[p] = "pushed" THEN "idle" ELSE "drop"
    BY <1>5, <1>14 DEF Unlock
  <2>2. UNCHANGED <<calls, dropped, reported, entered>>
    BY <1>14 DEF Unlock, counts, ring
  <2>3. Count(Failing)' = F
    BY <1>5, <2>1, <1>m, CountMoves DEF F
  <2>4. Count(Trying)' = T
    BY <1>5, <2>1, <1>m, CountMoves DEF T
  <2>5. DropsAccounted'
    BY <1>5, <1>6, <1>7, <2>2, <2>3, <2>4
  <2>6. CountInv'
    BY <1>5, <1>8, <2>1, <2>2 DEF WriterSteps
  <2> QED BY <1>2, <2>5, <2>6 DEF DropInv
<1> QED BY <1>9, <1>10, <1>11, <1>12, <1>13, <1>14 DEF RingPush

\* scribe_rt's claim: the refused claims are older than the new one.
LEMMA ScribeRtDrops ==
  ASSUME DropInv, NEW p \in Producers, ScribeRt(p)
  PROVE  DropInv'
<1>1. TypeOK /\ ClaimInv /\ CountInv /\ PushClaim(p, p) /\ p \in Values
  BY ArchivistAssumption DEF DropInv, ScribeRt
<1>2. TypeOK' /\ ClaimInv'
  BY <1>1, ClaimMade
<1>3. /\ writer[p] = "idle" /\ writer' = [writer EXCEPT ![p] = "rt"]
      /\ claim_index' = claim_index + 1 /\ claim_index \in Nat
      /\ producer' = [producer EXCEPT ![p] = [at |-> "test", claim |-> claim_index]]
      /\ UNCHANGED <<dropped, reported, entered, calls, refused>>
  BY <1>1, MpscNumbers DEF ScribeRt, PushClaim, counts, ring
<1>4. /\ writer' \in [Producers -> WriterSteps]
      /\ writer'[p] = "rt" /\ \A q \in Producers : q # p => writer'[q] = writer[q]
  BY <1>1, <1>3 DEF CountInv, WriterSteps
<1>5. /\ producer'[p].claim = claim_index
      /\ \A q \in Producers : q # p => producer'[q] = producer[q]
  BY <1>1, <1>3 DEF TypeOK
<1>6. \A q \in Producers : Busy(q)' => writer'[q] = "rt"
  BY <1>1, <1>4, <1>5 DEF CountInv, Busy
<1>7. ASSUME NEW k \in refused' PROVE Returned(k)'
  <2>1. k \in Nat /\ Returned(k)
    BY <1>1, <1>3 DEF CountInv, TypeOK
  <2> QED BY <1>3, <1>5, <2>1 DEF Returned, Busy
<1>8. CountInv'
  BY <1>1, <1>3, <1>4, <1>6, <1>7 DEF CountInv
<1>9. Count(Failing)' = Count(Failing) /\ Count(Trying)' = Count(Trying)
  <2>1. "idle" \notin Failing /\ "rt" \notin Failing /\ "idle" \notin Trying /\ "rt" \notin Trying
    BY DEF Failing, Trying
  <2> QED BY <1>1, <1>3, <2>1, CountMoves DEF CountInv
<1>10. DropsAccounted'
  BY <1>3, <1>9 DEF DropInv, DropsAccounted, RingRefused, Count, Failing, Trying
<1> QED BY <1>2, <1>8, <1>10 DEF DropInv

\* scribe_rt's push: a refused claim is one more, and so is a thread that will
\* count it.
LEMMA RtPushDrops ==
  ASSUME DropInv, NEW p \in Producers, RtPush(p)
  PROVE  DropInv'
<1> DEFINE m == producer[p].claim
           R == Cardinality(refused)
<1>1. TypeOK /\ ClaimInv /\ CountInv /\ Push(p) /\ Busy(p)
  BY DEF DropInv, RtPush, Push, PushRefused, PushFree, PushStore, PushReady, Busy
<1>2. TypeOK' /\ ClaimInv'
  BY <1>1, PushKept
<1>3. /\ writer[p] = "rt" /\ writer \in [Producers -> WriterSteps]
      /\ UNCHANGED <<dropped, reported, entered, calls, claim_index>>
  BY <1>1 DEF CountInv, RtPush, counts, ring, Push, PushRefused, PushFree, PushStore, PushReady
<1>4. PICK a \in {"idle", "store", "ready"} : producer' = [producer EXCEPT ![p].at = a]
  BY <1>1 DEF Push, PushRefused, PushFree, PushStore, PushReady
<1>5. /\ producer'[p].at = a /\ producer'[p].claim = m
      /\ \A q \in Producers : q # p => producer'[q] = producer[q]
  BY <1>1, <1>4, PushMoves
<1>6. m \in Nat /\ m < claim_index /\ m \notin refused
  BY <1>1, MpscNumbers DEF ClaimInv, CountInv, Returned
<1>7. \A q \in Producers : q # p /\ Busy(q) => producer[q].claim # m
  BY <1>1 DEF ClaimInv
<1>8. \A k \in refused : Returned(k)'
  BY <1>1, <1>3, <1>5 DEF CountInv, Returned, Busy
<1>9. "idle" \notin Failing /\ "rt" \notin Failing /\ "idle" \notin Trying /\ "rt" \notin Trying
      /\ "drop" \in Failing /\ "drop" \notin Trying
  BY DEF Failing, Trying
<1>10. ASSUME NEW there \in {"rt", "idle", "drop"}, writer' = [writer EXCEPT ![p] = there],
              a # "idle" => there = "rt", IsFiniteSet(refused'), \A k \in refused' : Returned(k)'
       PROVE  CountInv'
  <2>1. /\ writer' \in [Producers -> WriterSteps]
        /\ writer'[p] = there /\ \A q \in Producers : q # p => writer'[q] = writer[q]
    BY <1>3, <1>10 DEF WriterSteps
  <2>2. \A q \in Producers : Busy(q)' => writer'[q] = "rt"
    BY <1>1, <1>5, <1>10, <2>1 DEF CountInv, Busy
  <2> QED BY <1>1, <1>3, <1>10, <2>1, <2>2 DEF CountInv
<1>11. CASE PushRefused(p)
  <2>1. refused' = refused \cup {m} /\ a = "idle"
    BY <1>4, <1>5, <1>11, PushMoves, <1>1 DEF PushRefused
  <2>2. writer' = [writer EXCEPT ![p] = "drop"]
    BY <1>5, <1>6, <2>1 DEF RtPush
  <2>3. IsFiniteSet(refused) /\ IsFiniteSet(refused') /\ Cardinality(refused') = R + 1 /\ R \in Nat
    BY <1>1, <1>6, <2>1, FS_AddElement, FS_CardinalityType DEF CountInv
  <2>4. \A k \in refused' : Returned(k)'
    <3>1. \A q \in Producers : Busy(q)' => producer'[q].claim # m
      BY <1>5, <1>7, <2>1 DEF Busy
    <3>2. ASSUME NEW k, k = m PROVE Returned(k)'
      BY <1>3, <1>6, <3>1, <3>2 DEF Returned
    <3> QED BY <1>8, <2>1, <3>2
  <2>5. CountInv'
    BY <1>10, <2>1, <2>2, <2>3, <2>4
  <2>6. Count(Failing)' = Count(Failing) + 1 /\ Count(Trying)' = Count(Trying)
    BY <1>3, <1>9, <2>2, CountMoves
  <2>7. /\ dropped \in Nat /\ reported \in Nat /\ entered \in Nat /\ calls.scribe \in Nat
        /\ Count(Failing) \in Nat /\ Count(Trying) \in Nat
    BY <1>1, CountType DEF CountInv
  <2>8. dropped + reported + Count(Failing) = R + (calls.scribe - entered - Count(Trying))
    BY Balance DEF DropInv
  <2>9. DropsAccounted' <=> dropped + reported + Count(Failing)'
                              = R + 1 + (calls.scribe - entered - Count(Trying)')
    BY <1>3, <2>3 DEF DropsAccounted, RingRefused, Count, Failing, Trying
  <2> HIDE DEF R
  <2>10. DropsAccounted'
    BY <2>3, <2>6, <2>7, <2>8, <2>9
  <2> QED BY <1>2, <2>5, <2>10 DEF DropInv
<1>12. CASE PushFree(p) \/ PushStore(p) \/ PushReady(p)
  <2>1. refused' = refused
    BY <1>12 DEF PushFree, PushStore, PushReady
  <2>2. PICK there \in {"rt", "idle"} : /\ writer' = [writer EXCEPT ![p] = there]
                                        /\ a # "idle" => there = "rt"
    BY <1>3, <1>5, <2>1 DEF RtPush
  <2>3. CountInv'
    BY <1>1, <1>8, <1>10, <2>1, <2>2 DEF CountInv
  <2>4. Count(Failing)' = Count(Failing) /\ Count(Trying)' = Count(Trying)
    BY <1>3, <1>9, <2>2, CountMoves
  <2>5. DropsAccounted'
    BY <1>3, <2>1, <2>4 DEF DropInv, DropsAccounted, RingRefused, Count, Failing, Trying
  <2> QED BY <1>2, <2>3, <2>5 DEF DropInv
<1> QED BY <1>1, <1>11, <1>12 DEF Push

\* Everything else leaves the threads that log where they are.
LEMMA OtherDrops ==
  ASSUME DropInv, TypeOK', ClaimInv',
         UNCHANGED <<entered, calls.scribe, writer, refused, claim_index, producer>>,
         calls' \in [scribe : Nat, control : Nat],
         dropped' \in Nat, reported' \in Nat, dropped' + reported' = dropped + reported
  PROVE  DropInv'
<1>1. CountInv'
  BY RefusedStill DEF DropInv, CountInv, Busy
<1>2. DropsAccounted'
  BY DEF DropInv, DropsAccounted, RingRefused
<1> QED BY <1>1, <1>2 DEF DropInv

LEMMA NextDrop == DropInv /\ [ANext]_avars => DropInv'
<1> SUFFICES ASSUME DropInv, [ANext]_avars PROVE DropInv'
  OBVIOUS
<1>1. /\ TypeOK /\ ClaimInv /\ dropped \in Nat /\ reported \in Nat
      /\ calls \in [scribe : Nat, control : Nat]
  BY DEF DropInv, CountInv
<1>2. ASSUME NEW c \in Consumers, DrainRt(c) PROVE DropInv'
  <2>1. /\ PopFound(c) /\ UNCHANGED <<entered, calls, writer, dropped, reported>>
    BY <1>2 DEF DrainRt, counts, ring
  <2>2. UNCHANGED <<refused, claim_index, producer>>
    BY <2>1 DEF PopFound, PopCopy, PopClear, PopAdvance
  <2>3. TypeOK' /\ ClaimInv'
    BY <1>1, <2>1, PopKept
  <2> QED BY <1>1, <2>1, <2>2, <2>3, OtherDrops
<1>3. ASSUME NEW c \in Consumers, Report(c) PROVE DropInv'
  <2>1. /\ UNCHANGED <<vars, entered, calls, writer>>
        /\ dropped' = 0 /\ reported' = reported + dropped
    BY <1>3 DEF Report, ring
  <2>2. TypeOK' /\ ClaimInv' /\ UNCHANGED <<refused, claim_index, producer>>
    BY <1>1, <2>1, RingStill DEF vars
  <2>3. dropped' \in Nat /\ reported' \in Nat /\ dropped' + reported' = dropped + reported
    BY <1>1, <2>1
  <2> QED BY <1>1, <2>1, <2>2, <2>3, OtherDrops
<1>4. ASSUME UNCHANGED <<vars, entered, calls.scribe, writer, dropped, reported>>,
             calls' \in [scribe : Nat, control : Nat]
      PROVE  DropInv'
  <2>1. TypeOK' /\ ClaimInv' /\ UNCHANGED <<refused, claim_index, producer>>
    BY <1>1, <1>4, RingStill DEF vars
  <2> QED BY <1>1, <1>4, <2>1, OtherDrops
<1>5. ASSUME NEW c \in Consumers, DrainRtEnd(c) \/ DrainRing(c) PROVE DropInv'
  BY <1>1, <1>4, <1>5 DEF DrainRtEnd, PopEmpty, DrainRing, counts, ring, vars
<1>6. ASSUME WorkerTest \/ Destroy \/ UNCHANGED avars PROVE DropInv'
  BY <1>1, <1>4, <1>6 DEF WorkerTest, Destroy, avars, counts, ring
<1>7. ASSUME NEW c \in Callers, Shutdown(c) \/ Flush(c) PROVE DropInv'
  <2>1. /\ UNCHANGED <<vars, entered, writer, dropped, reported>>
        /\ calls' = [calls EXCEPT !.control = @ + 1]
    BY <1>7 DEF Shutdown, Flush, counts, ring
  <2>2. calls' \in [scribe : Nat, control : Nat] /\ calls'.scribe = calls.scribe
    BY <1>1, <2>1
  <2> QED BY <1>4, <2>1, <2>2
<1>8. ASSUME NEW c \in Callers, Call(c) PROVE DropInv'
  BY <1>1, <1>4, <1>8
  DEF Call, ShutdownEnter, ShutdownLower, ShutdownJoin, ShutdownReset, counts, ring
<1> QED
  BY <1>2, <1>3, <1>5, <1>6, <1>7, <1>8, ScribeDrops, ScribeRtDrops, RtPushDrops
  DEF ANext, Writer, Drain

\* For any threads that log, shut down and flush, and rings of any size: a
\* drop that scribe or scribe_rt counts is reported once by
\* drain_ring_buffer or still in m_dropped_messages, and every refused push is
\* counted or about to be.
THEOREM DropsAreAccounted == ASpec => []DropsAccounted
<1>1. DropInv => DropsAccounted
  BY DEF DropInv
<1> QED BY <1>1, InitDrop, NextDrop, PTL DEF ASpec

------------------------------------------------------------------------------
(* What the rings held when the worker was told to stop *)

\* The real-time ring was used by one consumer, and every push had its slot.
Clean == ~shared /\ ~lapped /\ refused = {}

\* The worker's last drain begins after owed was taken; each ring it is through
\* with has given back what was due.
OwedInv ==
  /\ written \in Nat /\ entered \in Nat
  /\ owed \in [rt : Nat, ring : Nat] /\ owed.ring <= entered
  /\ \A k \in Nat : k < owed.rt => Returned(k)
  /\ at[Worker] \in {"last", "ended"} => ~running
  /\ ~initialized => at[Worker] = "ended"
  /\ at[Worker] = "ended" \/ (at[Worker] = "last" /\ drain[Worker] \in {"ring", "report"}) =>
       (Clean => Len(delivered) >= owed.rt)
  /\ at[Worker] = "ended" \/ (at[Worker] = "last" /\ drain[Worker] = "report") =>
       written >= owed.ring

\* Every claim below Entered.rt has its push behind it.
LEMMA EnteredReturned ==
  ASSUME TypeOK, ClaimInv, entered \in Nat
  PROVE  /\ Entered \in [rt : Nat, ring : Nat] /\ Entered.ring = entered
         /\ \A k \in Nat : k < Entered.rt => Returned(k)
<1> DEFINE First(n) ==
             /\ \A p \in Producers : producer[p].at # "idle" => n <= producer[p].claim
             /\ \/ n = claim_index
                \/ \E p \in Producers : producer[p].at # "idle" /\ producer[p].claim = n
           B == {producer[p].claim : p \in {q \in Producers : Busy(q)}}
<1>1. claim_index \in Nat /\ \A p \in Producers : producer[p].claim \in Nat
  BY MpscNumbers
<1>2. \A p \in Producers : Busy(p) => producer[p].claim < claim_index
  BY DEF ClaimInv
<1>3. \E n \in 0 .. claim_index : First(n)
  <2>1. CASE B = {}
    <3>1. \A p \in Producers : producer[p].at = "idle"
      BY <2>1 DEF Busy
    <3>2. First(claim_index) /\ claim_index \in 0 .. claim_index
      BY <1>1, <3>1
    <3> QED BY <3>2
  <2>2. CASE B # {}
    <3>1. B \subseteq Nat
      BY <1>1
    <3>2. PICK n \in B : \A m \in B : n <= m
      <4> HIDE DEF B
      <4> QED BY <2>2, <3>1, LeastNatural
    <3>3. PICK p \in Producers : Busy(p) /\ n = producer[p].claim
      BY <3>2
    <3>4. n \in 0 .. claim_index
      BY <1>1, <1>2, <3>3
    <3>5. \A q \in Producers : Busy(q) => n <= producer[q].claim
      BY <3>2
    <3> QED BY <3>3, <3>4, <3>5 DEF Busy
  <2> QED BY <2>1, <2>2
<1>4. Entered = [rt |-> CHOOSE n \in 0 .. claim_index : First(n), ring |-> entered]
  BY DEF Entered
<1> HIDE DEF First
<1>5. PICK n \in 0 .. claim_index : First(n) /\ Entered = [rt |-> n, ring |-> entered]
  BY <1>3, <1>4
<1>6. n \in Nat /\ Entered.rt = n
  BY <1>1, <1>5
<1>7. ASSUME NEW k \in Nat, k < n PROVE Returned(k)
  BY <1>1, <1>5, <1>7 DEF First, Returned, Busy
<1> QED BY <1>5, <1>6, <1>7

LEMMA InitOwed == AInit => OwedInv
<1> SUFFICES ASSUME AInit PROVE OwedInv
  OBVIOUS
<1>1. /\ written = 0 /\ entered = 0 /\ owed = [rt |-> 0, ring |-> 0] /\ initialized = TRUE
      /\ at[Worker] = "sleep"
  BY ArchivistAssumption DEF AInit
<1> QED BY <1>1 DEF OwedInv

\* A claim whose push has returned stays so.
LEMMA ReturnedStays ==
  ASSUME TypeOK, ClaimInv, [ANext]_avars, NEW k \in Nat, Returned(k)
  PROVE  Returned(k)'
<1>1. CASE UNCHANGED <<producer, claim_index>>
  BY <1>1 DEF Returned, Busy
<1>2. ASSUME NEW p \in Producers, ScribeRt(p) PROVE Returned(k)'
  <2>1. /\ claim_index' = claim_index + 1 /\ claim_index \in Nat
        /\ producer' = [producer EXCEPT ![p] = [at |-> "test", claim |-> claim_index]]
    BY <1>2, MpscNumbers DEF ScribeRt, PushClaim
  <2>2. /\ producer'[p].claim = claim_index
        /\ \A q \in Producers : q # p => producer'[q] = producer[q]
    BY <2>1 DEF TypeOK
  <2> QED BY <2>1, <2>2 DEF Returned, Busy
<1>3. ASSUME NEW p \in Producers, RtPush(p) PROVE Returned(k)'
  <2>1. /\ Busy(p) /\ UNCHANGED claim_index
        /\ \E a \in {"idle", "store", "ready"} : producer' = [producer EXCEPT ![p].at = a]
    BY <1>3 DEF RtPush, Push, PushRefused, PushFree, PushStore, PushReady, Busy
  <2>2. /\ producer'[p].claim = producer[p].claim
        /\ \A q \in Producers : q # p => producer'[q] = producer[q]
    BY <2>1, PushMoves
  <2> QED BY <2>1, <2>2 DEF Returned, Busy
<1>4. ASSUME NEW p \in Producers,
             Scribe(p) \/ Drop(p) \/ Lock(p) \/ RingPush(p) \/ Unlock(p)
      PROVE  UNCHANGED <<producer, claim_index>>
  BY <1>4 DEF Scribe, Drop, Lock, RingPush, Unlock, vars
<1>5. ASSUME NEW c \in Consumers, Drain(c) PROVE UNCHANGED <<producer, claim_index>>
  BY <1>5 DEF Drain, DrainRt, DrainRtEnd, DrainRing, Report, vars, PopFound, PopCopy, PopClear,
              PopAdvance, PopEmpty
<1>6. ASSUME NEW c \in Callers, Shutdown(c) \/ Flush(c) \/ Call(c)
      PROVE  UNCHANGED <<producer, claim_index>>
  BY <1>6 DEF Shutdown, Flush, Call, ShutdownEnter, ShutdownLower, ShutdownJoin, ShutdownReset, vars
<1>7. ASSUME WorkerTest \/ Destroy \/ UNCHANGED avars PROVE UNCHANGED <<producer, claim_index>>
  BY <1>7 DEF WorkerTest, Destroy, avars, vars
<1> QED BY <1>1, <1>2, <1>3, <1>4, <1>5, <1>6, <1>7 DEF ANext, Writer

\* While nothing was refused, a pop that finds nothing has handed out every
\* claim below one whose push has returned.
LEMMA DrainedRt ==
  ASSUME MpscInv, OneDrainer, NEW c \in Consumers, drain[c] = "rt", PopEmpty(c), refused = {},
         NEW n \in Nat, \A k \in Nat : k < n => Returned(k)
  PROVE  Len(delivered) >= n
<1>1. TypeOK /\ FlagInv /\ OrderInv /\ consumer[c].at = "idle" /\ ~ready_flags[read_index]
  BY DEF MpscInv, PopEmpty
<1>2. Taken = Len(delivered) /\ Len(delivered) \in Nat
  BY <1>1, OnePopper, MpscNumbers DEF Taken
<1>3. SUFFICES ASSUME Len(delivered) < n PROVE FALSE
  BY <1>2
<1>4. Returned(Len(delivered))
  BY <1>2, <1>3
<1> QED BY <1>1, <1>2, <1>4 DEF OrderInv

LEMMA RefusedGrows ==
  ASSUME [ANext]_avars PROVE refused \subseteq refused'
<1>1. ASSUME NEW p \in Producers, Scribe(p) \/ ScribeRt(p) \/ Writer(p)
      PROVE  refused \subseteq refused'
  BY <1>1 DEF Scribe, ScribeRt, Writer, RtPush, Drop, Lock, RingPush, Unlock, vars, Push,
              PushClaim, PushRefused, PushFree, PushStore, PushReady
<1>2. ASSUME NEW c \in Consumers, Drain(c) PROVE UNCHANGED refused
  BY <1>2 DEF Drain, DrainRt, DrainRtEnd, DrainRing, Report, vars, PopFound, PopCopy, PopClear,
              PopAdvance, PopEmpty
<1>3. ASSUME WorkerTest \/ Destroy \/ UNCHANGED avars PROVE UNCHANGED refused
  BY <1>3 DEF WorkerTest, Destroy, avars, vars
<1>4. ASSUME NEW c \in Callers, Shutdown(c) \/ Flush(c) \/ Call(c) PROVE UNCHANGED refused
  BY <1>4 DEF Shutdown, Flush, Call, ShutdownEnter, ShutdownLower, ShutdownJoin, ShutdownReset,
              vars
<1> QED BY <1>1, <1>2, <1>3, <1>4 DEF ANext

\* OwedInv where the worker goes from one of its places to another, if at all.
LEMMA OwedKept ==
  ASSUME OwedInv, \A k \in Nat : k < owed'.rt => Returned(k)',
         UNCHANGED <<owed, initialized, running>>,
         written' \in Nat, entered' \in Nat, written <= written', entered <= entered',
         UNCHANGED <<at[Worker], drain[Worker]>>, Clean' => Clean,
         Len(delivered) \in Nat, Len(delivered') \in Nat, Len(delivered) <= Len(delivered')
  PROVE  OwedInv'
<1>1. /\ owed.rt \in Nat /\ owed.ring \in Nat
      /\ written \in Nat /\ entered \in Nat
  BY DEF OwedInv
<1>2. (Clean => Len(delivered) >= owed.rt) => (Clean' => Len(delivered') >= owed.rt)
  BY <1>1
<1>3. (written >= owed.ring => written' >= owed.ring) /\ (owed.ring <= entered => owed.ring <= entered')
  BY <1>1
<1> QED BY <1>1, <1>2, <1>3 DEF OwedInv

LEMMA NextOwed ==
  ASSUME DrainInv, RtInv, DropInv, TypeOK', OwedInv, [ANext]_avars
  PROVE  OwedInv'
<1>1. TypeOK /\ ClaimInv /\ Len(delivered) \in Nat /\ Worker \in Consumers
  BY MpscNumbers, ArchivistAssumption DEF DropInv
<1>c. Clean' => Clean
  BY HistoryKept, RefusedGrows DEF Clean
<1>2. \A k \in Nat : k < owed.rt => Returned(k)'
  BY <1>1, ReturnedStays DEF OwedInv
<1>3. /\ written \in Nat /\ entered \in Nat /\ owed.rt \in Nat /\ owed.ring \in Nat
  BY DEF OwedInv
<1>4. Len(delivered') \in Nat
  BY DEF TypeOK
<1>5. ASSUME NEW p \in Producers, Scribe(p) \/ ScribeRt(p) \/ Writer(p) PROVE OwedInv'
  <2>1. /\ UNCHANGED <<owed, initialized, running, at, drain, written>>
        /\ entered' = entered \/ entered' = entered + 1
    BY <1>5 DEF Scribe, ScribeRt, Writer, RtPush, Drop, Lock, RingPush, Unlock, flags, threads, ring
  <2>2. UNCHANGED delivered
    BY <1>5 DEF Scribe, ScribeRt, Writer, RtPush, Drop, Lock, RingPush, Unlock, vars, Push,
                PushClaim, PushRefused, PushFree, PushStore, PushReady
  <2> QED BY <1>1, <1>2, <1>3, <1>4, <2>1, <2>2, <1>c, OwedKept
<1>6. ASSUME NEW c \in Consumers, DrainRt(c) PROVE OwedInv'
  <2>1. /\ UNCHANGED <<owed, initialized, running, at, drain, written, entered, refused>>
    BY <1>6 DEF DrainRt, flags, threads, ring, PopFound, PopCopy, PopClear, PopAdvance
  <2>2. delivered' = delivered \/ delivered' = Append(delivered, consumer[c].value)
    BY <1>6 DEF DrainRt, PopFound, PopCopy, PopClear, PopAdvance
  <2>3. Len(delivered) <= Len(delivered')
    BY <1>1, <2>2 DEF TypeOK
  <2> QED BY <1>1, <1>2, <1>3, <1>4, <2>1, <2>3, <1>c, OwedKept
<1>7. ASSUME NEW c \in Consumers, DrainRtEnd(c) PROVE OwedInv'
  <2>1. /\ UNCHANGED <<owed, initialized, running, at, written, entered, refused, delivered>>
        /\ drain[c] = "rt" /\ PopEmpty(c) /\ drain' = [drain EXCEPT ![c] = "ring"]
    BY <1>7 DEF DrainRtEnd, flags, ring, PopEmpty
  <2>2. CASE c # Worker
    <3>1. drain'[Worker] = drain[Worker]
      BY <2>1, <2>2
    <3> QED BY <1>1, <1>2, <1>3, <1>4, <2>1, <3>1, <1>c, OwedKept
  <2>3. CASE c = Worker
    <3>1. drain'[Worker] = "ring"
      BY <1>1, <2>1, <2>3 DEF DrainInv, Places
    <3>2. Clean' => Len(delivered') >= owed.rt
      BY <1>c, <1>3, <2>1, <2>3, DrainedRt DEF OwedInv, RtInv, AloneInv, Clean
    <3>3. /\ owed \in [rt : Nat, ring : Nat] /\ owed.ring <= entered
          /\ at[Worker] \in {"last", "ended"} => ~running
          /\ ~initialized => at[Worker] = "ended"
          /\ at[Worker] = "ended" => written >= owed.ring
      BY DEF OwedInv
    <3> QED BY <1>c, <1>2, <1>3, <2>1, <3>1, <3>2, <3>3 DEF OwedInv
  <2> QED BY <2>2, <2>3
<1>8. ASSUME NEW c \in Consumers, DrainRing(c) PROVE OwedInv'
  <2>1. /\ UNCHANGED <<vars, owed, initialized, running, at, entered>> /\ drain[c] = "ring"
        /\ \/ written' = written + 1 /\ UNCHANGED drain
           \/ written = entered /\ drain' = [drain EXCEPT ![c] = "report"] /\ UNCHANGED written
    BY <1>8 DEF DrainRing, flags
  <2>2. UNCHANGED <<refused, delivered>>
    BY <2>1 DEF vars
  <2>3. CASE drain'[Worker] = drain[Worker]
    BY <1>1, <1>2, <1>3, <1>4, <2>1, <2>2, <2>3, <1>c, OwedKept
  <2>4. CASE drain'[Worker] # drain[Worker]
    <3>1. c = Worker /\ written = entered /\ drain'[Worker] = "report" /\ UNCHANGED written
      BY <1>1, <2>1, <2>4 DEF DrainInv, Places
    <3>2. /\ owed \in [rt : Nat, ring : Nat] /\ owed.ring <= entered
          /\ at[Worker] \in {"last", "ended"} => ~running
          /\ ~initialized => at[Worker] = "ended"
          /\ at[Worker] \in {"last", "ended"} => (Clean => Len(delivered) >= owed.rt)
      BY <2>1, <3>1 DEF OwedInv
    <3>3. written' >= owed.ring
      BY <1>3, <3>1, <3>2
    <3> QED BY <1>c, <1>2, <1>3, <2>1, <2>2, <3>1, <3>2, <3>3 DEF OwedInv
  <2> QED BY <2>3, <2>4
<1>9. ASSUME NEW c \in Consumers, Report(c) PROVE OwedInv'
  <2>1. /\ UNCHANGED <<vars, owed, initialized, running, entered, written>> /\ drain[c] = "report"
        /\ drain' = [drain EXCEPT ![c] = "out"] /\ at' = [at EXCEPT ![c] = AfterDrain(c)]
    BY <1>9 DEF Report, flags, ring
  <2>2. UNCHANGED <<refused, delivered>>
    BY <2>1 DEF vars
  <2>3. CASE c # Worker
    <3>1. drain'[Worker] = drain[Worker] /\ at'[Worker] = at[Worker]
      BY <2>1, <2>3
    <3> QED BY <1>1, <1>2, <1>3, <1>4, <2>1, <2>2, <3>1, <1>c, OwedKept
  <2>4. CASE c = Worker
    <3>1. /\ at[Worker] \in {"drain", "last"}
          /\ drain'[Worker] = "out" /\ at'[Worker] = AfterDrain(Worker)
      BY <1>1, <2>1, <2>4 DEF DrainInv, Places, DrainsSomewhere, WorkerSteps
    <3>2. /\ at[Worker] = "drain" => at'[Worker] = "sleep"
          /\ at[Worker] = "last" => at'[Worker] = "ended"
      BY <3>1 DEF AfterDrain
    <3>3. /\ owed \in [rt : Nat, ring : Nat] /\ owed.ring <= entered
          /\ at[Worker] = "last" => ~running /\ written >= owed.ring
          /\ initialized
          /\ at[Worker] = "last" => (Clean => Len(delivered) >= owed.rt)
      BY <2>1, <2>4, <3>1 DEF OwedInv
    <3> QED BY <1>c, <1>2, <1>3, <2>1, <2>2, <3>1, <3>2, <3>3 DEF OwedInv
  <2> QED BY <2>3, <2>4
<1>10. ASSUME WorkerTest PROVE OwedInv'
  <2>1. /\ UNCHANGED <<vars, owed, initialized, running, entered, written>> /\ at[Worker] = "sleep"
        /\ drain' = [drain EXCEPT ![Worker] = "rt"]
        /\ at' = [at EXCEPT ![Worker] = IF running THEN "drain" ELSE "last"]
    BY <1>10 DEF WorkerTest, Enter, flags, ring
  <2>2. /\ drain'[Worker] = "rt" /\ at'[Worker] = IF running THEN "drain" ELSE "last"
    BY <1>1, <2>1 DEF DrainInv, Places
  <2>3. /\ owed \in [rt : Nat, ring : Nat] /\ owed.ring <= entered /\ initialized
    BY <2>1 DEF OwedInv
  <2> QED BY <1>c, <1>2, <1>3, <2>1, <2>2, <2>3 DEF OwedInv
<1>11. ASSUME UNCHANGED <<vars, entered, written, initialized, at[Worker], drain[Worker]>>,
              running' = FALSE, owed' = IF running THEN Entered ELSE owed
       PROVE  OwedInv'
  <2>1. UNCHANGED <<refused, delivered, producer, claim_index>>
    BY <1>11 DEF vars
  <2>2. CASE ~running
    BY <1>c, <1>2, <1>11, <2>1, <2>2 DEF OwedInv
  <2>3. CASE running
    <3>1. at[Worker] \notin {"last", "ended"} /\ initialized
      BY <2>3 DEF OwedInv
    <3>2. /\ owed' \in [rt : Nat, ring : Nat] /\ owed'.ring = entered
          /\ \A k \in Nat : k < owed'.rt => Returned(k)
      BY <1>1, <1>3, <1>11, <2>3, EnteredReturned
    <3>3. \A k \in Nat : k < owed'.rt => Returned(k)'
      BY <2>1, <3>2 DEF Returned, Busy
    <3>4. owed'.ring <= entered
      BY <1>3, <3>2
    <3> QED BY <1>c, <1>3, <1>11, <3>1, <3>2, <3>3, <3>4 DEF OwedInv
  <2> QED BY <2>2, <2>3
<1>12. ASSUME NEW c \in Callers, ShutdownLower(c) PROVE OwedInv'
  <2>1. c # Worker /\ UNCHANGED <<vars, entered, written, initialized, drain>>
    BY <1>12, ArchivistAssumption DEF ShutdownLower, ring
  <2>2. at'[Worker] = at[Worker]
    BY <1>12, <2>1 DEF ShutdownLower
  <2> QED BY <1>11, <1>12, <2>1, <2>2 DEF ShutdownLower
<1>13. ASSUME Destroy PROVE OwedInv'
  BY <1>11, <1>13 DEF Destroy, ring, threads
<1>14. ASSUME NEW c \in Callers, Shutdown(c) \/ Flush(c) \/ ShutdownEnter(c) \/ ShutdownJoin(c)
       PROVE  OwedInv'
  <2>1. c # Worker /\ UNCHANGED <<vars, owed, entered, written, initialized, running>>
    BY <1>14, ArchivistAssumption DEF Shutdown, Flush, ShutdownEnter, ShutdownJoin, flags, ring
  <2>2. at'[Worker] = at[Worker] /\ drain'[Worker] = drain[Worker]
    <3>1. /\ drain' = drain \/ drain' = [drain EXCEPT ![c] = "rt"]
          /\ \E place : at' = [at EXCEPT ![c] = place]
      BY <1>14 DEF Shutdown, Flush, ShutdownEnter, ShutdownJoin, Enter
    <3> QED BY <1>1, <2>1, <3>1 DEF DrainInv, Places
  <2>3. UNCHANGED <<refused, delivered>>
    BY <2>1 DEF vars
  <2> QED BY <1>1, <1>2, <1>3, <1>4, <2>1, <2>2, <2>3, <1>c, OwedKept
<1>15. ASSUME NEW c \in Callers, ShutdownReset(c) PROVE OwedInv'
  <2>1. /\ c # Worker /\ UNCHANGED <<vars, owed, entered, written, running, drain>>
        /\ at[c] \in {"reset", "leave"}
    BY <1>15, ArchivistAssumption DEF ShutdownReset, ring
  <2>2. at'[Worker] = at[Worker] /\ at[Worker] = "ended"
    BY <1>15, <1>1, <2>1 DEF ShutdownReset, DrainInv, OneShutdown, Places
  <2>3. UNCHANGED <<refused, delivered>>
    BY <2>1 DEF vars
  <2> QED BY <1>c, <1>2, <2>1, <2>2, <2>3 DEF OwedInv
<1>16. ASSUME UNCHANGED avars PROVE OwedInv'
  <2>1. UNCHANGED <<owed, initialized, running, at, drain, written, entered, refused, delivered>>
    BY <1>16 DEF avars, vars, flags, threads, ring
  <2> QED BY <1>1, <1>2, <1>3, <1>4, <2>1, <1>c, OwedKept
<1> QED
  BY <1>5, <1>6, <1>7, <1>8, <1>9, <1>10, <1>12, <1>13, <1>14, <1>15, <1>16
  DEF ANext, Drain, Call

\* For any threads that log, shut down and flush, and rings of any size, as long
\* as no two threads were in drain_ring_buffer at once: when shutdown() has
\* returned, or ~Impl has joined the worker, every entry that was in
\* m_ring_buffer before the worker was told to stop has been written, and so has
\* every entry of the real-time ring unless a push was refused or lapped.
THEOREM ShutdownLosesNothing == ASpec => []OwedIsWritten
<1>1. DrainInv /\ RtInv /\ DropInv /\ DropInv' /\ OwedInv /\ [ANext]_avars => OwedInv'
  BY NextOwed DEF DropInv
<1>2. OwedInv => OwedIsWritten
  BY DEF OwedInv, OwedIsWritten, CaughtUp, Clean
<1> QED
  BY <1>1, <1>2, InitDrain, NextDrain, InitRt, NextRt, InitDrop, NextDrop, InitOwed, PTL
  DEF ASpec
==============================================================================
