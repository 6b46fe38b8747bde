---------------------------- MODULE Vruta_proofs -----------------------------
(***************************************************************************)
(* Vruta's coroutines: the gate of a CrossRoutine lets one pump at a time  *)
(* run the body, and the coroutine that waits for a BroadcastSource is     *)
(* never lost.  Both are proved for all values of the constants, each from *)
(* its own specification.                                                  *)
(***************************************************************************)
EXTENDS CrossRoutine, BroadcastSource, TLAPS

------------------------------------------------------------------------------
(* Cross routines *)

\* What the proof needs of the types: the steps are functions of the pumps.
PcType == pc \in [Pumps -> Steps]

\* A body that started on MultiRateDelay never gets back to the context of
\* GetCrossPromise, so no pump goes down the path that claims nothing.
NeverAwaits ==
  first = "MULTIPLE" =>
    /\ active_delay_context \in {"NONE", "MULTIPLE"}
    /\ \A t \in Pumps : pc[t] # "initialize"

\* OneRunner is not inductive without it: a pump on that path would enter the
\* body beside the one that claimed it.
GateInv == PcType /\ NeverAwaits /\ OneRunner

LEMMA InitGate == CrossInit => GateInv
<1> SUFFICES ASSUME CrossInit PROVE GateInv
  OBVIOUS
<1>1. pc = [t \in Pumps |-> "idle"] /\ active_delay_context = first
  BY DEF CrossInit
<1> QED BY <1>1 DEF GateInv, PcType, NeverAwaits, OneRunner, Steps, InBody, Pumps

\* The step of one pump that neither enters nor leaves the body and does not
\* touch the context keeps the invariant.
LEMMA QuietStep ==
  ASSUME GateInv, NEW t \in Pumps, NEW there \in Steps,
         pc' = [pc EXCEPT ![t] = there],
         UNCHANGED <<active_delay_context, first>>,
         there # "initialize",
         there \in InBody => pc[t] \in InBody
  PROVE  GateInv'
BY DEF GateInv, PcType, NeverAwaits, OneRunner, Steps, InBody, Pumps

\* Every step of both pumps and of the control thread keeps the invariant.
LEMMA NextGate == GateInv /\ [CrossNext]_crossvars => GateInv'
<1> SUFFICES ASSUME GateInv, [CrossNext]_crossvars PROVE GateInv'
  OBVIOUS
<1>1. ASSUME NEW t \in Pumps, Offer(t) PROVE GateInv'
  <2>1. PICK there \in {"idle", "load"} : pc' = [pc EXCEPT ![t] = there]
    BY <1>1 DEF Offer, Goto
  <2> QED BY <1>1, <2>1, QuietStep DEF Offer, promise, control, Steps, InBody
<1>2. ASSUME NEW t \in Pumps, Load(t) PROVE GateInv'
  <2>1. UNCHANGED <<active_delay_context, first>>
    BY <1>2 DEF Load, promise, control
  <2>2. CASE first = "MULTIPLE"
    <3>1. PICK there \in {"idle", "armed"} : pc' = [pc EXCEPT ![t] = there]
      BY <1>2, <2>2 DEF Load, Goto, GateInv, NeverAwaits
    <3> QED BY <2>1, <3>1, QuietStep DEF Steps, InBody
  <2>3. CASE first # "MULTIPLE"
    BY <1>2, <2>1, <2>3 DEF Load, Goto, GateInv, PcType, NeverAwaits, OneRunner, Steps
  <2> QED BY <2>2, <2>3
<1>3. ASSUME NEW t \in Pumps, Initialize(t) PROVE GateInv'
  BY <1>3 DEF Initialize, Goto, control, GateInv, PcType, NeverAwaits, OneRunner, Steps
<1>4. ASSUME NEW t \in Pumps, Armed(t) \/ Reached(t) \/ Satisfy(t) \/ Require(t)
      PROVE GateInv'
  <2>1. PICK there \in {"reached", "satisfy", "require", "sample"} :
          pc' = [pc EXCEPT ![t] = there]
    BY <1>4 DEF Armed, Reached, Satisfy, Require, Goto
  <2>2. UNCHANGED <<active_delay_context, first>>
    BY <1>4 DEF Armed, Reached, Satisfy, Require, promise, control
  <2> QED BY <2>1, <2>2, QuietStep DEF Steps, InBody
<1>5. ASSUME NEW t \in Pumps, Test(t) PROVE GateInv'
  <2>1. PICK there \in {"idle", "frame", "claim"} : pc' = [pc EXCEPT ![t] = there]
    BY <1>5 DEF Test, Tested, Goto
  <2>2. UNCHANGED <<active_delay_context, first>>
    BY <1>5 DEF Test, Tested, promise, control
  <2> QED BY <2>1, <2>2, QuietStep DEF Steps, InBody
<1>6. ASSUME NEW t \in Pumps, ClaimResume(t) PROVE GateInv'
  BY <1>6 DEF ClaimResume, Goto, control, GateInv, PcType, NeverAwaits, OneRunner, Steps,
              InBody, Pumps
<1>7. ASSUME NEW t \in Pumps, Clear(t) \/ Body(t) \/ StoreAmounts(t) PROVE GateInv'
  <2>1. PICK there \in InBody : pc' = [pc EXCEPT ![t] = there]
    BY <1>7 DEF Clear, Cleared, Body, StoreAmounts, Stored, Goto, InBody
  <2>2. pc[t] \in InBody
    BY <1>7 DEF Clear, Cleared, Body, StoreAmounts, Stored, InBody
  <2>3. UNCHANGED <<active_delay_context, first>>
    BY <1>7 DEF Clear, Cleared, Body, StoreAmounts, Stored, control
  <2> QED BY <2>1, <2>2, <2>3, QuietStep DEF Steps, InBody
<1>8. ASSUME NEW t \in Pumps, Publish(t) PROVE GateInv'
  BY <1>8 DEF Publish, Goto, control, GateInv, PcType, NeverAwaits, OneRunner, Steps,
              InBody, Pumps
<1>9. ASSUME NEW t \in Pumps, Return(t) PROVE GateInv'
  BY <1>9, QuietStep DEF Return, Goto, promise, control, Steps, InBody
<1>10. ASSUME Pause \/ Cancel \/ UNCHANGED crossvars PROVE GateInv'
  BY <1>10 DEF Pause, Cancel, crossvars, promise, control, GateInv, PcType, NeverAwaits, OneRunner
<1> QED
  BY <1>1, <1>2, <1>3, <1>4, <1>5, <1>6, <1>7, <1>8, <1>9, <1>10 DEF CrossNext, Pump

\* For every MaxDelay and MaxClock, and whatever bodies start on: a body that
\* starts on MultiRateDelay is run by at most one of the two pumps at any
\* time, and its context is NONE while it runs (the compare-exchange of
\* CrossRoutine::try_resume_with_context).
THEOREM GateExcludes == CrossSpec => []OneRunner
<1>1. GateInv => OneRunner
  BY DEF GateInv
<1> QED BY <1>1, InitGate, NextGate, PTL DEF CrossSpec

------------------------------------------------------------------------------
(* Broadcast sources *)

\* The places of the threads are known.
Placed == where \in [Threads -> Places]

LEMMA NotLostInit == BInit => Placed /\ NeverLost
BY DEF BInit, Placed, NeverLost, Holders, Threads, Places, InCoroutine

\* The coroutine is passed from hand to hand: whoever lets go of it has registered it or
\* given it to the thread that goes on with it.
LEMMA NotLostNext == Placed /\ NeverLost /\ [BNext]_bvars => Placed' /\ NeverLost'
<1> SUFFICES ASSUME Placed, NeverLost, [BNext]_bvars PROVE Placed' /\ NeverLost'
  OBVIOUS
<1> USE DEF Places, InCoroutine, InSignal
<1>1. ASSUME NEW t \in Threads, NEW to \in Places, where' = [where EXCEPT ![t] = to],
             to \in InCoroutine \union {"deliver"} \/ where[t] \notin InCoroutine \union {"deliver"},
             m_waiter' = m_waiter, gone' = gone
      PROVE  Placed' /\ NeverLost'
  BY <1>1 DEF Placed, NeverLost, Holders
<1>2. ASSUME NEW t \in Threads, NEW to \in InCoroutine \union {"deliver"},
             where' = [where EXCEPT ![t] = to]
      PROVE  Placed' /\ NeverLost'
  BY <1>2 DEF Placed, NeverLost, Holders
<1>3. Signallers \subseteq Threads
  BY DEF Threads
<1>4. ASSUME NEW t \in Signallers, BeginSignal(t) PROVE Placed' /\ NeverLost'
  <2>1. CASE m_waiter
    BY <1>2, <1>3, <1>4, <2>1 DEF BeginSignal, Move
  <2>2. CASE ~m_waiter
    BY <1>1, <1>3, <1>4, <2>2 DEF BeginSignal, Move, NeverLost, Placed, Holders
  <2> QED BY <2>1, <2>2
<1>5. ASSUME NEW t \in Signallers, Deliver(t) PROVE Placed' /\ NeverLost'
  BY <1>2, <1>3, <1>5 DEF Deliver, Move
<1>6. ASSUME NEW t \in Signallers, StoreValue(t) \/ RaiseFlag(t) PROVE Placed' /\ NeverLost'
  BY <1>1, <1>3, <1>6 DEF StoreValue, RaiseFlag, Move, history
<1>7. ASSUME NEW t \in Threads, AwaitReady(t) \/ PopValue(t) \/ ConsumeFlag(t) \/ Unregister(t)
      PROVE  Placed' /\ NeverLost'
  BY <1>2, <1>7 DEF AwaitReady, PopValue, ConsumeFlag, Unregister, Move
<1>8. ASSUME NEW t \in Threads, Register(t) PROVE Placed' /\ NeverLost'
  BY <1>8 DEF Register, Move, Placed, NeverLost
<1>9. ASSUME NEW t \in Threads, AwaitSuspend(t) PROVE Placed' /\ NeverLost'
  BY <1>1, <1>9 DEF AwaitSuspend, Move, source, history
<1>10. ASSUME NEW t \in Threads, Handle(t) PROVE Placed' /\ NeverLost'
  BY <1>10 DEF Handle, Move, Placed, NeverLost, Holders
<1>11. CASE CancelEvent \/ DiscardPending \/ UNCHANGED bvars
  BY <1>11 DEF CancelEvent, DiscardPending, bvars, source, history, Placed, NeverLost, Holders
<1>12. CASE DropEvent
  BY <1>12 DEF DropEvent, Placed, NeverLost
<1> QED BY <1>4, <1>5, <1>6, <1>7, <1>8, <1>9, <1>10, <1>11, <1>12 DEF BNext

\* For any threads that signal at any time, values kept or delivered, discarded or
\* cancelled: the coroutine of on_signal is never lost between signal and await_suspend.
THEOREM CoroutineKept == BSpec => []NeverLost
BY NotLostInit, NotLostNext, PTL DEF BSpec
==============================================================================
