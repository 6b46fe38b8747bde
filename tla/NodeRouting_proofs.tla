-------------------------- MODULE NodeRouting_proofs --------------------------
(***************************************************************************)
(* A node on several channels: once per frame when the topology is at      *)
(* rest, silent where it is taken off, and faded one way by a route that   *)
(* is not cut short.  For any number of channels, frames per callback and  *)
(* calls.                                                                  *)
(***************************************************************************)
EXTENDS NodeRouting, Integers, TLAPS

------------------------------------------------------------------------------
(* Numbers: quotients, for the share of a fade that is done *)

\* What x % M and x \div M are.
LEMMA DivMod ==
  ASSUME NEW x \in Int, NEW M \in Nat \ {0}
  PROVE  /\ x \div M \in Int /\ x % M \in Int
         /\ 0 <= x % M /\ x % M < M
         /\ x % M = x - M * (x \div M)
<1>1. M \in Int /\ M > 0
  OBVIOUS
<1>2. x % M = x - M * (x \div M)
  BY <1>1
<1>3. x \div M \in Int /\ x % M \in Int /\ 0 <= x % M /\ x % M < M
  BY <1>1
<1> QED BY <1>2, <1>3, Zenon

\* Quotients grow with the dividend.
LEMMA DivGrows ==
  ASSUME NEW x \in Int, NEW y \in Int, NEW M \in Nat \ {0}, x <= y
  PROVE  x \div M <= y \div M
<1> DEFINE q == x \div M
           r == x % M
           p == y \div M
           s == y % M
<1>1. q \in Int /\ r \in Int /\ 0 <= r /\ r = x - M * q
  BY DivMod
<1>2. p \in Int /\ s \in Int /\ s < M /\ s = y - M * p
  BY DivMod
<1> HIDE DEF q, r, p, s
<1>3. SUFFICES ASSUME q - p >= 1 PROVE FALSE
  BY <1>1, <1>2 DEF q, p
<1>4. M * (q - p) >= M
  BY <1>1, <1>2, <1>3
<1>5. M * (q - p) = M * q - M * p
  BY <1>1, <1>2
<1> QED BY <1>1, <1>2, <1>4, <1>5

\* The quotient of a number between 0 and M * u.
LEMMA DivBounds ==
  ASSUME NEW x \in Nat, NEW u \in Nat, NEW M \in Nat \ {0}, x <= M * u
  PROVE  x \div M \in Nat /\ x \div M <= u
<1> DEFINE q == x \div M
           r == x % M
<1>1. q \in Int /\ r \in Int /\ 0 <= r /\ r < M /\ r = x - M * q
  BY DivMod
<1> HIDE DEF q, r
<1>2. q >= 0
  <2>1. SUFFICES ASSUME q <= -1 PROVE FALSE
    BY <1>1
  <2>2. M * q <= -M
    BY <1>1, <2>1
  <2> QED BY <1>1, <2>2
<1>3. q <= u
  <2>1. SUFFICES ASSUME q - u >= 1 PROVE FALSE
    BY <1>1
  <2>2. M * (q - u) >= M
    BY <1>1, <2>1
  <2>3. M * (q - u) = M * q - M * u
    BY <1>1
  <2> QED BY <1>1, <2>2, <2>3
<1> QED BY <1>1, <1>2, <1>3 DEF q

------------------------------------------------------------------------------
(* Types *)

RoutingState == [phase : {"NONE", "ACTIVE", "COMPLETED"}, from_channels : SUBSET Channels,
                 to_channels : SUBSET Channels, fade_cycles : Nat, cycles_elapsed : Nat,
                 amount : [Channels -> Int]]

\* What the proofs use of the types; how far count can go is not among it.
Typed ==
  /\ m_active_channels_mask \subseteq Channels /\ m_pending_reset_mask \subseteq Channels
  /\ PROCESSED \in BOOLEAN
  /\ listed \subseteq Channels
  /\ pending_ops \in [Channels -> Seq(BOOLEAN)]
  /\ audio \in AudioState /\ control \in ControlState
  /\ calm \in 0 .. 3
  /\ m_routing_state \in RoutingState /\ route_state \in RoutingState
  /\ callback \in {"update", "frames", "reset", "unset", "unset_pending", "op"}
  /\ joining \subseteq Channels /\ leaving \subseteq Channels
  /\ level \in [Channels -> Int]

LEMMA ChannelFacts == NumChannels \in Nat \ {0} /\ 0 \in Channels /\ Channels \subseteq Nat
BY ChannelsAssumption DEF Channels

LEMMA InitTyped == RInit => Typed
<1> SUFFICES ASSUME RInit PROVE Typed
  OBVIOUS
<1>1. AtFrame \in AudioState /\ NoCall \in ControlState /\ <<>> \in Seq(BOOLEAN)
  BY ChannelFacts DEF AtFrame, AudioState, NoCall, ControlState
<1>2. NoRoute \in RoutingState
  BY DEF NoRoute, RoutingState
<1>3. PROCESSED \in BOOLEAN
  BY DEF RInit, Init
<1> QED BY <1>1, <1>2, <1>3 DEF RInit, Init, Typed

\* process_pending_operations leaves the queue of the channel empty.
LEMMA DrainedTyped ==
  ASSUME Typed, NEW ch \in Channels, Drained(ch)
  PROVE  /\ pending_ops' \in [Channels -> Seq(BOOLEAN)] /\ listed' \subseteq Channels
         /\ PROCESSED' \in BOOLEAN /\ pending_ops'[ch] = <<>>
         /\ \A d \in Channels : d # ch => pending_ops'[d] = pending_ops[d]
<1>1. PROCESSED' \in BOOLEAN
  BY DEF Drained
<1> QED BY <1>1 DEF Typed, Drained

\* The steps of the control thread inside a call.
LEMMA JoiningTyped ==
  ASSUME NEW rest
  PROVE  /\ Joining(rest) \in ControlState
         /\ Joining(rest).at \in {"idle", "join"}
BY ChannelFacts DEF Joining, NoCall, ControlState

LEMMA ControlTyped ==
  ASSUME Typed, \/ \E ch \in Channels, add \in BOOLEAN : Meddle(ch, add)
                \/ Control
  PROVE  Typed'
<1>1. ASSUME NEW ch \in Channels, NEW add \in BOOLEAN, Meddle(ch, add) PROVE Typed'
  <2>1. control' \in ControlState /\ calm' = 0
    BY <1>1 DEF Meddle, Call, ControlState
  <2> QED BY <1>1, <2>1 DEF Meddle, Call, Typed, masks
<1>2. control.ch \in Channels /\ control.add \in BOOLEAN
  BY DEF Typed, ControlState
<1>3. ASSUME NEW a \in {"op", "unset_pending"}, control' = [control EXCEPT !.at = a]
      PROVE  control' \in ControlState
  BY <1>3 DEF Typed, ControlState
<1>4. CASE Control
  <2>1. CASE SetActive
    <3>1. control' \in ControlState
      BY <1>3, <2>1 DEF SetActive
    <3> QED BY <1>2, <1>4, <2>1, <3>1 DEF Control, SetActive, UnsetActive, UnsetPending, QueueOp, Typed, routing
  <2>2. CASE UnsetActive
    <3>1. control' \in ControlState
      BY <1>3, <2>2 DEF UnsetActive
    <3> QED BY <1>4, <2>2, <3>1 DEF Control, SetActive, UnsetActive, UnsetPending, QueueOp, Typed, routing
  <2>3. CASE UnsetPending
    <3>1. control' \in ControlState
      BY <1>3, <2>3 DEF UnsetPending
    <3> QED BY <1>4, <2>3, <3>1 DEF Control, SetActive, UnsetActive, UnsetPending, QueueOp, Typed, routing
  <2>4. CASE QueueOp(Joining(joining))
    <3>1. control' \in ControlState
      BY <2>4, JoiningTyped DEF QueueOp
    <3>2. pending_ops' \in [Channels -> Seq(BOOLEAN)]
      BY <1>2, <2>4 DEF QueueOp, Typed
    <3> QED BY <1>4, <2>4, <3>1, <3>2 DEF Control, SetActive, UnsetActive, UnsetPending, QueueOp, Typed, routing, masks
  <2> QED BY <1>4, <2>1, <2>2, <2>3, <2>4 DEF Control
<1> QED BY <1>1, <1>4

\* A share of Unit is a number.
LEMMA UpdatedTyped ==
  ASSUME NEW state \in RoutingState
  PROVE  /\ Updated(state) \in RoutingState
         /\ Updated(state).from_channels = state.from_channels
         /\ Updated(state).to_channels = state.to_channels
         /\ Updated(state).phase = IF Faded(state) THEN "COMPLETED" ELSE state.phase
<1> DEFINE elapsed == state.cycles_elapsed + 1
           share == (Unit * elapsed) \div state.fade_cycles
           progress == IF elapsed < state.fade_cycles THEN share ELSE Unit
           amount == Amounts(state.from_channels, state.to_channels, progress)
           phase == IF Faded(state) THEN "COMPLETED" ELSE state.phase
<1>1. elapsed \in Nat /\ state.fade_cycles \in Nat /\ Unit \in Nat
  BY RoutingAssumption DEF RoutingState
<1>2. progress \in Int
  <2>1. CASE elapsed < state.fade_cycles
    <3>1. state.fade_cycles \in Nat \ {0} /\ Unit * elapsed \in Int
      BY <1>1, <2>1
    <3>2. share \in Int
      BY <3>1, DivMod
    <3> QED BY <2>1, <3>2
  <2> QED BY <1>1, <2>1
<1> HIDE DEF progress
<1>3. amount \in [Channels -> Int]
  BY <1>1, <1>2 DEF Amounts
<1>4. phase \in {"NONE", "ACTIVE", "COMPLETED"}
  BY DEF RoutingState
<1>5. Updated(state) = [state EXCEPT !.cycles_elapsed = elapsed, !.amount = amount, !.phase = phase]
  BY DEF Updated, progress
<1> HIDE DEF elapsed, amount, phase
<1>6. Updated(state) \in RoutingState
  BY <1>1, <1>3, <1>4, <1>5 DEF RoutingState
<1> QED BY <1>5, <1>6 DEF RoutingState, phase

LEMMA NewStateTyped ==
  ASSUME NEW from \in SUBSET Channels, NEW target \in SUBSET Channels, NEW fade \in Fades
  PROVE  NewState(from, target, fade) \in RoutingState
<1>1. Unit \in Int /\ fade \in Nat
  BY RoutingAssumption
<1>2. [ch \in Channels |-> IF ch \in from THEN Unit ELSE 0] \in [Channels -> Int]
  BY <1>1
<1> QED BY <1>1, <1>2 DEF NewState, RoutingState

LEMMA NoRouteTyped == NoRoute \in RoutingState /\ NoRoute.phase = "NONE"
BY DEF NoRoute, RoutingState

\* The steps of a route.
LEMMA RouteTyped ==
  ASSUME Typed, \/ \E target \in SUBSET Channels, fade \in Fades : RouteRead(target, fade)
                \/ RouteStore
                \/ \E ch \in joining : Join(ch)
  PROVE  Typed'
<1>1. ASSUME NEW target \in SUBSET Channels, NEW fade \in Fades, RouteRead(target, fade) PROVE Typed'
  <2>1. route_state' \in RoutingState
    BY <1>1, NewStateTyped DEF RouteRead, Typed
  <2>2. control' \in ControlState
    BY <1>1, ChannelFacts DEF RouteRead, NoCall, ControlState
  <2>3. calm' = 0 /\ calm' \in 0 .. 3
    BY <1>1 DEF RouteRead
  <2> QED BY <1>1, <2>1, <2>2, <2>3 DEF RouteRead, Typed, masks
<1>2. CASE RouteStore
  <2>1. control' \in ControlState
    BY <1>2, JoiningTyped DEF RouteStore
  <2>2. route_state' \in RoutingState /\ m_routing_state' \in RoutingState /\ joining' \subseteq Channels
    BY <1>2, NoRouteTyped DEF RouteStore, Typed, RoutingState
  <2> QED BY <1>2, <2>1, <2>2 DEF RouteStore, Typed, masks
<1>3. ASSUME NEW ch \in joining, Join(ch) PROVE Typed'
  <2>1. control' \in ControlState /\ joining' \subseteq Channels
    BY <1>3 DEF Join, Typed, ControlState
  <2> QED BY <1>3, <2>1 DEF Join, Typed, masks
<1> QED BY <1>1, <1>2, <1>3

\* Where the audio thread is inside a frame.
LEMMA AudioTyped ==
  ASSUME Typed, Frame
  PROVE  audio' \in AudioState
<1>1. ASSUME NEW a \in {"visit", "or", "test", "cas", "post"}, audio' = [audio EXCEPT !.at = a]
      PROVE  audio' \in AudioState
  BY <1>1 DEF Typed, AudioState
<1>2. CASE BeginFrame
  BY <1>2, ChannelFacts DEF BeginFrame, AtFrame, AudioState
<1>3. CASE ResetOr
  BY <1>3 DEF ResetOr, Typed, AudioState
<1>4. CASE Postprocess
  <2>1. audio.ch \in Channels
    BY DEF Typed, AudioState
  <2>2. \A ch \in Channels : ch + 1 \in Channels \/ ch = NumChannels - 1
    BY ChannelFacts DEF Channels
  <2>3. audio.ch + 1 \in Channels \/ audio.ch = NumChannels - 1
    BY <2>1, <2>2
  <2> QED BY <1>4, <2>3, ChannelFacts DEF Postprocess, AtFrame, AudioState
<1>5. CASE Preprocess
  BY <1>1, <1>5 DEF Preprocess
<1>6. CASE Visit
  BY <1>1, <1>6 DEF Visit
<1>7. CASE VisitOthers
  BY <1>1, <1>7 DEF VisitOthers
<1>8. CASE ResetTest
  BY <1>1, <1>8 DEF ResetTest
<1>9. CASE ResetCas
  BY <1>1, <1>9 DEF ResetCas
<1> QED BY <1>2, <1>3, <1>4, <1>5, <1>6, <1>7, <1>8, <1>9 DEF Frame

LEMMA FrameTyped ==
  ASSUME Typed, Frame
  PROVE  Typed'
<1>1. audio' \in AudioState /\ audio.ch \in Channels
  BY AudioTyped DEF Typed, AudioState
<1>2. Unit \in Int /\ \A ch \in Channels : m_routing_state.amount[ch] \in Int
  BY RoutingAssumption DEF Typed, RoutingState
<1>3. CASE callback = "frames" /\ frames > 0 /\ BeginFrame /\ frames' = frames - 1
           /\ UNCHANGED <<m_routing_state, registered, callback, routes, route_state, joining, leaving,
                          level, wanted, clean>>
  <2>1. calm' \in 0 .. 3
    BY <1>3 DEF BeginFrame, Typed
  <2> QED BY <1>1, <1>3, <2>1 DEF BeginFrame, Typed, masks
<1>4. CASE Visit /\ level' = [level EXCEPT ![audio.ch] =
                       IF needs_channel_routing THEN m_routing_state.amount[audio.ch] ELSE Unit]
           /\ UNCHANGED <<m_routing_state, registered, frames, callback, routes, route_state, joining, leaving,
                          wanted, clean>>
  <2>1. level' \in [Channels -> Int]
    BY <1>1, <1>2, <1>4 DEF Typed
  <2>2. PROCESSED' \in BOOLEAN
    BY <1>4 DEF Visit
  <2> QED BY <1>1, <1>4, <2>1, <2>2 DEF Visit, Typed, masks
<1>5. CASE VisitOthers /\ level' = [level EXCEPT ![audio.ch] = 0]
           /\ UNCHANGED <<m_routing_state, registered, frames, callback, routes, route_state, joining, leaving,
                          wanted, clean>>
  <2>1. level' \in [Channels -> Int]
    BY <1>1, <1>5 DEF Typed
  <2> QED BY <1>1, <1>5, <2>1 DEF VisitOthers, Typed, masks
<1>6. CASE (Preprocess \/ Postprocess) /\ UNCHANGED routing
  <2>1. Drained(audio.ch) /\ UNCHANGED <<masks, control, calls, count, calm>>
    BY <1>6 DEF Preprocess, Postprocess
  <2> QED BY <1>1, <1>6, <2>1, DrainedTyped DEF Typed, masks, routing
<1>7. CASE ResetOr /\ UNCHANGED routing
  BY <1>1, <1>7 DEF ResetOr, Typed, routing
<1>8. CASE ResetTest /\ UNCHANGED routing
  BY <1>1, <1>8 DEF ResetTest, Typed, masks, routing
<1>9. CASE ResetCas /\ UNCHANGED routing
  <2>1. PROCESSED' \in BOOLEAN
    BY <1>9 DEF ResetCas, Typed
  <2> QED BY <1>1, <1>9, <2>1 DEF ResetCas, Typed, routing
<1> QED BY <1>3, <1>4, <1>5, <1>6, <1>7, <1>8, <1>9 DEF Frame

\* The steps of a removal, one at a time.
Unset(ch) == /\ callback = "unset" /\ callback' = "unset_pending"
             /\ m_active_channels_mask' = m_active_channels_mask \ {ch}
             /\ UNCHANGED <<m_pending_reset_mask, pending_ops, leaving>>
UnsetReset(ch) == /\ callback = "unset_pending" /\ callback' = "op"
                  /\ m_pending_reset_mask' = m_pending_reset_mask \ {ch}
                  /\ UNCHANGED <<m_active_channels_mask, pending_ops, leaving>>
Removal(ch) == /\ callback = "op" /\ callback' \in {"update", "unset"}
               /\ callback' = "update" <=> leaving' = {}
               /\ pending_ops' = [pending_ops EXCEPT ![ch] = Append(@, FALSE)]
               /\ leaving' = leaving \ {ch}
               /\ UNCHANGED masks

LEMMA RemoveSteps ==
  ASSUME CleanupRemove
  PROVE  /\ calm' = 0
         /\ UNCHANGED <<PROCESSED, listed, audio, control, count, m_routing_state, frames, routes,
                        route_state, joining, level, wanted, clean>>
         /\ \E ch \in leaving : Unset(ch) \/ UnsetReset(ch) \/ Removal(ch)
BY DEF CleanupRemove, Leaving, Unset, UnsetReset, Removal

LEMMA RemoveTyped ==
  ASSUME Typed, CleanupRemove
  PROVE  Typed'
<1>1. PICK ch \in leaving : Unset(ch) \/ UnsetReset(ch) \/ Removal(ch)
  BY RemoveSteps
<1>2. ch \in Channels /\ calm' \in 0 .. 3
  BY RemoveSteps DEF Typed
<1>3. CASE Unset(ch)
  BY <1>2, <1>3, RemoveSteps DEF Unset, Typed
<1>4. CASE UnsetReset(ch)
  BY <1>2, <1>4, RemoveSteps DEF UnsetReset, Typed
<1>5. CASE Removal(ch)
  <2>1. pending_ops' \in [Channels -> Seq(BOOLEAN)]
    BY <1>2, <1>5 DEF Removal, Typed
  <2> QED BY <1>2, <1>5, <2>1, RemoveSteps DEF Removal, Typed, masks
<1> QED BY <1>1, <1>3, <1>4, <1>5

LEMMA TypedStep == Typed /\ [RNext]_rvars => Typed'
<1> SUFFICES ASSUME Typed, [RNext]_rvars PROVE Typed'
  OBVIOUS
<1>1. CASE Update
  <2>1. m_routing_state' \in RoutingState
    BY <1>1, UpdatedTyped DEF Update, Typed
  <2> QED BY <1>1, <2>1 DEF Update, Typed, vars, masks
<1>2. CASE Cleanup
  <2>1. leaving' \subseteq Channels /\ callback' \in {"update", "reset"}
    BY <1>2 DEF Cleanup, Typed, RoutingState
  <2> QED BY <1>2, <2>1 DEF Cleanup, Typed, vars, masks
<1>4. CASE CleanupReset
  <2>1. m_routing_state' \in RoutingState /\ callback' \in {"update", "unset"}
    BY <1>4, NoRouteTyped DEF CleanupReset, Leaving
  <2> QED BY <1>4, <2>1 DEF CleanupReset, Typed, vars, masks
<1>5. CASE CleanupRemove
  BY <1>5, RemoveTyped
<1>3. CASE UNCHANGED rvars
  BY <1>3 DEF rvars, vars, masks, routing, Typed
<1> QED BY <1>1, <1>2, <1>3, <1>4, <1>5, ControlTyped, RouteTyped, FrameTyped DEF RNext, Callback

------------------------------------------------------------------------------
(* Frames at rest: the invariants *)

Mid == audio.at \in {"or", "test", "cas"}

\* The channels that have asked for the reset in this frame, or in the frame
\* that has just ended.
Asked == CASE audio.at = "frame" -> listed
           [] audio.at = "post" -> {x \in listed : x <= audio.ch}
           [] OTHER -> {x \in listed : x < audio.ch}

\* The same for the channels that have visited the node.
Seen == IF Mid THEN Asked \cup {audio.ch} ELSE Asked

\* With the bit that is set between the fetch_or and the end of the request.
Plus(S) == IF audio.at \in {"test", "cas"} THEN S \cup {audio.ch} ELSE S

After(S, c) == {x \in S : x > c}

FlagAgrees == PROCESSED = (Mid \/ m_pending_reset_mask # {})

\* The first frame at rest: the bits left over from before it go when the channels
\* in the mask have all asked, at channel c; from there on only the later ones are
\* set.
Settling ==
  \/ /\ Plus(Asked) \subseteq m_pending_reset_mask
     /\ audio.at \notin {"test", "cas"} /\ Asked # {} => ~(listed \subseteq m_pending_reset_mask)
  \/ /\ FlagAgrees
     /\ \E c \in Asked : m_pending_reset_mask = Plus(After(Asked, c))

\* The frames after it: the reset falls on the same channel c in each of them, and
\* the channel after c in the ring of channels processes the node.
SettledMask(c) == m_pending_reset_mask = IF c \in Asked THEN Plus(After(Asked, c))
                                         ELSE Plus(After(listed, c) \cup Asked)
SettledCount(c) == count = IF \/ After(listed, c) = {} /\ Seen # {}
                              \/ c \in Asked /\ After(Seen, c) # {}
                           THEN 1 ELSE 0
Settled == FlagAgrees /\ \E c \in listed : SettledMask(c) /\ SettledCount(c)

Resting ==
  /\ Mid => audio.ch \in listed
  /\ audio.at \in {"test", "cas"} => audio.new_pending = m_pending_reset_mask
  /\ audio.at = "cas" => listed \subseteq m_pending_reset_mask
  /\ IF calm = 1 THEN Settling ELSE Settled

\* OncePerFrame is not inductive: it is about the end of a frame.
RestInv == calm >= 1 =>
  /\ NoOpsPending
  /\ listed = m_active_channels_mask /\ listed # {} => Resting

------------------------------------------------------------------------------
(* Frames at rest: the proof *)

\* The channels come in their order.
LEMMA AskedOrder ==
  ASSUME Typed
  PROVE  /\ audio.ch \in Nat /\ listed \subseteq Nat /\ Asked \subseteq listed
         /\ audio.at \notin {"frame", "post"} => \A x \in Asked : x < audio.ch
BY ChannelFacts DEF Typed, AudioState, Asked

LEMMA VisitRests ==
  ASSUME Typed, Resting, Visit
  PROVE  Resting'
<1>1. /\ audio.at = "visit" /\ audio.ch \in listed /\ ~Mid
      /\ audio'.at = "or" /\ audio'.ch = audio.ch
      /\ UNCHANGED <<listed, m_pending_reset_mask, calm>>
  BY DEF Visit, Typed, AudioState, Mid, masks
<1>2. Mid' /\ Asked' = Asked /\ Seen = Asked /\ Seen' = Asked \cup {audio.ch}
  BY <1>1 DEF Mid, Asked, Seen
<1>3. \A S : Plus(S) = S
  BY <1>1 DEF Plus
<1>4. \A S : Plus(S)' = S'
  BY <1>1 DEF Plus
<1>5. FlagAgrees'
  BY <1>2 DEF Visit, FlagAgrees
<1>6. CASE calm = 1
  <2>1. Settling'
    BY <1>1, <1>2, <1>5, <1>6 DEF Resting, Settling, Plus, After
  <2> QED BY <1>1, <1>2, <1>6, <2>1 DEF Resting
<1>7. CASE calm # 1
  <2>1. PICK c \in listed : SettledMask(c) /\ SettledCount(c)
    BY <1>7 DEF Resting, Settled
  <2>2. PROCESSED = (m_pending_reset_mask # {})
    BY <1>1, <1>7 DEF Resting, Settled, FlagAgrees
  <2>3. SettledMask(c)'
    BY <1>1, <1>2, <2>1 DEF SettledMask, Plus, After
  <2>4. c \in Nat /\ audio.ch \in Nat /\ \A x \in Asked : x < audio.ch /\ x \in listed /\ x \in Nat
    BY <1>1, AskedOrder
  <2>5. count' = IF PROCESSED THEN count ELSE count + 1
    BY DEF Visit
  <2>6. SettledCount(c)'
    <3>1. CASE c \in Asked
      <4>1. m_pending_reset_mask = After(Asked, c) /\ audio.ch \in After(listed, c)
        BY <1>1, <1>3, <2>1, <2>4, <3>1 DEF SettledMask, After
      <4>2. audio.ch \in After(Seen', c) /\ c \in Asked'
        BY <1>2, <2>4, <3>1 DEF After
      <4>5. count = IF m_pending_reset_mask # {} THEN 1 ELSE 0
        BY <1>2, <2>1, <3>1, <4>1, Zenon DEF SettledCount
      <4>3. count' = 1
        <5>1. CASE m_pending_reset_mask = {}
          <6>1. count = 0 /\ count' = count + 1
            BY <2>2, <2>5, <4>5, <5>1
          <6> QED BY <6>1
        <5>2. CASE m_pending_reset_mask # {}
          BY <2>2, <2>5, <4>5, <5>2
        <5> QED BY <5>1, <5>2
      <4> QED BY <4>2, <4>3 DEF SettledCount, After
    <3>2. CASE c \notin Asked
      <4>1. m_pending_reset_mask = After(listed, c) \cup Asked
        BY <1>3, <2>1, <3>2 DEF SettledMask
      <4>3. count = IF After(listed, c) = {} /\ Asked # {} THEN 1 ELSE 0
        BY <1>2, <2>1, <3>2 DEF SettledCount
      <4>2. count' = IF After(listed, c) = {} THEN 1 ELSE 0
        <5>1. CASE m_pending_reset_mask = {}
          <6>1. After(listed, c) = {} /\ Asked = {}
            BY <4>1, <5>1
          <6>2. count = 0 /\ count' = count + 1
            BY <2>2, <2>5, <4>3, <5>1, <6>1
          <6> QED BY <6>1, <6>2
        <5>2. CASE m_pending_reset_mask # {}
          <6>1. After(listed, c) = {} => Asked # {}
            BY <4>1, <5>2
          <6>2. count' = count
            BY <2>2, <2>5, <5>2
          <6> QED BY <4>3, <6>1, <6>2
        <5> QED BY <5>1, <5>2
      <4> QED BY <1>1, <1>2, <3>2, <4>2 DEF SettledCount, After
    <3> QED BY <3>1, <3>2
  <2> QED BY <1>1, <1>2, <1>5, <1>7, <2>3, <2>6 DEF Resting, Settled
<1> QED BY <1>6, <1>7

\* A step that leaves the node, its masks and its list alone.
LEMMA SameRests ==
  ASSUME Typed, Resting, ~Mid, ~Mid', Asked' = Asked,
         UNCHANGED <<listed, m_pending_reset_mask, calm, PROCESSED, count>>
  PROVE  Resting'
<1>1. Seen = Asked /\ Seen' = Asked
  BY DEF Seen
<1>2. audio.at \notin {"test", "cas"} /\ audio'.at \notin {"test", "cas"}
  BY DEF Mid
<1>3. CASE calm = 1
  <2>1. Settling'
    BY <1>1, <1>2, <1>3 DEF Resting, Settling, Plus, After, FlagAgrees
  <2> QED BY <1>2, <1>3, <2>1 DEF Resting
<1>4. CASE calm # 1
  <2>1. PICK c \in listed : SettledMask(c) /\ SettledCount(c)
    BY <1>4 DEF Resting, Settled
  <2>2. FlagAgrees'
    BY <1>4 DEF Resting, Settled, FlagAgrees
  <2>3. SettledMask(c)'
    BY <1>2, <2>1 DEF SettledMask, Plus, After
  <2>4. SettledCount(c)'
    BY <1>1, <2>1 DEF SettledCount, After
  <2> QED BY <1>2, <1>4, <2>2, <2>3, <2>4 DEF Resting, Settled
<1> QED BY <1>3, <1>4

LEMMA VisitOthersRests ==
  ASSUME Typed, Resting, VisitOthers
  PROVE  Resting'
<1>1. /\ audio.at = "visit" /\ audio.ch \notin listed
      /\ audio'.at = "post" /\ audio'.ch = audio.ch
      /\ UNCHANGED <<listed, m_pending_reset_mask, calm, PROCESSED, count>>
  BY DEF VisitOthers, Typed, AudioState, masks
<1>2. \A x \in listed : x < audio.ch <=> x <= audio.ch
  BY <1>1, AskedOrder
<1>3. ~Mid /\ ~Mid' /\ Asked' = Asked
  BY <1>1, <1>2 DEF Mid, Asked
<1> QED BY <1>1, <1>3, SameRests

\* No operation is queued: process_pending_operations does nothing.
LEMMA DrainedAtRest ==
  ASSUME Typed, NoOpsPending, NEW ch \in Channels, Drained(ch)
  PROVE  UNCHANGED <<pending_ops, listed, PROCESSED>>
<1>1. pending_ops[ch] = <<>> /\ pending_ops \in [Channels -> Seq(BOOLEAN)]
  BY DEF NoOpsPending, Typed
<1>2. UNCHANGED <<pending_ops, listed>>
  BY <1>1 DEF Drained
<1>3. ~ \E i \in DOMAIN pending_ops[ch] : ~pending_ops[ch][i]
  BY <1>1
<1>4. PROCESSED' = PROCESSED
  BY <1>3, Zenon DEF Drained, Typed
<1> QED BY <1>2, <1>4

LEMMA PreprocessRests ==
  ASSUME Typed, NoOpsPending, Resting, Preprocess
  PROVE  Resting'
<1>1. /\ audio.at = "pre" /\ audio'.at = "visit" /\ audio'.ch = audio.ch /\ audio.ch \in Channels
      /\ Drained(audio.ch) /\ UNCHANGED <<m_pending_reset_mask, calm, count>>
  BY DEF Preprocess, Typed, AudioState, masks
<1>2. UNCHANGED <<pending_ops, listed, PROCESSED>>
  BY <1>1, DrainedAtRest
<1>3. ~Mid /\ ~Mid' /\ Asked' = Asked
  BY <1>1, <1>2 DEF Mid, Asked
<1> QED BY <1>1, <1>2, <1>3, SameRests

\* The next channel, or the end of the frame: all have asked.
LEMMA PostprocessRests ==
  ASSUME Typed, NoOpsPending, Resting, Postprocess
  PROVE  Resting'
<1>1. /\ audio.at = "post" /\ audio.ch \in Channels
      /\ Drained(audio.ch) /\ UNCHANGED <<m_pending_reset_mask, calm, count>>
  BY DEF Postprocess, Typed, AudioState, masks
<1>2. UNCHANGED <<pending_ops, listed, PROCESSED>>
  BY <1>1, DrainedAtRest
<1>3. Asked = {x \in listed : x <= audio.ch} /\ listed \subseteq Channels
  BY <1>1 DEF Asked, Typed
<1>4. CASE audio.ch = NumChannels - 1
  <2>1. audio'.at = "frame"
    BY <1>4 DEF Postprocess, AtFrame
  <2>2. \A x \in listed : x <= audio.ch
    BY <1>3, <1>4, ChannelsAssumption DEF Channels
  <2>3. ~Mid /\ ~Mid' /\ Asked' = Asked
    BY <1>1, <1>2, <1>3, <2>1, <2>2 DEF Mid, Asked
  <2> QED BY <1>1, <1>2, <2>3, SameRests
<1>5. CASE audio.ch # NumChannels - 1
  <2>1. audio'.at = "pre" /\ audio'.ch = audio.ch + 1
    BY <1>5 DEF Postprocess, AtFrame
  <2>2. \A x \in listed : x <= audio.ch <=> x < audio.ch + 1
    BY AskedOrder
  <2>3. ~Mid /\ ~Mid' /\ Asked' = Asked
    BY <1>1, <1>2, <1>3, <2>1, <2>2 DEF Mid, Asked
  <2> QED BY <1>1, <1>2, <2>3, SameRests
<1> QED BY <1>4, <1>5

LEMMA ResetOrRests ==
  ASSUME Typed, Resting, ResetOr
  PROVE  Resting'
<1>1. /\ audio.at = "or" /\ audio.ch \in listed /\ Mid
      /\ audio'.at = "test" /\ audio'.ch = audio.ch /\ audio'.new_pending = m_pending_reset_mask'
      /\ UNCHANGED <<listed, calm, PROCESSED, count>>
      /\ m_pending_reset_mask' = m_pending_reset_mask \cup {audio.ch}
  BY DEF ResetOr, Typed, AudioState, Mid, Resting
<1>2. Mid' /\ Asked' = Asked /\ Seen' = Seen
  BY <1>1 DEF Mid, Asked, Seen
<1>3. CASE calm = 1
  <2>1. Settling'
    BY <1>1, <1>2, <1>3 DEF Resting, Settling, Plus, After, FlagAgrees
  <2> QED BY <1>1, <1>2, <1>3, <2>1 DEF Resting
<1>4. CASE calm # 1
  <2>1. PICK c \in listed : SettledMask(c) /\ SettledCount(c)
    BY <1>4 DEF Resting, Settled
  <2>2. FlagAgrees'
    BY <1>1, <1>2, <1>4 DEF Resting, Settled, FlagAgrees
  <2>3. SettledMask(c)'
    BY <1>1, <1>2, <2>1 DEF SettledMask, Plus, After
  <2>4. SettledCount(c)'
    BY <1>1, <1>2, <2>1 DEF SettledCount, After
  <2> QED BY <1>1, <1>2, <1>4, <2>2, <2>3, <2>4 DEF Resting, Settled
<1> QED BY <1>3, <1>4

\* The request of the channel after which all have asked goes on to the reset.
LEMMA ResetTestRests ==
  ASSUME Typed, Resting, ResetTest, listed = m_active_channels_mask, listed # {}
  PROVE  Resting'
<1>1. /\ audio.at = "test" /\ audio.ch \in listed /\ Mid
      /\ audio.new_pending = m_pending_reset_mask
      /\ audio'.ch = audio.ch /\ audio'.new_pending = audio.new_pending
      /\ audio'.at = IF listed \subseteq m_pending_reset_mask THEN "cas" ELSE "post"
      /\ UNCHANGED <<listed, calm, PROCESSED, count, m_pending_reset_mask>>
  BY DEF ResetTest, Typed, AudioState, Mid, Resting, masks
<1>2. CASE listed \subseteq m_pending_reset_mask
  <2>1. Mid' /\ Asked' = Asked /\ Seen' = Seen /\ audio'.at = "cas"
    BY <1>1, <1>2 DEF Mid, Asked, Seen
  <2>2. CASE calm = 1
    <3>1. Settling'
      BY <1>1, <2>1, <2>2 DEF Resting, Settling, Plus, After, FlagAgrees
    <3> QED BY <1>1, <1>2, <2>1, <2>2, <3>1 DEF Resting
  <2>3. CASE calm # 1
    <3>1. PICK c \in listed : SettledMask(c) /\ SettledCount(c)
      BY <2>3 DEF Resting, Settled
    <3>2. FlagAgrees'
      BY <1>1, <2>1, <2>3 DEF Resting, Settled, FlagAgrees
    <3>3. SettledMask(c)'
      BY <1>1, <2>1, <3>1 DEF SettledMask, Plus, After
    <3>4. SettledCount(c)'
      BY <1>1, <2>1, <3>1 DEF SettledCount, After
    <3> QED BY <1>1, <1>2, <2>1, <2>3, <3>2, <3>3, <3>4 DEF Resting, Settled
  <2> QED BY <2>2, <2>3
<1>3. CASE ~(listed \subseteq m_pending_reset_mask)
  <2>1. audio'.at = "post" /\ ~Mid'
    BY <1>1, <1>3 DEF Mid
  <2>2. Asked' = Asked \cup {audio.ch} /\ Seen = Asked \cup {audio.ch} /\ Seen' = Seen
    <3>1. \A x \in listed : x <= audio.ch <=> x < audio.ch \/ x = audio.ch
      BY AskedOrder
    <3>2. Asked = {x \in listed : x < audio.ch}
      BY <1>1 DEF Asked
    <3>3. Asked' = {x \in listed : x <= audio.ch}
      BY <1>1, <2>1 DEF Asked
    <3>4. Asked' = Asked \cup {audio.ch}
      BY <1>1, <3>1, <3>2, <3>3
    <3> QED BY <1>1, <2>1, <3>4 DEF Seen
  <2>3. \A S : Plus(S) = S \cup {audio.ch}
    BY <1>1 DEF Plus
  <2>4. \A S : Plus(S)' = S'
    BY <2>1 DEF Plus
  <2>5. \A c \in Asked : After(Asked, c) \cup {audio.ch} = After(Asked', c)
    BY <1>1, <2>2, AskedOrder DEF After
  <2>6. audio.ch \in m_pending_reset_mask /\ FlagAgrees => FlagAgrees'
    BY <1>1, <2>1 DEF FlagAgrees
  <2>7. CASE calm = 1
    <3>1. CASE Plus(Asked) \subseteq m_pending_reset_mask
      <4>1. Settling'
        BY <1>1, <1>3, <2>1, <2>2, <2>3, <3>1 DEF Settling, Plus
      <4> QED BY <1>1, <2>1, <2>7, <4>1 DEF Resting
    <3>2. CASE FlagAgrees /\ \E c \in Asked : m_pending_reset_mask = Plus(After(Asked, c))
      <4>1. PICK c \in Asked : m_pending_reset_mask = After(Asked', c)
        BY <2>3, <2>5, <3>2
      <4>2. audio.ch \in m_pending_reset_mask
        BY <2>3, <3>2
      <4>3. c \in Asked' /\ FlagAgrees'
        BY <2>2, <2>6, <3>2, <4>2
      <4>4. Settling'
        BY <1>1, <2>1, <4>1, <4>3 DEF Settling, Plus, After
      <4> QED BY <1>1, <2>1, <2>7, <4>4 DEF Resting
    <3> QED BY <2>7, <3>1, <3>2 DEF Resting, Settling
  <2>8. CASE calm # 1
    <3>1. PICK c \in listed : SettledMask(c) /\ SettledCount(c)
      BY <2>8 DEF Resting, Settled
    <3>2. c # audio.ch \/ c \in Asked
      <4>1. SUFFICES ASSUME c = audio.ch, c \notin Asked PROVE FALSE
        OBVIOUS
      <4>2. m_pending_reset_mask = (After(listed, c) \cup Asked) \cup {c}
        BY <2>3, <3>1, <4>1 DEF SettledMask
      <4>3. \A x \in listed : x > c \/ x = c \/ x \in Asked
        BY <1>1, <4>1, AskedOrder DEF Asked
      <4> QED BY <1>3, <4>2, <4>3 DEF After
    <3>3. c \in Asked' <=> c \in Asked
      BY <2>2, <3>2
    <3>4. audio.ch \in m_pending_reset_mask
      BY <2>3, <3>1 DEF SettledMask
    <3>5. FlagAgrees'
      BY <2>6, <2>8, <3>4 DEF Resting, Settled
    <3>6. SettledMask(c)'
      <4>1. CASE c \in Asked
        BY <1>1, <2>1, <2>3, <2>5, <3>1, <3>3, <4>1 DEF SettledMask, Plus, After
      <4>2. CASE c \notin Asked
        <5>1. m_pending_reset_mask = After(listed, c) \cup Asked'
          BY <2>2, <2>3, <3>1, <4>2 DEF SettledMask
        <5> QED BY <1>1, <2>1, <3>3, <4>2, <5>1 DEF SettledMask, Plus, After
      <4> QED BY <4>1, <4>2
    <3>7. SettledCount(c)'
      BY <1>1, <2>2, <3>1, <3>3 DEF SettledCount, After
    <3> QED BY <1>1, <2>1, <2>8, <3>5, <3>6, <3>7 DEF Resting, Settled
  <2> QED BY <2>7, <2>8
<1> QED BY <1>2, <1>3

\* The exchange succeeds, and this is the channel c of Settling and of Settled.
LEMMA ResetCasRests ==
  ASSUME Typed, Resting, ResetCas
  PROVE  Resting'
<1>1. /\ audio.at = "cas" /\ audio.ch \in listed /\ Mid
      /\ audio.new_pending = m_pending_reset_mask /\ listed \subseteq m_pending_reset_mask
      /\ audio'.ch = audio.ch /\ audio'.at = "post"
      /\ UNCHANGED <<listed, calm, count>>
      /\ m_pending_reset_mask' = {}
  BY DEF ResetCas, Typed, AudioState, Mid, Resting
<1>2. ~Mid' /\ FlagAgrees'
  <2>1. PROCESSED' = FALSE
    BY <1>1 DEF ResetCas
  <2> QED BY <1>1, <2>1 DEF Mid, FlagAgrees
<1>3. Asked' = Asked \cup {audio.ch} /\ Seen = Asked \cup {audio.ch} /\ Seen' = Seen
  <2>1. \A x \in listed : x <= audio.ch <=> x < audio.ch \/ x = audio.ch
    BY AskedOrder
  <2>2. Asked = {x \in listed : x < audio.ch}
    BY <1>1 DEF Asked
  <2>3. Asked' = {x \in listed : x <= audio.ch}
    BY <1>1 DEF Asked
  <2>4. Asked' = Asked \cup {audio.ch}
    BY <1>1, <2>1, <2>2, <2>3
  <2> QED BY <1>1, <1>2, <2>4 DEF Seen
<1>4. After(Asked', audio.ch) = {} /\ audio.ch \in Asked'
  BY <1>1, <1>3, AskedOrder DEF After
<1>5. \A S : Plus(S) = S \cup {audio.ch}
  BY <1>1 DEF Plus
<1>6. CASE calm = 1
  <2>1. Settling'
    BY <1>1, <1>2, <1>4 DEF Settling, Plus, After
  <2> QED BY <1>1, <1>2, <1>6, <2>1 DEF Resting
<1>7. CASE calm # 1
  <2>1. PICK c \in listed : SettledMask(c) /\ SettledCount(c)
    BY <1>7 DEF Resting, Settled
  <2>2. c \notin Asked /\ c = audio.ch
    <3>1. c \notin After(Asked, c) /\ c \notin After(listed, c) /\ c \in m_pending_reset_mask
      BY <1>1, AskedOrder DEF After
    <3>2. c \in Asked => c # audio.ch
      BY <1>1, AskedOrder
    <3> QED BY <1>5, <2>1, <3>1, <3>2 DEF SettledMask
  <2>3. SettledMask(c)'
    BY <1>1, <1>4, <2>2 DEF SettledMask, Plus, After
  <2>4. SettledCount(c)'
    <3>1. count = IF After(listed, c) = {} THEN 1 ELSE 0
      BY <1>3, <2>1, <2>2 DEF SettledCount
    <3>2. After(Seen', c) = {} /\ Seen' # {}
      BY <1>3, <1>4, <2>2
    <3> QED BY <1>1, <3>1, <3>2 DEF SettledCount, After
  <2> QED BY <1>1, <1>2, <1>7, <2>3, <2>4 DEF Resting, Settled
<1> QED BY <1>6, <1>7

\* A frame begins: nobody has asked yet.
LEMMA BeginFrameRests ==
  ASSUME Typed, RestInv, BeginFrame, calm' >= 1,
         listed = m_active_channels_mask, listed # {}
  PROVE  Resting'
<1>1. /\ audio.at = "frame" /\ audio'.at = "pre" /\ audio'.ch = 0 /\ count' = 0
      /\ UNCHANGED <<listed, m_pending_reset_mask, PROCESSED>>
  BY DEF BeginFrame, AtFrame, masks
<1>2. Asked' = {} /\ Seen' = {} /\ ~Mid /\ ~Mid' /\ Asked = listed /\ Seen = listed
  <2>1. \A x \in listed : ~(x < 0)
    BY AskedOrder
  <2> QED BY <1>1, <2>1 DEF Asked, Seen, Mid
<1>3. CASE calm = 0
  <2>1. calm' = 1
    BY <1>3 DEF BeginFrame
  <2>2. Settling'
    BY <1>1, <1>2 DEF Settling, Plus
  <2> QED BY <1>1, <1>2, <2>1, <2>2 DEF Resting
<1>4. CASE calm # 0
  <2>1. calm >= 1 /\ calm' # 1
    BY <1>4 DEF BeginFrame, Typed
  <2>2. Resting
    BY <2>1 DEF RestInv
  <2>3. FlagAgrees /\ \E c \in listed : m_pending_reset_mask = After(listed, c)
    <3>1. CASE calm = 1
      BY <1>1, <1>2, <2>2, <3>1 DEF Resting, Settling, Plus
    <3>2. CASE calm # 1
      BY <1>1, <1>2, <2>2, <3>2 DEF Resting, Settled, SettledMask, Plus
    <3> QED BY <3>1, <3>2
  <2>4. PICK c \in listed : m_pending_reset_mask = After(listed, c)
    BY <2>3
  <2>5. FlagAgrees'
    BY <1>1, <1>2, <2>3 DEF FlagAgrees
  <2>6. SettledMask(c)'
    BY <1>1, <1>2, <2>4 DEF SettledMask, Plus, After
  <2>7. SettledCount(c)'
    BY <1>1, <1>2 DEF SettledCount
  <2> QED BY <1>1, <1>2, <2>1, <2>5, <2>6, <2>7 DEF Resting, Settled
<1> QED BY <1>3, <1>4

LEMMA RestFrame ==
  ASSUME Typed, RestInv, Frame
  PROVE  RestInv'
<1>1. SUFFICES ASSUME calm' >= 1
               PROVE  NoOpsPending' /\ (listed' = m_active_channels_mask' /\ listed' # {} => Resting')
  BY DEF RestInv
<1>2. CASE BeginFrame
  <2>1. NoOpsPending'
    BY <1>1, <1>2 DEF BeginFrame, NoOpsPending
  <2>2. UNCHANGED <<listed, m_active_channels_mask>>
    BY <1>2 DEF BeginFrame, masks
  <2> QED BY <1>1, <1>2, <2>1, <2>2, BeginFrameRests
<1>3. CASE Preprocess \/ Postprocess
  <2>1. /\ Drained(audio.ch) /\ audio.ch \in Channels
        /\ UNCHANGED <<m_active_channels_mask, control, calm>>
    BY <1>3 DEF Preprocess, Postprocess, Typed, AudioState, masks
  <2>2. NoOpsPending
    BY <1>1, <2>1 DEF RestInv
  <2>3. UNCHANGED <<pending_ops, listed>>
    BY <2>1, <2>2, DrainedAtRest
  <2> QED BY <1>1, <1>3, <2>1, <2>2, <2>3, PreprocessRests, PostprocessRests DEF RestInv, NoOpsPending
<1>4. CASE Visit \/ VisitOthers \/ ResetOr \/ ResetTest \/ ResetCas
  <2>1. UNCHANGED <<m_active_channels_mask, listed, pending_ops, control, calm>>
    BY <1>4 DEF Visit, VisitOthers, ResetOr, ResetTest, ResetCas, masks
  <2> QED BY <1>1, <1>4, <2>1, VisitRests, VisitOthersRests, ResetOrRests, ResetTestRests, ResetCasRests
          DEF RestInv, NoOpsPending
<1> QED BY <1>2, <1>3, <1>4 DEF Frame

LEMMA RestStep == Typed /\ RestInv /\ [RNext]_rvars => RestInv'
<1> SUFFICES ASSUME Typed, RestInv, [RNext]_rvars PROVE RestInv'
  OBVIOUS
<1>1. ASSUME calm' = 0 PROVE RestInv'
  BY <1>1 DEF RestInv
<1>2. ASSUME UNCHANGED <<masks, PROCESSED, listed, pending_ops, audio, control, count, calm>>
      PROVE  RestInv'
  BY <1>2 DEF masks, RestInv, NoOpsPending, Resting, Mid, Settling, Settled, SettledMask, SettledCount,
              FlagAgrees, Asked, Seen, Plus, After
<1>9. ASSUME control.at # "idle", calm' = calm PROVE RestInv'
  <2>1. ~(calm >= 1)
    BY <1>9 DEF RestInv, NoOpsPending
  <2> QED BY <1>9, <2>1 DEF RestInv
<1>3. ASSUME NEW ch \in Channels, NEW add \in BOOLEAN, Meddle(ch, add) PROVE RestInv'
  BY <1>1, <1>3 DEF Meddle, Call
<1>4. CASE Control
  <2>1. control.at # "idle" /\ calm' = calm
    BY <1>4 DEF Control, SetActive, UnsetActive, UnsetPending, QueueOp
  <2> QED BY <1>9, <2>1
<1>5. ASSUME NEW target \in SUBSET Channels, NEW fade \in Fades, RouteRead(target, fade) PROVE RestInv'
  BY <1>1, <1>5 DEF RouteRead
<1>10. CASE RouteStore \/ \E ch \in joining : Join(ch)
  BY <1>9, <1>10 DEF RouteStore, Join
<1>6. CASE Update
  BY <1>2, <1>6 DEF Update, vars
<1>7. CASE Cleanup \/ CleanupReset
  BY <1>2, <1>7 DEF Cleanup, CleanupReset, vars
<1>11. CASE CleanupRemove
  BY <1>1, <1>11, RemoveSteps
<1>8. CASE UNCHANGED rvars
  BY <1>2, <1>8 DEF rvars, vars
<1> QED BY <1>3, <1>4, <1>5, <1>6, <1>7, <1>8, <1>10, <1>11, RestFrame DEF RNext, Callback

LEMMA RestInvOnce == Typed /\ RestInv => OncePerFrame
<1> SUFFICES ASSUME Typed, RestInv, Rested, listed # {} PROVE count = 1
  BY DEF OncePerFrame
<1>1. audio.at = "frame" /\ Resting /\ calm # 1
  BY DEF Rested, RestInv, Typed
<1>2. Asked = listed /\ Seen = listed
  BY <1>1 DEF Asked, Seen, Mid
<1>3. PICK c \in listed : SettledCount(c)
  BY <1>1 DEF Resting, Settled
<1> QED BY <1>2, <1>3 DEF SettledCount

\* However channels came and went, a node whose topology is at rest is processed
\* exactly once per frame (RootNode.cpp's visit, Node::request_reset_from_channel).
THEOREM NodeRunsOncePerFrame == RSpec => []OncePerFrame
<1>1. RInit => Typed /\ RestInv
  BY InitTyped DEF RInit, Init, RestInv
<1>2. Typed /\ RestInv /\ [RNext]_rvars => Typed' /\ RestInv'
  BY TypedStep, RestStep
<1> QED BY <1>1, <1>2, RestInvOnce, PTL DEF RSpec

------------------------------------------------------------------------------
(* Removals: the invariant and the proof *)

\* A frame of this callback has been to channel ch.
Been(ch) == \/ frames + (IF audio.at = "frame" THEN 0 ELSE 1) < FramesPerCallback
            \/ /\ audio.at # "frame"
               /\ ch < audio.ch \/ (ch = audio.ch /\ audio.at \notin {"pre", "visit"})

\* The channels a route takes the node off.
Left == m_routing_state.from_channels \ m_routing_state.to_channels

\* What a completed route leaves has been faded out and heard so, and what the
\* cleanup has found to leave has been heard silent, whatever route is stored then.
SilenceInv ==
  /\ frames \in 0 .. FramesPerCallback
  /\ callback # "frames" => audio.at = "frame"
  /\ m_routing_state.phase = "COMPLETED" =>
       /\ m_routing_state.cycles_elapsed >= m_routing_state.fade_cycles
       /\ \A ch \in Left :
            /\ m_routing_state.amount[ch] = 0
            /\ callback = "frames" /\ Been(ch) => level[ch] = 0
  /\ callback \notin {"update", "frames"} => \A ch \in leaving : level[ch] = 0
  /\ control.at = "store" => route_state.phase = "ACTIVE"

\* While the frames of the callback run.
LEMMA SilenceFrame ==
  ASSUME Typed, SilenceInv, Frame
  PROVE  SilenceInv'
<1>1. /\ m_routing_state' = m_routing_state /\ callback' = callback /\ Left' = Left
      /\ UNCHANGED <<control, route_state>>
  BY DEF Frame, BeginFrame, Visit, VisitOthers, Preprocess, ResetOr, ResetTest, ResetCas, Postprocess,
         routing, Left
<1>9. callback = "frames"
  BY DEF Frame, BeginFrame, Visit, VisitOthers, Preprocess, ResetOr, ResetTest, ResetCas, Postprocess, SilenceInv
<1>2. Left \subseteq Channels /\ Channels \subseteq Nat /\ NumChannels \in Nat \ {0}
  BY ChannelFacts DEF Typed, RoutingState, Left
<1>3. FramesPerCallback \in Nat \ {0} /\ frames \in Nat /\ frames <= FramesPerCallback
  BY RoutingAssumption DEF SilenceInv
<1>4. audio.ch \in Channels /\ audio.ch \in Nat
  BY <1>2 DEF Typed, AudioState
<1>5. CASE callback = "frames" /\ frames > 0 /\ BeginFrame /\ frames' = frames - 1
           /\ UNCHANGED <<m_routing_state, registered, callback, routes, route_state, joining, leaving,
                          level, wanted, clean>>
  <2>1. /\ audio.at = "frame" /\ audio'.at = "pre" /\ audio'.ch = 0 /\ frames > 0 /\ level' = level
        /\ frames' = frames - 1
    BY <1>5 DEF BeginFrame, AtFrame
  <2>2. ASSUME NEW ch \in Left, Been(ch)' PROVE Been(ch)
    <3>1. ch \in Nat
      BY <1>2
    <3>2. ~(ch < 0)
      BY <3>1
    <3>3. frames - 1 + 1 < FramesPerCallback
      BY <2>1, <2>2, <3>2 DEF Been
    <3>4. frames + 0 < FramesPerCallback
      BY <1>3, <3>3
    <3> QED BY <2>1, <3>4 DEF Been
  <2>3. frames' \in 0 .. FramesPerCallback
    BY <1>3, <2>1
  <2> QED BY <1>1, <1>9, <2>1, <2>2, <2>3 DEF SilenceInv
<1>6. CASE Visit /\ level' = [level EXCEPT ![audio.ch] =
                       IF needs_channel_routing THEN m_routing_state.amount[audio.ch] ELSE Unit]
           /\ UNCHANGED <<m_routing_state, registered, frames, callback, routes, route_state, joining, leaving,
                          wanted, clean>>
  <2>1. audio.at = "visit" /\ audio'.at = "or" /\ audio'.ch = audio.ch /\ frames' = frames
    BY <1>6 DEF Visit, Typed, AudioState
  <2>3. ASSUME m_routing_state.phase = "COMPLETED", NEW ch \in Left, Been(ch)' PROVE level'[ch] = 0
    <3>1. ch \in Channels /\ m_routing_state.amount[ch] = 0
      BY <1>2, <2>3 DEF SilenceInv
    <3>2. CASE ch = audio.ch
      BY <1>6, <2>3, <3>1, <3>2 DEF needs_channel_routing, Typed
    <3>3. CASE ch # audio.ch
      <4>1. Been(ch) /\ level'[ch] = level[ch]
        BY <1>6, <2>1, <2>3, <3>1, <3>3 DEF Been, Typed
      <4> QED BY <1>9, <2>3, <4>1 DEF SilenceInv
    <3> QED BY <3>2, <3>3
  <2> QED BY <1>1, <1>9, <2>1, <2>3 DEF SilenceInv
<1>7. CASE VisitOthers /\ level' = [level EXCEPT ![audio.ch] = 0]
           /\ UNCHANGED <<m_routing_state, registered, frames, callback, routes, route_state, joining, leaving,
                          wanted, clean>>
  <2>1. audio.at = "visit" /\ audio'.at = "post" /\ audio'.ch = audio.ch /\ frames' = frames
    BY <1>7 DEF VisitOthers, Typed, AudioState
  <2>3. ASSUME m_routing_state.phase = "COMPLETED", NEW ch \in Left, Been(ch)' PROVE level'[ch] = 0
    <3>1. ch \in Channels
      BY <1>2, <2>3
    <3>2. CASE ch = audio.ch
      BY <1>7, <3>1, <3>2 DEF Typed
    <3>3. CASE ch # audio.ch
      <4>1. Been(ch) /\ level'[ch] = level[ch]
        BY <1>7, <2>1, <2>3, <3>1, <3>3 DEF Been, Typed
      <4> QED BY <1>9, <2>3, <4>1 DEF SilenceInv
    <3> QED BY <3>2, <3>3
  <2> QED BY <1>1, <1>9, <2>1, <2>3 DEF SilenceInv
<1>8. CASE (Preprocess \/ ResetOr \/ ResetTest \/ ResetCas \/ Postprocess) /\ UNCHANGED routing
  <2>1. level' = level /\ frames' = frames /\ audio.at # "frame"
    BY <1>8 DEF Preprocess, ResetOr, ResetTest, ResetCas, Postprocess, routing
  <2>2. \A ch \in Left : Been(ch)' => Been(ch)
    <3>1. CASE Postprocess
      <4>1. CASE audio.ch = NumChannels - 1
        <5>1. audio.at = "post" /\ audio'.at = "frame"
          BY <3>1, <4>1 DEF Postprocess, AtFrame
        <5>2. \A ch \in Left : ch < audio.ch \/ ch = audio.ch
          BY <1>2, <4>1 DEF Channels
        <5> QED BY <5>1, <5>2 DEF Been
      <4>2. CASE audio.ch # NumChannels - 1
        <5>1. audio.at = "post" /\ audio'.at = "pre" /\ audio'.ch = audio.ch + 1
          BY <3>1, <4>2 DEF Postprocess, AtFrame
        <5>2. \A ch \in Left : ch < audio.ch + 1 => ch < audio.ch \/ ch = audio.ch
          <6>1. \A x, y \in Nat : x < y + 1 => x < y \/ x = y
            OBVIOUS
          <6> QED BY <1>2, <1>4, <6>1
        <5>3. \A ch \in Left : Been(ch)' => frames + 1 < FramesPerCallback \/ ch < audio.ch + 1
          BY <2>1, <5>1 DEF Been
        <5> QED BY <5>1, <5>2, <5>3 DEF Been
      <4> QED BY <4>1, <4>2
    <3>2. CASE Preprocess \/ ResetOr \/ ResetTest \/ ResetCas
      <4>1. /\ audio'.at # "frame" /\ audio'.ch = audio.ch
            /\ audio.at \in {"pre", "visit"} <=> audio'.at \in {"pre", "visit"}
        BY <3>2 DEF Preprocess, ResetOr, ResetTest, ResetCas, Typed, AudioState
      <4> QED BY <2>1, <4>1 DEF Been
    <3> QED BY <1>8, <3>1, <3>2
  <2> QED BY <1>1, <1>9, <2>1, <2>2 DEF SilenceInv
<1> QED BY <1>5, <1>6, <1>7, <1>8 DEF Frame

\* The last update of a fade brings the channels that are left to 0.
LEMMA SilenceUpdated ==
  ASSUME NEW state \in RoutingState, Faded(state)
  PROVE  /\ Updated(state).cycles_elapsed >= Updated(state).fade_cycles
         /\ \A ch \in state.from_channels \ state.to_channels : Updated(state).amount[ch] = 0
<1> DEFINE elapsed == state.cycles_elapsed + 1
<1>1. /\ state.cycles_elapsed \in Nat /\ state.fade_cycles \in Nat /\ Unit \in Nat
      /\ state.from_channels \subseteq Channels
  BY RoutingAssumption DEF RoutingState
<1>2. ~(elapsed < state.fade_cycles) /\ elapsed >= state.fade_cycles
  BY <1>1 DEF Faded
<1>3. /\ Updated(state).amount = Amounts(state.from_channels, state.to_channels, Unit)
      /\ Updated(state).cycles_elapsed = elapsed /\ Updated(state).fade_cycles = state.fade_cycles
  BY <1>2 DEF Updated, RoutingState
<1>4. Unit - Unit = 0
  BY <1>1
<1> HIDE DEF elapsed
<1>5. \A ch \in state.from_channels \ state.to_channels :
        Amounts(state.from_channels, state.to_channels, Unit)[ch] = 0
  BY <1>1, <1>4 DEF Amounts
<1> QED BY <1>2, <1>3, <1>5

LEMMA SilenceUpdate ==
  ASSUME Typed, SilenceInv, Update
  PROVE  SilenceInv'
<1>1. /\ callback' = "frames" /\ audio.at = "frame" /\ UNCHANGED <<audio, control, route_state, level>>
      /\ frames' = FramesPerCallback
  BY DEF Update, SilenceInv, vars
<1>2. frames' \in 0 .. FramesPerCallback /\ \A ch : ~Been(ch)'
  BY <1>1, RoutingAssumption DEF Been
<1>3. CASE m_routing_state' = m_routing_state
  BY <1>1, <1>2, <1>3 DEF SilenceInv, Left
<1>4. CASE m_routing_state' = Updated(m_routing_state)
  <2>1. m_routing_state \in RoutingState
    BY DEF Typed
  <2>2. m_routing_state.phase = "COMPLETED" => Faded(m_routing_state)
    <3>1. m_routing_state.cycles_elapsed \in Nat /\ m_routing_state.fade_cycles \in Nat
      BY <2>1 DEF RoutingState
    <3> QED BY <3>1 DEF SilenceInv, Faded
  <2>3. m_routing_state'.phase = "COMPLETED" => Faded(m_routing_state)
    BY <1>4, <2>1, <2>2, UpdatedTyped
  <2>4. Left' = m_routing_state.from_channels \ m_routing_state.to_channels
    BY <1>4, <2>1, UpdatedTyped DEF Left
  <2> QED BY <1>1, <1>2, <1>4, <2>1, <2>3, <2>4, SilenceUpdated DEF SilenceInv
<1> QED BY <1>3, <1>4 DEF Update

\* When the frames of a callback are over, all channels have been visited.
LEMMA SilenceCleanup ==
  ASSUME Typed, SilenceInv, Cleanup \/ CleanupReset \/ CleanupRemove
  PROVE  SilenceInv'
<1>1. CASE Cleanup
  <2>1. /\ frames = 0 /\ audio.at = "frame" /\ callback = "frames" /\ callback' \in {"update", "reset"}
        /\ UNCHANGED <<frames, audio, level, m_routing_state, control, route_state>>
    BY <1>1 DEF Cleanup, vars
  <2>2. \A ch : Been(ch)
    BY <2>1, RoutingAssumption DEF Been
  <2>3. CASE registered /\ m_routing_state.phase = "COMPLETED"
    <3>1. leaving' = Left
      BY <1>1, <2>3 DEF Cleanup, Left
    <3>2. \A ch \in Left : level[ch] = 0
      BY <2>1, <2>2, <2>3 DEF SilenceInv
    <3> QED BY <2>1, <3>1, <3>2 DEF SilenceInv, Left
  <2>4. CASE ~(registered /\ m_routing_state.phase = "COMPLETED")
    <3>1. callback' = "update"
      BY <1>1, <2>4 DEF Cleanup
    <3> QED BY <2>1, <3>1 DEF SilenceInv, Left
  <2> QED BY <2>3, <2>4
<1>2. CASE CleanupReset
  <2>1. /\ m_routing_state'.phase = "NONE" /\ callback = "reset" /\ callback' \in {"update", "unset"}
        /\ UNCHANGED <<frames, audio, level, leaving, control, route_state>>
    BY <1>2, NoRouteTyped DEF CleanupReset, Leaving, vars
  <2> QED BY <2>1 DEF SilenceInv
<1>3. CASE CleanupRemove
  <2>1. /\ UNCHANGED <<frames, audio, level, m_routing_state, control, route_state>>
        /\ callback # "frames" /\ callback # "update" /\ callback' # "frames" /\ leaving' \subseteq leaving
    BY <1>3, RemoveSteps DEF Unset, UnsetReset, Removal
  <2> QED BY <2>1 DEF SilenceInv, Left
<1> QED BY <1>1, <1>2, <1>3

LEMMA SilenceStep == Typed /\ SilenceInv /\ [RNext]_rvars => SilenceInv'
<1> SUFFICES ASSUME Typed, SilenceInv, [RNext]_rvars PROVE SilenceInv'
  OBVIOUS
<1>1. ASSUME UNCHANGED <<m_routing_state, frames, callback, audio, level, leaving, route_state>>,
             control'.at = "store" => control.at = "store"
      PROVE  SilenceInv'
  BY <1>1 DEF SilenceInv, Been, Left
<1>2. ASSUME NEW ch \in Channels, NEW add \in BOOLEAN, Meddle(ch, add) PROVE SilenceInv'
  BY <1>1, <1>2 DEF Meddle, Call
<1>3. CASE Control
  <2>1. control'.at # "store"
    BY <1>3, JoiningTyped DEF Control, SetActive, UnsetActive, UnsetPending, QueueOp, Typed, ControlState
  <2> QED BY <1>1, <1>3, <2>1 DEF Control, SetActive, UnsetActive, UnsetPending, QueueOp, routing
<1>4. ASSUME NEW target \in SUBSET Channels, NEW fade \in Fades, RouteRead(target, fade) PROVE SilenceInv'
  <2>1. route_state'.phase = "ACTIVE"
    BY <1>4 DEF RouteRead, NewState
  <2>2. UNCHANGED <<m_routing_state, frames, callback, audio, level, leaving>>
    BY <1>4 DEF RouteRead
  <2> QED BY <2>1, <2>2 DEF SilenceInv, Been, Left
<1>5. CASE RouteStore
  <2>1. m_routing_state'.phase = "ACTIVE" /\ UNCHANGED <<frames, callback, audio, level, leaving>>
    BY <1>5 DEF RouteStore, SilenceInv
  <2>2. control'.at # "store"
    BY <1>5, JoiningTyped DEF RouteStore
  <2> QED BY <2>1, <2>2 DEF SilenceInv
<1>6. ASSUME NEW ch \in joining, Join(ch) PROVE SilenceInv'
  BY <1>1, <1>6 DEF Join
<1>7. CASE UNCHANGED rvars
  BY <1>1, <1>7 DEF rvars, vars, routing
<1> QED BY <1>2, <1>3, <1>4, <1>5, <1>6, <1>7, SilenceFrame, SilenceUpdate, SilenceCleanup
        DEF RNext, Callback

LEMMA RemovalSilent ==
  ASSUME Typed, SilenceInv, [RNext]_rvars, callback = "unset", callback' = "unset_pending"
  PROVE  \A ch \in m_active_channels_mask \ m_active_channels_mask' : level[ch] = 0
<1>1. CleanupRemove
  BY DEF RNext, Meddle, Control, RouteRead, RouteStore, Join, Callback, Update, Frame, Cleanup, CleanupReset,
         rvars, routing
<1>2. PICK ch \in leaving : m_active_channels_mask' = m_active_channels_mask \ {ch}
  BY <1>1, RemoveSteps DEF Unset, UnsetReset, Removal
<1> QED BY <1>2 DEF SilenceInv

\* cleanup_completed_routing takes the node off a channel only when the channel
\* has heard it fade out, whatever routes are made meanwhile.
THEOREM RemovalsAreSilent == RSpec => RemovedInSilence
<1>1. RInit => Typed /\ SilenceInv
  BY InitTyped, RoutingAssumption DEF RInit, Init, NoRoute, NoCall, AtFrame, SilenceInv
<1>2. Typed /\ SilenceInv /\ [RNext]_rvars => Typed' /\ SilenceInv'
  BY TypedStep, SilenceStep
<1>3. Typed /\ SilenceInv /\ [RNext]_rvars =>
        [callback = "unset" /\ callback' = "unset_pending" =>
           \A ch \in m_active_channels_mask \ m_active_channels_mask' : level[ch] = 0]_rvars
  BY RemovalSilent
<1> QED BY <1>1, <1>2, <1>3, PTL DEF RSpec, RemovedInSilence

------------------------------------------------------------------------------
(* Fades: the invariant *)

\* How far a fade has come, as a share of Unit.
Share(state) == IF state.cycles_elapsed < state.fade_cycles
                THEN (Unit * state.cycles_elapsed) \div state.fade_cycles ELSE Unit

\* The amounts of a state are those of the callback its fade has come to.
Computed(state) ==
  /\ state.fade_cycles # 0
  /\ state.amount = Amounts(state.from_channels, state.to_channels, Share(state))

AmountsInv == /\ needs_channel_routing => Computed(m_routing_state)
              /\ control.at = "store" => Computed(route_state)

LevelInv == \A ch \in Channels : 0 <= level[ch] /\ level[ch] <= Unit

\* What the threads hold locally, by the place where they are.
Removing == callback \in {"unset", "unset_pending", "op"}

PlaceInv ==
  /\ control.at \in {"idle", "store"} => joining = {}
  /\ callback \in {"update", "frames"} => leaving = {}
  /\ callback = "reset" => needs_channel_routing
  /\ Removing => leaving # {}

\* The rest is about a fade that is not cut short.  The control thread makes no
\* call but the additions of the route.
OnlyJoins ==
  /\ control.at \notin {"unset", "unset_pending"}
  /\ control.at \in {"set", "op"} => control.add = TRUE /\ control.ch \in wanted
  /\ joining \subseteq wanted

\* The cleanup is that of this route.
OnlyLeaves ==
  /\ leaving \cap wanted = {}
  /\ callback = "reset" => Left \subseteq leaving
  /\ Removing => ~needs_channel_routing

\* Before the route stores its state, the node is at rest.
Waiting == control.at = "store" =>
  /\ ~needs_channel_routing /\ callback \in {"update", "frames"}
  /\ \E fade \in Fades : route_state = NewState(listed, wanted, fade)
  /\ \A ch \in Channels : /\ pending_ops[ch] = <<>>
                           /\ level[ch] = IF ch \in listed THEN Unit ELSE 0

\* Until the cleanup, the node is on the channels it leaves.
Fading == needs_channel_routing =>
  /\ m_routing_state.to_channels = wanted
  /\ \A ch \in Channels : ch \notin wanted =>
       pending_ops[ch] = <<>> /\ (ch \in listed <=> ch \in m_routing_state.from_channels)

\* A root that visits the node has drained the removal from its channel.
VisitReady == audio.at = "visit" /\ audio.ch \notin wanted => pending_ops[audio.ch] = <<>>

LastOp(ch) == pending_ops[ch][Len(pending_ops[ch])]

\* What a channel last heard lags behind the amount.
Lags(ch) == IF ch \in wanted THEN level[ch] <= m_routing_state.amount[ch]
                              ELSE level[ch] >= m_routing_state.amount[ch]

Heard(ch) ==
  /\ pending_ops[ch] # <<>> => LastOp(ch) = (ch \in wanted)
  /\ ch \in wanted /\ ch \notin listed => level[ch] = 0
  /\ needs_channel_routing => Lags(ch)
  /\ ~needs_channel_routing /\ control.at # "store" /\ ch \in listed /\ ch \notin wanted =>
       ch \in leaving \/ pending_ops[ch] # <<>>

FadeInv == clean =>
  OnlyJoins /\ OnlyLeaves /\ Waiting /\ Fading /\ VisitReady /\ \A ch \in Channels : Heard(ch)

------------------------------------------------------------------------------
(* Fades: the proof *)

LEMMA ShareBounds ==
  ASSUME NEW state \in RoutingState, state.fade_cycles # 0
  PROVE  Share(state) \in Int /\ 0 <= Share(state) /\ Share(state) <= Unit
<1> DEFINE e == state.cycles_elapsed
           f == state.fade_cycles
           x == Unit * e
<1>1. e \in Nat /\ f \in Nat \ {0} /\ Unit \in Nat
  BY RoutingAssumption DEF RoutingState
<1>2. CASE e < f
  <2> HIDE DEF e, f
  <2>1. x \in Nat /\ x <= f * Unit
    <3>1. Unit * (f - e) >= 0 /\ Unit * (f - e) = f * Unit - Unit * e /\ Unit * e >= 0
      BY <1>1, <1>2
    <3> QED BY <1>1, <3>1
  <2> HIDE DEF x
  <2>2. x \div f \in Nat /\ x \div f <= Unit
    BY <1>1, <2>1, DivBounds, Zenon
  <2>3. Share(state) = x \div f
    BY <1>2 DEF Share, x, e, f
  <2> QED BY <2>2, <2>3
<1>3. CASE ~(e < f)
  BY <1>1, <1>3 DEF Share
<1> QED BY <1>2, <1>3

\* A callback takes the fade on.
LEMMA ShareGrows ==
  ASSUME NEW state \in RoutingState, state.fade_cycles # 0
  PROVE  /\ Share(state) <= Share(Updated(state))
         /\ Updated(state).fade_cycles = state.fade_cycles
         /\ Updated(state).amount = Amounts(state.from_channels, state.to_channels, Share(Updated(state)))
<1> DEFINE e == state.cycles_elapsed
           f == state.fade_cycles
<1>1. e \in Nat /\ f \in Nat \ {0} /\ Unit \in Nat /\ e + 1 \in Nat
  BY RoutingAssumption DEF RoutingState
<1>2. Updated(state).cycles_elapsed = e + 1 /\ Updated(state).fade_cycles = f
  BY DEF Updated, RoutingState
<1>3. Share(Updated(state)) = IF e + 1 < f THEN (Unit * (e + 1)) \div f ELSE Unit
  BY <1>2 DEF Share
<1>4. Updated(state).amount = Amounts(state.from_channels, state.to_channels, Share(Updated(state)))
  BY <1>3 DEF Updated, RoutingState
<1>5. Share(state) <= Share(Updated(state))
  <2>1. CASE e + 1 < f
    <3>1. e < f /\ Share(state) = (Unit * e) \div f
      BY <1>1, <2>1 DEF Share
    <3> HIDE DEF e, f
    <3>2. Unit * e \in Int /\ Unit * (e + 1) \in Int /\ Unit * e <= Unit * (e + 1)
      <4>1. Unit * (e + 1) = Unit * e + Unit
        BY <1>1
      <4> QED BY <1>1, <4>1
    <3>3. (Unit * e) \div f <= (Unit * (e + 1)) \div f
      BY <1>1, <3>2, DivGrows
    <3> QED BY <1>3, <2>1, <3>1, <3>3
  <2>2. CASE ~(e + 1 < f)
    <3>1. Share(Updated(state)) = Unit
      BY <1>3, <2>2
    <3> QED BY <3>1, ShareBounds
  <2> QED BY <2>1, <2>2
<1> QED BY <1>2, <1>4, <1>5

\* The amount of each channel for a given progress.
LEMMA AmountFacts ==
  ASSUME NEW from \in SUBSET Channels, NEW to \in SUBSET Channels, NEW progress \in Int,
         0 <= progress, progress <= Unit, NEW ch \in Channels
  PROVE  LET a == Amounts(from, to, progress)[ch] IN
         /\ a \in Int /\ 0 <= a /\ a <= Unit
         /\ ch \in from /\ ch \in to => a = Unit
         /\ ch \in from /\ ch \notin to => a = Unit - progress
         /\ ch \notin from /\ ch \in to => a = progress
         /\ ch \notin from /\ ch \notin to => a = 0
<1>1. Unit \in Nat
  BY RoutingAssumption
<1>2. Amounts(from, to, progress)[ch] =
        CASE ch \in from \cap to -> Unit
          [] ch \in from \ to -> Unit - progress
          [] ch \in to \ from -> progress
          [] OTHER -> 0
  BY DEF Amounts
<1>3. CASE ch \in from /\ ch \in to
  BY <1>1, <1>2, <1>3
<1>4. CASE ch \in from /\ ch \notin to
  BY <1>1, <1>2, <1>4
<1>5. CASE ch \notin from /\ ch \in to
  BY <1>1, <1>2, <1>5
<1>6. CASE ch \notin from /\ ch \notin to
  BY <1>1, <1>2, <1>6
<1> QED BY <1>3, <1>4, <1>5, <1>6

LEMMA NewComputed ==
  ASSUME NEW from \in SUBSET Channels, NEW target \in SUBSET Channels, NEW fade \in Fades
  PROVE  Computed(NewState(from, target, fade))
<1> DEFINE new == NewState(from, target, fade)
<1>1. fade \in Nat \ {0} /\ Unit \in Nat
  BY RoutingAssumption
<1>2. /\ new.fade_cycles = fade /\ new.cycles_elapsed = 0
      /\ new.from_channels = from /\ new.to_channels = target
      /\ new.amount = [ch \in Channels |-> IF ch \in from THEN Unit ELSE 0]
  BY DEF NewState
<1> HIDE DEF new
<1>3. (Unit * 0) \div fade = 0
  <2>1. Unit * 0 = 0 /\ 0 \in Nat /\ 0 <= fade * 0
    BY <1>1
  <2>2. 0 \div fade \in Nat /\ 0 \div fade <= 0
    BY <1>1, <2>1, DivBounds
  <2> QED BY <2>1, <2>2
<1>4. Share(new) = 0
  BY <1>1, <1>2, <1>3 DEF Share
<1>5. new.amount = Amounts(from, target, 0)
  <2>1. Unit - 0 = Unit
    BY <1>1
  <2> QED BY <1>2, <2>1 DEF Amounts
<1>6. Computed(new)
  BY <1>1, <1>2, <1>4, <1>5 DEF Computed
<1> QED BY <1>6 DEF new

LEMMA AmountsStep == Typed /\ AmountsInv /\ [RNext]_rvars => AmountsInv'
<1> SUFFICES ASSUME Typed, AmountsInv, [RNext]_rvars PROVE AmountsInv'
  OBVIOUS
<1>1. ASSUME m_routing_state' = m_routing_state, route_state' = route_state,
             control'.at = "store" => control.at = "store"
      PROVE  AmountsInv'
  BY <1>1 DEF AmountsInv, needs_channel_routing, Computed, Share, Amounts
<1>2. ASSUME NEW target \in SUBSET Channels, NEW fade \in Fades, RouteRead(target, fade) PROVE AmountsInv'
  <2>1. Computed(NewState(m_active_channels_mask, target, fade))
    BY NewComputed DEF Typed
  <2>2. Computed(route_state)'
    BY <1>2, <2>1 DEF RouteRead, Computed, Share, Amounts
  <2>3. m_routing_state' = m_routing_state
    BY <1>2 DEF RouteRead
  <2> QED BY <2>2, <2>3 DEF AmountsInv, needs_channel_routing, Computed, Share, Amounts
<1>3. CASE RouteStore
  <2>1. Computed(route_state) /\ m_routing_state' = route_state /\ control'.at # "store"
    BY <1>3, JoiningTyped DEF RouteStore, AmountsInv
  <2> QED BY <2>1 DEF AmountsInv, Computed, Share, Amounts
<1>4. CASE Update
  <2>1. UNCHANGED <<route_state, control>>
    BY <1>4 DEF Update, vars
  <2>2. CASE m_routing_state' = m_routing_state
    BY <1>1, <2>1, <2>2
  <2>3. CASE needs_channel_routing /\ m_routing_state' = Updated(m_routing_state)
    <3>1. m_routing_state \in RoutingState /\ m_routing_state.fade_cycles # 0
      BY <2>3 DEF AmountsInv, Computed, Typed
    <3>2. /\ m_routing_state'.fade_cycles # 0
          /\ m_routing_state'.amount = Amounts(m_routing_state'.from_channels, m_routing_state'.to_channels,
                                               Share(m_routing_state'))
      BY <2>3, <3>1, ShareGrows, UpdatedTyped
    <3> QED BY <2>1, <3>2 DEF AmountsInv, Computed, Share, Amounts
  <2> QED BY <1>4, <2>2, <2>3 DEF Update
<1>5. CASE CleanupReset
  <2>1. ~needs_channel_routing' /\ UNCHANGED <<route_state, control>>
    BY <1>5, NoRouteTyped DEF CleanupReset, needs_channel_routing, vars
  <2> QED BY <2>1 DEF AmountsInv, Computed, Share, Amounts
<1>6. ASSUME NEW ch \in Channels, NEW add \in BOOLEAN, Meddle(ch, add) PROVE AmountsInv'
  BY <1>1, <1>6 DEF Meddle, Call
<1>7. CASE Control
  <2>1. control'.at # "store"
    BY <1>7, JoiningTyped DEF Control, SetActive, UnsetActive, UnsetPending, QueueOp, Typed, ControlState
  <2> QED BY <1>1, <1>7, <2>1 DEF Control, routing
<1>8. ASSUME NEW ch \in joining, Join(ch) PROVE AmountsInv'
  BY <1>1, <1>8 DEF Join
<1>9. CASE Frame
  BY <1>1, <1>9 DEF Frame, BeginFrame, Visit, VisitOthers, Preprocess, ResetOr, ResetTest, ResetCas,
                    Postprocess, routing
<1>10. CASE Cleanup \/ CleanupRemove \/ UNCHANGED rvars
  BY <1>1, <1>10, RemoveSteps DEF Cleanup, rvars, vars, routing
<1> QED BY <1>2, <1>3, <1>4, <1>5, <1>6, <1>7, <1>8, <1>9, <1>10 DEF RNext, Callback

\* The amounts of a fade that is under way.
LEMMA AmountRange ==
  ASSUME Typed, AmountsInv, needs_channel_routing, NEW ch \in Channels
  PROVE  /\ m_routing_state.amount[ch] \in Int
         /\ 0 <= m_routing_state.amount[ch] /\ m_routing_state.amount[ch] <= Unit
         /\ ch \notin m_routing_state.from_channels \cup m_routing_state.to_channels =>
              m_routing_state.amount[ch] = 0
<1>1. /\ m_routing_state \in RoutingState /\ m_routing_state.fade_cycles # 0
      /\ m_routing_state.from_channels \in SUBSET Channels /\ m_routing_state.to_channels \in SUBSET Channels
  BY DEF Typed, RoutingState, AmountsInv, Computed
<1>2. /\ Share(m_routing_state) \in Int
      /\ 0 <= Share(m_routing_state) /\ Share(m_routing_state) <= Unit
  BY <1>1, ShareBounds
<1>3. m_routing_state.amount = Amounts(m_routing_state.from_channels, m_routing_state.to_channels,
                                       Share(m_routing_state))
  BY DEF AmountsInv, Computed
<1> QED BY <1>1, <1>2, <1>3, AmountFacts

\* The steps that change what a channel has heard.
LEMMA LevelSteps ==
  ASSUME Typed, [RNext]_rvars
  PROVE  \/ level' = level
         \/ /\ audio.at = "visit" /\ audio.ch \in Channels
            /\ Visit \/ VisitOthers
            /\ UNCHANGED <<m_routing_state, routes, wanted, clean, callback, joining, leaving, route_state>>
            /\ \/ /\ audio.ch \in listed
                  /\ level' = [level EXCEPT ![audio.ch] =
                       IF needs_channel_routing THEN m_routing_state.amount[audio.ch] ELSE Unit]
               \/ /\ audio.ch \notin listed
                  /\ level' = [level EXCEPT ![audio.ch] = 0]
<1>1. CASE Frame
  <2>1. audio.ch \in Channels
    BY DEF Typed, AudioState
  <2> QED BY <1>1, <2>1 DEF Frame, Visit, VisitOthers, routing
<1>2. ASSUME NEW ch \in Channels, NEW add \in BOOLEAN, Meddle(ch, add) PROVE level' = level
  BY <1>2 DEF Meddle
<1>3. ASSUME NEW target \in SUBSET Channels, NEW fade \in Fades, RouteRead(target, fade) PROVE level' = level
  BY <1>3 DEF RouteRead
<1>4. ASSUME NEW ch \in joining, Join(ch) PROVE level' = level
  BY <1>4 DEF Join
<1>5. CASE Control \/ RouteStore \/ Update \/ Cleanup \/ CleanupReset \/ CleanupRemove \/ UNCHANGED rvars
  BY <1>5, RemoveSteps DEF Control, RouteStore, Update, Cleanup, CleanupReset, routing, rvars
<1> QED BY <1>1, <1>2, <1>3, <1>4, <1>5 DEF RNext, Callback

LEMMA LevelStep == Typed /\ AmountsInv /\ LevelInv /\ [RNext]_rvars => LevelInv'
<1> SUFFICES ASSUME Typed, AmountsInv, LevelInv, [RNext]_rvars, NEW ch \in Channels
             PROVE  0 <= level'[ch] /\ level'[ch] <= Unit
  BY DEF LevelInv
<1>1. 0 <= level[ch] /\ level[ch] <= Unit /\ Unit \in Nat /\ level \in [Channels -> Int]
  BY RoutingAssumption DEF LevelInv, Typed
<1>2. level'[ch] \in {level[ch], Unit, 0} \/ (needs_channel_routing /\ level'[ch] = m_routing_state.amount[ch])
  BY <1>1, LevelSteps
<1> QED BY <1>1, <1>2, AmountRange

LEMMA PlaceStep == Typed /\ SilenceInv /\ PlaceInv /\ [RNext]_rvars => PlaceInv'
<1> SUFFICES ASSUME Typed, SilenceInv, PlaceInv, [RNext]_rvars PROVE PlaceInv'
  OBVIOUS
<1>1. ASSUME UNCHANGED <<control, joining, callback, leaving>>,
             needs_channel_routing => needs_channel_routing'
      PROVE  PlaceInv'
  BY <1>1 DEF PlaceInv, Removing
<1>2. ASSUME UNCHANGED <<callback, leaving, m_routing_state>>,
             control'.at \in {"idle", "store"} => joining' = {}
      PROVE  PlaceInv'
  BY <1>2 DEF PlaceInv, Removing, needs_channel_routing
<1>3. ASSUME NEW ch \in Channels, NEW add \in BOOLEAN, Meddle(ch, add) PROVE PlaceInv'
  BY <1>2, <1>3 DEF Meddle, Call
<1>4. CASE Control
  <2>1. UNCHANGED <<callback, leaving, m_routing_state, joining>>
    BY <1>4 DEF Control, routing
  <2>2. control'.at \in {"idle", "store"} => joining = {}
    BY <1>4 DEF Control, SetActive, UnsetActive, UnsetPending, QueueOp, Joining, Typed, ControlState, NoCall
  <2> QED BY <1>2, <2>1, <2>2
<1>5. ASSUME NEW target \in SUBSET Channels, NEW fade \in Fades, RouteRead(target, fade) PROVE PlaceInv'
  BY <1>2, <1>5 DEF RouteRead, PlaceInv
<1>6. CASE RouteStore
  <2>1. needs_channel_routing' /\ UNCHANGED <<callback, leaving>>
    BY <1>6 DEF RouteStore, SilenceInv, needs_channel_routing
  <2>2. control'.at \in {"idle", "store"} => joining' = {}
    BY <1>6 DEF RouteStore, Joining, NoCall
  <2> QED BY <2>1, <2>2 DEF PlaceInv, Removing
<1>7. ASSUME NEW ch \in joining, Join(ch) PROVE PlaceInv'
  BY <1>2, <1>7 DEF Join
<1>8. CASE Update
  <2>1. /\ callback = "update" /\ callback' = "frames" /\ UNCHANGED <<control, joining, leaving>>
    BY <1>8 DEF Update, vars
  <2> QED BY <2>1 DEF PlaceInv, Removing
<1>9. CASE Frame
  BY <1>1, <1>9 DEF Frame, BeginFrame, Visit, VisitOthers, Preprocess, ResetOr, ResetTest, ResetCas,
                    Postprocess, routing, needs_channel_routing
<1>10. CASE Cleanup
  <2>1. callback = "frames" /\ UNCHANGED <<control, joining, m_routing_state>>
    BY <1>10 DEF Cleanup, vars
  <2> QED BY <1>10, <2>1 DEF Cleanup, PlaceInv, Removing, needs_channel_routing
<1>11. CASE CleanupReset
  BY <1>11 DEF CleanupReset, Leaving, PlaceInv, Removing, vars
<1>12. CASE CleanupRemove
  BY <1>12, RemoveSteps DEF Unset, UnsetReset, Removal, PlaceInv, Removing
<1>13. CASE UNCHANGED rvars
  BY <1>1, <1>13 DEF rvars, vars, routing, needs_channel_routing
<1> QED BY <1>3, <1>4, <1>5, <1>6, <1>7, <1>8, <1>9, <1>10, <1>11, <1>12, <1>13 DEF RNext, Callback

OneWay(ch) == IF ch \in wanted THEN level'[ch] >= level[ch] ELSE level'[ch] <= level[ch]

\* A visit takes what the channel has heard to the amount, or, when no fade is
\* under way, to what it is to be in the end.
LEMMA VisitMoves ==
  ASSUME Typed, SilenceInv, AmountsInv, LevelInv, PlaceInv, FadeInv, clean, [RNext]_rvars,
         NEW ch \in Channels
  PROVE  /\ OneWay(ch)
         /\ level' # level =>
              /\ ch \in wanted /\ ch \notin listed => level'[ch] = 0
              /\ needs_channel_routing => IF ch \in wanted THEN level'[ch] <= m_routing_state.amount[ch]
                                                           ELSE level'[ch] >= m_routing_state.amount[ch]
              /\ control.at = "store" => level'[ch] = IF ch \in listed THEN Unit ELSE 0
<1> DEFINE amount == m_routing_state.amount[ch]
<1>1. /\ level[ch] \in Int /\ 0 <= level[ch] /\ level[ch] <= Unit /\ Unit \in Nat
      /\ level \in [Channels -> Int]
  BY RoutingAssumption DEF LevelInv, Typed
<1>2. Heard(ch) /\ Waiting /\ Fading /\ VisitReady
  BY DEF FadeInv
<1>3. needs_channel_routing => amount \in Int /\ 0 <= amount
  BY AmountRange
<1>4. control.at = "store" => ~needs_channel_routing /\ level[ch] = IF ch \in listed THEN Unit ELSE 0
  BY <1>2 DEF Waiting
<1>5. CASE level'[ch] = level[ch]
  BY <1>1, <1>2, <1>4, <1>5 DEF OneWay, Heard, Lags
<1>6. CASE level'[ch] # level[ch]
  <2>1. /\ audio.at = "visit" /\ audio.ch = ch
        /\ \/ ch \in listed /\ level'[ch] = IF needs_channel_routing THEN amount ELSE Unit
           \/ ch \notin listed /\ level'[ch] = 0
    BY <1>1, <1>6, LevelSteps
  <2>2. CASE ch \in listed /\ needs_channel_routing
    <3>1. level'[ch] = amount
      BY <2>1, <2>2
    <3> QED BY <1>1, <1>2, <1>3, <1>4, <2>2, <3>1 DEF OneWay, Heard, Lags
  <2>3. CASE ch \in listed /\ ~needs_channel_routing
    <3>1. level'[ch] = Unit
      BY <2>1, <2>3
    <3>2. leaving = {}
      BY <2>1 DEF SilenceInv, PlaceInv
    <3>3. ch \notin wanted => pending_ops[ch] = <<>>
      BY <1>2, <2>1 DEF VisitReady
    <3>4. ch \in wanted \/ control.at = "store"
      BY <1>2, <2>3, <3>2, <3>3 DEF Heard
    <3> QED BY <1>1, <1>4, <2>3, <3>1, <3>4 DEF OneWay
  <2>4. CASE ch \notin listed
    <3>1. level'[ch] = 0 /\ (ch \in wanted => level[ch] = 0)
      BY <1>2, <2>1, <2>4 DEF Heard
    <3>2. needs_channel_routing /\ ch \notin wanted => amount = 0
      BY <1>2, <2>4, AmountRange DEF Fading
    <3> QED BY <1>1, <1>2, <1>3, <1>4, <2>4, <3>1, <3>2 DEF OneWay, Heard, Lags
  <2> QED BY <2>2, <2>3, <2>4
<1> QED BY <1>5, <1>6

\* An update takes the amounts of the channels further the way they go.
LEMMA AmountsMove ==
  ASSUME Typed, AmountsInv, needs_channel_routing, NEW ch \in Channels
  PROVE  LET new == Updated(m_routing_state).amount[ch] IN
         /\ new \in Int
         /\ IF ch \in m_routing_state.to_channels THEN new >= m_routing_state.amount[ch]
                                                  ELSE new <= m_routing_state.amount[ch]
<1> DEFINE from == m_routing_state.from_channels
           to == m_routing_state.to_channels
           old == Share(m_routing_state)
           new == Share(Updated(m_routing_state))
<1>1. /\ m_routing_state \in RoutingState /\ m_routing_state.fade_cycles # 0
      /\ from \in SUBSET Channels /\ to \in SUBSET Channels /\ Unit \in Nat
  BY RoutingAssumption DEF Typed, RoutingState, AmountsInv, Computed
<1>2. old \in Int /\ 0 <= old /\ old <= Unit
  BY <1>1, ShareBounds
<1>3. Updated(m_routing_state) \in RoutingState /\ Updated(m_routing_state).fade_cycles # 0
  BY <1>1, ShareGrows, UpdatedTyped
<1>4. new \in Int /\ 0 <= new /\ new <= Unit /\ old <= new
  BY <1>1, <1>3, ShareBounds, ShareGrows
<1>5. /\ m_routing_state.amount[ch] = Amounts(from, to, old)[ch]
      /\ Updated(m_routing_state).amount[ch] = Amounts(from, to, new)[ch]
  BY <1>1, ShareGrows DEF AmountsInv, Computed
<1> HIDE DEF from, to, old, new
<1>6. Unit - new <= Unit - old
  BY <1>1, <1>2, <1>4
<1>7. /\ Amounts(from, to, new)[ch] \in Int
      /\ IF ch \in to THEN Amounts(from, to, new)[ch] >= Amounts(from, to, old)[ch]
                      ELSE Amounts(from, to, new)[ch] <= Amounts(from, to, old)[ch]
  <2>1. CASE ch \in from /\ ch \in to
    BY <1>1, <1>2, <1>4, <2>1, AmountFacts
  <2>2. CASE ch \in from /\ ch \notin to
    BY <1>1, <1>2, <1>4, <1>6, <2>2, AmountFacts
  <2>3. CASE ch \notin from /\ ch \in to
    BY <1>1, <1>2, <1>4, <2>3, AmountFacts
  <2>4. CASE ch \notin from /\ ch \notin to
    BY <1>1, <1>2, <1>4, <2>4, AmountFacts
  <2> QED BY <2>1, <2>2, <2>3, <2>4
<1> QED BY <1>5, <1>7 DEF to

\* What process_pending_operations makes of the list.
LEMMA DrainedList ==
  ASSUME Typed, NEW ch \in Channels, Drained(ch)
  PROVE  /\ \A d \in Channels : d # ch => (d \in listed' <=> d \in listed)
         /\ pending_ops[ch] = <<>> => listed' = listed
         /\ pending_ops[ch] # <<>> /\ LastOp(ch) = TRUE => ch \in listed'
         /\ pending_ops[ch] # <<>> /\ LastOp(ch) = FALSE => ch \notin listed'
<1>1. listed' = IF pending_ops[ch] = <<>> THEN listed
                ELSE IF LastOp(ch) THEN listed \cup {ch} ELSE listed \ {ch}
  BY Zenon DEF Drained, LastOp
<1> QED BY <1>1

\* An operation comes last in the queue it is put in.
LEMMA AppendLast ==
  ASSUME Typed, NEW ch \in Channels, NEW b \in BOOLEAN,
         pending_ops' = [pending_ops EXCEPT ![ch] = Append(@, b)]
  PROVE  /\ pending_ops'[ch] # <<>> /\ LastOp(ch)' = b
         /\ \A d \in Channels : d # ch => pending_ops'[d] = pending_ops[d]
<1>1. pending_ops[ch] \in Seq(BOOLEAN) /\ pending_ops'[ch] = Append(pending_ops[ch], b)
  BY DEF Typed
<1>2. pending_ops'[ch] # <<>> /\ pending_ops'[ch][Len(pending_ops'[ch])] = b
  BY <1>1
<1> QED BY <1>2 DEF Typed, LastOp

LEMMA FadeRead ==
  ASSUME Typed, PlaceInv, NEW target \in SUBSET Channels, NEW fade \in Fades, RouteRead(target, fade),
         clean'
  PROVE  FadeInv'
<1>1. AtRest /\ wanted' = target /\ control'.at = "store"
  BY DEF RouteRead, NoCall
<1>2. /\ UNCHANGED <<audio, listed, level, pending_ops, m_routing_state, callback, leaving, joining>>
      /\ needs_channel_routing' = needs_channel_routing
  BY DEF RouteRead, needs_channel_routing
<1>3. /\ ~needs_channel_routing /\ leaving = {} /\ joining = {}
      /\ listed = m_active_channels_mask /\ \A ch \in Channels : pending_ops[ch] = <<>>
      /\ \A ch \in Channels : level[ch] = IF ch \in listed THEN Unit ELSE 0
  BY <1>1 DEF AtRest, NoOpsPending, PlaceInv
<1>4. callback # "reset" /\ ~Removing /\ callback \in {"update", "frames"}
  BY <1>3 DEF PlaceInv, Removing, Typed
<1>5. route_state' = NewState(listed', wanted', fade)
  BY <1>1, <1>2, <1>3 DEF RouteRead
<1>6. OnlyJoins' /\ OnlyLeaves'
  BY <1>1, <1>2, <1>3, <1>4 DEF OnlyJoins, OnlyLeaves, Removing
<1>7. \E f \in Fades : route_state' = NewState(listed', wanted', f)
  BY <1>5
<1>8. Waiting'
  BY <1>2, <1>3, <1>4, <1>7 DEF Waiting, NewState
<1>9. Fading' /\ VisitReady'
  <2>1. audio.ch \in Channels
    BY DEF Typed, AudioState
  <2> QED BY <1>2, <1>3, <2>1 DEF Fading, VisitReady
<1>10. \A ch \in Channels : Heard(ch)'
  BY <1>1, <1>2, <1>3 DEF Heard
<1> QED BY <1>6, <1>8, <1>9, <1>10 DEF FadeInv

LEMMA FadeStore ==
  ASSUME Typed, SilenceInv, PlaceInv, FadeInv, clean, RouteStore
  PROVE  FadeInv'
<1>1. /\ OnlyJoins /\ OnlyLeaves /\ Waiting /\ VisitReady /\ control.at = "store"
      /\ \A ch \in Channels : Heard(ch)
  BY DEF FadeInv, RouteStore
<1>2. PICK fade \in Fades : route_state = NewState(listed, wanted, fade)
  BY <1>1 DEF Waiting
<1>3. /\ m_routing_state'.phase = "ACTIVE" /\ m_routing_state'.to_channels = wanted
      /\ m_routing_state'.from_channels = listed
      /\ m_routing_state'.amount = [ch \in Channels |-> IF ch \in listed THEN Unit ELSE 0]
      /\ joining' = wanted \ listed
  BY <1>2 DEF RouteStore, NewState
<1>4. /\ UNCHANGED <<audio, listed, level, pending_ops, callback, leaving, wanted>>
      /\ control'.at \in {"idle", "join"} /\ needs_channel_routing'
  BY <1>3, JoiningTyped DEF RouteStore, needs_channel_routing
<1>5. ~needs_channel_routing /\ leaving = {} /\ callback # "reset" /\ ~Removing
  BY <1>1 DEF Waiting, PlaceInv, Removing
<1>6. OnlyJoins' /\ OnlyLeaves'
  BY <1>3, <1>4, <1>5 DEF OnlyJoins, OnlyLeaves, Removing
<1>7. Waiting' /\ VisitReady'
  BY <1>1, <1>4 DEF Waiting, VisitReady
<1>8. Fading'
  BY <1>1, <1>3, <1>4 DEF Fading, Waiting
<1>9. ASSUME NEW ch \in Channels PROVE Heard(ch)'
  <2>1. level[ch] = m_routing_state'.amount[ch] /\ level[ch] \in Int
    BY <1>1, <1>3 DEF Waiting, Typed
  <2>2. Lags(ch)'
    BY <1>4, <2>1 DEF Lags
  <2> QED BY <1>1, <1>4, <2>2 DEF Heard, LastOp
<1> QED BY <1>6, <1>7, <1>8, <1>9 DEF FadeInv

\* The control thread goes on with its route.
LEMMA FadeControl ==
  ASSUME Typed, FadeInv, clean, Control \/ \E ch \in joining : Join(ch)
  PROVE  FadeInv'
<1>1. /\ OnlyJoins /\ OnlyLeaves /\ Waiting /\ Fading /\ VisitReady
      /\ \A ch \in Channels : Heard(ch)
  BY DEF FadeInv
<1>2. /\ UNCHANGED <<audio, listed, level, m_routing_state, callback, leaving, wanted, clean, route_state>>
      /\ joining' \subseteq joining
  BY DEF Control, Join, SetActive, UnsetActive, UnsetPending, QueueOp, routing
<1>3. needs_channel_routing' = needs_channel_routing /\ Left' = Left
  BY <1>2 DEF needs_channel_routing, Left
<1>4. ASSUME control.at # "store", control'.at # "store", pending_ops' = pending_ops, OnlyJoins'
      PROVE  FadeInv'
  <2>1. OnlyLeaves' /\ Waiting' /\ Fading' /\ VisitReady'
    BY <1>1, <1>2, <1>3, <1>4 DEF OnlyLeaves, Removing, Waiting, Fading, VisitReady
  <2>2. \A ch \in Channels : Heard(ch)'
    BY <1>1, <1>2, <1>3, <1>4 DEF Heard, Lags, LastOp
  <2> QED BY <1>4, <2>1, <2>2 DEF FadeInv
<1>5. CASE \E ch \in joining : Join(ch)
  <2>1. PICK ch \in joining : Join(ch)
    BY <1>5
  <2>2. ch \in wanted
    BY <1>1 DEF OnlyJoins
  <2> QED BY <1>1, <1>2, <1>4, <2>1, <2>2 DEF Join, OnlyJoins
<1>6. CASE SetActive
  <2>1. control.at = "set" /\ control' = [control EXCEPT !.at = "op"] /\ pending_ops' = pending_ops
    BY <1>6 DEF SetActive
  <2>2. control'.at = "op" /\ control'.ch = control.ch /\ control'.add = control.add
    BY <2>1 DEF Typed, ControlState
  <2>3. OnlyJoins'
    BY <1>1, <1>2, <2>1, <2>2 DEF OnlyJoins
  <2> QED BY <1>4, <2>1, <2>2, <2>3
<1>7. CASE UnsetActive \/ UnsetPending
  BY <1>1, <1>7 DEF UnsetActive, UnsetPending, OnlyJoins
<1>8. CASE QueueOp(Joining(joining))
  <2>8. PICK c \in Channels : c = control.ch
    BY DEF Typed, ControlState
  <2>1. /\ control.at = "op" /\ control.add = TRUE /\ c \in wanted /\ c \in Channels
        /\ control'.at \in {"idle", "join"}
        /\ pending_ops' = [pending_ops EXCEPT ![c] = Append(@, control.add)]
    BY <1>1, <1>8, <2>8, JoiningTyped DEF QueueOp, OnlyJoins
  <2>2. pending_ops' = [pending_ops EXCEPT ![c] = Append(@, TRUE)]
    BY <2>1
  <2>7. TRUE \in BOOLEAN
    OBVIOUS
  <2>3. /\ pending_ops'[c] # <<>> /\ LastOp(c)' = TRUE
        /\ \A d \in Channels : d # c => pending_ops'[d] = pending_ops[d]
    BY <2>1, <2>2, <2>7, AppendLast
  <2>4. OnlyJoins' /\ OnlyLeaves' /\ Waiting'
    BY <1>1, <1>2, <1>3, <2>1 DEF OnlyJoins, OnlyLeaves, Removing, Waiting
  <2>5. Fading' /\ VisitReady'
    <3>1. audio.ch \in Channels
      BY DEF Typed, AudioState
    <3> QED BY <1>1, <1>2, <1>3, <2>1, <2>3, <3>1 DEF Fading, VisitReady
  <2>6. ASSUME NEW ch \in Channels PROVE Heard(ch)'
    <3>1. CASE ch = c
      <4>1. LastOp(ch)' = (ch \in wanted')
        BY <1>2, <2>1, <2>3, <3>1
      <4> QED BY <1>1, <1>2, <1>3, <2>1, <2>3, <3>1, <4>1 DEF Heard, Lags
    <3>2. CASE ch # c
      BY <1>1, <1>2, <1>3, <2>1, <2>3, <3>2 DEF Heard, Lags, LastOp
    <3> QED BY <3>1, <3>2
  <2> QED BY <2>4, <2>5, <2>6 DEF FadeInv
<1> QED BY <1>5, <1>6, <1>7, <1>8 DEF Control

LEMMA FadeUpdate ==
  ASSUME Typed, AmountsInv, PlaceInv, FadeInv, clean, Update
  PROVE  FadeInv'
<1>1. /\ OnlyJoins /\ OnlyLeaves /\ Waiting /\ Fading /\ VisitReady
      /\ \A ch \in Channels : Heard(ch)
  BY DEF FadeInv
<1>2. /\ UNCHANGED <<audio, listed, level, pending_ops, control, leaving, joining, wanted, clean, route_state>>
      /\ callback = "update" /\ callback' = "frames"
  BY DEF Update, vars
<1>3. CASE needs_channel_routing /\ m_routing_state' = Updated(m_routing_state)
  <2>1. /\ needs_channel_routing' /\ m_routing_state'.from_channels = m_routing_state.from_channels
        /\ m_routing_state'.to_channels = m_routing_state.to_channels
    BY <1>3, UpdatedTyped DEF Typed, needs_channel_routing
  <2>2. OnlyJoins' /\ OnlyLeaves' /\ Fading' /\ VisitReady'
    BY <1>1, <1>2, <1>3, <2>1 DEF OnlyJoins, OnlyLeaves, Removing, Fading, VisitReady
  <2>3. Waiting'
    BY <1>1, <1>2, <1>3 DEF Waiting
  <2>4. ASSUME NEW ch \in Channels PROVE Heard(ch)'
    <3>1. level[ch] \in Int /\ m_routing_state.amount[ch] \in Int /\ Lags(ch)
      BY <1>1, <1>3 DEF Typed, RoutingState, Heard
    <3>2. /\ m_routing_state'.amount[ch] \in Int
          /\ IF ch \in wanted THEN m_routing_state'.amount[ch] >= m_routing_state.amount[ch]
                              ELSE m_routing_state'.amount[ch] <= m_routing_state.amount[ch]
      BY <1>1, <1>3, AmountsMove DEF Fading
    <3>3. Lags(ch)'
      BY <1>2, <3>1, <3>2 DEF Lags
    <3> QED BY <1>1, <1>2, <2>1, <3>3 DEF Heard, LastOp
  <2> QED BY <2>2, <2>3, <2>4 DEF FadeInv
<1>4. CASE m_routing_state' = m_routing_state
  <2>1. OnlyJoins' /\ OnlyLeaves' /\ Waiting' /\ Fading' /\ VisitReady'
    BY <1>1, <1>2, <1>4 DEF OnlyJoins, OnlyLeaves, Removing, Waiting, Fading, VisitReady, needs_channel_routing, Left
  <2>2. \A ch \in Channels : Heard(ch)'
    BY <1>1, <1>2, <1>4 DEF Heard, Lags, LastOp, needs_channel_routing
  <2> QED BY <2>1, <2>2 DEF FadeInv
<1> QED BY <1>3, <1>4 DEF Update

\* The cleanup of the route.
LEMMA FadeCleanup ==
  ASSUME Typed, SilenceInv, PlaceInv, FadeInv, clean, Cleanup \/ CleanupReset \/ CleanupRemove
  PROVE  FadeInv'
<1>1. /\ OnlyJoins /\ OnlyLeaves /\ Waiting /\ Fading /\ VisitReady
      /\ \A ch \in Channels : Heard(ch)
  BY DEF FadeInv
<1>2. UNCHANGED <<audio, listed, level, control, joining, wanted, clean, route_state>>
  BY RemoveSteps DEF Cleanup, CleanupReset, vars
<1>3. OnlyJoins'
  BY <1>1, <1>2 DEF OnlyJoins
<1>4. CASE Cleanup
  <2>1. /\ UNCHANGED <<pending_ops, m_routing_state>> /\ callback = "frames"
        /\ needs_channel_routing' = needs_channel_routing /\ Left' = Left
    BY <1>4 DEF Cleanup, vars, needs_channel_routing, Left
  <2>2. \/ /\ leaving' = Left /\ callback' = "reset" /\ needs_channel_routing
        \/ /\ leaving' = leaving /\ callback' = "update"
    BY <1>4 DEF Cleanup, Left, needs_channel_routing
  <2>3. leaving = {}
    BY <2>1 DEF PlaceInv
  <2>4. OnlyLeaves'
    BY <1>1, <1>2, <2>1, <2>2 DEF OnlyLeaves, Removing, Fading, Left
  <2>5. Waiting' /\ Fading' /\ VisitReady'
    BY <1>1, <1>2, <2>1, <2>2 DEF Waiting, Fading, VisitReady
  <2>6. \A ch \in Channels : Heard(ch)'
    BY <1>1, <1>2, <2>1, <2>2, <2>3 DEF Heard, Lags, LastOp
  <2> QED BY <1>3, <2>4, <2>5, <2>6 DEF FadeInv
<1>5. CASE CleanupReset
  <2>1. /\ UNCHANGED <<pending_ops, leaving>> /\ callback = "reset" /\ callback' \in {"update", "unset"}
        /\ ~needs_channel_routing'
    BY <1>5, NoRouteTyped DEF CleanupReset, Leaving, vars, needs_channel_routing
  <2>2. needs_channel_routing /\ control.at # "store"
    BY <1>1, <2>1 DEF PlaceInv, Waiting
  <2>3. OnlyLeaves' /\ Waiting' /\ Fading' /\ VisitReady'
    BY <1>1, <1>2, <2>1, <2>2 DEF OnlyLeaves, Waiting, Fading, VisitReady
  <2>4. ASSUME NEW ch \in Channels PROVE Heard(ch)'
    <3>1. ch \in listed /\ ch \notin wanted => ch \in leaving
      BY <1>1, <2>1, <2>2 DEF OnlyLeaves, Fading, Left
    <3> QED BY <1>1, <1>2, <2>1, <3>1 DEF Heard, LastOp
  <2> QED BY <1>3, <2>3, <2>4 DEF FadeInv
<1>6. CASE CleanupRemove
  <2>1. PICK c \in leaving : Unset(c) \/ UnsetReset(c) \/ Removal(c)
    BY <1>6, RemoveSteps
  <2>2. /\ Removing /\ audio.at = "frame" /\ m_routing_state' = m_routing_state
        /\ callback' \in {"unset", "unset_pending", "op", "update"}
        /\ c \in Channels /\ c \notin wanted /\ leaving' \subseteq leaving
    BY <1>1, <1>6, <2>1, RemoveSteps DEF Unset, UnsetReset, Removal, Removing, SilenceInv, OnlyLeaves, Typed
  <2>3. ~needs_channel_routing /\ ~needs_channel_routing' /\ control.at # "store"
    BY <1>1, <2>2 DEF OnlyLeaves, Waiting, Removing, needs_channel_routing
  <2>4. OnlyLeaves' /\ Waiting' /\ Fading' /\ VisitReady'
    BY <1>1, <1>2, <2>2, <2>3 DEF OnlyLeaves, Waiting, Fading, VisitReady
  <2>5. CASE UNCHANGED <<pending_ops, leaving>>
    <3>1. \A ch \in Channels : Heard(ch)'
      BY <1>1, <1>2, <2>3, <2>5 DEF Heard, LastOp
    <3> QED BY <1>3, <2>4, <3>1 DEF FadeInv
  <2>6. CASE Removal(c)
    <3>1. pending_ops' = [pending_ops EXCEPT ![c] = Append(@, FALSE)] /\ leaving' = leaving \ {c}
      BY <2>6 DEF Removal
    <3>5. FALSE \in BOOLEAN
      OBVIOUS
    <3>2. /\ pending_ops'[c] # <<>> /\ LastOp(c)' = FALSE
          /\ \A d \in Channels : d # c => pending_ops'[d] = pending_ops[d]
      BY <2>2, <3>1, <3>5, AppendLast
    <3>3. ASSUME NEW ch \in Channels PROVE Heard(ch)'
      <4>1. CASE ch = c
        <5>1. (ch \in wanted') = FALSE
          BY <1>2, <2>2, <4>1
        <5>2. LastOp(ch)' = (ch \in wanted')
          BY <3>2, <4>1, <5>1
        <5> QED BY <1>2, <2>2, <2>3, <3>2, <4>1, <5>2 DEF Heard
      <4>2. CASE ch # c
        BY <1>1, <1>2, <2>3, <3>1, <3>2, <4>2 DEF Heard, LastOp
      <4> QED BY <4>1, <4>2
    <3> QED BY <1>3, <2>4, <3>3 DEF FadeInv
  <2> QED BY <2>1, <2>5, <2>6 DEF Unset, UnsetReset
<1> QED BY <1>4, <1>5, <1>6

\* The frames: a root drains its queue before it visits the node.
LEMMA FadeFrame ==
  ASSUME Typed, SilenceInv, AmountsInv, LevelInv, PlaceInv, FadeInv, clean, [RNext]_rvars, Frame
  PROVE  FadeInv'
<1>1. /\ OnlyJoins /\ OnlyLeaves /\ Waiting /\ Fading /\ VisitReady
      /\ \A ch \in Channels : Heard(ch)
  BY DEF FadeInv
<1>2. /\ UNCHANGED <<m_routing_state, callback, leaving, joining, wanted, clean, route_state, control>>
      /\ needs_channel_routing' = needs_channel_routing /\ Left' = Left
  BY DEF Frame, BeginFrame, Visit, VisitOthers, Preprocess, ResetOr, ResetTest, ResetCas, Postprocess,
         routing, needs_channel_routing, Left
<1>3. OnlyJoins' /\ OnlyLeaves'
  BY <1>1, <1>2 DEF OnlyJoins, OnlyLeaves, Removing
<1>4. CASE Preprocess \/ Postprocess
  <2> DEFINE c == audio.ch
  <2>1. Drained(c) /\ c \in Channels /\ (audio'.at = "visit" => audio'.ch = c)
    <3>1. CASE Preprocess
      BY <3>1 DEF Preprocess, Typed, AudioState
    <3>2. CASE Postprocess
      <4>1. audio'.at \in {"frame", "pre"}
        BY <3>2 DEF Postprocess, AtFrame
      <4> QED BY <3>2, <4>1 DEF Postprocess, Typed, AudioState
    <3> QED BY <1>4, <3>1, <3>2
  <2>2. level' = level
    BY <1>4 DEF Frame, Preprocess, Postprocess, Visit, VisitOthers, BeginFrame, routing
  <2> HIDE DEF c
  <2>3. /\ pending_ops'[c] = <<>>
        /\ \A d \in Channels : d # c => pending_ops'[d] = pending_ops[d] /\ (d \in listed' <=> d \in listed)
    BY <2>1, DrainedTyped, DrainedList
  <2>4. /\ pending_ops[c] = <<>> => listed' = listed
        /\ pending_ops[c] # <<>> /\ c \in wanted => c \in listed'
        /\ pending_ops[c] # <<>> /\ c \notin wanted => c \notin listed'
    <3>1. pending_ops[c] # <<>> => LastOp(c) = (c \in wanted)
      BY <1>1, <2>1 DEF Heard
    <3>2. CASE c \in wanted
      <4>1. (c \in wanted) = TRUE
        BY <3>2
      <4> QED BY <2>1, <3>1, <3>2, <4>1, DrainedList
    <3>3. CASE c \notin wanted
      <4>1. (c \in wanted) = FALSE
        BY <3>3
      <4> QED BY <2>1, <3>1, <3>3, <4>1, DrainedList
    <3> QED BY <3>2, <3>3
  <2>5. Fading' /\ VisitReady'
    BY <1>1, <1>2, <2>1, <2>3, <2>4 DEF Fading, VisitReady
  <2>6. Waiting'
    <3>1. SUFFICES ASSUME control.at = "store" PROVE Waiting'
      BY <1>2 DEF Waiting
    <3>2. pending_ops[c] = <<>> /\ listed' = listed
      BY <1>1, <2>1, <2>4, <3>1 DEF Waiting
    <3> QED BY <1>1, <1>2, <2>2, <2>3, <3>1, <3>2 DEF Waiting, NewState
  <2>7. ASSUME NEW ch \in Channels PROVE Heard(ch)'
    <3>1. CASE ch = c
      BY <1>1, <1>2, <2>2, <2>3, <2>4, <3>1 DEF Heard, Lags
    <3>2. CASE ch # c
      BY <1>1, <1>2, <2>2, <2>3, <3>2 DEF Heard, Lags, LastOp
    <3> QED BY <3>1, <3>2
  <2> QED BY <1>3, <2>5, <2>6, <2>7 DEF FadeInv
<1>5. CASE ~(Preprocess \/ Postprocess)
  <2>1. audio'.at # "visit" /\ UNCHANGED <<listed, pending_ops>>
    BY <1>5 DEF Frame, BeginFrame, Visit, VisitOthers, ResetOr, ResetTest, ResetCas, AtFrame,
                Typed, AudioState
  <2>2. Fading' /\ VisitReady'
    BY <1>1, <1>2, <2>1 DEF Fading, VisitReady
  <2>3. CASE level' = level
    <3>1. Waiting'
      BY <1>1, <1>2, <2>1, <2>3 DEF Waiting, NewState
    <3>2. \A ch \in Channels : Heard(ch)'
      BY <1>1, <1>2, <2>1, <2>3 DEF Heard, Lags, LastOp
    <3> QED BY <1>3, <2>2, <3>1, <3>2 DEF FadeInv
  <2>4. CASE level' # level
    <3>1. \A ch \in Channels :
            /\ ch \in wanted /\ ch \notin listed => level'[ch] = 0
            /\ needs_channel_routing => IF ch \in wanted THEN level'[ch] <= m_routing_state.amount[ch]
                                                         ELSE level'[ch] >= m_routing_state.amount[ch]
            /\ control.at = "store" => level'[ch] = IF ch \in listed THEN Unit ELSE 0
      BY <2>4, VisitMoves
    <3>2. Waiting'
      BY <1>1, <1>2, <2>1, <3>1 DEF Waiting, NewState
    <3>3. \A ch \in Channels : Heard(ch)'
      BY <1>1, <1>2, <2>1, <3>1 DEF Heard, Lags, LastOp
    <3> QED BY <1>3, <2>2, <3>2, <3>3 DEF FadeInv
  <2> QED BY <2>3, <2>4
<1> QED BY <1>4, <1>5

LEMMA FadeStep ==
  ASSUME Typed, SilenceInv, AmountsInv, LevelInv, PlaceInv, FadeInv, [RNext]_rvars
  PROVE  FadeInv'
<1> SUFFICES ASSUME clean' PROVE FadeInv'
  BY DEF FadeInv
<1>1. ASSUME NEW ch \in Channels, NEW add \in BOOLEAN, Meddle(ch, add) PROVE FALSE
  BY <1>1 DEF Meddle
<1>2. ASSUME NEW target \in SUBSET Channels, NEW fade \in Fades, RouteRead(target, fade) PROVE FadeInv'
  BY <1>2, FadeRead
<1>3. CASE UNCHANGED rvars
  <2>1. clean
    BY <1>3 DEF rvars, routing
  <2> QED BY <1>3, <2>1 DEF rvars, vars, masks, routing, FadeInv, OnlyJoins, OnlyLeaves, Removing, Left, Waiting,
             NewState, Fading, VisitReady, Heard, Lags, LastOp, needs_channel_routing
<1>4. CASE Control \/ RouteStore \/ (\E ch \in joining : Join(ch)) \/ Callback
  <2>1. clean
    BY <1>4, RemoveSteps DEF Control, RouteStore, Join, Callback, Update, Frame, Cleanup, CleanupReset, routing
  <2> QED BY <1>4, <2>1, FadeControl, FadeStore, FadeUpdate, FadeFrame, FadeCleanup DEF Callback
<1> QED BY <1>1, <1>2, <1>3, <1>4 DEF RNext

\* A fade that is not cut short goes one way on every channel, through its updates,
\* its late additions, its removals and the frames after them (update_routing_state,
\* process_sample).
THEOREM FadesGoOneWay == RSpec => FadesOneWay
<1> DEFINE Inv == Typed /\ SilenceInv /\ AmountsInv /\ LevelInv /\ PlaceInv /\ FadeInv
<1>1. RInit => Inv
  <2> SUFFICES ASSUME RInit PROVE Inv
    OBVIOUS
  <2>1. Typed /\ SilenceInv
    BY InitTyped, RoutingAssumption DEF RInit, Init, NoRoute, NoCall, AtFrame, SilenceInv
  <2>2. AmountsInv
    BY DEF RInit, Init, NoRoute, NoCall, AmountsInv, needs_channel_routing
  <2>3. LevelInv
    BY RoutingAssumption DEF RInit, LevelInv
  <2>4. PlaceInv /\ FadeInv
    BY DEF RInit, Init, NoCall, PlaceInv, Removing, FadeInv
  <2> QED BY <2>1, <2>2, <2>3, <2>4
<1>2. Inv /\ [RNext]_rvars => Inv'
  BY TypedStep, SilenceStep, AmountsStep, LevelStep, PlaceStep, FadeStep
<1>3. Inv /\ [RNext]_rvars =>
        [clean /\ routes' = routes =>
           \A ch \in Channels :
             IF ch \in wanted THEN level'[ch] >= level[ch] ELSE level'[ch] <= level[ch]]_rvars
  BY VisitMoves DEF OneWay
<1> QED BY <1>1, <1>2, <1>3, PTL DEF RSpec, FadesOneWay

==============================================================================
