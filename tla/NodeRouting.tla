---------------------------- MODULE NodeRouting ------------------------------
(***************************************************************************)
(* Moving a node between channels with a fade: route_node_to_channels, and *)
(* what the audio callback does around its frames, update_routing_states   *)
(* before them and cleanup_completed_routing after them.  The node, its    *)
(* masks, its root nodes and the frame itself are module SharedNode.       *)
(*                                                                         *)
(* add_to_root, remove_from_root and route_node_to_channels are called by  *)
(* the control thread at any time, inside a frame, an update or a cleanup. *)
(* A route reads the node's mask, stores the RoutingState it made of it,   *)
(* and adds the node to the channels it lacks, one after the other;        *)
(* cleanup_completed_routing finds the channels to leave, resets the       *)
(* state, and removes the node from them one after the other.              *)
(*                                                                         *)
(* RoutingState and m_node_registry are plain data that both threads use.  *)
(* A store of the state, an update, a reset, and a change of the registry  *)
(* with the bit it comes with are one step each: what two of these leave   *)
(* when they overlap word by word is not modelled.                         *)
(***************************************************************************)
EXTENDS SharedNode

CONSTANTS FramesPerCallback,
          Unit,       \* full level; a fade goes through the fractions of it
          Fades,      \* lengths of fades, in callbacks
          MaxRoutes,  \* bound on the calls of route_node_to_channels
          MaxChanges  \* bound on the calls of both threads together

ASSUME RoutingAssumption ==
  /\ FramesPerCallback \in Nat \ {0}
  /\ MaxRoutes \in Nat /\ MaxChanges \in Nat /\ Unit \in Nat
  /\ Fades \subseteq 1 .. Unit /\ \A f \in Fades : Unit % f = 0

VARIABLES
  m_routing_state,
  registered,  \* the node is in m_node_registry
  callback,    \* where the audio thread is: before the "update", in the "frames",
               \* or in the cleanup, at "reset", "unset", "unset_pending" or "op"
  frames,      \* frames of this callback still to come
  routes,
  route_state, \* the control thread's: the state its route is to store
  joining,     \* the control thread's: channels its route has still to join
  leaving,     \* the audio thread's: channels its cleanup has still to leave
  level,       \* history: level[ch]: how loud channel ch last heard the node
  wanted,      \* history: the target of the last route
  clean        \* history: the last route found the node at rest, and no call
               \* of another kind has been made since

routing == <<m_routing_state, registered, frames, callback, routes, route_state, joining,
             leaving, level, wanted, clean>>
rvars == <<vars, routing>>

NoRoute == [phase |-> "NONE", from_channels |-> {}, to_channels |-> {}, fade_cycles |-> 1,
            cycles_elapsed |-> 0, amount |-> [ch \in Channels |-> 0]]

needs_channel_routing == m_routing_state.phase \in {"ACTIVE", "COMPLETED"}

NoOpsPending == control.at = "idle" /\ \A ch \in Channels : pending_ops[ch] = <<>>

\* No call, operation, fade or removal is under way, and each channel hears the
\* node fully or not at all.
AtRest ==
  /\ NoOpsPending /\ ~needs_channel_routing /\ leaving = {}
  /\ listed = m_active_channels_mask
  /\ \A ch \in Channels : level[ch] = IF ch \in listed THEN Unit ELSE 0

RInit == /\ Init
         /\ m_routing_state = NoRoute
         /\ registered = FALSE
         /\ frames = 0
         /\ callback = "update"
         /\ routes = 0
         /\ route_state = NoRoute
         /\ joining = {}
         /\ leaving = {}
         /\ level = [ch \in Channels |-> 0]
         /\ wanted = {}
         /\ clean = FALSE

------------------------------------------------------------------------------
(* add_to_root and remove_from_root on the control thread *)

Meddle(ch, add) ==
  /\ routes + calls < MaxChanges
  /\ Call(ch, add)
  /\ clean' = FALSE
  /\ UNCHANGED <<m_routing_state, registered, frames, callback, routes, route_state, joining,
                 leaving, level, wanted>>

\* A route goes on with the next channel it joins.
Joining(rest) == IF rest = {} THEN NoCall ELSE [NoCall EXCEPT !.at = "join"]

\* set_channel_mask registers the node, unset_channel_mask takes it out of the
\* registry, whatever other channels it is on.
Control ==
  \/ SetActive /\ registered' = TRUE
     /\ UNCHANGED <<m_routing_state, frames, callback, routes, route_state, joining, leaving,
                    level, wanted, clean>>
  \/ UnsetActive /\ registered' = FALSE
     /\ UNCHANGED <<m_routing_state, frames, callback, routes, route_state, joining, leaving,
                    level, wanted, clean>>
  \/ (UnsetPending \/ QueueOp(Joining(joining))) /\ UNCHANGED routing

------------------------------------------------------------------------------
(* route_node_to_channels on the control thread *)

NewState(from, target, fade) ==
  [phase |-> "ACTIVE", from_channels |-> from, to_channels |-> target, fade_cycles |-> fade,
   cycles_elapsed |-> 0, amount |-> [ch \in Channels |-> IF ch \in from THEN Unit ELSE 0]]

\* node->get_channel_mask(): the channels the node is on now are those it is to
\* fade from.
RouteRead(target, fade) ==
  /\ control.at = "idle"
  /\ routes < MaxRoutes /\ routes + calls < MaxChanges
  /\ routes' = routes + 1
  /\ route_state' = NewState(m_active_channels_mask, target, fade)
  /\ control' = [NoCall EXCEPT !.at = "store"]
  /\ wanted' = target
  /\ clean' = AtRest
  /\ calm' = 0
  /\ UNCHANGED <<masks, PROCESSED, listed, pending_ops, audio, calls, count, m_routing_state,
                 registered, frames, callback, joining, leaving, level>>

\* node->get_routing_state() = state, whatever state the node was in.
RouteStore ==
  /\ control.at = "store"
  /\ m_routing_state' = route_state
  /\ joining' = route_state.to_channels \ route_state.from_channels
  /\ route_state' = NoRoute
  /\ control' = Joining(joining')
  /\ UNCHANGED <<masks, PROCESSED, listed, pending_ops, audio, calls, count, calm, registered,
                 frames, callback, routes, leaving, level, wanted, clean>>

\* add_to_root for a target channel the node was not on.
Join(ch) ==
  /\ control.at = "join"
  /\ joining' = joining \ {ch}
  /\ control' = [at |-> "set", ch |-> ch, add |-> TRUE]
  /\ UNCHANGED <<masks, PROCESSED, listed, pending_ops, audio, calls, count, calm,
                 m_routing_state, registered, frames, callback, routes, route_state, leaving,
                 level, wanted, clean>>

------------------------------------------------------------------------------
(* update_routing_states_for_cycle, before the frames of a callback *)

\* Variant: the two channels of a fade are exchanged.
Amounts_exchanged(from, to, progress) ==
  [ch \in Channels |-> CASE ch \in from \cap to -> Unit
                         [] ch \in from \ to -> progress
                         [] ch \in to \ from -> Unit - progress
                         [] OTHER -> 0]

Amounts(from, to, progress) ==
  [ch \in Channels |-> CASE ch \in from \cap to -> Unit
                         [] ch \in from \ to -> Unit - progress
                         [] ch \in to \ from -> progress
                         [] OTHER -> 0]

\* Variant: the fade ends one callback early.
Faded_early(state) == state.cycles_elapsed + 2 >= state.fade_cycles

\* The callback that begins is the last one of the fade.
Faded(state) == state.cycles_elapsed + 1 >= state.fade_cycles

\* update_routing_state.  fade_cycles is never 0: route takes at least 1.
Updated(state) ==
  LET elapsed == state.cycles_elapsed + 1
      progress == IF elapsed < state.fade_cycles
                  THEN (Unit * elapsed) \div state.fade_cycles ELSE Unit
  IN [state EXCEPT !.cycles_elapsed = elapsed,
        !.amount = Amounts(state.from_channels, state.to_channels, progress),
        !.phase = IF Faded(state) THEN "COMPLETED" ELSE @]

\* Variant: only a route that is still ACTIVE on a channel it leaves is updated.
Update_leaving_only ==
  /\ callback = "update"
  /\ m_routing_state' = IF registered /\ needs_channel_routing
                           /\ ~(m_routing_state.from_channels \subseteq m_routing_state.to_channels)
                        THEN Updated(m_routing_state) ELSE m_routing_state
  /\ callback' = "frames"
  /\ frames' = FramesPerCallback
  /\ UNCHANGED <<vars, registered, routes, route_state, joining, leaving, level, wanted, clean>>

Update ==
  /\ callback = "update"
  /\ m_routing_state' = IF registered /\ needs_channel_routing THEN Updated(m_routing_state)
                        ELSE m_routing_state
  /\ callback' = "frames"
  /\ frames' = FramesPerCallback
  /\ UNCHANGED <<vars, registered, routes, route_state, joining, leaving, level, wanted, clean>>

------------------------------------------------------------------------------
(* The frames: SharedNode's, with the level at which a channel hears the node *)

Frame ==
  \/ callback = "frames" /\ frames > 0 /\ BeginFrame /\ frames' = frames - 1
     /\ UNCHANGED <<m_routing_state, registered, callback, routes, route_state, joining, leaving,
                    level, wanted, clean>>
  \/ Visit
     /\ level' = [level EXCEPT ![audio.ch] =
                    IF needs_channel_routing THEN m_routing_state.amount[audio.ch] ELSE Unit]
     /\ UNCHANGED <<m_routing_state, registered, frames, callback, routes, route_state, joining,
                    leaving, wanted, clean>>
  \/ VisitOthers /\ level' = [level EXCEPT ![audio.ch] = 0]
     /\ UNCHANGED <<m_routing_state, registered, frames, callback, routes, route_state, joining,
                    leaving, wanted, clean>>
  \/ /\ Preprocess \/ ResetOr \/ ResetTest \/ ResetCas \/ Postprocess
     /\ UNCHANGED routing

------------------------------------------------------------------------------
(* cleanup_completed_routing, after the frames *)

\* The channels of a completed route that are not among its targets.
Cleanup ==
  /\ callback = "frames" /\ audio.at = "frame" /\ frames = 0
  /\ IF registered /\ m_routing_state.phase = "COMPLETED"
     THEN /\ leaving' = m_routing_state.from_channels \ m_routing_state.to_channels
          /\ callback' = "reset"
     ELSE /\ callback' = "update"
          /\ UNCHANGED leaving
  /\ UNCHANGED <<vars, m_routing_state, registered, frames, routes, route_state, joining, level,
                 wanted, clean>>

Leaving(rest) == IF rest = {} THEN "update" ELSE "unset"

\* state = RoutingState {}
CleanupReset ==
  /\ callback = "reset"
  /\ m_routing_state' = NoRoute
  /\ callback' = Leaving(leaving)
  /\ UNCHANGED <<vars, registered, frames, routes, route_state, joining, leaving, level, wanted,
                 clean>>

\* remove_from_root for each of them in turn.  The node goes from the registry
\* and the bit from one mask, then from the other, then the root has it queued.
CleanupRemove ==
  \E ch \in leaving :
    /\ \A other \in leaving : ch <= other
    /\ \/ /\ callback = "unset"
          /\ m_active_channels_mask' = m_active_channels_mask \ {ch}
          /\ registered' = FALSE
          /\ callback' = "unset_pending"
          /\ UNCHANGED <<m_pending_reset_mask, pending_ops, leaving>>
       \/ /\ callback = "unset_pending"
          /\ m_pending_reset_mask' = m_pending_reset_mask \ {ch}
          /\ callback' = "op"
          /\ UNCHANGED <<m_active_channels_mask, pending_ops, leaving, registered>>
       \/ /\ callback = "op"
          /\ pending_ops' = [pending_ops EXCEPT ![ch] = Append(@, FALSE)]
          /\ leaving' = leaving \ {ch}
          /\ callback' = Leaving(leaving')
          /\ UNCHANGED <<masks, registered>>
    /\ calm' = 0
    /\ UNCHANGED <<PROCESSED, listed, audio, control, calls, count, m_routing_state, frames,
                   routes, route_state, joining, level, wanted, clean>>

------------------------------------------------------------------------------
Callback == Update \/ Frame \/ Cleanup \/ CleanupReset \/ CleanupRemove

RNext == \/ \E ch \in Channels, add \in BOOLEAN : Meddle(ch, add)
         \/ Control
         \/ \E target \in SUBSET Channels, fade \in Fades : RouteRead(target, fade)
         \/ RouteStore
         \/ \E ch \in joining : Join(ch)
         \/ Callback

\* The device keeps calling back.
RSpec == RInit /\ [][RNext]_rvars /\ WF_rvars(Callback)

------------------------------------------------------------------------------
\* cleanup_completed_routing takes the node off a channel only when the
\* channel has heard it fade out, whatever routes the control thread makes
\* meanwhile.
RemovedInSilence ==
  [][callback = "unset" /\ callback' = "unset_pending" =>
       \A ch \in m_active_channels_mask \ m_active_channels_mask' : level[ch] = 0]_rvars

\* A fade that is not cut short goes one way: the channels the node joins hear
\* it rise, the channels it leaves hear it fall, however late the control thread
\* adds it, up to the removal and after.
FadesOneWay ==
  [][clean /\ routes' = routes =>
       \A ch \in Channels :
         IF ch \in wanted THEN level'[ch] >= level[ch] ELSE level'[ch] <= level[ch]]_rvars

\* A route of a node that stays in m_node_registry comes to an end.
RegisteredRouteEnds ==
  registered /\ needs_channel_routing ~> ~registered \/ m_routing_state.phase = "NONE"

==============================================================================
