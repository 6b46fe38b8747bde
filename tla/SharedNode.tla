----------------------------- MODULE SharedNode ------------------------------
(***************************************************************************)
(* One node on the root nodes of several channels: Node's channel masks    *)
(* and PROCESSED flag, RootNode's cycle and NodeGraphManager's add_to_root *)
(* and remove_from_root.  In every frame the audio thread runs             *)
(* process_sample on the root of each channel in turn.  The first root     *)
(* that visits the node processes it, the others take its last output, and *)
(* the flag is taken off when all channels in the active mask have asked   *)
(* for it, so that the node advances once per frame.                       *)
(*                                                                         *)
(* Nodes do not share this state, so one node stands for all.  The queue   *)
(* of pending operations is a sequence per channel here; its slots are in  *)
(* module RootNode.                                                        *)
(***************************************************************************)
EXTENDS Naturals, Sequences

CONSTANTS NumChannels,  \* output channels
          MaxCalls      \* bound on the calls of the control thread

ASSUME ChannelsAssumption ==
  /\ NumChannels \in Nat \ {0}
  /\ MaxCalls \in Nat

VARIABLES
  m_active_channels_mask, m_pending_reset_mask,
  PROCESSED,     \* the flag in m_state
  listed,        \* channels whose root has the node in m_Nodes
  pending_ops,   \* pending_ops[ch]: TRUE for an addition, FALSE for a removal
  audio,         \* where the audio thread is
  control,       \* where the control thread is in its call
  calls,
  count,         \* history: process_sample calls on the node in this frame
  calm           \* history: frames since the last change of the topology

masks == <<m_active_channels_mask, m_pending_reset_mask>>
vars == <<masks, PROCESSED, listed, pending_ops, audio, control, calls, count,
          calm>>

Channels == 0 .. NumChannels - 1

AudioState == [at : {"frame", "pre", "visit", "or", "test", "cas", "post"},
               ch : Channels, new_pending : SUBSET Channels]
AtFrame == [at |-> "frame", ch |-> 0, new_pending |-> {}]

\* In the last two places the thread is in a route, see module NodeRouting.
ControlState == [at : {"idle", "set", "unset", "unset_pending", "op", "store", "join"},
                 ch : Channels, add : BOOLEAN]
NoCall == [at |-> "idle", ch |-> 0, add |-> TRUE]

Init == /\ m_active_channels_mask = {}
        /\ m_pending_reset_mask = {}
        /\ PROCESSED = FALSE
        /\ listed = {}
        /\ pending_ops = [ch \in Channels |-> <<>>]
        /\ audio = AtFrame
        /\ control = NoCall
        /\ calls = 0
        /\ count = 0
        /\ calm = 0

------------------------------------------------------------------------------
(* add_to_root and remove_from_root, on the control thread *)

Call(ch, add) ==
  /\ control.at = "idle"
  /\ calls < MaxCalls
  /\ calls' = calls + 1
  /\ control' = [at |-> IF add THEN "set" ELSE "unset", ch |-> ch, add |-> add]
  /\ calm' = 0
  /\ UNCHANGED <<masks, PROCESSED, listed, pending_ops, audio, count>>

\* register_channel_usage.
SetActive ==
  /\ control.at = "set"
  /\ m_active_channels_mask' = m_active_channels_mask \cup {control.ch}
  /\ control' = [control EXCEPT !.at = "op"]
  /\ UNCHANGED <<m_pending_reset_mask, PROCESSED, listed, pending_ops, audio,
                 calls, count, calm>>

\* unregister_channel_usage: the bit goes from one mask, then from the other.
UnsetActive ==
  /\ control.at = "unset"
  /\ m_active_channels_mask' = m_active_channels_mask \ {control.ch}
  /\ control' = [control EXCEPT !.at = "unset_pending"]
  /\ UNCHANGED <<m_pending_reset_mask, PROCESSED, listed, pending_ops, audio, calls,
                 count, calm>>

UnsetPending ==
  /\ control.at = "unset_pending"
  /\ m_pending_reset_mask' = m_pending_reset_mask \ {control.ch}
  /\ control' = [control EXCEPT !.at = "op"]
  /\ UNCHANGED <<m_active_channels_mask, PROCESSED, listed, pending_ops, audio, calls,
                 count, calm>>

\* register_node / unregister_node queue the operation; the caller goes on with
\* next.
QueueOp(next) ==
  /\ control.at = "op"
  /\ pending_ops' = [pending_ops EXCEPT ![control.ch] = Append(@, control.add)]
  /\ control' = next
  /\ UNCHANGED <<masks, PROCESSED, listed, audio, calls, count, calm>>

------------------------------------------------------------------------------
(* process_sample of each root in turn, on the audio thread *)

\* process_pending_operations on channel ch; a removal resets PROCESSED when
\* no channel uses the node any more (reset_processed_state).
Drained(ch) ==
  LET ops == pending_ops[ch] IN
  /\ pending_ops' = [pending_ops EXCEPT ![ch] = <<>>]
  /\ listed' = IF ops = <<>> THEN listed
               ELSE IF ops[Len(ops)] THEN listed \cup {ch} ELSE listed \ {ch}
  /\ PROCESSED' = (PROCESSED /\ ~(m_active_channels_mask = {}
                                   /\ \E i \in DOMAIN ops : ~ops[i]))

\* The next frame begins: whether the topology was at rest all through the
\* last one is known now.
BeginFrame ==
  /\ audio.at = "frame"
  /\ audio' = [AtFrame EXCEPT !.at = "pre"]
  /\ count' = 0
  /\ calm' = IF control.at # "idle" \/ \E ch \in Channels : pending_ops[ch] # <<>>
             THEN 0 ELSE IF calm < 3 THEN calm + 1 ELSE 3
  /\ UNCHANGED <<masks, PROCESSED, listed, pending_ops, control, calls>>

Preprocess ==
  /\ audio.at = "pre"
  /\ Drained(audio.ch)
  /\ audio' = [audio EXCEPT !.at = "visit"]
  /\ UNCHANGED <<masks, control, calls, count, calm>>

\* The node is in the list: process it, or take its last output.
Visit ==
  /\ audio.at = "visit"
  /\ audio.ch \in listed
  /\ PROCESSED' = TRUE
  /\ count' = IF PROCESSED THEN count ELSE count + 1
  /\ audio' = [audio EXCEPT !.at = "or"]
  /\ UNCHANGED <<masks, listed, pending_ops, control, calls, calm>>

VisitOthers ==
  /\ audio.at = "visit"
  /\ audio.ch \notin listed
  /\ audio' = [audio EXCEPT !.at = "post"]
  /\ UNCHANGED <<masks, PROCESSED, listed, pending_ops, control, calls, count,
                 calm>>

\* request_reset_from_channel: m_pending_reset_mask.fetch_or(channel_bit).
ResetOr ==
  /\ audio.at = "or"
  /\ m_pending_reset_mask' = m_pending_reset_mask \cup {audio.ch}
  /\ audio' = [audio EXCEPT !.at = "test", !.new_pending = m_pending_reset_mask']
  /\ UNCHANGED <<m_active_channels_mask, PROCESSED, listed, pending_ops, control,
                 calls, count, calm>>

\* m_active_channels_mask.load(): have all channels that use the node asked?
ResetTest ==
  /\ audio.at = "test"
  /\ audio' = [audio EXCEPT !.at =
       IF m_active_channels_mask # {} /\ m_active_channels_mask \subseteq audio.new_pending
       THEN "cas" ELSE "post"]
  /\ UNCHANGED <<masks, PROCESSED, listed, pending_ops, control, calls, count,
                 calm>>

\* Variant: the flag is left on the node.
ResetCas_flag_kept ==
  /\ audio.at = "cas"
  /\ m_pending_reset_mask' = IF m_pending_reset_mask = audio.new_pending THEN {}
                             ELSE m_pending_reset_mask
  /\ audio' = [audio EXCEPT !.at = "post"]
  /\ UNCHANGED <<m_active_channels_mask, PROCESSED, listed, pending_ops, control,
                 calls, count, calm>>

\* compare_exchange_strong(new_pending, 0); the winner takes PROCESSED off.
ResetCas ==
  /\ audio.at = "cas"
  /\ IF m_pending_reset_mask = audio.new_pending
     THEN m_pending_reset_mask' = {} /\ PROCESSED' = FALSE
     ELSE UNCHANGED <<m_pending_reset_mask, PROCESSED>>
  /\ audio' = [audio EXCEPT !.at = "post"]
  /\ UNCHANGED <<m_active_channels_mask, listed, pending_ops, control, calls,
                 count, calm>>

\* The rest of postprocess, then the next channel.
Postprocess ==
  /\ audio.at = "post"
  /\ Drained(audio.ch)
  /\ audio' = IF audio.ch = NumChannels - 1 THEN AtFrame
              ELSE [AtFrame EXCEPT !.at = "pre", !.ch = audio.ch + 1]
  /\ UNCHANGED <<masks, control, calls, count, calm>>


------------------------------------------------------------------------------
TypeOK ==
  /\ m_active_channels_mask \subseteq Channels
  /\ m_pending_reset_mask \subseteq Channels
  /\ PROCESSED \in BOOLEAN
  /\ listed \subseteq Channels
  /\ pending_ops \in [Channels -> Seq(BOOLEAN)]
  /\ audio \in AudioState
  /\ control \in ControlState
  /\ calls \in 0 .. MaxCalls
  /\ count \in 0 .. NumChannels
  /\ calm \in 0 .. 3

\* The frame that has just ended ran on a topology that had been at rest for
\* the frame before it too.
Rested == audio.at = "frame" /\ calm >= 2 /\ listed = m_active_channels_mask

\* However channels were added to and taken from the node while frames ran,
\* once the topology is at rest the node is processed exactly once per frame:
\* it neither freezes (PROCESSED never taken off) nor runs at double speed.
OncePerFrame == Rested /\ listed # {} => count = 1
==============================================================================
