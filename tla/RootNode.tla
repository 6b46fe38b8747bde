------------------------------ MODULE RootNode -------------------------------
(***************************************************************************)
(* Nodes/RootNode: the node list of one channel and the queue of pending   *)
(* registrations.  Control threads call register_node and unregister_node  *)
(* at any time; the processing thread runs cycles (process_sample or       *)
(* process_frame) and applies the queue before and after visiting the      *)
(* nodes.                                                                  *)
(*                                                                         *)
(* A slot's active flag is both the claim of the slot and the signal that  *)
(* it may be applied: the claim is a compare-exchange, and the node and    *)
(* the kind are plain members written after it.  Each write is a step.     *)
(*                                                                         *)
(* The list is a plain vector.  When all slots are taken a call edits it   *)
(* from its own thread, holding nothing: an edit is two steps, the read of *)
(* the list and the store of the edited one, and of two edits that overlap *)
(* the later store wins.  The flags of the nodes (ACTIVE, INACTIVE,        *)
(* PENDING_REMOVAL) are left out; PROCESSED and the channel masks are in   *)
(* module SharedNode.                                                      *)
(***************************************************************************)
EXTENDS Integers, FiniteSets

CONSTANTS
  Nodes,
  NoNode,          \* the null shared_ptr of a free slot
  Controllers,     \* threads that register and unregister
  Owner,           \* Owner[n]: the one controller that registers node n
  MaxPending,      \* MAX_PENDING_NODES
  CountModulus,    \* 2^32, the range of m_pending_count
  MaxCalls         \* bound on the calls of the controllers

ASSUME RootNodeAssumption ==
  /\ MaxPending \in Nat \ {0}
  /\ CountModulus \in Nat \ {0}
  /\ MaxCalls \in Nat
  /\ NoNode \notin Nodes
  /\ Owner \in [Nodes -> Controllers]
  /\ IsFiniteSet(Controllers)

VARIABLES
  m_Nodes,          \* the list, without its order
  m_pending_ops, m_pending_count,
  m_is_processing,
  call,             \* call[c]: where the controller is in its call
  cycle,            \* where the processing thread is
  calls,            \* calls made so far
  called,           \* history: the kinds of call ever made for each node
  torn,             \* history: a slot was applied before it was written
  overlap,          \* history: an edit of the list began inside another one
  crashed           \* a null node was dereferenced

vars == <<m_Nodes, m_pending_ops, m_pending_count, m_is_processing, call, cycle,
          calls, called, torn, overlap, crashed>>

queue == <<m_pending_ops, m_pending_count>>

Slots == 1 .. MaxPending

CallState == [at : {"idle", "scan", "node", "kind", "count", "wait", "direct", "store"},
              slot : Slots, node : Nodes \cup {NoNode}, add : BOOLEAN,
              list : SUBSET Nodes]
NoCall == [at |-> "idle", slot |-> 1, node |-> NoNode, add |-> TRUE, list |-> {}]

\* Which process_pending_operations pass the thread is in: before the nodes
\* (preprocess) or after them (postprocess).
CycleState == [at : {"idle", "look", "apply", "store", "free", "visit", "release"},
               slot : Slots, pass : {"pre", "post"},
               node : Nodes \cup {NoNode}, add : BOOLEAN, list : SUBSET Nodes]
NoCycle == [at |-> "idle", slot |-> 1, pass |-> "pre",
            node |-> NoNode, add |-> TRUE, list |-> {}]

Init == /\ m_Nodes = {}
        /\ m_pending_ops = [s \in Slots |-> [active |-> FALSE, node |-> NoNode,
                                             is_addition |-> TRUE]]
        /\ m_pending_count = 0
        /\ m_is_processing = FALSE
        /\ call = [c \in Controllers |-> NoCall]
        /\ cycle = NoCycle
        /\ calls = 0
        /\ called = [n \in Nodes |-> {}]
        /\ torn = FALSE
        /\ overlap = FALSE
        /\ crashed = FALSE

------------------------------------------------------------------------------
(* register_node and unregister_node *)

Call(c, n, add) ==
  /\ ~crashed
  /\ call[c].at = "idle"
  /\ Owner[n] = c
  /\ calls < MaxCalls
  /\ calls' = calls + 1
  /\ call' = [call EXCEPT ![c] = [NoCall EXCEPT !.at = "scan", !.node = n, !.add = add]]
  /\ called' = [called EXCEPT ![n] = @ \cup {add}]
  /\ UNCHANGED <<m_Nodes, queue, m_is_processing, cycle, torn, overlap, crashed>>

\* Variant: the flag is stored without a look at it.
Claim_untested(c) ==
  LET s == call[c].slot IN
  /\ ~crashed
  /\ call[c].at = "scan"
  /\ m_pending_ops' = [m_pending_ops EXCEPT ![s].active = TRUE]
  /\ call' = [call EXCEPT ![c].at = "node"]
  /\ UNCHANGED <<m_Nodes, m_pending_count, m_is_processing, cycle,
                 calls, called, torn, overlap, crashed>>

\* compare_exchange_strong on a free slot.
Claim(c) ==
  LET s == call[c].slot IN
  /\ ~crashed
  /\ call[c].at = "scan"
  /\ ~m_pending_ops[s].active
  /\ m_pending_ops' = [m_pending_ops EXCEPT ![s].active = TRUE]
  /\ call' = [call EXCEPT ![c].at = "node"]
  /\ UNCHANGED <<m_Nodes, m_pending_count, m_is_processing, cycle,
                 calls, called, torn, overlap, crashed>>

\* The slot is taken: the next one, or the fallback after the last.
ScanOn(c) ==
  LET s == call[c].slot IN
  /\ ~crashed
  /\ call[c].at = "scan"
  /\ m_pending_ops[s].active
  /\ call' = [call EXCEPT ![c] = IF s < MaxPending THEN [@ EXCEPT !.slot = s + 1]
                                                   ELSE [@ EXCEPT !.at = "wait"]]
  /\ UNCHANGED <<m_Nodes, queue, m_is_processing, cycle, calls,
                 called, torn, overlap, crashed>>

\* pending_op.node = node.
WriteNode(c) ==
  /\ ~crashed
  /\ call[c].at = "node"
  /\ m_pending_ops' = [m_pending_ops EXCEPT ![call[c].slot].node = call[c].node]
  /\ call' = [call EXCEPT ![c].at = "kind"]
  /\ UNCHANGED <<m_Nodes, m_pending_count, m_is_processing, cycle,
                 calls, called, torn, overlap, crashed>>

\* pending_op.is_addition.
WriteKind(c) ==
  /\ ~crashed
  /\ call[c].at = "kind"
  /\ m_pending_ops' = [m_pending_ops EXCEPT ![call[c].slot].is_addition = call[c].add]
  /\ call' = [call EXCEPT ![c].at = "count"]
  /\ UNCHANGED <<m_Nodes, m_pending_count, m_is_processing, cycle, calls,
                 called, torn, overlap, crashed>>

\* Variant: the counter is not advanced.
Count_forgotten(c) ==
  /\ ~crashed
  /\ call[c].at = "count"
  /\ call' = [call EXCEPT ![c] = NoCall]
  /\ UNCHANGED <<m_Nodes, queue, m_is_processing, cycle,
                 calls, called, torn, overlap, crashed>>

\* m_pending_count.fetch_add(1); the call returns.
Count(c) ==
  /\ ~crashed
  /\ call[c].at = "count"
  /\ m_pending_count' = (m_pending_count + 1) % CountModulus
  /\ call' = [call EXCEPT ![c] = NoCall]
  /\ UNCHANGED <<m_Nodes, m_pending_ops, m_is_processing, cycle,
                 calls, called, torn, overlap, crashed>>

\* All slots taken: m_is_processing.wait(true) until the flag is down.
WaitIdle(c) ==
  /\ ~crashed
  /\ call[c].at = "wait"
  /\ ~m_is_processing
  /\ call' = [call EXCEPT ![c].at = "direct"]
  /\ UNCHANGED <<m_Nodes, queue, m_is_processing, cycle, calls,
                 called, torn, overlap, crashed>>

\* The list after an operation on node n.
Edited(list, n, add) == IF add THEN list \cup {n} ELSE list \ {n}

\* Somebody has read the list and not stored it back.
Editing == cycle.at = "store" \/ \E c \in Controllers : call[c].at = "store"

\* Then the list is searched from this thread ...
Direct(c) ==
  /\ ~crashed
  /\ call[c].at = "direct"
  /\ overlap' = (overlap \/ Editing)
  /\ call' = [call EXCEPT ![c].at = "store", ![c].list = m_Nodes]
  /\ UNCHANGED <<m_Nodes, queue, m_is_processing, cycle, calls, called, torn, crashed>>

\* ... and push_back or erase is done on what was found; the call returns.
DirectStore(c) ==
  /\ ~crashed
  /\ call[c].at = "store"
  /\ m_Nodes' = Edited(call[c].list, call[c].node, call[c].add)
  /\ call' = [call EXCEPT ![c] = NoCall]
  /\ UNCHANGED <<queue, m_is_processing, cycle, calls, called, torn, overlap, crashed>>

------------------------------------------------------------------------------
(* preprocess, the visit of the nodes, postprocess *)

\* m_is_processing false -> true, then the queue if the counter is not zero.
Preprocess ==
  /\ ~crashed
  /\ cycle.at = "idle"
  /\ ~m_is_processing
  /\ m_is_processing' = TRUE
  /\ cycle' = IF m_pending_count > 0 THEN [NoCycle EXCEPT !.at = "look"]
                                     ELSE [NoCycle EXCEPT !.at = "visit"]
  /\ UNCHANGED <<m_Nodes, queue, call, calls, called, torn, overlap, crashed>>

\* The loop over m_Nodes is over; postprocess reads the counter again.
Visited ==
  /\ ~crashed
  /\ cycle.at = "visit"
  /\ cycle' = IF m_pending_count > 0
              THEN [NoCycle EXCEPT !.at = "look", !.pass = "post"]
              ELSE [NoCycle EXCEPT !.at = "release"]
  /\ UNCHANGED <<m_Nodes, queue, m_is_processing, call, calls,
                 called, torn, overlap, crashed>>

\* m_is_processing.store(false); notify_all().
Release ==
  /\ ~crashed
  /\ cycle.at = "release"
  /\ m_is_processing' = FALSE
  /\ cycle' = NoCycle
  /\ UNCHANGED <<m_Nodes, queue, call, calls, called, torn, overlap, crashed>>

\* process_pending_operations goes to the next slot, or out of its loop.
NextSlot(c) ==
  IF c.slot < MaxPending
  THEN [NoCycle EXCEPT !.at = "look", !.slot = c.slot + 1, !.pass = c.pass]
  ELSE [NoCycle EXCEPT !.at = IF c.pass = "pre" THEN "visit" ELSE "release"]

\* active.load(): skip a free slot, take a claimed one.
Look ==
  /\ ~crashed
  /\ cycle.at = "look"
  /\ cycle' = IF m_pending_ops[cycle.slot].active THEN [cycle EXCEPT !.at = "apply"]
                                                  ELSE NextSlot(cycle)
  /\ UNCHANGED <<m_Nodes, queue, m_is_processing, call, calls,
                 called, torn, overlap, crashed>>

\* A controller has claimed slot s and not finished writing it.
HalfWritten(s) ==
  \E c \in Controllers : call[c].at \in {"node", "kind"} /\ call[c].slot = s

\* The operation is taken from the slot and the list searched.  A null node is
\* dereferenced and the process dies; a kind that is not written yet is the one
\* of the slot's last use.
Apply ==
  LET op == m_pending_ops[cycle.slot] IN
  /\ ~crashed
  /\ cycle.at = "apply"
  /\ torn' = (torn \/ HalfWritten(cycle.slot))
  /\ overlap' = (overlap \/ Editing)
  /\ crashed' = (op.node = NoNode)
  /\ cycle' = [cycle EXCEPT !.at = "store", !.node = op.node, !.add = op.is_addition,
                            !.list = m_Nodes]
  /\ UNCHANGED <<m_Nodes, queue, m_is_processing, call, calls, called>>

\* push_back or erase.
Store ==
  /\ ~crashed
  /\ cycle.at = "store"
  /\ m_Nodes' = Edited(cycle.list, cycle.node, cycle.add)
  /\ cycle' = [cycle EXCEPT !.at = "free"]
  /\ UNCHANGED <<queue, m_is_processing, call, calls, called, torn, overlap, crashed>>

\* Variant: the slot is not given back.
Free_kept ==
  /\ ~crashed
  /\ cycle.at = "free"
  /\ m_pending_count' = (m_pending_count + CountModulus - 1) % CountModulus
  /\ cycle' = NextSlot(cycle)
  /\ UNCHANGED <<m_Nodes, m_pending_ops, m_is_processing, call, calls,
                 called, torn, overlap, crashed>>

\* node.reset(); active.store(false); m_pending_count.fetch_sub(1).  Only this
\* thread reads the counter, so the three may be one step.
Free ==
  /\ ~crashed
  /\ cycle.at = "free"
  /\ m_pending_ops' = [m_pending_ops EXCEPT ![cycle.slot].active = FALSE,
                                            ![cycle.slot].node = NoNode]
  /\ m_pending_count' = (m_pending_count + CountModulus - 1) % CountModulus
  /\ cycle' = NextSlot(cycle)
  /\ UNCHANGED <<m_Nodes, m_is_processing, call, calls, called, torn, overlap, crashed>>

------------------------------------------------------------------------------
Controller(c) ==
  \/ Claim(c) \/ ScanOn(c) \/ WriteNode(c) \/ WriteKind(c) \/ Count(c)
  \/ WaitIdle(c) \/ Direct(c) \/ DirectStore(c)

Process == Preprocess \/ Visited \/ Release \/ Look \/ Apply \/ Store \/ Free

Next == \/ \E c \in Controllers :
             Controller(c) \/ \E n \in Nodes, add \in BOOLEAN : Call(c, n, add)
        \/ Process

\* The audio callback keeps running cycles and a call under way goes on.
Spec == /\ Init /\ [][Next]_vars
        /\ WF_vars(Process)
        /\ \A c \in Controllers : WF_vars(Controller(c))

------------------------------------------------------------------------------
TypeOK ==
  /\ m_Nodes \subseteq Nodes
  /\ m_pending_ops \in [Slots -> [active : BOOLEAN, node : Nodes \cup {NoNode},
                                  is_addition : BOOLEAN]]
  /\ m_pending_count \in 0 .. CountModulus - 1
  /\ m_is_processing \in BOOLEAN
  /\ call \in [Controllers -> CallState]
  /\ cycle \in CycleState
  /\ calls \in 0 .. MaxCalls
  /\ called \in [Nodes -> SUBSET BOOLEAN]
  /\ torn \in BOOLEAN
  /\ overlap \in BOOLEAN
  /\ crashed \in BOOLEAN

InFlight == {c \in Controllers : call[c].at \in {"node", "kind", "count"}}
Active == {s \in Slots : m_pending_ops[s].active}

\* The counter that decides whether a cycle looks at the queue is, modulo its
\* width, the number of claimed slots less the calls that have not counted
\* themselves yet, although a slot can be applied and freed before its call
\* counts it: nothing queued is forgotten for good.
CountMatches ==
  (m_pending_count + Cardinality(InFlight)) % CountModulus
    = Cardinality(Active) % CountModulus

Settled == /\ Active = {}
           /\ cycle.at = "idle"
           /\ \A c \in Controllers : call[c].at = "idle"

\* A call is lost in two ways only.  Whatever the passes, the other calls and
\* the fallback do meanwhile, once everything is settled a node that was only
\* ever registered is in the list and a node that was only ever unregistered,
\* or never named, is not, unless a slot was applied before it was written or
\* two edits of the unlocked list overlapped.  Both happen in this model.
NoCallLost ==
  Settled /\ ~torn /\ ~overlap =>
    \A n \in Nodes : /\ called[n] = {TRUE} => n \in m_Nodes
                     /\ TRUE \notin called[n] => n \notin m_Nodes

\* Every call takes effect: a queued operation is applied by a later cycle.
EventuallySettled == []<>(crashed \/ Active = {})
==============================================================================
