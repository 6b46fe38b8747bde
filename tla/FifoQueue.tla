------------------------------ MODULE FifoQueue ------------------------------
(***************************************************************************)
(* What RingBuffer promises its users when it is instantiated as a queue   *)
(* (QueueAccess): a bounded FIFO.  Every value whose push() returned true  *)
(* is handed out by pop() once, in the order of acceptance; push() fails   *)
(* only when the queue is full and pop() only when it is empty.            *)
(*                                                                         *)
(* The state is the history visible at the interface: the values accepted  *)
(* so far, the values delivered so far, and the last answer of each call.  *)
(***************************************************************************)
EXTENDS Naturals, Sequences

CONSTANTS Values,   \* what can be pushed
          Limit     \* how many values the queue holds at once

VARIABLES accepted, delivered, push_result, pop_result

vars == <<accepted, delivered, push_result, pop_result>>

Pending == Len(accepted) - Len(delivered)

Init == /\ accepted = <<>>
        /\ delivered = <<>>
        /\ push_result = TRUE
        /\ pop_result = TRUE

Accept(v) == /\ Pending < Limit
             /\ accepted' = Append(accepted, v)
             /\ push_result' = TRUE
             /\ UNCHANGED <<delivered, pop_result>>

Refuse == /\ Pending = Limit
          /\ push_result' = FALSE
          /\ UNCHANGED <<accepted, delivered, pop_result>>

Deliver == /\ Pending > 0
           /\ delivered' = Append(delivered, accepted[Len(delivered) + 1])
           /\ pop_result' = TRUE
           /\ UNCHANGED <<accepted, push_result>>

FindEmpty == /\ Pending = 0
             /\ pop_result' = FALSE
             /\ UNCHANGED <<accepted, delivered, push_result>>

Next == \/ \E v \in Values : Accept(v)
        \/ Refuse
        \/ Deliver
        \/ FindEmpty

Spec == Init /\ [][Next]_vars
==============================================================================
