--------------------------- MODULE OrderedDelivery ---------------------------
(***************************************************************************)
(* What frame ordering promises to its users, independently of how seq     *)
(* numbers and buffers achieve it: on each flow the receiver is handed the *)
(* frames that were sent, in the order they were sent, each of them once.  *)
(* Several frames may be handed over together.                             *)
(***************************************************************************)
EXTENDS Integers, Sequences

CONSTANTS Flows, Frame

VARIABLES sent, received

vars == <<sent, received>>

Init ==
  /\ sent = [f \in Flows |-> <<>>]
  /\ received = [f \in Flows |-> <<>>]

Send(f) ==
  /\ \E m \in Frame : sent' = [sent EXCEPT ![f] = Append(@, m)]
  /\ UNCHANGED received

\* The receiver gets the frames of f up to the n-th.
Deliver(f) ==
  /\ \E n \in (Len(received[f]) + 1)..Len(sent[f]) :
       received' = [received EXCEPT ![f] = SubSeq(sent[f], 1, n)]
  /\ UNCHANGED sent

Next == \E f \in Flows : Send(f) \/ Deliver(f)

Spec == Init /\ [][Next]_vars
=============================================================================
