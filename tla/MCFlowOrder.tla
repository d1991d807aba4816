----------------------------- MODULE MCFlowOrder -----------------------------
(* Instances of FlowOrder for TLC. *)
EXTENDS FlowOrder

ASSUME ThereIsAFlow == Flows # {}
=============================================================================
