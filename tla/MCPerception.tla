---------------------------- MODULE MCPerception ----------------------------
(* TLC instances of Perception: one vCPU in each of two domains. *)
EXTENDS Perception

CONSTANTS v1, v2, d1, d2

MCDom == [v \in Vcpus |-> IF v = v1 THEN d1 ELSE d2]
=============================================================================
