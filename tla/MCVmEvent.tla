----------------------------- MODULE MCVmEvent -----------------------------
(* Model checking of VmEvent. *)
EXTENDS VmEvent
=============================================================================
