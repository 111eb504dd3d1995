----------------------------- MODULE MCXentrace -----------------------------
(* TLC instances of Xentrace: the VMFUNC record is the only one traced. *)
EXTENDS Xentrace

CONSTANT vmfunc

MCRecSize == [e \in Events |-> 2]

\* The only masks the daemon asks for here.
MCEvtMasks == {Events, {}}
MCCpuMasks == {CPUS}
=============================================================================
