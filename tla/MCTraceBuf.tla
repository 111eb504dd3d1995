----------------------------- MODULE MCTraceBuf -----------------------------
(* TLC instances of TraceBuf. *)
EXTENDS TraceBuf

CONSTANTS short, long

\* A record that always fits and one that may need a wrap record before it;
\* neither is longer than a lost-records record, like the 3-word VMFUNC record.
MCRecSize == [e \in Events |-> IF e = short THEN 1 ELSE 2]

\* TraceVar picks any admitted event, so other masks would only repeat a part
\* of what these allow.
MCEvtMasks == {Events}
MCCpuMasks == {CPUS}
=============================================================================
