---------------------------- MODULE MCTraceFilter ----------------------------
(* TLC instances of TraceFilter. *)
EXTENDS TraceFilter

HvmHandler == {13, 19}  \* TRC_HVM_HANDLER, 0x00082000
VmEntry    == {0, 12, 19}
Rdtsc      == HvmHandler \cup {1, 3, 4}

\* Of the records only __trace_var writes, not those of the trace itself:
\* TRC_SCHED_DOM_ADD, TRC_MEM_POD_POPULATE, TRC_HVM_VMENTRY,
\* TRC_HVM_VMEXIT, TRC_HVM_PF_XEN, TRC_HVM_PF_XEN64, TRC_HVM_NMI, TRC_HVM_RDTSC,
\* TRC_HVM_INTR_WINDOW, TRC_HVM_VMFUNC, TRC_HVM_IOPORT_READ,
\* TRC_HVM_IOPORT_WRITE and TRC_HVM_EMUL_HPET_START_TIMER
MCEventIds ==
    {{0, 15, 17}, {4, 12, 13, 14, 15, 20}, VmEntry,
     {1, 12, 19}, HvmHandler \cup {0}, HvmHandler \cup {0, 8}, HvmHandler \cup {4}, Rdtsc,
     HvmHandler \cup {5}, TRC_HVM_VMFUNC, HvmHandler \cup {1, 2, 4},
     HvmHandler \cup {1, 2, 4, 9}, {0, 14, 19}}

\* -e with the number of an event (VMFUNC, VMENTRY, RDTSC), of a class, or 0
MCNumbers == {TRC_HVM_VMFUNC, VmEntry, Rdtsc, TRC_HVM, {}}
=============================================================================
