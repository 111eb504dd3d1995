----------------------------- MODULE TraceFilter -----------------------------
(***************************************************************************)
(* Which events are traced: the event mask xentrace makes of its -e        *)
(* options and hands to tb_control, and the test of an event against it in *)
(* __trace_var (and, as a copy, in trace_will_trace_event).  Masks and     *)
(* events are words of 32 bits, given as the set of the bits that are 1:   *)
(* the class is in bits 16 and up, the subclass in bits 12 to 15, and      *)
(* below them is the number of the event.                                  *)
(***************************************************************************)
EXTENDS Integers, Sequences

CONSTANTS
    EventIds,  \* the events that __trace_var is called with, as in public/trace.h
    Numbers,   \* the numeric arguments of -e
    MaxArgs    \* bound: -e options of one daemon

Words == SUBSET (0 .. 31)

\* public/trace.h
TRC_GEN        == {16} \cup 12 .. 15  \* 0x0001f000
TRC_SCHED      == {17} \cup 12 .. 15  \* 0x0002f000
TRC_DOM0OP     == {18} \cup 12 .. 15  \* 0x0004f000
TRC_HVM        == {19} \cup 12 .. 15  \* 0x0008f000
TRC_ALL        == 12 .. 27            \* 0x0ffff000
TRC_HVM_VMFUNC == {4, 5, 13, 19}      \* 0x00082030

Class(x)    == x \cap 16 .. 31
Subclass(x) == x \cap 12 .. 15
LowByte(x)  == x \cap 0 .. 7

\* No other handler event of HVM ends in 0x30.  Bits 8 to 11 do not count: they
\* tell IOPORT_WRITE (0x216) from IOPORT_READ (0x16), and the 64 bit variants.
ASSUME FilterAssumption ==
    /\ EventIds \in SUBSET Words
    /\ Numbers \in SUBSET Words
    /\ MaxArgs \in Nat
    /\ \A e \in EventIds : {13, 19} \subseteq e /\ LowByte(e) = {4, 5} => e = TRC_HVM_VMFUNC

Classes == {TRC_GEN, TRC_SCHED, TRC_DOM0OP, TRC_HVM, TRC_ALL}

\* An argument of -e: the name of a class, or a number.
Options == [kind : {"class"}, bits : Classes] \cup [kind : {"number"}, bits : Numbers]

VARIABLES
    tb_event_mask,  \* of the hypervisor
    evt_mask,       \* opts.evt_mask
    phase,          \* the daemon: parsing its arguments, tracing, or gone
    args            \* history: the arguments of -e given to this daemon

fvars == <<tb_event_mask, evt_mask, phase, args>>

\* No daemon takes the last bit out of the hypervisor's mask, not with -e 0 either.
FilterTypeOK ==
    /\ tb_event_mask \in Words \ {{}}
    /\ evt_mask \in Words
    /\ phase \in {"parse", "trace", "off"}
    /\ args \in Seq(Options)

FilterInit ==
    /\ tb_event_mask = TRC_ALL
    /\ evt_mask = {}
    /\ phase = "off"
    /\ args = <<>>

-----------------------------------------------------------------------------
(* The daemon *)

Start ==
    /\ phase = "off"
    /\ phase' = "parse"
    /\ evt_mask' = {}
    /\ args' = <<>>
    /\ UNCHANGED tb_event_mask

\* Mutant: a number adds its bits, too.
ParseEvtmask_Or(a) == evt_mask \cup a.bits

\* parse_evtmask: the name of a class adds its bits, a number replaces the mask.
ParseEvtmask(a) == IF a.kind = "class" THEN evt_mask \cup a.bits ELSE a.bits

Parse(a) ==
    /\ phase = "parse"
    /\ Len(args) < MaxArgs
    /\ evt_mask' = ParseEvtmask(a)
    /\ args' = Append(args, a)
    /\ UNCHANGED <<tb_event_mask, phase>>

\* Mutant: set_evt_mask whatever the mask is.
Trace_Always ==
    /\ phase = "parse"
    /\ phase' = "trace"
    /\ tb_event_mask' = evt_mask
    /\ UNCHANGED <<evt_mask, args>>

\* main: set_evt_mask only if there is a mask to set.
Trace ==
    /\ phase = "parse"
    /\ phase' = "trace"
    /\ tb_event_mask' = IF evt_mask # {} THEN evt_mask ELSE tb_event_mask
    /\ UNCHANGED <<evt_mask, args>>

End ==
    /\ phase = "trace"
    /\ phase' = "off"
    /\ UNCHANGED <<tb_event_mask, evt_mask, args>>

FilterNext == Start \/ (\E a \in Options : Parse(a)) \/ Trace \/ End

FilterSpec == FilterInit /\ [][FilterNext]_fvars

-----------------------------------------------------------------------------
(* The test of __trace_var *)

\* Mutant: the test before "more and more accurate".
Admits_ClassOnly(e) ==
    /\ tb_event_mask \cap e # {}
    /\ Class(tb_event_mask) \cap Class(e) # {}
    /\ Subclass(tb_event_mask) \cap Subclass(e) # {}

Admits(e) ==
    /\ tb_event_mask \cap e # {}
    /\ Class(tb_event_mask) \cap Class(e) # {}
    /\ Subclass(tb_event_mask) \cap Subclass(e) # {}
    /\ LowByte(tb_event_mask) = LowByte(e)

-----------------------------------------------------------------------------
(* Properties *)

\* The options that have nothing but names of classes after them.
LastOptions ==
    {i \in 1 .. Len(args) : \A j \in i + 1 .. Len(args) : args[j].kind = "class"}

\* What the -e options of a daemon ask for, as one word.
Asked == UNION {args[i].bits : i \in LastOptions}

\* A daemon that asks for anything traces what it asks for: the last number on
\* its command line with the classes named after it, and nothing of what stands
\* before that number or of what an earlier daemon has set.
MaskAsAsked == phase = "trace" /\ Asked # {} => tb_event_mask = Asked

\* While a daemon traces whose last -e option is the number of the VMFUNC event,
\* __trace_var lets that event through and no other it is called with, whatever
\* masks earlier daemons have left: the parser of write_buffer, which takes every
\* record for a VMFUNC one, needs no less.  (It needs more: records of the trace
\* itself, TRC_LOST_RECORDS and TRC_TRACE_WRAP_BUFFER, are inserted without a
\* test of the mask, and without -D what an earlier mask let in is still read.)
VmfuncAlone ==
    /\ phase = "trace"
    /\ args # <<>>
    /\ args[Len(args)] = [kind |-> "number", bits |-> TRC_HVM_VMFUNC]
    => \A e \in EventIds : Admits(e) <=> e = TRC_HVM_VMFUNC
=============================================================================
