-------------------------- MODULE TraceFilterProofs --------------------------
(***************************************************************************)
(* Proofs about TraceFilter, for every set of numbers that may be given to *)
(* -e, every list of -e options and every set of events in which VMFUNC is *)
(* the only HVM handler event that ends in 0x30.                           *)
(***************************************************************************)
EXTENDS TraceFilter, SequenceTheorems, TLAPS

\* What the daemon has parsed is what its options ask for, and what it has
\* handed over is what it has parsed.
MaskInv ==
    /\ phase \in {"parse", "trace"} => evt_mask = Asked
    /\ phase = "trace" /\ evt_mask # {} => tb_event_mask = evt_mask

FilterInv == FilterTypeOK /\ MaskInv

-----------------------------------------------------------------------------

LEMMA ClassWords == Classes \subseteq Words \ {{}}
BY DEF Classes, Words, TRC_GEN, TRC_SCHED, TRC_DOM0OP, TRC_HVM, TRC_ALL

LEMMA OptionFacts ==
    ASSUME NEW a \in Options
    PROVE  a.bits \in Words /\ a.kind \in {"class", "number"}
BY ClassWords, FilterAssumption DEF Options

\* The union of the words that stand in the given places of s.
Bits(s, I) == UNION {s[i].bits : i \in I}

\* The places of s with nothing but names of classes after them.
Last(s) == {i \in 1 .. Len(s) : \A j \in i + 1 .. Len(s) : s[j].kind = "class"}

LEMMA AskedBits == Asked = Bits(args, Last(args))
BY DEF Asked, LastOptions, Bits, Last

\* One more option: a name adds to what is asked for, a number replaces it.
LEMMA OneMore ==
    ASSUME NEW s \in Seq(Options), NEW a \in Options
    PROVE  LET t == Append(s, a)
           IN  Bits(t, Last(t)) =
                 IF a.kind = "class" THEN Bits(s, Last(s)) \cup a.bits ELSE a.bits
<1> DEFINE t == Append(s, a)
           n == Len(s) + 1
<1>1. /\ Len(s) \in Nat /\ Len(t) = n /\ t[n] = a
      /\ \A i \in 1 .. Len(s) : t[i] = s[i]
    OBVIOUS
<1> HIDE DEF t
<1>2. n \in Last(t)
    BY <1>1 DEF Last
<1>3. CASE a.kind = "class"
    <2>1. \A i \in 1 .. Len(s) : i \in Last(t) <=> i \in Last(s)
        <3> SUFFICES ASSUME NEW i \in 1 .. Len(s)
                     PROVE  i \in Last(t) <=> i \in Last(s)
            OBVIOUS
        <3>1. ASSUME i \in Last(t) PROVE i \in Last(s)
            <4> SUFFICES ASSUME NEW j \in i + 1 .. Len(s) PROVE s[j].kind = "class"
                BY DEF Last
            <4>1. j \in i + 1 .. Len(t) /\ t[j] = s[j]
                BY <1>1
            <4> QED BY <3>1, <4>1 DEF Last
        <3>2. ASSUME i \in Last(s) PROVE i \in Last(t)
            <4>1. i \in 1 .. Len(t)
                BY <1>1
            <4> SUFFICES ASSUME NEW j \in i + 1 .. Len(t) PROVE t[j].kind = "class"
                BY <4>1 DEF Last
            <4>2. CASE j = n
                BY <1>1, <1>3, <4>2
            <4>3. CASE j # n
                <5>1. j \in i + 1 .. Len(s) /\ j \in 1 .. Len(s)
                    BY <1>1, <4>3
                <5> QED BY <1>1, <3>2, <5>1 DEF Last
            <4> QED BY <4>2, <4>3
        <3> QED BY <3>1, <3>2
    <2>2. Last(t) = Last(s) \cup {n}
        <3>1. Last(t) \subseteq 1 .. n /\ Last(s) \subseteq 1 .. Len(s)
            BY <1>1 DEF Last
        <3>2. \A i \in 1 .. n : i \in 1 .. Len(s) \/ i = n
            BY <1>1
        <3> QED BY <1>2, <2>1, <3>1, <3>2
    <2>3. \A i \in Last(s) : t[i] = s[i]
        BY <1>1 DEF Last
    <2>4. Bits(t, Last(t)) = Bits(s, Last(s)) \cup t[n].bits
        BY <2>2, <2>3 DEF Bits
    <2> QED BY <1>1, <1>3, <2>4 DEF t
<1>4. CASE a.kind # "class"
    <2>1. Last(t) = {n}
        <3>1. ASSUME NEW i \in Last(t) PROVE i = n
            <4>1. i \in 1 .. n /\ (\A j \in i + 1 .. n : t[j].kind = "class")
                BY <1>1 DEF Last
            <4>2. ASSUME i # n PROVE FALSE
                <5>1. n \in i + 1 .. n
                    BY <1>1, <4>1, <4>2
                <5> QED BY <1>1, <1>4, <4>1, <5>1
            <4> QED BY <4>2
        <3> QED BY <1>2, <3>1
    <2>2. Bits(t, Last(t)) = t[n].bits
        BY <2>1 DEF Bits
    <2> QED BY <1>1, <1>4, <2>2 DEF t
<1> QED BY <1>3, <1>4

LEMMA FilterInitInv == FilterInit => FilterInv
<1> SUFFICES ASSUME FilterInit PROVE FilterInv
    OBVIOUS
<1>1. TRC_ALL \in Words \ {{}}
    BY ClassWords DEF Classes
<1>2. args \in Seq(Options)
    BY DEF FilterInit
<1> QED BY <1>1, <1>2 DEF FilterInit, FilterInv, FilterTypeOK, MaskInv, Words

LEMMA FilterStep ==
    ASSUME FilterInv, [FilterNext]_fvars
    PROVE  FilterInv'
<1> USE DEF FilterInv, FilterTypeOK, MaskInv
<1>1. CASE Start
    <2>1. args' = <<>> /\ args' \in Seq(Options) /\ evt_mask' \in Words
        BY <1>1 DEF Start, Words
    <2>2. Asked' = {}
        <3>1. Len(args') = 0
            BY <2>1
        <3>2. LastOptions' = {}
            BY <3>1 DEF LastOptions
        <3> QED BY <3>2 DEF Asked
    <2> QED BY <1>1, <2>1, <2>2 DEF Start
<1>2. ASSUME NEW a \in Options, Parse(a) PROVE FilterInv'
    <2>1. args' \in Seq(Options) /\ args' = Append(args, a)
        BY <1>2 DEF Parse
    <2>2. evt_mask' \in Words
        BY <1>2, OptionFacts DEF Parse, ParseEvtmask, Words
    <2>3. Asked' = Bits(args', Last(args'))
        BY AskedBits DEF Asked, LastOptions, Bits, Last
    <2>4. Asked' = IF a.kind = "class" THEN Asked \cup a.bits ELSE a.bits
        BY <2>1, <2>3, AskedBits, OneMore
    <2>5. evt_mask' = Asked'
        BY <1>2, <2>4 DEF Parse, ParseEvtmask
    <2> QED BY <1>2, <2>1, <2>2, <2>5 DEF Parse
<1>3. CASE Trace
    <2>1. Asked' = Asked
        BY <1>3 DEF Trace, Asked, LastOptions
    <2> QED BY <1>3, <2>1 DEF Trace
<1>4. CASE End
    BY <1>4 DEF End
<1>5. CASE UNCHANGED fvars
    <2>1. Asked' = Asked
        BY <1>5 DEF fvars, Asked, LastOptions
    <2> QED BY <1>5, <2>1 DEF fvars
<1> QED BY <1>1, <1>2, <1>3, <1>4, <1>5 DEF FilterNext

THEOREM FilterInvariant == FilterSpec => []FilterInv
BY FilterInitInv, FilterStep, PTL DEF FilterSpec

\* The masks are words and the hypervisor's is never empty: main hands a mask
\* over only when there is one, so no -e 0 turns the filter into one that lets
\* nothing through.
THEOREM FilterTypes == FilterSpec => []FilterTypeOK
<1>1. FilterInv => FilterTypeOK
    BY DEF FilterInv
<1> QED BY <1>1, FilterInvariant, PTL

\* The mask of the hypervisor while a daemon traces is what its -e options ask
\* for, read as parse_evtmask reads them, whatever the mask was before.
THEOREM MaskIsAsked == FilterSpec => []MaskAsAsked
<1>1. FilterInv => MaskAsAsked
    BY DEF FilterInv, MaskInv, MaskAsAsked
<1> QED BY <1>1, FilterInvariant, PTL

\* With the number of VMFUNC the test of __trace_var lets VMFUNC through and
\* nothing else, for any set of events that has no second handler event of HVM
\* with its low byte.
LEMMA VmfuncTest ==
    ASSUME tb_event_mask = TRC_HVM_VMFUNC, NEW e \in EventIds
    PROVE  Admits(e) <=> e = TRC_HVM_VMFUNC
<1> DEFINE m == TRC_HVM_VMFUNC
<1>1. /\ \A b : b \in Class(m) <=> b = 19
      /\ \A b : b \in Subclass(m) <=> b = 13
      /\ \A b : b \in LowByte(m) <=> b \in {4, 5}
    BY DEF TRC_HVM_VMFUNC, Class, Subclass, LowByte
<1>2. Admits(e) <=> /\ m \cap e # {} /\ Class(m) \cap Class(e) # {}
                    /\ Subclass(m) \cap Subclass(e) # {} /\ LowByte(m) = LowByte(e)
    BY DEF Admits
<1>3. ASSUME Admits(e) PROVE e = m
    <2>1. 19 \in e /\ 13 \in e
        BY <1>1, <1>2, <1>3 DEF Class, Subclass
    <2>2. LowByte(e) = {4, 5}
        BY <1>1, <1>2, <1>3
    <2> QED BY <2>1, <2>2, FilterAssumption
<1>4. ASSUME e = m PROVE Admits(e)
    <2>1. 19 \in m
        BY DEF TRC_HVM_VMFUNC
    <2>2. Class(m) # {} /\ Subclass(m) # {} /\ m # {}
        BY <1>1, <2>1
    <2> QED BY <1>2, <1>4, <2>2
<1> QED BY <1>3, <1>4

\* If the last -e option of the daemon is the number of the VMFUNC event,
\* __trace_var lets that event through and no other it is called with: of the
\* records the hypervisor writes from then on only those of the trace itself,
\* which it inserts without a test, are not VMFUNC records.
THEOREM OnlyVmfunc == FilterSpec => []VmfuncAlone
<1>1. FilterInv => VmfuncAlone
    <2> SUFFICES ASSUME FilterInv, phase = "trace", args # <<>>,
                        args[Len(args)] = [kind |-> "number", bits |-> TRC_HVM_VMFUNC],
                        NEW e \in EventIds
                 PROVE  Admits(e) <=> e = TRC_HVM_VMFUNC
        BY DEF VmfuncAlone
    <2>1. PICK n \in Nat : n = Len(args)
        BY DEF FilterInv, FilterTypeOK
    <2>2. n >= 1
        BY <2>1, EmptySeq DEF FilterInv, FilterTypeOK
    <2>3. args[n].kind = "number" /\ args[n].bits = TRC_HVM_VMFUNC
        BY <2>1
    <2>4. \A i \in 1 .. n : i # n => n \in i + 1 .. n
        BY <2>2
    <2>5. LastOptions = {n}
        <3>1. n \in LastOptions
            BY <2>1, <2>2 DEF LastOptions
        <3>2. \A i \in LastOptions : i = n
            BY <2>1, <2>3, <2>4 DEF LastOptions
        <3> QED BY <3>1, <3>2
    <2>6. Asked = TRC_HVM_VMFUNC
        BY <2>3, <2>5 DEF Asked
    <2>7. TRC_HVM_VMFUNC # {}
        BY DEF TRC_HVM_VMFUNC
    <2>8. tb_event_mask = TRC_HVM_VMFUNC
        BY <2>6, <2>7 DEF FilterInv, MaskInv
    <2> QED BY <2>8, VmfuncTest
<1> QED BY <1>1, FilterInvariant, PTL
=============================================================================
