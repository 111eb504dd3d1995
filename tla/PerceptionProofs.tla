-------------------------- MODULE PerceptionProofs --------------------------
(***************************************************************************)
(* Proofs about Perception, for any vCPUs of any domains, however their    *)
(* unlocked loads and stores of the two globals interleave and whatever    *)
(* records the trace buffer masks or drops.                                *)
(***************************************************************************)
EXTENDS Perception, TLAPS

\* An index that some vCPU has been on: all of them have been on view 0.
Known(i) == i = 0 \/ \E v \in Vcpus : i \in visited[v]

\* Where an index can come from: the view of a vCPU, the globals, or what a vCPU
\* in hvm_rdtsc_intercept has in a register.
KnownInv ==
    /\ \A v \in Vcpus : 0 \in visited[v] /\ view[v] \in visited[v] /\ Known(seen[v])
    /\ Known(eptp_idx) /\ Known(eptp_idx_last)
    /\ OnlyVisited

-----------------------------------------------------------------------------
(* Types *)

LEMMA FetchType ==
    ASSUME PerceptionTypeOK, NEW v \in Vcpus
    PROVE  Fetch(v) \in Views /\ Load(v) \subseteq Views
BY DEF PerceptionTypeOK, Fetch, Load

LEMMA InitPerception == PerceptionInit => PerceptionTypeOK
<1>1. 0 \in Views
    BY PerceptionAssumption DEF Views
<1>2. PerceptionInit => visited \in [Vcpus -> SUBSET Views] /\ reported \in SUBSET (Domains \X Views)
    BY <1>1 DEF PerceptionInit
<1> QED BY <1>1, <1>2 DEF PerceptionInit, PerceptionTypeOK

LEMMA TypeStep == PerceptionTypeOK /\ [PerceptionNext]_pvars => PerceptionTypeOK'
<1> SUFFICES ASSUME PerceptionTypeOK, [PerceptionNext]_pvars PROVE PerceptionTypeOK'
    OBVIOUS
<1>0. 0 \in Views
    BY PerceptionAssumption DEF Views
<1>1. ASSUME NEW v \in Vcpus, Activate(v) PROVE PerceptionTypeOK'
    BY <1>0, <1>1 DEF PerceptionTypeOK, Activate, sweep
<1>2. ASSUME NEW v \in Vcpus, NEW i \in Views, Vmfunc(v, i) PROVE PerceptionTypeOK'
    BY <1>2 DEF PerceptionTypeOK, Vmfunc, sweep
<1>3. CASE InterceptRdtsc \/ SwitchTracing
    BY <1>3 DEF PerceptionTypeOK, InterceptRdtsc, SwitchTracing, sweep
<1>4. CASE DisableIntercept
    BY <1>0, <1>4 DEF PerceptionTypeOK, DisableIntercept
<1>5. ASSUME NEW v \in Vcpus, SetExiting(v) PROVE PerceptionTypeOK'
    BY <1>5 DEF PerceptionTypeOK, SetExiting
<1>6. ASSUME NEW v \in Vcpus, InterceptStep(v) PROVE PerceptionTypeOK'
    <2>1. CASE Rdtsc(v)
        BY <2>1 DEF PerceptionTypeOK, Rdtsc, sweep
    <2>2. CASE ReadIndex(v)
        BY <2>2, FetchType DEF PerceptionTypeOK, ReadIndex, sweep
    <2>3. CASE Compare(v)
        BY <2>3, FetchType DEF PerceptionTypeOK, Compare, sweep
    <2>4. CASE Trace(v)
        <3>1. PICK x \in Load(v) : reported' \in {reported, reported \cup {<<Dom[v], x>>}}
            BY <2>4 DEF Trace
        <3>2. reported' \in SUBSET (Domains \X Views)
            BY <3>1, FetchType, PerceptionAssumption DEF PerceptionTypeOK
        <3> QED BY <2>4, <3>2, FetchType DEF PerceptionTypeOK, Trace, sweep
    <2>5. CASE Update(v)
        BY <2>5, FetchType DEF PerceptionTypeOK, Update, sweep
    <2> QED BY <1>6, <2>1, <2>2, <2>3, <2>4, <2>5 DEF InterceptStep, HandlerStep
<1>7. CASE UNCHANGED pvars
    BY <1>7 DEF PerceptionTypeOK, pvars, sweep
<1> QED BY <1>1, <1>2, <1>3, <1>4, <1>5, <1>6, <1>7 DEF PerceptionNext

\* For any vCPUs and domains the globals, which every vCPU writes without a
\* lock, always hold the index of a view: no p2midx is fetched from a vCPU
\* without VMFUNC.
THEOREM PerceptionTypeCorrect == PerceptionSpec => []PerceptionTypeOK
<1>1. PerceptionInit => PerceptionTypeOK
    BY InitPerception
<1>2. PerceptionTypeOK /\ [PerceptionNext]_pvars => PerceptionTypeOK'
    BY TypeStep
<1> QED BY <1>1, <1>2, PTL DEF PerceptionSpec

-----------------------------------------------------------------------------
(* What the records name *)

LEMMA InitKnown == PerceptionInit => KnownInv
BY DEF PerceptionInit, KnownInv, Known, OnlyVisited

\* Nothing a vCPU has been on is forgotten.
LEMMA KnownStays ==
    ASSUME NEW i, Known(i), \A v \in Vcpus : visited[v] \subseteq visited'[v]
    PROVE  Known(i)'
BY DEF Known

LEMMA VisitedGrows ==
    ASSUME PerceptionTypeOK, [PerceptionNext]_pvars
    PROVE  \A v \in Vcpus : visited[v] \subseteq visited'[v]
<1>1. ASSUME NEW v \in Vcpus, NEW i \in Views, Vmfunc(v, i)
      PROVE  \A w \in Vcpus : visited[w] \subseteq visited'[w]
    BY <1>1 DEF Vmfunc, PerceptionTypeOK
<1>2. CASE UNCHANGED visited
    BY <1>2
<1> QED BY <1>1, <1>2 DEF PerceptionNext, pvars, Activate, InterceptRdtsc, DisableIntercept,
           SetExiting, SwitchTracing, InterceptStep, HandlerStep, Rdtsc, ReadIndex, Compare, Trace,
           Update

LEMMA FetchKnown ==
    ASSUME KnownInv, NEW v \in Vcpus
    PROVE  Known(Fetch(v)) /\ \A x \in Load(v) : Known(x)
BY DEF KnownInv, Known, Fetch, Load

LEMMA KnownStep ==
    ASSUME PerceptionTypeOK, KnownInv, [PerceptionNext]_pvars
    PROVE  KnownInv'
<1>1. \A v \in Vcpus : visited[v] \subseteq visited'[v]
    BY VisitedGrows
<1>2. OnlyVisited' \/ reported' # reported
    BY <1>1 DEF KnownInv, OnlyVisited
\* The globals and the registers are left alone.
<1>3. ASSUME UNCHANGED <<eptp_idx_last, reported>>, UNCHANGED seen,
             eptp_idx' \in {0, eptp_idx}, \A v \in Vcpus : view'[v] \in visited'[v]
      PROVE  KnownInv'
    <2>1. Known(0)'
        BY DEF Known
    <2>2. Known(eptp_idx)' /\ Known(eptp_idx_last)'
        BY <1>1, <1>3, <2>1, KnownStays DEF KnownInv
    <2>3. \A v \in Vcpus : Known(seen[v])'
        BY <1>1, <1>3, KnownStays DEF KnownInv
    <2> QED BY <1>1, <1>2, <1>3, <2>2, <2>3 DEF KnownInv
<1>4. ASSUME NEW v \in Vcpus, Activate(v) PROVE KnownInv'
    <2>1. \A w \in Vcpus : view'[w] \in visited'[w]
        BY <1>4 DEF Activate, KnownInv, PerceptionTypeOK
    <2> QED BY <1>3, <1>4, <2>1 DEF Activate
<1>5. ASSUME NEW v \in Vcpus, NEW i \in Views, Vmfunc(v, i) PROVE KnownInv'
    <2>1. \A w \in Vcpus : view'[w] \in visited'[w]
        BY <1>5 DEF Vmfunc, KnownInv, PerceptionTypeOK
    <2> QED BY <1>3, <1>5, <2>1 DEF Vmfunc
<1>6. CASE InterceptRdtsc \/ DisableIntercept \/ SwitchTracing \/ \E v \in Vcpus : SetExiting(v)
    BY <1>3, <1>6 DEF InterceptRdtsc, DisableIntercept, SwitchTracing, SetExiting, KnownInv
<1>7. ASSUME NEW v \in Vcpus, InterceptStep(v) PROVE KnownInv'
    <2>1. UNCHANGED <<view, visited>>
        BY <1>7 DEF InterceptStep, HandlerStep, Rdtsc, ReadIndex, Compare, Trace, Update
    <2>2. Known(Fetch(v)) /\ \A x \in Load(v) : Known(x)
        BY FetchKnown
    <2>3. CASE Rdtsc(v)
        BY <1>3, <2>1, <2>3 DEF Rdtsc, KnownInv
    <2>4. CASE ReadIndex(v)
        <3>1. Known(eptp_idx')
            BY <2>2, <2>4 DEF ReadIndex
        <3>2. \A w \in Vcpus : Known(seen'[w])
            BY <2>2, <2>4 DEF ReadIndex, KnownInv, PerceptionTypeOK
        <3> QED BY <1>2, <2>1, <2>4, <3>1, <3>2 DEF ReadIndex, KnownInv, Known
    <2>5. CASE Compare(v)
        <3>1. \A w \in Vcpus : Known(seen'[w])
            BY <2>2, <2>5 DEF Compare, KnownInv, PerceptionTypeOK
        <3> QED BY <1>2, <2>1, <2>5, <3>1 DEF Compare, KnownInv, Known
    <2>6. CASE Trace(v)
        <3>1. PICK x \in Load(v) :
                 /\ seen' = [seen EXCEPT ![v] = x]
                 /\ reported' \in {reported, reported \cup {<<Dom[v], x>>}}
            BY <2>6 DEF Trace
        <3>2. \A w \in Vcpus : Known(seen'[w])
            BY <2>2, <3>1 DEF KnownInv, PerceptionTypeOK
        <3>3. \E w \in Vcpus : x \in visited[w]
            BY <2>2 DEF Known, KnownInv
        <3>4. OnlyVisited'
            BY <2>1, <3>1, <3>3 DEF OnlyVisited, KnownInv
        <3> QED BY <2>1, <2>6, <3>2, <3>4 DEF Trace, KnownInv, Known
    <2>7. CASE Update(v)
        <3>1. Known(eptp_idx_last')
            BY <2>2, <2>7 DEF Update
        <3> QED BY <1>2, <2>1, <2>7, <3>1 DEF Update, KnownInv, Known
    <2> QED BY <1>7, <2>3, <2>4, <2>5, <2>6, <2>7 DEF InterceptStep, HandlerStep
<1>8. CASE UNCHANGED pvars
    BY <1>3, <1>8 DEF pvars, KnownInv
<1> QED BY <1>4, <1>5, <1>6, <1>7, <1>8 DEF PerceptionNext

\* For any vCPUs of any domains, a VMFUNC record names a view that one of them has
\* been on: no interleaving of the unlocked stores and loads in
\* hvm_rdtsc_intercept, with do_disable_intercept_rdtsc's reset among them, makes
\* up an index.
THEOREM RecordsNameVisited == PerceptionSpec => []OnlyVisited
<1>1. PerceptionInit => KnownInv
    BY InitKnown
<1>2. PerceptionTypeOK /\ KnownInv /\ [PerceptionNext]_pvars => KnownInv'
    BY KnownStep
<1>3. KnownInv => OnlyVisited
    BY DEF KnownInv
<1> QED BY <1>1, <1>2, <1>3, PerceptionTypeCorrect, PTL DEF PerceptionSpec

\* On a host with a single HVM domain, of any number of vCPUs, the domain in a
\* VMFUNC record is right as well; with a second one TLC refutes it.
THEOREM OneDomainTruthful ==
    ASSUME \A v, w \in Vcpus : Dom[v] = Dom[w]
    PROVE  PerceptionSpec => []TruthfulReport
<1> DEFINE FromDomains == \A r \in reported : \E v \in Vcpus : r[1] = Dom[v]
<1>1. PerceptionInit => FromDomains
    BY DEF PerceptionInit
<1>2. FromDomains /\ [PerceptionNext]_pvars => FromDomains'
    <2> SUFFICES ASSUME FromDomains, [PerceptionNext]_pvars PROVE FromDomains'
        OBVIOUS
    <2>1. CASE UNCHANGED reported
        BY <2>1
    <2>2. ASSUME NEW v \in Vcpus, Trace(v) PROVE FromDomains'
        <3>1. PICK x \in Load(v) : reported' \in {reported, reported \cup {<<Dom[v], x>>}}
            BY <2>2 DEF Trace
        <3> QED BY <3>1
    <2> QED BY <2>1, <2>2 DEF PerceptionNext, pvars, Activate, Vmfunc, InterceptRdtsc,
               DisableIntercept, SetExiting, SwitchTracing, InterceptStep, HandlerStep, Rdtsc,
               ReadIndex, Compare, Update
<1>3. FromDomains /\ OnlyVisited => TruthfulReport
    BY DEF OnlyVisited, TruthfulReport
<1> HIDE DEF FromDomains
<1> QED BY <1>1, <1>2, <1>3, RecordsNameVisited, PTL DEF PerceptionSpec
=============================================================================
