-------------------------- MODULE VmEventWakeProofs --------------------------
(***************************************************************************)
(* Proofs about the wake-ups of VmEvent: why on a ring that only the       *)
(* domain's own vCPUs use nobody ever has to queue when there are as many  *)
(* slots as vCPUs, and why a ring that has cleared leaves nobody blocked   *)
(* for whom there is a slot, however many there are; and why a vCPU is     *)
(* neither asleep in the queue of a ring that has gone nor forgotten by    *)
(* the next set-up of the monitor ring.                                    *)
(***************************************************************************)
EXTENDS VmEventProofs

\* A slot for each vCPU: the assumption of vm_event_wake_blocked.
SlotPerVcpu == NrVcpus <= RingSize

\* The vCPUs that are not blocked and hold no slot.
Claimants == {v \in VCPUs \ pause_flags : pc[v] # "have"}

\* The vCPUs between the test of ring_page and the lock.
Grabbers == {v \in VCPUs : pc[v] = "grab"}

\* On the monitor ring there is a slot for every vCPU that may claim one, or,
\* when the ring has gone, has not noticed yet.
Online ==
    /\ \A v \in VCPUs : pc[v] \in {"run", "test", "grab", "have"}
    /\ \A f \in Foreign : pc[f] = "run"
    /\ wq = <<>>
    /\ \A v \in pause_flags : pc[v] = "run"
    /\ ring_page => Cardinality(Claimants) <= Available
    /\ ~ring_page => pause_flags = {} /\ Cardinality(Grabbers) <= Available

OnlineInv == ring = "monitor" /\ ~stray => Online

\* The places of a caller that is in wait_event and has been queued.
InWait == {"retest", "regrab", "sleep", "finish", "leave"}

\* Nobody is in the queue twice.
Once(q) == \A i, j \in 1 .. Len(q) : q[i] = q[j] => i = j

\* Each vCPU is queued once, and on its way through wait_event.
WaitersInv ==
    /\ Once(wq)
    /\ \A v \in VCPUs : Contains(wq, v) => pc[v] \in InWait
    /\ ring_page => \A v \in VCPUs : Contains(wq, v) => pc[v] # "leave"

\* Before the first set-up nobody gets past the test of ring_page.
FirstRing ==
    enables = 0 => /\ ~ring_page /\ wq = <<>>
                   /\ \A c \in Callers : pc[c] \in {"run", "test"}

\* Only a later set-up of the paging or the share ring forgets a vCPU.
ForgottenInv == FirstRing /\ (forgotten # {} => ring # "monitor" /\ enables > 1)

\* The callers that hold a slot or wait for one.
Engaged == {c \in Callers : pc[c] \in {"prepare", "retest", "regrab", "sleep", "finish", "have"}}

\* As many vCPUs as there are slots are not blocked.
FewBlocked == Cardinality(pause_flags) <= Most(0, NrVcpus - RingSize)

\* blocked counts the flags, and while more are blocked than have to be there is
\* somebody on the way to vm_event_wake.
BlockedInv ==
    ~stray =>
        /\ blocked = Cardinality(pause_flags)
        /\ ~ring_page => pause_flags = {}
        /\ ring_page => FewBlocked \/ InUse > 0 \/ Engaged # {}

-----------------------------------------------------------------------------
(* Whom vm_event_wake_blocked wakes *)

\* The remainder of a number that is at most one divisor away.
LEMMA NearRemainder ==
    ASSUME NEW n \in Nat \ {0}, NEW x \in Int, -n <= x, x < n
    PROVE  x % n = IF x < 0 THEN x + n ELSE x
<1>1. CASE x < 0
    <2>1. x + n \in Nat /\ x + n < n
        BY <1>1
    <2>2. x = n * (-1) + (x + n)
        OBVIOUS
    <2> QED BY <1>1, <2>1, <2>2, SMTT(30)
<1>2. CASE x >= 0
    BY <1>2, SMTT(30)
<1> QED BY <1>1, <1>2

\* No two vCPUs have the same place in the loop.
LEMMA TurnsDiffer ==
    ASSUME last_vcpu_wake_up \in VCPUs, NEW v \in VCPUs, NEW w \in VCPUs, Turn(v) = Turn(w)
    PROVE  v = w
<1>1. PICK l \in VCPUs : l = last_vcpu_wake_up
    OBVIOUS
<1>2. NrVcpus \in Nat \ {0} /\ l \in 0 .. NrVcpus - 1 /\ v \in 0 .. NrVcpus - 1
      /\ w \in 0 .. NrVcpus - 1
    BY VmEventAssumption DEF VCPUs
<1>3. ASSUME NEW u \in VCPUs
      PROVE  /\ u <= l => Turn(u) = u - l - 1 + NrVcpus
             /\ u > l => Turn(u) = u - l - 1
    <2>1. PICK x \in Int : x = u - l - 1
        BY <1>2, VcpusFinite
    <2>2. -NrVcpus <= x /\ x < NrVcpus /\ u \in Int
        BY <1>2, <1>3, <2>1, VmEventAssumption DEF VCPUs
    <2>3. x % NrVcpus = IF x < 0 THEN x + NrVcpus ELSE x
        BY <1>2, <2>2, NearRemainder
    <2>4. Turn(u) = x % NrVcpus
        BY <1>1, <2>1 DEF Turn
    <2>5. x < 0 <=> u <= l
        BY <1>2, <2>1, <2>2
    <2>6. u <= l \/ u > l
        BY <1>2, <2>2
    <2> QED BY <1>2, <2>1, <2>2, <2>3, <2>4, <2>5
<1>4. PICK tv, tw : tv = Turn(v) /\ tw = Turn(w)
    OBVIOUS
<1>5. /\ v <= l => tv = v - l - 1 + NrVcpus
      /\ v > l => tv = v - l - 1
      /\ w <= l => tw = w - l - 1 + NrVcpus
      /\ w > l => tw = w - l - 1
      /\ tv = tw
    BY <1>3, <1>4
<1> QED BY <1>2, <1>5

\* How many blocked vCPUs come before v.
Before(v) == Cardinality({w \in pause_flags : Turn(w) < Turn(v)})

\* At most nr vCPUs are among the first nr.
LEMMA FirstFew ==
    ASSUME VmEventTypeOK, NEW nr \in Int
    PROVE  LET ups == {v \in pause_flags : Before(v) < nr}
           IN  Cardinality(ups) \in Nat /\ (ups = {} \/ Cardinality(ups) <= nr)
<1> DEFINE ups == {v \in pause_flags : Before(v) < nr}
<1>1. last_vcpu_wake_up \in VCPUs /\ pause_flags \in SUBSET VCPUs
    BY DEF VmEventTypeOK
<1>2. ups \in SUBSET VCPUs /\ IsFiniteSet(ups) /\ Cardinality(ups) \in Nat
    BY <1>1, VcpusFinite
<1>3. ASSUME ups # {} PROVE Cardinality(ups) <= nr
    <2>1. PICK v \in ups : \A w \in ups : Turn(w) <= Turn(v)
        BY <1>1, <1>2, <1>3, LastTurn
    <2> DEFINE first == {w \in pause_flags : Turn(w) < Turn(v)}
    <2>2. first \in SUBSET VCPUs /\ IsFiniteSet(first) /\ Cardinality(first) \in Nat
        BY <1>1, VcpusFinite
    <2>3. Cardinality(first) < nr
        BY DEF Before
    <2>4. ups \ {v} \subseteq first
        <3> SUFFICES ASSUME NEW w \in ups, w # v PROVE w \in first
            OBVIOUS
        <3>1. Turn(w) # Turn(v) /\ v \in VCPUs /\ w \in VCPUs
            BY <1>1, <1>2, TurnsDiffer
        <3>2. Turn(w) \in 0 .. NrVcpus - 1 /\ Turn(v) \in 0 .. NrVcpus - 1
            BY <1>1, <3>1, TurnRange
        <3>3. Turn(w) < Turn(v)
            BY <2>1, <3>1, <3>2, VmEventAssumption
        <3> QED BY <3>3
    <2> HIDE DEF ups, first
    <2>5. Cardinality(ups \ {v}) <= Cardinality(first)
        BY <2>2, <2>4, FS_Subset
    <2>6. Cardinality(ups \ {v}) = Cardinality(ups) - 1
        BY <1>2, <2>1, FS_RemoveElement
    <2> QED BY <1>2, <2>2, <2>3, <2>5, <2>6
<1> QED BY <1>2, <1>3

\* What the loop in vm_event_wake_blocked is left to wake.
LEMMA UnblockedIs ==
    ASSUME VmEventTypeOK, NEW avail \in Int
    PROVE  \E nr \in Int :
              /\ Unblocked(avail) = {v \in pause_flags : Before(v) < nr}
              /\ nr <= Most(0, avail - (NrVcpus - Cardinality(pause_flags)))
              /\ blocked = Cardinality(pause_flags) =>
                    nr = Least(Cardinality(pause_flags),
                               Most(0, avail - (NrVcpus - Cardinality(pause_flags))))
<1> DEFINE n == Cardinality(pause_flags)
           count == IF blocked < 0 THEN NrVcpus ELSE Least(blocked, NrVcpus)
           nr == Least(count, Most(0, avail - (NrVcpus - n)))
<1>1. Unblocked(avail) = {v \in pause_flags : Before(v) < nr}
    BY DEF Unblocked, Before
<1>2. n \in Nat /\ n <= NrVcpus /\ blocked \in Int /\ NrVcpus \in Nat
    <2>1. pause_flags \in SUBSET VCPUs /\ IsFiniteSet(VCPUs)
        BY VcpusFinite DEF VmEventTypeOK
    <2>2. Cardinality(VCPUs) = NrVcpus
        BY VmEventAssumption, FS_Interval DEF VCPUs
    <2> QED BY <2>1, <2>2, FS_Subset, FS_CardinalityType, VmEventAssumption DEF VmEventTypeOK
<1> HIDE DEF n
<1>3. count \in Int
    BY <1>2 DEF Least
<1>4. Most(0, avail - (NrVcpus - n)) \in Int
    BY <1>2 DEF Most
<1>5. nr \in Int /\ nr <= Most(0, avail - (NrVcpus - n))
    BY <1>3, <1>4 DEF Least
<1>6. blocked = n => nr = Least(n, Most(0, avail - (NrVcpus - n)))
    <2>1. blocked = n => count = n
        BY <1>2 DEF Least
    <2> HIDE DEF count
    <2> QED BY <2>1
<1> QED BY <1>1, <1>5, <1>6 DEF n

\* vm_event_wake_blocked brings no more vCPUs online than there are slots.
LEMMA FewUnblocked ==
    ASSUME VmEventTypeOK, NEW avail \in Int
    PROVE  /\ Unblocked(avail) \in SUBSET pause_flags
           /\ Cardinality(Unblocked(avail)) \in Nat
           /\ \/ Unblocked(avail) = {}
              \/ Cardinality(Unblocked(avail)) <= avail - (NrVcpus - Cardinality(pause_flags))
<1>1. PICK nr \in Int : /\ Unblocked(avail) = {v \in pause_flags : Before(v) < nr}
                        /\ nr <= Most(0, avail - (NrVcpus - Cardinality(pause_flags)))
    BY UnblockedIs
<1>2. /\ Cardinality(Unblocked(avail)) \in Nat
      /\ Unblocked(avail) = {} \/ Cardinality(Unblocked(avail)) <= nr
    BY <1>1, FirstFew
<1>3. Cardinality(Unblocked(avail)) = 0 => Unblocked(avail) = {}
    <2>1. Unblocked(avail) \in SUBSET VCPUs
        BY <1>1 DEF VmEventTypeOK
    <2> QED BY <2>1, VcpusFinite, FS_EmptySet
<1>4. avail - (NrVcpus - Cardinality(pause_flags)) \in Int
    BY VcpusFinite, VmEventAssumption DEF VmEventTypeOK
<1> QED BY <1>1, <1>2, <1>3, <1>4 DEF Most

\* At least nr vCPUs are among the first nr, if there are as many.
LEMMA FirstEnough ==
    ASSUME VmEventTypeOK, NEW nr \in Int, nr <= Cardinality(pause_flags)
    PROVE  nr <= Cardinality({v \in pause_flags : Before(v) < nr})
<1> DEFINE ups  == {v \in pause_flags : Before(v) < nr}
           rest == pause_flags \ ups
<1>1. last_vcpu_wake_up \in VCPUs /\ pause_flags \in SUBSET VCPUs
    BY DEF VmEventTypeOK
<1>2. ups \in SUBSET VCPUs /\ IsFiniteSet(ups) /\ Cardinality(ups) \in Nat
    BY <1>1, VcpusFinite
<1>3. CASE rest = {}
    <2>1. ups = pause_flags
        BY <1>3
    <2> QED BY <2>1
<1>4. CASE rest # {}
    <2>1. rest \in SUBSET VCPUs
        BY <1>1
    <2>2. PICK u \in rest : \A w \in rest : Turn(u) <= Turn(w)
        BY <1>1, <1>4, <2>1, FirstTurn
    <2> DEFINE first == {w \in pause_flags : Turn(w) < Turn(u)}
    <2>3. first \in SUBSET VCPUs /\ Cardinality(first) \in Nat
        BY <1>1, VcpusFinite
    <2>4. nr <= Cardinality(first)
        <3>1. Before(u) = Cardinality(first)
            BY DEF Before
        <3>2. ~(Before(u) < nr)
            BY <2>2
        <3> HIDE DEF first
        <3> QED BY <2>3, <3>1, <3>2
    <2>5. first \subseteq ups
        <3> SUFFICES ASSUME NEW w \in pause_flags, Turn(w) < Turn(u), w \in rest PROVE FALSE
            OBVIOUS
        <3>1. Turn(w) \in Int /\ Turn(u) \in Int
            BY <1>1, <2>1, <2>2, TurnRange, VmEventAssumption
        <3> QED BY <2>2, <3>1
    <2> HIDE DEF ups, first
    <2>6. Cardinality(first) <= Cardinality(ups)
        BY <1>2, <2>5, FS_Subset
    <2> QED BY <1>2, <2>3, <2>4, <2>6 DEF ups
<1> QED BY <1>3, <1>4

\* It leaves no more vCPUs blocked than there are without a slot.
LEMMA FewLeftBlocked ==
    ASSUME VmEventTypeOK, NEW avail \in Int, blocked = Cardinality(pause_flags)
    PROVE  Cardinality(pause_flags \ Unblocked(avail)) <= Most(0, NrVcpus - avail)
<1> DEFINE ups == Unblocked(avail)
           n   == Cardinality(pause_flags)
<1>1. PICK nr \in Int : /\ ups = {v \in pause_flags : Before(v) < nr}
                        /\ nr = Least(n, Most(0, avail - (NrVcpus - n)))
    BY UnblockedIs
<1>2. pause_flags \in SUBSET VCPUs /\ ups \in SUBSET pause_flags
    BY <1>1 DEF VmEventTypeOK
<1>3. /\ IsFiniteSet(pause_flags) /\ n \in Nat /\ Cardinality(ups) \in Nat /\ NrVcpus \in Nat
    BY <1>2, VcpusFinite, VmEventAssumption
<1> HIDE DEF n
<1>4. nr <= n
    BY <1>1, <1>3 DEF Least, Most
<1>5. nr <= Cardinality(ups)
    BY <1>1, <1>4, FirstEnough DEF n
<1> HIDE DEF ups
<1>6. Cardinality(pause_flags \ ups) = n - Cardinality(ups)
    <2>1. pause_flags \cap ups = ups
        BY <1>2
    <2>2. Cardinality(pause_flags \ ups) = n - Cardinality(pause_flags \cap ups)
        BY <1>3, FS_Difference DEF n
    <2> QED BY <2>1, <2>2, Zenon
<1>7. Cardinality(pause_flags \ ups) <= n - nr
    BY <1>3, <1>5, <1>6
<1>8. n - nr <= Most(0, NrVcpus - avail)
    BY <1>1, <1>3 DEF Least, Most
<1>9. Most(0, NrVcpus - avail) \in Int
    BY <1>3 DEF Most
<1>10. Cardinality(pause_flags \ ups) \in Int
    BY <1>3, <1>6
<1> QED BY <1>3, <1>7, <1>8, <1>9, <1>10 DEF ups

\* So if there was a slot for everyone in U, there is one for those woken too.
LEMMA RoomForUnblocked ==
    ASSUME VmEventTypeOK, NEW avail \in Int, NEW U \in SUBSET (VCPUs \ pause_flags),
           Cardinality(U) <= avail, NEW T \in SUBSET (U \cup Unblocked(avail))
    PROVE  Cardinality(T) <= avail
<1> DEFINE ups == Unblocked(avail)
           n == Cardinality(pause_flags)
<1>1. pause_flags \in SUBSET VCPUs /\ ups \in SUBSET pause_flags /\ Cardinality(ups) \in Nat
    BY FewUnblocked DEF VmEventTypeOK
<1>2. IsFiniteSet(U) /\ IsFiniteSet(ups) /\ Cardinality(U) \in Nat /\ n \in Nat
    BY <1>1, VcpusFinite
<1>3. ups = {} \/ Cardinality(ups) <= avail - (NrVcpus - n)
    BY FewUnblocked
<1>4. Cardinality(U) <= NrVcpus - n
    <2>1. Cardinality(VCPUs) = NrVcpus /\ NrVcpus \in Nat
        BY VmEventAssumption, FS_Interval DEF VCPUs
    <2>2. VCPUs \cap pause_flags = pause_flags
        BY <1>1
    <2>3. Cardinality(VCPUs \ pause_flags) = Cardinality(VCPUs) - Cardinality(VCPUs \cap pause_flags)
        BY VcpusFinite, FS_Difference
    <2>4. IsFiniteSet(VCPUs \ pause_flags)
        BY VcpusFinite, FS_Subset
    <2>5. Cardinality(U) <= Cardinality(VCPUs \ pause_flags)
        BY <2>4, FS_Subset
    <2>6. Cardinality(VCPUs \ pause_flags) = NrVcpus - n
        BY <2>1, <2>2, <2>3, Zenon
    <2> QED BY <2>5, <2>6
<1> HIDE DEF ups, n
<1>5. /\ IsFiniteSet(U \cup ups)
      /\ Cardinality(U \cup ups) = Cardinality(U) + Cardinality(ups) - Cardinality(U \cap ups)
    BY <1>2, FS_Union
<1>6. Cardinality(U \cap ups) = 0 /\ Cardinality({}) = 0
    <2>1. U \cap ups = {}
        BY <1>1
    <2> QED BY <2>1, FS_EmptySet, Zenon
<1>7. Cardinality(U \cup ups) = Cardinality(U) + Cardinality(ups)
    BY <1>1, <1>2, <1>5, <1>6
<1>8. Cardinality(U \cup ups) <= avail
    <2>1. CASE ups = {}
        BY <1>2, <1>6, <1>7, <2>1
    <2>2. CASE ups # {}
        BY <1>1, <1>2, <1>3, <1>4, <1>7, <2>2, VmEventAssumption
    <2> QED BY <2>1, <2>2
<1>9. Cardinality(T) <= Cardinality(U \cup ups) /\ Cardinality(T) \in Nat
    BY <1>5, FS_Subset, FS_CardinalityType DEF ups
<1>10. Cardinality(U \cup ups) \in Nat
    BY <1>5, FS_CardinalityType
<1> QED BY <1>8, <1>9, <1>10

\* vm_event_wake with nobody in the queue.
LEMMA WakeBlocked ==
    ASSUME VmEventTypeOK, NEW avail \in Int, avail >= 0, NEW extra, Wake(avail, extra), wq = <<>>
    PROVE  /\ wq' = <<>>
           /\ pause_flags' = (pause_flags \ Unblocked(avail)) \cup extra
<1>1. Least(avail, Len(wq)) = 0 /\ Len(wq) = 0
    BY DEF Least
<1>2. wq' = SubSeq(wq, 1, 0)
    BY <1>1 DEF Wake
<1> QED BY <1>2 DEF Wake

-----------------------------------------------------------------------------
(* A slot for everyone on the monitor ring *)

\* How the number of free requests changes.
LEMMA AvailableMoves ==
    ASSUME RingInv
    PROVE  /\ \A c \in Callers : Reserve(c) => Available' = Available - 1
           /\ \A c \in Callers : Put(c) => Available' = Available
           /\ \A c \in Callers : Cancel(c) => Available' = Available + 1
           /\ Answer => Available' = Available
           /\ Resume => Available' = Available + 1
           /\ UNCHANGED slots => Available' = Available
<1>1. /\ RingSize \in Int /\ Len(reqs) \in Int /\ Len(rsps) \in Int
      /\ target_producers \in Int /\ foreign_producers \in Int
      /\ reqs \in Seq(Requests) /\ rsps \in Seq(Requests)
    BY VmEventAssumption, AvailableType DEF RingInv, VmEventTypeOK
<1>2. ASSUME NEW c \in Callers, Reserve(c) PROVE Available' = Available - 1
    BY <1>1, <1>2 DEF Reserve, Available, InUse
<1>3. ASSUME NEW c \in Callers, Put(c) PROVE Available' = Available
    <2>1. [who |-> c, paused |-> Pauses(c)] \in Requests
        BY DEF Requests, Pauses, Callers
    <2>2. Len(reqs') = Len(reqs) + 1 /\ rsps' = rsps /\ reqs' \in Seq(Requests)
        BY <1>1, <1>3, <2>1, AppendProperties DEF Put
    <2>3. target_producers' + foreign_producers' = target_producers + foreign_producers - 1
          /\ target_producers' \in Int /\ foreign_producers' \in Int
        BY <1>1, <1>3 DEF Put, Release
    <2>4. Available' = RingSize - (Len(reqs) + 1 + Len(rsps)) - target_producers'
                          - foreign_producers'
        BY <2>2 DEF Available, InUse
    <2>5. Available = RingSize - (Len(reqs) + Len(rsps)) - target_producers - foreign_producers
        BY DEF Available, InUse
    <2>6. PICK a \in Int, b \in Int, t \in Int, f \in Int, t1 \in Int, f1 \in Int :
             /\ a = Len(reqs) /\ b = Len(rsps) /\ t = target_producers /\ f = foreign_producers
             /\ t1 = target_producers' /\ f1 = foreign_producers'
        BY <1>1, <2>3
    <2>7. t1 + f1 = t + f - 1
        BY <2>3, <2>6
    <2>8. Available' = RingSize - (a + 1 + b) - t1 - f1
        BY <2>4, <2>6
    <2>9. Available = RingSize - (a + b) - t - f
        BY <2>5, <2>6
    <2>10. RingSize \in Int
        BY VmEventAssumption
    <2> QED BY <2>7, <2>8, <2>9, <2>10
<1>4. ASSUME NEW c \in Callers, Cancel(c) PROVE Available' = Available + 1
    BY <1>1, <1>4 DEF Cancel, Release, Available, InUse
<1>5. ASSUME Answer PROVE Available' = Available
    <2>1. Head(reqs) \in Requests /\ Len(Tail(reqs)) = Len(reqs) - 1
        BY <1>1, <1>5, HeadTailProperties DEF Answer
    <2>2. Len(rsps') = Len(rsps) + 1 /\ Len(reqs') = Len(reqs) - 1
        BY <1>1, <1>5, <2>1, AppendProperties DEF Answer
    <2> QED BY <1>1, <1>5, <2>2 DEF Answer, Available, InUse
<1>6. ASSUME Resume PROVE Available' = Available + 1
    <2>1. Len(rsps') = Len(rsps) - 1 /\ reqs' = reqs
        BY <1>1, <1>6, HeadTailProperties DEF Resume
    <2> QED BY <1>1, <1>6, <2>1 DEF Resume, Available, InUse
<1>7. UNCHANGED slots => Available' = Available
    BY DEF slots, Available, InUse
<1> QED BY <1>2, <1>3, <1>4, <1>5, <1>6, <1>7

LEMMA ClaimantsFinite ==
    ASSUME VmEventTypeOK
    PROVE  /\ Claimants \in SUBSET (VCPUs \ pause_flags) /\ Grabbers \in SUBSET VCPUs
           /\ IsFiniteSet(Claimants) /\ IsFiniteSet(Grabbers)
           /\ Cardinality(Claimants) \in Nat /\ Cardinality(Grabbers) \in Nat
           /\ Available \in Int
<1>1. Claimants \in SUBSET VCPUs /\ Grabbers \in SUBSET VCPUs
    BY DEF Claimants, Grabbers
<1> QED BY <1>1, VcpusFinite, AvailableType DEF Claimants

\* The vCPU that has the lock finds a slot: it is one of the claimants.
LEMMA SlotForGrabber ==
    ASSUME RingInv, Online, NEW c \in VCPUs, pc[c] = "grab"
    PROVE  /\ Available > 0
           /\ ring_page => c \in Claimants
           /\ c \in Grabbers
<1>1. c \in Grabbers
    BY DEF Grabbers
<1>2. ring_page => c \in Claimants
    BY DEF Claimants, Online
<1>3. \A S : IsFiniteSet(S) /\ c \in S => Cardinality(S) # 0
    BY FS_EmptySet
<1> QED BY <1>1, <1>2, <1>3, ClaimantsFinite DEF RingInv, Online

\* Up to the lock nothing but the place of the caller changes.
LEMMA ClaimOnline ==
    ASSUME RingInv, RingInv', Online, NEW c \in Callers,
           NEW e \in {"mem", "sync", "async", "busy"}, ring = "monitor",
           Trigger(c, e) \/ Test(c) \/ Grab(c)
    PROVE  Online'
<1>1. VmEventTypeOK /\ VmEventTypeOK'
    BY DEF RingInv
<1>2. c \in VCPUs
    BY DEF Online, Callers, Trigger, Outsiders, Test, Grab
<1>3. UNCHANGED <<ring_page, wq, pause_flags>>
    BY DEF Trigger, Test, Grab, asleep
<1>4. c \notin pause_flags
    BY <1>2 DEF Online, Trigger, Runnable, Test, Grab
<1>5. CASE Trigger(c, e) \/ Test(c)
    <2>1. PICK l \in {"run", "test", "grab"} : Goto(c, l) /\ (l = "grab" => ring_page)
        BY <1>5 DEF Trigger, Test, NoRing, Return
    <2>2. pc'[c] = l /\ \A d \in Callers : d # c => pc'[d] = pc[d]
        BY <1>1, <2>1, GotoType
    <2>3. pc[c] \in {"run", "test"}
        BY <1>5 DEF Trigger, Test
    <2>4. Available' = Available
        BY <1>5, AvailableMoves DEF Trigger, Test
    <2>5. Claimants' = Claimants
        BY <1>2, <1>3, <2>2, <2>3 DEF Claimants, Callers
    <2>6. ~ring_page => Grabbers' = Grabbers
        BY <1>2, <2>1, <2>2, <2>3 DEF Grabbers, Callers
    <2>7. /\ \A v \in VCPUs : pc'[v] \in {"run", "test", "grab", "have"}
          /\ \A v \in pause_flags' : pc'[v] = "run"
        BY <1>1, <1>2, <1>3, <1>4, <2>2 DEF Online, Callers, VmEventTypeOK
    <2>8. \A f \in Foreign : pc'[f] = "run"
        BY <1>2, <2>2, ForeignAssumption DEF Online, Callers
    <2> QED BY <1>3, <2>4, <2>5, <2>6, <2>7, <2>8 DEF Online
<1>6. CASE Grab(c)
    <2>1. pc[c] = "grab" /\ Available > 0 /\ (ring_page => c \in Claimants) /\ c \in Grabbers
        BY <1>2, <1>6, SlotForGrabber DEF Grab
    <2>2. Reserve(c) /\ Goto(c, "have")
        BY <1>6, <2>1, ClaimantsFinite DEF Grab, RingInv
    <2>3. pc'[c] = "have" /\ \A d \in Callers : d # c => pc'[d] = pc[d]
        BY <1>1, <2>2, GotoType
    <2>4. Available' = Available - 1 /\ Available \in Int
        BY <1>1, <2>2, AvailableMoves, AvailableType
    <2>5. Claimants' = Claimants \ {c}
        BY <1>2, <1>3, <2>3 DEF Claimants, Callers
    <2>6. Grabbers' = Grabbers \ {c}
        BY <1>2, <2>3 DEF Grabbers, Callers
    <2>7. /\ \A v \in VCPUs : pc'[v] \in {"run", "test", "grab", "have"}
          /\ \A v \in pause_flags' : pc'[v] = "run"
        BY <1>1, <1>2, <1>3, <1>4, <2>3 DEF Online, Callers, VmEventTypeOK
    <2>8. \A f \in Foreign : pc'[f] = "run"
        BY <1>2, <2>3, ForeignAssumption DEF Online, Callers
    <2>9. ring_page' => Cardinality(Claimants') <= Available'
        <3> SUFFICES ASSUME ring_page PROVE Cardinality(Claimants \ {c}) <= Available - 1
            BY <1>3, <2>4, <2>5
        <3>1. Cardinality(Claimants \ {c}) = Cardinality(Claimants) - 1
            BY <1>1, <2>1, ClaimantsFinite, FS_RemoveElement
        <3> QED BY <1>1, <2>4, <3>1, ClaimantsFinite DEF Online
    <2>10. ~ring_page' => Cardinality(Grabbers') <= Available'
        <3> SUFFICES ASSUME ~ring_page PROVE Cardinality(Grabbers \ {c}) <= Available - 1
            BY <1>3, <2>4, <2>6
        <3>1. Cardinality(Grabbers \ {c}) = Cardinality(Grabbers) - 1
            BY <1>1, <2>1, ClaimantsFinite, FS_RemoveElement
        <3> QED BY <1>1, <2>4, <3>1, ClaimantsFinite DEF Online
    <2> QED BY <1>3, <2>7, <2>8, <2>9, <2>10 DEF Online
<1> QED BY <1>5, <1>6

\* vm_event_put_request blocks the caller unless there is a slot for every vCPU.
LEMMA PutOnline ==
    ASSUME RingInv, RingInv', Online, NEW c \in Callers, Put(c), ring_page
    PROVE  Online'
<1> DEFINE extra == IF c \in VCPUs /\ Available < NrVcpus THEN {c} ELSE {}
           ups   == Unblocked(Available)
<1>1. VmEventTypeOK /\ VmEventTypeOK' /\ Available \in Int /\ Available >= 0
    BY AvailableType DEF RingInv, RoomForHolders
<1>2. c \in VCPUs /\ pc[c] = "have"
    BY DEF Put, Online, Callers
<1>3. wq' = <<>> /\ pause_flags' = (pause_flags \ ups) \cup extra
    <2>1. Wake(Available, extra)
        BY DEF Put
    <2> HIDE DEF extra
    <2> QED BY <1>1, <2>1, WakeBlocked DEF Online
<1>4. pc'[c] = "run" /\ \A d \in Callers : d # c => pc'[d] = pc[d]
    <2>1. Goto(c, "run")
        BY DEF Put, Return
    <2> QED BY <1>1, <2>1, GotoType
<1>5. Available' = Available /\ ring_page' = ring_page
    BY AvailableMoves DEF Put
<1>6. \A v \in VCPUs : pc'[v] \in {"run", "test", "grab", "have"}
    BY <1>4 DEF Online, Callers
<1>7. \A f \in Foreign : pc'[f] = "run"
    BY <1>2, <1>4, ForeignAssumption DEF Online, Callers
<1>8. \A v \in pause_flags' : pc'[v] = "run"
    BY <1>1, <1>3, <1>4 DEF Online, Callers, VmEventTypeOK
<1>9. Cardinality(Claimants') <= Available
    <2>1. CASE Available < NrVcpus
        <3>1. Claimants' \in SUBSET (Claimants \cup ups)
            <4> SUFFICES ASSUME NEW v \in VCPUs, v \notin pause_flags', pc'[v] # "have"
                         PROVE  v \in Claimants \cup ups
                BY DEF Claimants
            <4>1. v # c /\ (v \notin pause_flags \/ v \in ups)
                BY <1>2, <1>3, <2>1
            <4>2. pc[v] # "have"
                BY <1>4, <4>1 DEF Callers
            <4> QED BY <4>1, <4>2 DEF Claimants
        <3>2. Cardinality(Claimants) <= Available
            BY DEF Online
        <3> QED BY <1>1, <3>1, <3>2, RoomForUnblocked, ClaimantsFinite
    <2>2. CASE ~(Available < NrVcpus)
        <3>1. Claimants' \in SUBSET VCPUs
            BY DEF Claimants
        <3>2. Cardinality(VCPUs) = NrVcpus /\ NrVcpus \in Nat
            BY VmEventAssumption, FS_Interval DEF VCPUs
        <3>3. Cardinality(Claimants') <= NrVcpus /\ Cardinality(Claimants') \in Nat
            BY <3>1, <3>2, VcpusFinite, FS_Subset
        <3> QED BY <1>1, <2>2, <3>2, <3>3
    <2> QED BY <2>1, <2>2
<1> QED BY <1>3, <1>5, <1>6, <1>7, <1>8, <1>9 DEF Online

\* vm_event_resume wakes as many as have a slot.
LEMMA ResumeOnline ==
    ASSUME RingInv, RingInv', Online, Resume
    PROVE  Online'
<1> DEFINE avail == Available + 1
           ups   == Unblocked(avail)
<1>1. VmEventTypeOK /\ VmEventTypeOK' /\ Available \in Int /\ avail \in Int /\ avail >= 0
    BY AvailableType DEF RingInv, RoomForHolders
<1>2. ring_page /\ UNCHANGED <<ring_page, pc>> /\ Available' = avail
    BY AvailableMoves DEF Resume
<1>3. wq' = <<>> /\ pause_flags' = pause_flags \ ups
    <2>1. Wake(avail, {})
        BY DEF Resume
    <2> HIDE DEF avail
    <2>2. pause_flags' = (pause_flags \ ups) \cup {}
        BY <1>1, <2>1, WakeBlocked DEF Online
    <2> QED BY <1>1, <2>1, <2>2, WakeBlocked DEF Online
<1>4. Cardinality(Claimants') <= avail
    <2>1. Claimants' \in SUBSET (Claimants \cup ups)
        BY <1>2, <1>3 DEF Claimants
    <2>2. Cardinality(Claimants) <= avail
        BY <1>1, <1>2, ClaimantsFinite DEF Online
    <2> HIDE DEF avail
    <2> QED BY <1>1, <2>1, <2>2, RoomForUnblocked, ClaimantsFinite
<1> QED BY <1>2, <1>3, <1>4 DEF Online

\* vm_event_disable unblocks everybody, but only those who have already looked
\* at ring_page can still claim.
LEMMA DisableOnline ==
    ASSUME RingInv, Online, Disable
    PROVE  Online'
<1>1. VmEventTypeOK
    BY DEF RingInv
<1>2. ring_page /\ ~ring_page' /\ pause_flags' = {} /\ UNCHANGED <<wq, pc>>
    BY DEF Disable, callers
<1>3. Available' = Available
    BY AvailableMoves DEF Disable
<1>4. Grabbers' = Grabbers /\ Grabbers \in SUBSET Claimants
    BY <1>2 DEF Grabbers, Claimants, Online
<1>5. Cardinality(Grabbers) <= Cardinality(Claimants)
    BY <1>1, <1>4, ClaimantsFinite, FS_Subset
<1>6. Cardinality(Grabbers') <= Available'
    BY <1>1, <1>2, <1>3, <1>4, <1>5, ClaimantsFinite DEF Online
<1> QED BY <1>2, <1>6 DEF Online

\* vm_event_enable finds no reservation, and makes a slot for each vCPU.
LEMMA EnableOnline ==
    ASSUME RingInv, RingInv', Online, ring = "monitor", Enable, SlotPerVcpu
    PROVE  Online'
<1>1. VmEventTypeOK /\ VmEventTypeOK'
    BY DEF RingInv
<1>2. /\ ring_page' /\ ~ring_page /\ wq' = <<>> /\ reqs' = <<>> /\ rsps' = <<>>
      /\ UNCHANGED <<pc, pause_flags, target_producers, foreign_producers>>
    BY DEF Enable, callers
<1>3. \A c \in Callers : pc[c] = "run"
    BY DEF Online, Enable, SetUp, Callers
<1>4. Holders = {}
    BY <1>3 DEF Holders, Callers
<1>5. target_producers = 0 /\ foreign_producers = 0
    <2>1. Holders \cap VCPUs = {} /\ Holders \cap Foreign = {}
        BY <1>4
    <2>2. Cardinality({}) = 0
        BY FS_EmptySet
    <2> QED BY <2>1, <2>2, Zenon DEF RingInv, RoomForHolders
<1>6. Available' = RingSize
    <2>1. Len(<<>>) = 0
        BY EmptySeq
    <2> QED BY <1>2, <1>5, <2>1, VmEventAssumption DEF Available, InUse
<1>7. Cardinality(Claimants') <= NrVcpus /\ Cardinality(Claimants') \in Nat
    <2>1. Claimants' \in SUBSET VCPUs
        BY DEF Claimants
    <2>2. Cardinality(VCPUs) = NrVcpus /\ NrVcpus \in Nat
        BY VmEventAssumption, FS_Interval DEF VCPUs
    <2> QED BY <2>1, <2>2, VcpusFinite, FS_Subset
<1>8. Cardinality(Claimants') <= Available'
    BY <1>6, <1>7, VmEventAssumption DEF SlotPerVcpu
<1> QED BY <1>2, <1>8 DEF Online

\* Which ring it is does not change, and what went astray stays so.
LEMMA StrayStays ==
    ASSUME VmEventTypeOK, [VmEventNext]_evars
    PROVE  ring' = ring /\ (~stray' => ~stray)
BY DEF VmEventNext, VmEventStep, Trigger, TriggerNoMemory, ClaimStep, Test, Grab, Put, Cancel,
       WaitStep, Prepare, Retest, Regrab, Awake, Finish, Answer, Resume, Disable, Enable,
       evars, VmEventTypeOK

LEMMA NextOnline ==
    ASSUME SlotPerVcpu, RingInv, RingInv', OnlineInv, [VmEventNext]_evars
    PROVE  OnlineInv'
<1> SUFFICES ASSUME ring' = "monitor", ~stray' PROVE Online'
    BY DEF OnlineInv
<1>1. ring = "monitor" /\ ~stray /\ Online
    BY StrayStays DEF RingInv, OnlineInv
<1>2. CASE UNCHANGED evars
    BY <1>1, <1>2 DEF evars, slots, asleep, callers, Online, Claimants, Grabbers, Available, InUse
<1>3. ASSUME NEW c \in Callers, NEW e \in {"mem", "sync", "async", "busy"}, Trigger(c, e)
      PROVE  Online'
    BY <1>1, <1>3, ClaimOnline
<1>4. ASSUME NEW c \in Callers, Test(c) \/ Grab(c) PROVE Online'
    BY <1>1, <1>4, ClaimOnline
<1>5. ASSUME NEW c \in Callers, Put(c) PROVE Online'
    BY <1>1, <1>5, PutOnline DEF Put
<1>6. ASSUME NEW c \in Callers, Cancel(c) PROVE Online'
    BY <1>1, <1>6 DEF Cancel
<1>7. ASSUME NEW v \in VCPUs, WaitStep(v) PROVE Online'
    BY <1>1, <1>7 DEF WaitStep, Prepare, Retest, Regrab, Awake, Finish, Online
<1>8. CASE Answer
    <2>1. Available' = Available
        BY <1>8, AvailableMoves
    <2>2. UNCHANGED <<ring_page, wq, pause_flags, pc>>
        BY <1>8 DEF Answer, asleep, callers
    <2> QED BY <1>1, <2>1, <2>2 DEF Online, Claimants, Grabbers
<1>9. CASE Resume
    BY <1>1, <1>9, ResumeOnline
<1>10. CASE Disable \/ Enable
    BY <1>1, <1>10, DisableOnline, EnableOnline
<1>11. ASSUME NEW v \in VCPUs, TriggerNoMemory(v) PROVE Online'
    BY <1>1, <1>11 DEF TriggerNoMemory, slots, asleep, Online, Claimants, Grabbers, Available, InUse
<1> QED BY <1>2, <1>3, <1>4, <1>5, <1>6, <1>7, <1>8, <1>9, <1>10, <1>11
        DEF VmEventNext, VmEventStep, ClaimStep, Callers

LEMMA InitOnline == VmEventInit => OnlineInv
<1> SUFFICES ASSUME VmEventInit PROVE Online
    BY DEF OnlineInv
<1>1. Grabbers = {}
    BY DEF VmEventInit, Grabbers
<1>2. Cardinality(Grabbers) = 0
    BY <1>1, FS_EmptySet, Zenon
<1>3. Available >= 0
    BY InitRingInv DEF RingInv, RoomForHolders
<1>4. pause_flags = {} /\ ~ring_page /\ wq = <<>> /\ \A c \in VCPUs \cup Foreign : pc[c] = "run"
    BY DEF VmEventInit
<1> QED BY <1>2, <1>3, <1>4 DEF Online

\* With as many slots as vCPUs there is on the monitor ring a slot for every
\* vCPU that may claim one, as long as no request has gone to a ring page that
\* was given back.
THEOREM OnlineInvariant == ASSUME SlotPerVcpu PROVE VmEventSpec => []OnlineInv
<1>1. VmEventInit => OnlineInv
    BY InitOnline
<1>2. RingInv /\ RingInv' /\ OnlineInv /\ [VmEventNext]_evars => OnlineInv'
    BY NextOnline
<1> QED BY <1>1, <1>2, RingInvariant, PTL DEF VmEventSpec

\* "We ensure that we only have vCPUs online if there are enough free slots":
\* no vCPU ever has to queue on the monitor ring.
THEOREM NobodyQueues == VmEventSpec => []NeverQueued
<1>1. CASE SlotPerVcpu
    <2>1. VmEventSpec => []OnlineInv
        BY <1>1, OnlineInvariant
    <2>2. OnlineInv => NeverQueued
        BY DEF OnlineInv, Online, NeverQueued
    <2> QED BY <2>1, <2>2, PTL
<1>2. CASE ~SlotPerVcpu
    <2>1. NeverQueued
        BY <1>2 DEF SlotPerVcpu, NeverQueued
    <2> QED BY <2>1, PTL
<1> QED BY <1>1, <1>2

-----------------------------------------------------------------------------
(* The queue *)

LEMMA OnceEmpty == Once(<<>>) /\ \A v : ~Contains(<<>>, v)
BY DEF Once, Contains

\* vm_event_wake takes vCPUs off the front of the queue.
LEMMA OnceWoken ==
    ASSUME VmEventTypeOK, Once(wq), NEW avail \in Int, avail >= 0, NEW extra, Wake(avail, extra)
    PROVE  Once(wq')
<1>1. PICK n : n = Least(avail, Len(wq))
    OBVIOUS
<1>2. wq \in Seq(VCPUs) /\ Len(wq) \in Nat
    BY AvailableType DEF VmEventTypeOK
<1>3. n \in Int /\ 0 <= n /\ n <= Len(wq)
    BY <1>1, <1>2 DEF Least
<1>4. wq' = SubSeq(wq, n + 1, Len(wq))
    BY <1>1 DEF Wake
<1>5. Len(wq') = Len(wq) - n /\ \A i \in 1 .. Len(wq) - n : wq'[i] = wq[n + i]
    BY <1>2, <1>3, <1>4, SuffixOfQueue
<1> SUFFICES ASSUME NEW i \in 1 .. Len(wq'), NEW j \in 1 .. Len(wq'), wq'[i] = wq'[j]
             PROVE  i = j
    BY DEF Once
<1>6. n + i \in 1 .. Len(wq) /\ n + j \in 1 .. Len(wq)
    BY <1>2, <1>3, <1>5
<1>7. wq[n + i] = wq[n + j]
    BY <1>5
<1>8. n + i = n + j
    BY <1>6, <1>7 DEF Once
<1> QED BY <1>2, <1>3, <1>5, <1>8

\* prepare_to_wait puts a vCPU at the end that was not there.
LEMMA OnceAppended ==
    ASSUME NEW q \in Seq(VCPUs), Once(q), NEW v \in VCPUs, ~Contains(q, v)
    PROVE  /\ Once(Append(q, v))
           /\ \A w : w # v => (Contains(Append(q, v), w) => Contains(q, w))
<1>1. PICK r : r = Append(q, v)
    OBVIOUS
<1>2. /\ Len(r) = Len(q) + 1 /\ Len(q) \in Nat
      /\ \A i \in 1 .. Len(q) : r[i] = q[i]
      /\ r[Len(q) + 1] = v
    BY <1>1, AppendProperties, LenProperties
<1>3. \A i \in 1 .. Len(q) : q[i] # v
    BY DEF Contains
<1>4. Once(r)
    <2> SUFFICES ASSUME NEW i \in 1 .. Len(r), NEW j \in 1 .. Len(r), r[i] = r[j]
                 PROVE  i = j
        BY DEF Once
    <2>1. CASE i <= Len(q) /\ j <= Len(q)
        <3>1. i \in 1 .. Len(q) /\ j \in 1 .. Len(q)
            BY <1>2, <2>1
        <3> QED BY <1>2, <3>1 DEF Once
    <2>2. CASE i <= Len(q) /\ ~(j <= Len(q))
        <3>1. i \in 1 .. Len(q) /\ j = Len(q) + 1
            BY <1>2, <2>2
        <3> QED BY <1>2, <1>3, <3>1
    <2>3. CASE ~(i <= Len(q)) /\ j <= Len(q)
        <3>1. j \in 1 .. Len(q) /\ i = Len(q) + 1
            BY <1>2, <2>3
        <3> QED BY <1>2, <1>3, <3>1
    <2>4. CASE ~(i <= Len(q)) /\ ~(j <= Len(q))
        BY <1>2, <2>4
    <2> QED BY <2>1, <2>2, <2>3, <2>4
<1>5. \A w : w # v => (Contains(r, w) => Contains(q, w))
    BY <1>2 DEF Contains
<1> QED BY <1>1, <1>4, <1>5

\* finish_wait takes the vCPU off the queue altogether.
LEMMA OnceRemoved ==
    ASSUME NEW q \in Seq(VCPUs), Once(q), NEW n \in 1 .. Len(q)
    PROVE  Once(RemoveAt(q, n)) /\ ~Contains(RemoveAt(q, n), q[n])
<1>1. PICK r : r = RemoveAt(q, n)
    OBVIOUS
<1>2. /\ Len(q) \in Nat /\ Len(r) = Len(q) - 1
      /\ \A i \in 1 .. Len(q) - 1 : r[i] = IF i < n THEN q[i] ELSE q[i + 1]
    BY <1>1, OneOutOfQueue, LenProperties
<1>3. ASSUME NEW i \in 1 .. Len(r)
      PROVE  \E k \in 1 .. Len(q) : k # n /\ r[i] = q[k] /\ (i < n => k = i) /\ (~(i < n) => k = i + 1)
    <2>1. i \in 1 .. Len(q) /\ i + 1 \in 1 .. Len(q)
        BY <1>2, <1>3
    <2>2. CASE i < n
        <3>1. r[i] = q[i] /\ i # n
            BY <1>2, <2>2
        <3> QED BY <2>1, <2>2, <3>1
    <2>3. CASE ~(i < n)
        <3>1. r[i] = q[i + 1] /\ i + 1 # n
            BY <1>2, <2>3
        <3> QED BY <2>1, <2>3, <3>1
    <2> QED BY <2>2, <2>3
<1>4. ~Contains(r, q[n])
    <2> SUFFICES ASSUME NEW i \in 1 .. Len(r), r[i] = q[n] PROVE FALSE
        BY DEF Contains
    <2>1. PICK k \in 1 .. Len(q) : k # n /\ r[i] = q[k]
        BY <1>3
    <2> QED BY <2>1 DEF Once
<1>5. Once(r)
    <2> SUFFICES ASSUME NEW i \in 1 .. Len(r), NEW j \in 1 .. Len(r), r[i] = r[j]
                 PROVE  i = j
        BY DEF Once
    <2>1. PICK k \in 1 .. Len(q) : k # n /\ r[i] = q[k] /\ (i < n => k = i) /\ (~(i < n) => k = i + 1)
        BY <1>3
    <2>2. PICK m \in 1 .. Len(q) : m # n /\ r[j] = q[m] /\ (j < n => m = j) /\ (~(j < n) => m = j + 1)
        BY <1>3
    <2>3. k = m
        BY <2>1, <2>2 DEF Once
    <2> QED BY <1>2, <2>1, <2>2, <2>3
<1> QED BY <1>1, <1>4, <1>5

\* A caller moves while the queue loses others at most.
LEMMA WaitersMove ==
    ASSUME VmEventTypeOK, WaitersInv, NEW c \in Callers, NEW l, Goto(c, l), Once(wq'),
           \A v : v # c => (Contains(wq', v) => Contains(wq, v)),
           Contains(wq', c) => l \in InWait,
           UNCHANGED ring_page, ring_page => l # "leave"
    PROVE  WaitersInv'
<1>1. pc'[c] = l /\ \A d \in Callers : d # c => pc'[d] = pc[d]
    BY DEF VmEventTypeOK, Goto, Callers
<1> QED BY <1>1 DEF WaitersInv, Callers

\* A vCPU that is not in wait_event is not in the queue, nor is an outsider.
LEMMA NotQueued ==
    ASSUME VmEventTypeOK, WaitersInv, NEW c \in Callers, pc[c] \notin InWait
    PROVE  ~Contains(wq, c)
<1>1. \A i \in 1 .. Len(wq) : wq[i] \in VCPUs
    BY ElementOfSeq DEF VmEventTypeOK
<1>2. CASE c \in VCPUs
    BY <1>2 DEF WaitersInv
<1>3. CASE c \notin VCPUs
    BY <1>1, <1>3 DEF Contains
<1> QED BY <1>2, <1>3

LEMMA NextWaiters ==
    ASSUME RingInv, WaitersInv, [VmEventNext]_evars
    PROVE  WaitersInv'
<1>0. VmEventTypeOK /\ Once(wq) /\ Available \in Int /\ Available >= 0 /\ Available + 1 \in Int
      /\ Available + 1 >= 0
    BY AvailableType DEF RingInv, RoomForHolders, WaitersInv
<1>1. CASE UNCHANGED evars
    BY <1>1 DEF evars, asleep, callers, WaitersInv
<1>2. ASSUME NEW c \in Callers, NEW e \in {"mem", "sync", "async", "busy"}, Trigger(c, e)
      PROVE  WaitersInv'
    <2>1. ~Contains(wq, c) /\ Goto(c, "test") /\ UNCHANGED <<wq, ring_page>>
        BY <1>0, <1>2, NotQueued DEF Trigger, asleep, InWait
    <2> QED BY <1>0, <2>1, WaitersMove
<1>3. ASSUME NEW c \in Callers, Test(c) \/ Grab(c) PROVE WaitersInv'
    <2>1. ~Contains(wq, c) /\ UNCHANGED <<wq, ring_page>>
        BY <1>0, <1>3, NotQueued DEF Test, Grab, asleep, InWait
    <2>2. PICK l \in {"grab", "run", "have", "prepare"} : Goto(c, l)
        BY <1>3 DEF Test, Grab, NoRing, Return
    <2> QED BY <1>0, <2>1, <2>2, WaitersMove
<1>4. ASSUME NEW c \in Callers, Put(c) \/ Cancel(c) PROVE WaitersInv'
    <2>1. ~Contains(wq, c) /\ Goto(c, "run") /\ UNCHANGED ring_page
        BY <1>0, <1>4, NotQueued DEF Put, Cancel, Return, InWait
    <2>2. PICK avail \in {Available, Available + 1}, extra \in SUBSET VCPUs : Wake(avail, extra)
        BY <1>4 DEF Put, Cancel
    <2>3. Once(wq') /\ \A v : Contains(wq', v) => Contains(wq, v)
        BY <1>0, <2>2, OnceWoken, WakeProperties
    <2> QED BY <1>0, <2>1, <2>3, WaitersMove
<1>5. ASSUME NEW v \in VCPUs, Prepare(v) PROVE WaitersInv'
    <2>1. ~Contains(wq, v) /\ v \in Callers
        BY <1>0, <1>5, NotQueued DEF Prepare, InWait, Callers
    <2>2. Once(wq') /\ \A w : w # v => (Contains(wq', w) => Contains(wq, w))
        BY <1>0, <1>5, <2>1, OnceAppended DEF Prepare, VmEventTypeOK
    <2> QED BY <1>0, <1>5, <2>1, <2>2, WaitersMove DEF Prepare, InWait
<1>6. ASSUME NEW v \in VCPUs, Retest(v) \/ Regrab(v) \/ Awake(v) PROVE WaitersInv'
    <2>1. PICK l \in {"regrab", "leave", "finish", "sleep", "prepare"} :
             Goto(v, l) /\ (ring_page => l # "leave") /\ (l = "prepare" => ~Contains(wq, v))
        BY <1>6 DEF Retest, Regrab, Awake, Runnable
    <2>2. UNCHANGED <<wq, ring_page>> /\ v \in Callers
        BY <1>6 DEF Retest, Regrab, Awake, asleep, Callers
    <2> QED BY <1>0, <2>1, <2>2, WaitersMove DEF InWait
<1>7. ASSUME NEW v \in VCPUs, Finish(v) PROVE WaitersInv'
    <2>1. PICK l \in {"have", "run"} : Goto(v, l)
        BY <1>7 DEF Finish, NoRing, Return
    <2>2. Once(wq') /\ ~Contains(wq', v) /\ \A w : Contains(wq', w) => Contains(wq, w)
        <3>1. CASE Contains(wq, v)
            <4> DEFINE i == CHOOSE i \in 1 .. Len(wq) : wq[i] = v
            <4>1. i \in 1 .. Len(wq) /\ wq[i] = v
                BY <3>1 DEF Contains
            <4>2. wq' = RemoveAt(wq, i) /\ wq \in Seq(VCPUs)
                BY <1>0, <1>7, <3>1 DEF Finish, VmEventTypeOK
            <4> HIDE DEF i
            <4>3. Once(RemoveAt(wq, i)) /\ ~Contains(RemoveAt(wq, i), wq[i])
                BY <1>0, <4>1, <4>2, OnceRemoved
            <4> QED BY <4>1, <4>2, <4>3, OneOutOfQueue
        <3>2. CASE ~Contains(wq, v)
            BY <1>0, <1>7, <3>2 DEF Finish
        <3> QED BY <3>1, <3>2
    <2>3. UNCHANGED ring_page /\ v \in Callers
        BY <1>7 DEF Finish, Callers
    <2> QED BY <1>0, <2>1, <2>2, <2>3, WaitersMove
<1>8. CASE Answer
    BY <1>8 DEF Answer, asleep, callers, WaitersInv
<1>9. CASE Resume
    <2>1. Once(wq') /\ \A v : Contains(wq', v) => Contains(wq, v)
        BY <1>0, <1>9, OnceWoken, WakeProperties DEF Resume
    <2> QED BY <1>9, <2>1 DEF Resume, WaitersInv
<1>10. CASE Disable
    BY <1>10 DEF Disable, callers, WaitersInv
<1>11. CASE Enable
    <2>1. wq' = <<>>
        BY <1>11 DEF Enable
    <2> QED BY <2>1, OnceEmpty DEF WaitersInv
<1>12. ASSUME NEW v \in VCPUs, TriggerNoMemory(v) PROVE WaitersInv'
    BY <1>12 DEF TriggerNoMemory, asleep, WaitersInv
<1> QED BY <1>1, <1>2, <1>3, <1>4, <1>5, <1>6, <1>7, <1>8, <1>9, <1>10, <1>11, <1>12
        DEF VmEventNext, VmEventStep, ClaimStep, WaitStep, Callers

-----------------------------------------------------------------------------
(* Nobody stays blocked *)

\* vm_event_wake keeps the count of the flags right.
LEMMA WakeCounts ==
    ASSUME VmEventTypeOK, NEW avail \in Int, NEW extra \in SUBSET VCPUs, Wake(avail, extra),
           blocked = Cardinality(pause_flags)
    PROVE  /\ blocked' = Cardinality(pause_flags')
           /\ pause_flags' \subseteq pause_flags \cup extra
<1> DEFINE ups   == IF wq = <<>> THEN Unblocked(avail) ELSE {}
           still == pause_flags \ ups
           more  == extra \ still
<1>1. /\ pause_flags' = still \cup extra
      /\ blocked' = blocked - Cardinality(ups) + Cardinality(more)
    BY DEF Wake
<1>2. pause_flags \in SUBSET VCPUs /\ ups \in SUBSET pause_flags
    BY FewUnblocked DEF VmEventTypeOK
<1>3. still \in SUBSET VCPUs /\ more \in SUBSET VCPUs /\ ups \in SUBSET VCPUs
    BY <1>2
<1> HIDE DEF ups
<1>4. /\ IsFiniteSet(still) /\ IsFiniteSet(more) /\ IsFiniteSet(pause_flags)
      /\ Cardinality(still) \in Nat /\ Cardinality(more) \in Nat /\ Cardinality(ups) \in Nat
      /\ Cardinality(pause_flags) \in Nat
    BY <1>2, <1>3, VcpusFinite
<1>5. Cardinality(still) = Cardinality(pause_flags) - Cardinality(ups)
    <2>1. pause_flags \cap ups = ups
        BY <1>2
    <2>2. Cardinality(still) = Cardinality(pause_flags) - Cardinality(pause_flags \cap ups)
        BY <1>4, FS_Difference
    <2> QED BY <2>1, <2>2, Zenon
<1>6. Cardinality(pause_flags') = Cardinality(still) + Cardinality(more)
    <2>1. pause_flags' = still \cup more /\ still \cap more = {}
        BY <1>1
    <2> HIDE DEF still, more
    <2>2. Cardinality(still \cup more) =
             Cardinality(still) + Cardinality(more) - Cardinality(still \cap more)
        BY <1>4, FS_Union
    <2>3. Cardinality(still \cap more) = 0
        BY <2>1, FS_EmptySet, Zenon
    <2>4. Cardinality(pause_flags') = Cardinality(still \cup more)
        BY <2>1, Zenon
    <2> QED BY <1>4, <2>2, <2>3, <2>4
<1>7. blocked' = Cardinality(pause_flags')
    <2> HIDE DEF still, more
    <2> QED BY <1>1, <1>4, <1>5, <1>6
<1> QED BY <1>1, <1>7

\* With nothing on the ring and nobody engaged every request is free.
LEMMA FreeRing ==
    ASSUME RingInv, InUse <= 0, Engaged = {}
    PROVE  Available = RingSize
<1>1. Holders \cap VCPUs = {} /\ Holders \cap Foreign = {}
    BY DEF Holders, Engaged, Callers
<1>2. Cardinality({}) = 0
    BY FS_EmptySet
<1>3. target_producers = 0 /\ foreign_producers = 0
    BY <1>1, <1>2, Zenon DEF RingInv, RoomForHolders
<1>4. Len(reqs) \in Nat /\ Len(rsps) \in Nat /\ RingSize \in Nat
    BY AvailableType, VmEventAssumption DEF RingInv
<1> QED BY <1>3, <1>4 DEF InUse, Available

\* And so after a step.
LEMMA FreeRingNext ==
    ASSUME RingInv', InUse' <= 0, Engaged' = {}
    PROVE  Available' = RingSize
<1>1. (Holders \cap VCPUs)' = {} /\ (Holders \cap Foreign)' = {}
    BY DEF Holders, Engaged, Callers
<1>2. Cardinality({}) = 0
    BY FS_EmptySet
<1>3. target_producers' = 0 /\ foreign_producers' = 0
    <2>1. /\ target_producers' = Cardinality(Holders' \cap VCPUs)
          /\ foreign_producers' = Cardinality(Holders' \cap Foreign)
        BY DEF RingInv, RoomForHolders
    <2> QED BY <1>1, <1>2, <2>1, Zenon
<1>4. Len(reqs') \in Nat /\ Len(rsps') \in Nat /\ RingSize \in Nat
    BY VmEventAssumption, LenProperties DEF RingInv, VmEventTypeOK
<1> QED BY <1>3, <1>4 DEF InUse, Available

\* vm_event_wake wakes the blocked unless somebody is on the way to wake them later.
LEMMA WokenOrEngaged ==
    ASSUME RingInv, RingInv', WaitersInv, ring_page,
           blocked = Cardinality(pause_flags),
           NEW avail \in Int, avail >= 0, Wake(avail, {}), avail = Available',
           \A v \in VCPUs : pc[v] \in InWait => pc'[v] = pc[v]
    PROVE  FewBlocked' \/ InUse' > 0 \/ Engaged' # {}
<1> SUFFICES ASSUME ~(InUse' > 0), Engaged' = {} PROVE FewBlocked'
    OBVIOUS
<1>1. VmEventTypeOK /\ wq \in Seq(VCPUs) /\ Len(wq) \in Nat
    BY AvailableType DEF RingInv, VmEventTypeOK
<1>2. CASE wq = <<>>
    <2>1. InUse' <= 0
        BY LenProperties DEF RingInv, VmEventTypeOK, InUse
    <2>2. avail = RingSize
        BY <2>1, FreeRingNext
    <2>3. Cardinality(pause_flags \ Unblocked(avail)) <= Most(0, NrVcpus - avail)
        BY <1>1, FewLeftBlocked
    <2>4. pause_flags' = pause_flags \ Unblocked(avail)
        BY <1>1, <1>2, WakeBlocked
    <2> QED BY <2>2, <2>3, <2>4 DEF FewBlocked
<1>3. CASE wq # <<>>
    <2>1. Len(wq) > 0
        BY <1>1, <1>3, EmptySeq
    <2>2. 1 \in 1 .. Len(wq) /\ wq[1] \in VCPUs
        BY <1>1, <2>1, ElementOfSeq
    <2>3. PICK v \in VCPUs : v = wq[1]
        BY <2>2
    <2>4. Contains(wq, v)
        BY <2>2, <2>3 DEF Contains
    <2>5. pc[v] \in InWait \ {"leave"} /\ pc'[v] = pc[v]
        BY <2>3, <2>4 DEF WaitersInv
    <2>6. v \in Engaged'
        BY <2>3, <2>5 DEF Engaged, Callers, InWait
    <2> QED BY <2>6
<1> QED BY <1>2, <1>3

\* A step that leaves flags, ring and requests alone, and whoever is engaged engaged.
LEMMA BlockedKept ==
    ASSUME BlockedInv, ~stray, UNCHANGED <<blocked, pause_flags, ring_page>>,
           InUse' = InUse, ring_page => Engaged \subseteq Engaged'
    PROVE  BlockedInv'
BY DEF BlockedInv, FewBlocked

\* The steps of a caller that leave the flags alone.
LEMMA CallerBlocked ==
    ASSUME RingInv, WaitersInv, BlockedInv, ~stray, NEW c \in Callers, NEW l, Goto(c, l),
           UNCHANGED <<blocked, pause_flags, ring_page>>, InUse' = InUse,
           ring_page /\ c \in Engaged =>
              l \in {"prepare", "retest", "regrab", "sleep", "finish", "have"}
    PROVE  BlockedInv'
<1>1. pc'[c] = l /\ \A d \in Callers : d # c => pc'[d] = pc[d]
    BY DEF RingInv, VmEventTypeOK, Goto, Callers
<1>2. ring_page => Engaged \subseteq Engaged'
    BY <1>1 DEF Engaged
<1> QED BY <1>2, BlockedKept

LEMMA NextBlocked ==
    ASSUME RingInv, RingInv', WaitersInv, BlockedInv, [VmEventNext]_evars
    PROVE  BlockedInv'
<1> SUFFICES ASSUME ~stray' PROVE BlockedInv'
    BY DEF BlockedInv
<1>0. /\ VmEventTypeOK /\ ~stray /\ Available \in Int /\ Available >= 0 /\ Available + 1 \in Int
      /\ Available + 1 >= 0
    BY StrayStays, AvailableType DEF RingInv, RoomForHolders
<1>1. blocked = Cardinality(pause_flags) /\ (~ring_page => pause_flags = {})
    BY <1>0 DEF BlockedInv
<1>2. CASE UNCHANGED evars
    BY <1>0, <1>2, BlockedKept DEF evars, slots, asleep, callers, Engaged, InUse
<1>3. ASSUME NEW c \in Callers, NEW e \in {"mem", "sync", "async", "busy"}, Trigger(c, e)
      PROVE  BlockedInv'
    <2>1. c \notin Engaged /\ Goto(c, "test") /\ UNCHANGED <<blocked, pause_flags, ring_page>>
        BY <1>3 DEF Trigger, asleep, Engaged
    <2>2. InUse' = InUse
        BY <1>3 DEF Trigger, slots, InUse
    <2> QED BY <1>0, <2>1, <2>2, CallerBlocked
<1>4. ASSUME NEW c \in Callers, Test(c) \/ Grab(c) PROVE BlockedInv'
    <2>1. PICK l \in {"grab", "run", "have", "prepare"} : Goto(c, l)
        BY <1>4 DEF Test, Grab, NoRing, Return
    <2>2. c \notin Engaged /\ UNCHANGED <<blocked, pause_flags, ring_page>>
        BY <1>4 DEF Test, Grab, asleep, Engaged
    <2>3. InUse' = InUse
        BY <1>4 DEF Test, Grab, Reserve, slots, InUse
    <2> QED BY <1>0, <2>1, <2>2, <2>3, CallerBlocked
<1>5. ASSUME NEW v \in VCPUs, WaitStep(v) PROVE BlockedInv'
    <2>1. PICK l \in {"prepare", "retest", "regrab", "sleep", "leave", "finish", "have", "run"} :
             Goto(v, l) /\ (l = "leave" => ~ring_page) /\ (l = "run" => pc[v] = "leave")
        BY <1>5 DEF WaitStep, Prepare, Retest, Regrab, Awake, Finish, NoRing, Return
    <2>2. pc[v] = "leave" => v \notin Engaged
        BY DEF Engaged
    <2>3. UNCHANGED <<blocked, pause_flags, ring_page>> /\ v \in Callers
        BY <1>5 DEF WaitStep, Prepare, Retest, Regrab, Awake, Finish, asleep, Callers
    <2>4. InUse' = InUse
        BY <1>5 DEF WaitStep, Prepare, Retest, Regrab, Awake, Finish, Reserve, slots, InUse
    <2> QED BY <1>0, <2>1, <2>2, <2>3, <2>4, CallerBlocked
<1>6. ASSUME NEW c \in Callers, Put(c) PROVE BlockedInv'
    <2>1. PICK extra \in SUBSET VCPUs : Wake(Available, extra)
        BY <1>6 DEF Put
    <2>2. blocked' = Cardinality(pause_flags')
        BY <1>0, <1>1, <2>1, WakeCounts
    <2>3. ring_page'
        BY <1>6 DEF Put
    <2>4. InUse' > 0
        <3>1. [who |-> c, paused |-> Pauses(c)] \in Requests
            BY DEF Requests, Pauses, Callers
        <3>2. /\ reqs \in Seq(Requests) /\ Len(reqs) \in Nat /\ Len(rsps) \in Nat
              /\ reqs' = Append(reqs, [who |-> c, paused |-> Pauses(c)]) /\ rsps' = rsps
            BY <1>0, <1>6, AvailableType DEF Put, VmEventTypeOK
        <3>3. Len(reqs') = Len(reqs) + 1 /\ Len(rsps') = Len(rsps)
            BY <3>1, <3>2, AppendProperties
        <3> QED BY <3>2, <3>3 DEF InUse
    <2> QED BY <2>2, <2>3, <2>4 DEF BlockedInv
<1>7. ASSUME NEW c \in Callers, Cancel(c) PROVE BlockedInv'
    <2>1. Wake(Available + 1, {}) /\ Available' = Available + 1 /\ UNCHANGED ring_page
        BY <1>7, AvailableMoves DEF Cancel
    <2>2. blocked' = Cardinality(pause_flags') /\ pause_flags' \subseteq pause_flags \cup {}
        BY <1>0, <1>1, <2>1, WakeCounts
    <2>3. \A v \in VCPUs : pc[v] \in InWait => pc'[v] = pc[v]
        <3>1. Goto(c, "run") /\ pc[c] = "have"
            BY <1>7 DEF Cancel, Return
        <3> QED BY <1>0, <3>1, GotoType DEF InWait, Callers
    <2>4. ring_page => FewBlocked' \/ InUse' > 0 \/ Engaged' # {}
        BY <1>0, <1>1, <2>1, <2>3, WokenOrEngaged
    <2> QED BY <1>1, <2>1, <2>2, <2>4 DEF BlockedInv
<1>8. CASE Answer
    <2>1. /\ InUse' = InUse
        <3>1. reqs \in Seq(Requests) /\ rsps \in Seq(Requests) /\ Len(reqs) \in Nat /\ Len(rsps) \in Nat
            BY <1>0, AvailableType DEF VmEventTypeOK
        <3>2. /\ reqs # << >> /\ reqs' = Tail(reqs) /\ rsps' = Append(rsps, Head(reqs))
            BY <1>8 DEF Answer
        <3>3. Head(reqs) \in Requests /\ Len(reqs') = Len(reqs) - 1
            BY <3>1, <3>2, HeadTailProperties
        <3>4. Len(rsps') = Len(rsps) + 1
            BY <3>1, <3>2, <3>3, AppendProperties
        <3> QED BY <3>1, <3>3, <3>4 DEF InUse
    <2>2. Engaged' = Engaged /\ UNCHANGED <<blocked, pause_flags, ring_page>>
        BY <1>8 DEF Answer, asleep, callers, Engaged
    <2> QED BY <1>0, <2>1, <2>2, BlockedKept
<1>9. CASE Resume
    <2>1. Wake(Available + 1, {}) /\ Available' = Available + 1 /\ UNCHANGED <<ring_page, pc>>
          /\ ring_page
        BY <1>9, AvailableMoves DEF Resume
    <2>2. blocked' = Cardinality(pause_flags')
        BY <1>0, <1>1, <2>1, WakeCounts
    <2>3. FewBlocked' \/ InUse' > 0 \/ Engaged' # {}
        BY <1>0, <1>1, <2>1, WokenOrEngaged
    <2> QED BY <2>1, <2>2, <2>3 DEF BlockedInv
<1>10. CASE Disable
    <2>1. pause_flags' = {} /\ ~ring_page' /\ blocked' = blocked - Cardinality(pause_flags)
        BY <1>10 DEF Disable
    <2>2. Cardinality(pause_flags) \in Nat /\ Cardinality({}) = 0
        BY <1>0, VcpusFinite, FS_EmptySet DEF VmEventTypeOK
    <2>3. blocked' = 0
        BY <1>1, <2>1, <2>2
    <2> QED BY <2>1, <2>2, <2>3 DEF BlockedInv
<1>11. CASE Enable
    <2>1. pause_flags' = {} /\ blocked' = 0
        BY <1>1, <1>11 DEF Enable
    <2>2. Cardinality({}) = 0
        BY FS_EmptySet
    <2>3. ring_page'
        BY <1>11 DEF Enable
    <2>4. FewBlocked'
        BY <2>1, <2>2, VmEventAssumption DEF FewBlocked, Most
    <2> QED BY <2>1, <2>2, <2>3, <2>4 DEF BlockedInv
<1>12. ASSUME NEW v \in VCPUs, TriggerNoMemory(v) PROVE BlockedInv'
    BY <1>0, <1>12, BlockedKept DEF TriggerNoMemory, slots, asleep, Engaged, InUse
<1> QED BY <1>2, <1>3, <1>4, <1>5, <1>6, <1>7, <1>8, <1>9, <1>10, <1>11, <1>12
        DEF VmEventNext, VmEventStep, ClaimStep, Callers

LEMMA InitWake == VmEventInit => WaitersInv /\ BlockedInv
<1> SUFFICES ASSUME VmEventInit PROVE WaitersInv /\ BlockedInv
    OBVIOUS
<1>1. WaitersInv
    BY OnceEmpty DEF VmEventInit, WaitersInv
<1>2. Cardinality({}) = 0
    BY FS_EmptySet
<1>3. BlockedInv
    BY <1>2 DEF VmEventInit, BlockedInv
<1> QED BY <1>1, <1>3

\* Nobody is in the wait queue twice, or without being in wait_event.
THEOREM WaitersInvariant == VmEventSpec => []WaitersInv
<1>1. VmEventInit => WaitersInv
    BY InitWake
<1>2. RingInv /\ WaitersInv /\ [VmEventNext]_evars => WaitersInv'
    BY NextWaiters
<1> QED BY <1>1, <1>2, RingInvariant, PTL DEF VmEventSpec

\* Until the ring is first set up callers turn back at the test of ring_page.
LEMMA NextFirstRing ==
    ASSUME RingInv, ForgottenInv, [VmEventNext]_evars
    PROVE  FirstRing'
<1> SUFFICES ASSUME enables' = 0 PROVE FirstRing'
    BY DEF FirstRing
<1>0. VmEventTypeOK /\ enables \in Nat
    BY VmEventAssumption DEF RingInv, VmEventTypeOK
<1>1. enables' = enables \/ enables' = enables + 1
    BY DEF VmEventNext, VmEventStep, Trigger, TriggerNoMemory, ClaimStep, Test, Grab, Put, Cancel,
           WaitStep, Prepare, Retest, Regrab, Awake, Finish, Answer, Resume, Disable, Enable, evars
<1>2. enables = 0 /\ ~ring_page /\ wq = <<>> /\ \A c \in Callers : pc[c] \in {"run", "test"}
    BY <1>0, <1>1 DEF ForgottenInv, FirstRing
<1>3. CASE UNCHANGED evars
    BY <1>2, <1>3 DEF evars, asleep, callers, FirstRing
<1>4. ASSUME NEW c \in Callers, NEW e \in {"mem", "sync", "async", "busy"}, Trigger(c, e)
      PROVE  FirstRing'
    <2>1. Goto(c, "test") /\ UNCHANGED <<ring_page, wq>>
        BY <1>4 DEF Trigger, asleep
    <2> QED BY <1>0, <1>2, <2>1, GotoType DEF FirstRing
<1>5. ASSUME NEW c \in Callers, ClaimStep(c) PROVE FirstRing'
    <2>1. Test(c)
        BY <1>2, <1>5 DEF ClaimStep, Grab, Put, Cancel
    <2>2. Goto(c, "run") /\ UNCHANGED <<ring_page, wq>>
        BY <1>2, <2>1 DEF Test, NoRing, Return, asleep
    <2> QED BY <1>0, <1>2, <2>2, GotoType DEF FirstRing
<1>6. ASSUME NEW v \in VCPUs, WaitStep(v) PROVE FALSE
    BY <1>2, <1>6 DEF WaitStep, Prepare, Retest, Regrab, Awake, Finish, Callers
<1>7. ASSUME NEW v \in VCPUs, TriggerNoMemory(v) PROVE FALSE
    BY <1>2, <1>7 DEF TriggerNoMemory
<1>8. ~Answer /\ ~Resume /\ ~Disable /\ ~Enable
    BY <1>0, <1>2 DEF Answer, Resume, Disable, Enable
<1> QED BY <1>3, <1>4, <1>5, <1>6, <1>7, <1>8 DEF VmEventNext, VmEventStep, Callers

\* Whoever is still in the queue of a ring that has gone is awake inside Xen, where
\* xc_monitor_enable's pause of the domain leaves nobody.
LEMMA NextForgotten ==
    ASSUME RingInv, WaitersInv, ForgottenInv, [VmEventNext]_evars
    PROVE  ForgottenInv'
<1>1. FirstRing'
    BY NextFirstRing
<1>2. enables \in Nat
    BY VmEventAssumption DEF RingInv, VmEventTypeOK
<1>3. CASE Enable
    <2> SUFFICES ASSUME forgotten' # {} PROVE ring' # "monitor" /\ enables' > 1
        BY <1>1 DEF ForgottenInv
    <2>1. UNCHANGED ring /\ enables' = enables + 1 /\ ~ring_page
        BY <1>3 DEF Enable
    <2>2. CASE forgotten # {}
        BY <1>2, <2>1, <2>2 DEF ForgottenInv
    <2>3. CASE forgotten = {}
        <3>1. wq \in Seq(VCPUs) /\ Range(wq) # {}
            BY <1>3, <2>3 DEF Enable, RingInv, VmEventTypeOK
        <3>2. PICK i \in 1 .. Len(wq) : wq[i] \in VCPUs
            BY <3>1, LenProperties, ElementOfSeq DEF Range
        <3>3. PICK v \in VCPUs : v = wq[i]
            BY <3>2
        <3>4. Contains(wq, v) /\ wq # <<>>
            BY <3>2, <3>3, EmptySeq DEF Contains
        <3>5. pc[v] \in InWait /\ pc[v] # "sleep"
            BY <2>1, <3>4 DEF WaitersInv, RingInv, QueueInv
        <3>6. ring # "monitor"
            BY <1>3, <3>5 DEF Enable, SetUp, InWait
        <3>7. enables # 0
            BY <3>4 DEF ForgottenInv, FirstRing
        <3> QED BY <1>2, <2>1, <3>6, <3>7
    <2> QED BY <2>2, <2>3
<1>4. CASE ~Enable
    <2>1. UNCHANGED <<forgotten, ring, enables>>
        BY <1>4 DEF VmEventNext, VmEventStep, Trigger, TriggerNoMemory, ClaimStep, Test, Grab, Put,
           Cancel, WaitStep, Prepare, Retest, Regrab, Awake, Finish, NoRing, Answer, Resume,
           Disable, evars, fate
    <2> QED BY <1>1, <2>1 DEF ForgottenInv
<1> QED BY <1>3, <1>4

\* A vCPU is never left asleep in the queue of a ring taken down by
\* vm_event_disable, and xc_monitor_enable's vm_event_enable forgets none: whoever
\* joined the queue too late for vm_event_disable to see is awake inside Xen until
\* it has left the queue.
THEOREM NobodyLeftAsleep == VmEventSpec => []NobodyAsleepWithoutRing
<1>1. VmEventInit => ForgottenInv
    BY DEF VmEventInit, ForgottenInv, FirstRing, Callers
<1>2. RingInv /\ WaitersInv /\ ForgottenInv /\ [VmEventNext]_evars => ForgottenInv'
    BY NextForgotten
<1>3. RingInv /\ ForgottenInv => NobodyAsleepWithoutRing
    BY DEF RingInv, QueueInv, ForgottenInv, NobodyAsleepWithoutRing
<1> QED BY <1>1, <1>2, <1>3, RingInvariant, WaitersInvariant, PTL DEF VmEventSpec

\* `blocked' is the number of pause flags, and as long as more vCPUs have one
\* than are without a slot, something on the ring or somebody engaged will bring
\* about the next vm_event_wake.
THEOREM BlockedInvariant == VmEventSpec => []BlockedInv
<1>1. VmEventInit => BlockedInv
    BY InitWake
<1>2. RingInv /\ RingInv' /\ WaitersInv /\ BlockedInv /\ [VmEventNext]_evars => BlockedInv'
    BY NextBlocked
<1> QED BY <1>1, <1>2, RingInvariant, WaitersInvariant, PTL DEF VmEventSpec

\* "The vCPU will be automatically unpaused when the ring clears": on each of the
\* three rings as many vCPUs as there are slots are, whichever number is larger.
THEOREM ClearedRingUnblocks == VmEventSpec => []ClearRingUnblocks
<1>1. RingInv /\ BlockedInv => ClearRingUnblocks
    <2> SUFFICES ASSUME RingInv, BlockedInv, ring_page, ~stray, InUse = 0,
                        \A c \in VCPUs \cup Foreign : pc[c] = "run"
                 PROVE  FewBlocked
        BY DEF ClearRingUnblocks, FewBlocked
    <2>1. Engaged = {}
        BY DEF Engaged, Callers
    <2> QED BY <2>1 DEF BlockedInv
<1> QED BY <1>1, BlockedInvariant, RingInvariant, PTL

\* The comment as it stands: with a slot for each vCPU, the loop's assumption,
\* nobody is blocked on a ring that has cleared.
THEOREM NobodyLeftBlocked ==
    ASSUME SlotPerVcpu
    PROVE  VmEventSpec =>
              [](ring_page /\ ~stray /\ InUse = 0
                    /\ (\A c \in VCPUs \cup Foreign : pc[c] = "run") => pause_flags = {})
<1>1. RingInv /\ ClearRingUnblocks =>
         (ring_page /\ ~stray /\ InUse = 0
             /\ (\A c \in VCPUs \cup Foreign : pc[c] = "run") => pause_flags = {})
    <2> SUFFICES ASSUME RingInv, Cardinality(pause_flags) <= Most(0, NrVcpus - RingSize)
                 PROVE  pause_flags = {}
        BY DEF ClearRingUnblocks
    <2>1. pause_flags \in SUBSET VCPUs
        BY DEF RingInv, VmEventTypeOK
    <2>2. IsFiniteSet(pause_flags) /\ Cardinality(pause_flags) \in Nat
        BY <2>1, VcpusFinite
    <2>3. Cardinality(pause_flags) = 0
        BY <2>2, VmEventAssumption DEF SlotPerVcpu, Most
    <2> QED BY <2>2, <2>3, FS_EmptySet
<1> QED BY <1>1, ClearedRingUnblocks, RingInvariant, PTL
=============================================================================
