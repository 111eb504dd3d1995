---------------------------- MODULE VmEventProofs ----------------------------
(***************************************************************************)
(* Proofs about VmEvent, for every number of vCPUs, ring size, choice of   *)
(* rings and set of outside callers.  The inductive invariant is the type  *)
(* invariant, the slot accounting, and who can be in the wait queue of a   *)
(* ring that has been taken down.  The pause counts have one of their own. *)
(***************************************************************************)
EXTENDS VmEvent, FiniteSetTheorems, SequenceTheorems, WellFoundedInduction, TLAPS

Callers == VCPUs \cup Foreign

\* What vm_event_disable leaves: nobody queued who has looked at ring_page and
\* found it there.
QueueInv ==
    ~ring_page => \A v \in VCPUs : pc[v] \in {"regrab", "sleep"} => ~Contains(wq, v)

RingInv == VmEventTypeOK /\ RoomForHolders /\ QueueInv

-----------------------------------------------------------------------------
(* Arithmetic and sets *)

\* The vCPUs are a finite set of numbers.
LEMMA VcpusFinite ==
    /\ VCPUs \subseteq Nat
    /\ IsFiniteSet(VCPUs)
    /\ \A S \in SUBSET VCPUs : IsFiniteSet(S) /\ Cardinality(S) \in Nat
<1>1. VCPUs \subseteq Nat
    BY VmEventAssumption DEF VCPUs
<1>2. IsFiniteSet(VCPUs)
    <2>1. NrVcpus - 1 \in Int /\ 0 \in Int
        BY VmEventAssumption
    <2> QED BY <2>1, FS_Interval DEF VCPUs
<1>3. ASSUME NEW S \in SUBSET VCPUs PROVE IsFiniteSet(S) /\ Cardinality(S) \in Nat
    BY <1>2, <1>3, FS_Subset, FS_CardinalityType
<1> QED BY <1>1, <1>2, <1>3

\* The place of a vCPU in the loop of vm_event_wake_blocked is one of NrVcpus.
LEMMA TurnRange ==
    ASSUME last_vcpu_wake_up \in VCPUs, NEW v \in VCPUs
    PROVE  Turn(v) \in 0 .. NrVcpus - 1
<1>1. NrVcpus \in Nat /\ NrVcpus > 0
    BY VmEventAssumption
<1>2. v - last_vcpu_wake_up - 1 \in Int
    BY VcpusFinite
<1> DEFINE x == v - last_vcpu_wake_up - 1
<1> HIDE DEF x
<1>3. x \in Int
    BY <1>2 DEF x
<1>4. x % NrVcpus \in 0 .. NrVcpus - 1
    BY <1>1, <1>3
<1> QED BY <1>4 DEF x, Turn

\* So one of those woken is the last.
LEMMA LastTurn ==
    ASSUME last_vcpu_wake_up \in VCPUs, NEW S \in SUBSET VCPUs, S # {}
    PROVE  \E v \in S : \A w \in S : Turn(w) <= Turn(v)
<1> DEFINE Rest(v) == NrVcpus - Turn(v)
           M       == {Rest(v) : v \in S}
<1>1. NrVcpus \in Nat
    BY VmEventAssumption
<1>2. \A v \in S : Turn(v) \in 0 .. NrVcpus - 1
    BY TurnRange
<1>3. M \subseteq Nat /\ M # {}
    <2>1. \A v \in S : Rest(v) \in Nat
        BY <1>1, <1>2
    <2> QED BY <2>1
<1> HIDE DEF M
<1>4. PICK m \in M : \A n \in M : ~(<<n, m>> \in OpToRel(<, Nat))
    BY <1>3, NatLessThanWellFounded, WFMin
<1>5. \A n \in M : ~(n < m)
    BY <1>3, <1>4 DEF OpToRel
<1>6. PICK v \in S : m = Rest(v)
    BY DEF M
<1>7. ASSUME NEW w \in S PROVE Turn(w) <= Turn(v)
    <2>1. Rest(w) \in M
        BY DEF M
    <2>2. ~(Rest(w) < Rest(v))
        BY <1>5, <1>6, <2>1
    <2> QED BY <1>1, <1>2, <2>2
<1> QED BY <1>7

\* Somebody comes first.
LEMMA FirstTurn ==
    ASSUME last_vcpu_wake_up \in VCPUs, NEW S \in SUBSET VCPUs, S # {}
    PROVE  \E v \in S : \A w \in S : Turn(v) <= Turn(w)
<1> DEFINE M == {Turn(v) : v \in S}
<1>1. \A v \in S : Turn(v) \in 0 .. NrVcpus - 1
    BY TurnRange
<1>2. \A v \in S : Turn(v) \in Nat
    BY <1>1, VmEventAssumption
<1>3. M \subseteq Nat /\ M # {}
    BY <1>2
<1> HIDE DEF M
<1>4. PICK m \in M : \A n \in M : ~(<<n, m>> \in OpToRel(<, Nat))
    BY <1>3, NatLessThanWellFounded, WFMin
<1>5. \A n \in M : ~(n < m)
    BY <1>3, <1>4 DEF OpToRel
<1>6. PICK v \in S : m = Turn(v)
    BY DEF M
<1>7. ASSUME NEW w \in S PROVE Turn(v) <= Turn(w)
    <2>1. Turn(w) \in M
        BY DEF M
    <2>2. ~(Turn(w) < Turn(v))
        BY <1>5, <1>6, <2>1
    <2> QED BY <1>2, <2>2
<1> QED BY <1>7

-----------------------------------------------------------------------------
(* The queue *)

\* Taking vCPUs off the front of the queue, as wake_up_nr does, adds nobody.
LEMMA SuffixOfQueue ==
    ASSUME NEW q \in Seq(VCPUs), NEW n \in Int, 0 <= n, n <= Len(q)
    PROVE  /\ SubSeq(q, n + 1, Len(q)) \in Seq(VCPUs)
           /\ \A v : Contains(SubSeq(q, n + 1, Len(q)), v) => Contains(q, v)
           /\ Len(SubSeq(q, n + 1, Len(q))) = Len(q) - n
           /\ \A i \in 1 .. Len(q) - n : SubSeq(q, n + 1, Len(q))[i] = q[n + i]
<1> DEFINE r == SubSeq(q, n + 1, Len(q))
<1>1. Len(q) \in Nat /\ \A i \in 1 .. Len(q) : q[i] \in VCPUs
    BY LenProperties, ElementOfSeq
<1>2. \A i \in n + 1 .. Len(q) : q[i] \in VCPUs
    BY <1>1
<1>3. /\ r \in Seq(VCPUs)
      /\ Len(r) = IF n + 1 <= Len(q) THEN Len(q) - n ELSE 0
      /\ \A i \in 1 .. Len(q) - n : r[i] = q[n + i]
    <2>1. n + 1 \in Int /\ Len(q) \in Int
        BY <1>1
    <2>2. /\ r \in Seq(VCPUs)
          /\ Len(r) = IF n + 1 <= Len(q) THEN Len(q) - (n + 1) + 1 ELSE 0
          /\ \A i \in 1 .. Len(q) - (n + 1) + 1 : r[i] = q[(n + 1) + i - 1]
        BY <1>2, <2>1, SubSeqProperties
    <2> HIDE DEF r
    <2>3. \A i \in Int : (n + 1) + i - 1 = n + i
        OBVIOUS
    <2> QED BY <1>1, <2>2, <2>3
<1> HIDE DEF r
<1>4. ASSUME NEW v, Contains(r, v) PROVE Contains(q, v)
    <2>1. PICK i \in 1 .. Len(r) : r[i] = v
        BY <1>4 DEF Contains
    <2>2. i \in 1 .. Len(q) - n /\ n + i \in 1 .. Len(q)
        BY <1>1, <1>3, <2>1
    <2>3. q[n + i] = v
        BY <1>3, <2>1, <2>2
    <2> QED BY <2>2, <2>3 DEF Contains
<1>5. Len(r) = Len(q) - n
    BY <1>1, <1>3
<1> QED BY <1>3, <1>4, <1>5 DEF r

\* Nor does taking one out of the middle, as finish_wait does.
LEMMA OneOutOfQueue ==
    ASSUME NEW q \in Seq(VCPUs), NEW n \in 1 .. Len(q)
    PROVE  /\ RemoveAt(q, n) \in Seq(VCPUs)
           /\ \A v : Contains(RemoveAt(q, n), v) => Contains(q, v)
           /\ Len(RemoveAt(q, n)) = Len(q) - 1
           /\ \A i \in 1 .. Len(q) - 1 : RemoveAt(q, n)[i] = IF i < n THEN q[i] ELSE q[i + 1]
<1> DEFINE s1 == SubSeq(q, 1, n - 1)
           s2 == SubSeq(q, n + 1, Len(q))
<1>1. Len(q) \in Nat /\ \A i \in 1 .. Len(q) : q[i] \in VCPUs
    BY LenProperties, ElementOfSeq
<1>2. /\ s1 \in Seq(VCPUs)
      /\ Len(s1) = n - 1
      /\ \A i \in 1 .. Len(s1) : s1[i] = q[i]
    <2>1. 1 \in Int /\ n - 1 \in Int /\ \A i \in 1 .. n - 1 : q[i] \in VCPUs
        BY <1>1
    <2>2. /\ s1 \in Seq(VCPUs)
          /\ Len(s1) = IF 1 <= n - 1 THEN n - 1 - 1 + 1 ELSE 0
          /\ \A i \in 1 .. n - 1 - 1 + 1 : s1[i] = q[1 + i - 1]
        BY <2>1, SubSeqProperties
    <2> HIDE DEF s1
    <2>3. \A i \in Int : 1 + i - 1 = i
        OBVIOUS
    <2> QED BY <1>1, <2>2, <2>3
<1>3. /\ s2 \in Seq(VCPUs) /\ \A v : Contains(s2, v) => Contains(q, v)
      /\ Len(s2) = Len(q) - n /\ \A i \in 1 .. Len(q) - n : s2[i] = q[n + i]
    BY <1>1, SuffixOfQueue
<1> HIDE DEF s1, s2
<1>4. Len(s1) \in Nat /\ Len(s2) \in Nat
    BY <1>2, <1>3, LenProperties
<1>5. /\ s1 \o s2 \in Seq(VCPUs)
      /\ Len(s1 \o s2) = Len(s1) + Len(s2)
      /\ \A i \in 1 .. Len(s1) + Len(s2) : (s1 \o s2)[i] =
             IF i <= Len(s1) THEN s1[i] ELSE s2[i - Len(s1)]
    BY <1>2, <1>3, ConcatProperties
<1>6. ASSUME NEW v, Contains(s1 \o s2, v) PROVE Contains(q, v)
    <2>1. PICK i \in 1 .. Len(s1) + Len(s2) : (s1 \o s2)[i] = v
        BY <1>5, <1>6 DEF Contains
    <2>2. CASE i <= Len(s1)
        <3>1. i \in 1 .. Len(s1) /\ i \in 1 .. Len(q)
            BY <1>1, <1>2, <1>4, <2>1, <2>2
        <3>2. q[i] = v
            BY <1>2, <1>5, <2>1, <2>2, <3>1
        <3> QED BY <3>1, <3>2 DEF Contains
    <2>3. CASE ~(i <= Len(s1))
        <3>1. i - Len(s1) \in 1 .. Len(s2)
            BY <1>4, <2>1, <2>3
        <3>2. s2[i - Len(s1)] = v
            BY <1>5, <2>1, <2>3
        <3> QED BY <1>3, <3>1, <3>2 DEF Contains
    <2> QED BY <2>2, <2>3
<1>7. Len(s1 \o s2) = Len(q) - 1
    BY <1>1, <1>2, <1>3, <1>5
<1>8. ASSUME NEW i \in 1 .. Len(q) - 1
      PROVE  (s1 \o s2)[i] = IF i < n THEN q[i] ELSE q[i + 1]
    <2>1. i \in 1 .. Len(s1) + Len(s2)
        BY <1>1, <1>2, <1>3, <1>8
    <2>2. CASE i < n
        <3>1. i \in 1 .. Len(s1) /\ i <= Len(s1)
            BY <1>1, <1>2, <2>2
        <3> QED BY <1>2, <1>5, <2>1, <2>2, <3>1
    <2>3. CASE ~(i < n)
        <3>1. ~(i <= Len(s1)) /\ i - Len(s1) \in 1 .. Len(q) - n /\ n + (i - Len(s1)) = i + 1
            BY <1>1, <1>2, <1>8, <2>3
        <3>2. (s1 \o s2)[i] = s2[i - Len(s1)]
            BY <1>5, <2>1, <3>1
        <3>3. s2[i - Len(s1)] = q[n + (i - Len(s1))]
            BY <1>3, <3>1
        <3> QED BY <2>3, <3>1, <3>2, <3>3
    <2> QED BY <2>2, <2>3
<1> QED BY <1>5, <1>6, <1>7, <1>8 DEF s1, s2, RemoveAt

\* vm_event_wake keeps the types of what it changes and queues nobody.
LEMMA WakeProperties ==
    ASSUME VmEventTypeOK, NEW avail \in Int, avail >= 0,
           NEW extra \in SUBSET VCPUs, Wake(avail, extra)
    PROVE  /\ wq' \in Seq(VCPUs)
           /\ \A v : Contains(wq', v) => Contains(wq, v)
           /\ pause_flags' \in SUBSET VCPUs
           /\ blocked' \in Int
           /\ last_vcpu_wake_up' \in VCPUs
<1> DEFINE ups   == IF wq = <<>> THEN Unblocked(avail) ELSE {}
           still == pause_flags \ ups
<1>1. /\ wq' = SubSeq(wq, Least(avail, Len(wq)) + 1, Len(wq))
      /\ pause_flags' = still \cup extra
      /\ blocked' = blocked - Cardinality(ups) + Cardinality(extra \ still)
      /\ last_vcpu_wake_up' = IF ups = {} THEN last_vcpu_wake_up
                              ELSE CHOOSE v \in ups : \A w \in ups : Turn(w) <= Turn(v)
    BY DEF Wake
<1>2. /\ wq \in Seq(VCPUs) /\ pause_flags \in SUBSET VCPUs /\ blocked \in Int
      /\ last_vcpu_wake_up \in VCPUs
    BY DEF VmEventTypeOK
<1>3. ups \in SUBSET VCPUs
    BY <1>2 DEF Unblocked
<1> HIDE DEF ups
<1>4. wq' \in Seq(VCPUs) /\ \A v : Contains(wq', v) => Contains(wq, v)
    <2>1. Len(wq) \in Nat
        BY <1>2, LenProperties
    <2>2. /\ Least(avail, Len(wq)) \in Int
          /\ 0 <= Least(avail, Len(wq)) /\ Least(avail, Len(wq)) <= Len(wq)
        BY <2>1 DEF Least
    <2> QED BY <1>1, <1>2, <2>2, SuffixOfQueue
<1>5. pause_flags' \in SUBSET VCPUs
    BY <1>1, <1>2
<1>6. blocked' \in Int
    <2>1. Cardinality(ups) \in Nat
        BY <1>3, VcpusFinite
    <2>2. extra \ still \in SUBSET VCPUs
        OBVIOUS
    <2>3. Cardinality(extra \ still) \in Nat
        BY <2>2, VcpusFinite
    <2> QED BY <1>1, <1>2, <2>1, <2>3
<1>7. last_vcpu_wake_up' \in VCPUs
    <2>1. CASE ups = {}
        BY <1>1, <1>2, <2>1
    <2>2. CASE ups # {}
        <3>1. \E v \in ups : \A w \in ups : Turn(w) <= Turn(v)
            BY <1>2, <1>3, <2>2, LastTurn
        <3>2. last_vcpu_wake_up' = CHOOSE v \in ups : \A w \in ups : Turn(w) <= Turn(v)
            BY <1>1, <2>2
        <3>3. last_vcpu_wake_up' \in ups
            BY <3>1, <3>2, Zenon
        <3> QED BY <1>3, <3>3
    <2> QED BY <2>1, <2>2
<1> QED BY <1>4, <1>5, <1>6, <1>7

-----------------------------------------------------------------------------
(* The slots *)

\* The callers of each kind are told apart, and there are finitely many.
LEMMA HoldersSplit ==
    ASSUME NEW H \in SUBSET Callers, NEW c \in Callers
    PROVE  /\ IsFiniteSet(H \cap VCPUs) /\ IsFiniteSet(H \cap Foreign)
           /\ Cardinality(H \cap VCPUs) \in Nat /\ Cardinality(H \cap Foreign) \in Nat
           /\ c \in VCPUs =>
                /\ (H \cup {c}) \cap VCPUs = (H \cap VCPUs) \cup {c}
                /\ (H \cup {c}) \cap Foreign = H \cap Foreign
                /\ (H \ {c}) \cap VCPUs = (H \cap VCPUs) \ {c}
                /\ (H \ {c}) \cap Foreign = H \cap Foreign
           /\ c \notin VCPUs =>
                /\ (H \cup {c}) \cap VCPUs = H \cap VCPUs
                /\ (H \cup {c}) \cap Foreign = (H \cap Foreign) \cup {c}
                /\ (H \ {c}) \cap VCPUs = H \cap VCPUs
                /\ (H \ {c}) \cap Foreign = (H \cap Foreign) \ {c}
<1>1. IsFiniteSet(H \cap VCPUs) /\ Cardinality(H \cap VCPUs) \in Nat
    BY VcpusFinite
<1>2. IsFiniteSet(H \cap Foreign) /\ Cardinality(H \cap Foreign) \in Nat
    <2>1. H \cap Foreign \in SUBSET Foreign /\ IsFiniteSet(Foreign)
        BY VmEventAssumption
    <2> QED BY <2>1, FS_Subset, FS_CardinalityType
<1>3. c \in VCPUs => c \notin Foreign
    BY ForeignAssumption
<1>4. c \notin VCPUs => c \in Foreign
    BY DEF Callers
<1> QED BY <1>1, <1>2, <1>3, <1>4

\* How many holders of each kind there are once c is one more, or one fewer.
LEMMA HoldersCount ==
    ASSUME NEW H \in SUBSET Callers, NEW c \in Callers
    PROVE  /\ c \notin H =>
                /\ Cardinality((H \cup {c}) \cap VCPUs)
                     = Cardinality(H \cap VCPUs) + (IF c \in VCPUs THEN 1 ELSE 0)
                /\ Cardinality((H \cup {c}) \cap Foreign)
                     = Cardinality(H \cap Foreign) + (IF c \in VCPUs THEN 0 ELSE 1)
           /\ c \in H =>
                /\ Cardinality((H \ {c}) \cap VCPUs)
                     = Cardinality(H \cap VCPUs) - (IF c \in VCPUs THEN 1 ELSE 0)
                /\ Cardinality((H \ {c}) \cap Foreign)
                     = Cardinality(H \cap Foreign) - (IF c \in VCPUs THEN 0 ELSE 1)
<1> DEFINE T == H \cap VCPUs
           F == H \cap Foreign
<1>1. IsFiniteSet(T) /\ IsFiniteSet(F) /\ Cardinality(T) \in Nat /\ Cardinality(F) \in Nat
    BY HoldersSplit
<1>2. c \notin H => c \notin T /\ c \notin F
    OBVIOUS
<1>3. c \in H => (c \in VCPUs => c \in T) /\ (c \notin VCPUs => c \in F)
    BY DEF Callers
<1>4. /\ Cardinality(T \cup {c}) = IF c \in T THEN Cardinality(T) ELSE Cardinality(T) + 1
      /\ Cardinality(F \cup {c}) = IF c \in F THEN Cardinality(F) ELSE Cardinality(F) + 1
    BY <1>1, FS_AddElement
<1>5. /\ Cardinality(T \ {c}) = IF c \in T THEN Cardinality(T) - 1 ELSE Cardinality(T)
      /\ Cardinality(F \ {c}) = IF c \in F THEN Cardinality(F) - 1 ELSE Cardinality(F)
    BY <1>1, FS_RemoveElement
<1>6. c \in VCPUs => /\ (H \cup {c}) \cap VCPUs = T \cup {c}
                     /\ (H \cup {c}) \cap Foreign = F
                     /\ (H \ {c}) \cap VCPUs = T \ {c}
                     /\ (H \ {c}) \cap Foreign = F
    BY HoldersSplit
<1>7. c \notin VCPUs => /\ (H \cup {c}) \cap VCPUs = T
                        /\ (H \cup {c}) \cap Foreign = F \cup {c}
                        /\ (H \ {c}) \cap VCPUs = T
                        /\ (H \ {c}) \cap Foreign = F \ {c}
    BY HoldersSplit
<1> DEFINE nT == Cardinality(T)
           nF == Cardinality(F)
<1>0. Cardinality(H \cap VCPUs) = nT /\ Cardinality(H \cap Foreign) = nF
    OBVIOUS
<1>8. CASE c \in VCPUs
    <2>1. Cardinality((H \cup {c}) \cap VCPUs) = Cardinality(T \cup {c})
        BY <1>6, <1>8
    <2>2. Cardinality((H \cup {c}) \cap Foreign) = nF
        BY <1>6, <1>8
    <2>3. Cardinality((H \ {c}) \cap VCPUs) = Cardinality(T \ {c})
        BY <1>6, <1>8
    <2>4. Cardinality((H \ {c}) \cap Foreign) = nF
        BY <1>6, <1>8
    <2> HIDE DEF T, F
    <2> QED BY <1>0, <1>1, <1>2, <1>3, <1>4, <1>5, <1>8, <2>1, <2>2, <2>3, <2>4
<1>9. CASE c \notin VCPUs
    <2>1. Cardinality((H \cup {c}) \cap VCPUs) = nT
        BY <1>7, <1>9
    <2>2. Cardinality((H \cup {c}) \cap Foreign) = Cardinality(F \cup {c})
        BY <1>7, <1>9
    <2>3. Cardinality((H \ {c}) \cap VCPUs) = nT
        BY <1>7, <1>9
    <2>4. Cardinality((H \ {c}) \cap Foreign) = Cardinality(F \ {c})
        BY <1>7, <1>9
    <2> HIDE DEF T, F
    <2> QED BY <1>0, <1>1, <1>2, <1>3, <1>4, <1>5, <1>9, <2>1, <2>2, <2>3, <2>4
<1> QED BY <1>8, <1>9

\* vm_event_grab_slot with room left.
LEMMA SlotTaken ==
    ASSUME VmEventTypeOK, RoomForHolders, NEW c \in Callers, Reserve(c), Available > 0,
           c \notin Holders, Holders' = Holders \cup {c}
    PROVE  /\ RoomForHolders'
           /\ target_producers' \in Int /\ foreign_producers' \in Int
<1>1. Holders \in SUBSET Callers
    BY DEF Holders, Callers
<1>2. /\ target_producers \in Int /\ foreign_producers \in Int /\ RingSize \in Int
      /\ Len(reqs) \in Nat /\ Len(rsps) \in Nat
    BY VmEventAssumption, LenProperties DEF VmEventTypeOK
<1>3. /\ Cardinality((Holders \cup {c}) \cap VCPUs) = target_producers'
      /\ Cardinality((Holders \cup {c}) \cap Foreign) = foreign_producers'
    BY <1>1, HoldersCount DEF RoomForHolders, Reserve
<1>4. Available' >= 0
    BY <1>2 DEF Available, InUse, Reserve
<1>5. target_producers' \in Int /\ foreign_producers' \in Int
    BY <1>2 DEF Reserve
<1> QED BY <1>3, <1>4, <1>5 DEF RoomForHolders

\* vm_event_release_slot.
LEMMA SlotReleased ==
    ASSUME VmEventTypeOK, RoomForHolders, NEW c \in Callers, Release(c),
           c \in Holders, Holders' = Holders \ {c}
    PROVE  /\ target_producers' = Cardinality(Holders' \cap VCPUs)
           /\ foreign_producers' = Cardinality(Holders' \cap Foreign)
           /\ target_producers' \in Int /\ foreign_producers' \in Int
           /\ target_producers' + foreign_producers' = target_producers + foreign_producers - 1
<1>1. Holders \in SUBSET Callers
    BY DEF Holders, Callers
<1>2. target_producers \in Int /\ foreign_producers \in Int
    BY DEF VmEventTypeOK
<1>3. /\ Cardinality((Holders \ {c}) \cap VCPUs) = target_producers'
      /\ Cardinality((Holders \ {c}) \cap Foreign) = foreign_producers'
    BY <1>1, HoldersCount DEF RoomForHolders, Release
<1>4. /\ target_producers' \in Int /\ foreign_producers' \in Int
      /\ target_producers' + foreign_producers' = target_producers + foreign_producers - 1
    BY <1>2 DEF Release
<1> QED BY <1>3, <1>4

\* Nothing else that callers do disturbs the accounting.
LEMMA SlotsKept ==
    ASSUME RoomForHolders, UNCHANGED slots, Holders' = Holders
    PROVE  RoomForHolders'
BY DEF RoomForHolders, slots, Available, InUse

\* A step of one caller makes it a holder, or not, and leaves the others.
LEMMA HoldersGoto ==
    ASSUME VmEventTypeOK, NEW c \in Callers, NEW l, Goto(c, l)
    PROVE  Holders' = IF l \in {"finish", "have"} THEN Holders \cup {c} ELSE Holders \ {c}
BY DEF VmEventTypeOK, Goto, Holders, Callers

-----------------------------------------------------------------------------
(* Every step keeps the invariant *)

\* The initial states.
LEMMA InitRingInv ==
    ASSUME VmEventInit
    PROVE  RingInv
<1>1. 0 \in VCPUs
    BY VmEventAssumption DEF VCPUs
<1>2. VmEventTypeOK
    <2>1. <<>> \in Seq(Requests) /\ <<>> \in Seq(VCPUs) /\ 0 \in 0 .. MaxEnables
        BY VmEventAssumption, EmptySeq
    <2>2. /\ pc \in [VCPUs \cup Foreign ->
                 {"run", "test", "grab", "prepare", "retest", "regrab",
                  "sleep", "leave", "finish", "have"}]
          /\ evt \in [VCPUs \cup Foreign -> {"mem", "sync", "async", "busy"}]
          /\ vm_event_pause_count \in [VCPUs -> Nat] /\ orphans \in [VCPUs -> Nat]
        BY DEF VmEventInit
    <2> QED BY <1>1, <2>1, <2>2 DEF VmEventInit, VmEventTypeOK
<1>3. RoomForHolders
    <2>1. Holders = {}
        BY DEF VmEventInit, Holders
    <2>2. Cardinality(Holders \cap VCPUs) = 0 /\ Cardinality(Holders \cap Foreign) = 0
        BY <2>1, FS_EmptySet
    <2>3. Len(reqs) = 0 /\ Len(rsps) = 0
        BY DEF VmEventInit
    <2> QED BY <2>2, <2>3, VmEventAssumption DEF VmEventInit, RoomForHolders, Available, InUse
<1>4. QueueInv
    BY DEF VmEventInit, QueueInv
<1> QED BY <1>2, <1>3, <1>4 DEF RingInv

\* The number of free requests is a number.
LEMMA AvailableType ==
    ASSUME VmEventTypeOK
    PROVE  /\ Len(reqs) \in Nat /\ Len(rsps) \in Nat /\ Len(wq) \in Nat
           /\ Available \in Int
BY VmEventAssumption, LenProperties DEF VmEventTypeOK, Available, InUse

\* A caller goes somewhere: the type of pc.
LEMMA GotoType ==
    ASSUME VmEventTypeOK, NEW c \in Callers, NEW l, Goto(c, l),
           l \in {"run", "test", "grab", "prepare", "retest", "regrab",
                  "sleep", "leave", "finish", "have"}
    PROVE  /\ pc' \in [VCPUs \cup Foreign ->
                          {"run", "test", "grab", "prepare", "retest", "regrab",
                           "sleep", "leave", "finish", "have"}]
           /\ pc'[c] = l
           /\ \A d \in Callers : d # c => pc'[d] = pc[d]
BY DEF VmEventTypeOK, Goto, Callers

\* A caller returns.
LEMMA ReturnType ==
    ASSUME VmEventTypeOK, NEW c \in Callers, Return(c)
    PROVE  evt' \in [VCPUs \cup Foreign -> {"mem", "sync", "async", "busy"}]
BY DEF VmEventTypeOK, Return, Callers

\* A caller that finds no ring returns.
LEMMA NoRingType ==
    ASSUME VmEventTypeOK, NEW c \in Callers, NoRing(c)
    PROVE  /\ Goto(c, "run") /\ evt' \in [VCPUs \cup Foreign -> {"mem", "sync", "async", "busy"}]
           /\ crashed' \in BOOLEAN /\ orphans' \in [VCPUs -> Nat]
           /\ UNCHANGED <<vm_event_pause_count, forgotten>>
<1>1. Goto(c, "run") /\ Return(c) /\ UNCHANGED <<vm_event_pause_count, forgotten>>
    BY DEF NoRing, Return
<1>2. evt' \in [VCPUs \cup Foreign -> {"mem", "sync", "async", "busy"}]
    BY <1>1, ReturnType
<1>3. crashed' \in BOOLEAN
    BY DEF NoRing, VmEventTypeOK
<1>4. orphans' \in [VCPUs -> Nat]
    BY DEF NoRing, Orphan, VmEventTypeOK
<1> QED BY <1>1, <1>2, <1>3, <1>4

\* The pause count of one vCPU goes up.
LEMMA PauseType ==
    ASSUME VmEventTypeOK, NEW c \in VCPUs
    PROVE  [vm_event_pause_count EXCEPT ![c] = @ + 1] \in [VCPUs -> Nat]
BY DEF VmEventTypeOK

\* Nobody comes to be asleep in the queue while a caller moves elsewhere.
LEMMA QueueKept ==
    ASSUME VmEventTypeOK, QueueInv, NEW c \in Callers, NEW l, Goto(c, l),
           UNCHANGED ring_page,
           \A v : v # c => (Contains(wq', v) => Contains(wq, v)),
           l \notin {"regrab", "sleep"}
    PROVE  QueueInv'
<1> SUFFICES ASSUME ~ring_page', NEW v \in VCPUs, pc'[v] \in {"regrab", "sleep"}
             PROVE  ~Contains(wq', v)
    BY DEF QueueInv
<1>1. pc'[c] = l /\ \A d \in Callers : d # c => pc'[d] = pc[d]
    BY DEF VmEventTypeOK, Goto, Callers
<1>2. v # c /\ v \in Callers
    BY <1>1 DEF Callers
<1>3. pc[v] \in {"regrab", "sleep"}
    BY <1>1, <1>2
<1> QED BY <1>2, <1>3 DEF QueueInv

\* The event, and the first look at the ring.
LEMMA TriggerKeeps ==
    ASSUME RingInv, NEW c \in Callers, NEW e \in {"mem", "sync", "async", "busy"}, Trigger(c, e)
    PROVE  RingInv'
<1>1. VmEventTypeOK /\ RoomForHolders /\ QueueInv
    BY DEF RingInv
<1>2. VmEventTypeOK'
    <2>1. vm_event_pause_count' \in [VCPUs -> Nat]
        BY <1>1, PauseType DEF Trigger, VmEventTypeOK, Callers
    <2> QED BY <1>1, <2>1, GotoType DEF Trigger, VmEventTypeOK, fate, slots, asleep, Callers
<1>3. Holders' = Holders
    BY <1>1, HoldersGoto DEF Trigger, Holders
<1>4. RoomForHolders'
    BY <1>1, <1>3, SlotsKept DEF Trigger
<1>5. QueueInv'
    BY <1>1, QueueKept DEF Trigger, asleep
<1> QED BY <1>2, <1>4, <1>5 DEF RingInv

\* The pause without a request.
LEMMA NoMemoryKeeps ==
    ASSUME RingInv, NEW v \in VCPUs, TriggerNoMemory(v)
    PROVE  RingInv'
<1>1. VmEventTypeOK /\ RoomForHolders /\ QueueInv
    BY DEF RingInv
<1>2. vm_event_pause_count' \in [VCPUs -> Nat] /\ orphans' \in [VCPUs -> Nat]
    BY <1>1, PauseType DEF TriggerNoMemory, Orphan, VmEventTypeOK
<1>3. VmEventTypeOK'
    BY <1>1, <1>2 DEF TriggerNoMemory, VmEventTypeOK, slots, asleep
<1>4. RoomForHolders'
    BY <1>1, SlotsKept DEF TriggerNoMemory, Holders
<1>5. QueueInv'
    BY <1>1 DEF TriggerNoMemory, asleep, QueueInv
<1> QED BY <1>3, <1>4, <1>5 DEF RingInv

LEMMA TestKeeps ==
    ASSUME RingInv, NEW c \in Callers, Test(c)
    PROVE  RingInv'
<1>1. VmEventTypeOK /\ RoomForHolders /\ QueueInv
    BY DEF RingInv
<1>2. PICK l \in {"grab", "run"} : Goto(c, l)
    BY DEF Test, NoRing, Return
<1>3. VmEventTypeOK'
    <2>1. /\ evt' \in [VCPUs \cup Foreign -> {"mem", "sync", "async", "busy"}]
          /\ vm_event_pause_count' \in [VCPUs -> Nat]
          /\ crashed' \in BOOLEAN /\ orphans' \in [VCPUs -> Nat] /\ forgotten' = forgotten
        BY <1>1, NoRingType DEF Test, VmEventTypeOK, fate
    <2> QED BY <1>1, <1>2, <2>1, GotoType DEF Test, VmEventTypeOK, slots, asleep
<1>4. Holders' = Holders
    BY <1>1, <1>2, HoldersGoto DEF Test, Holders
<1>5. RoomForHolders'
    BY <1>1, <1>4, SlotsKept DEF Test
<1>6. QueueInv'
    BY <1>1, <1>2, QueueKept DEF Test, asleep
<1> QED BY <1>3, <1>5, <1>6 DEF RingInv

\* vm_event_grab_slot.
LEMMA GrabKeeps ==
    ASSUME RingInv, NEW c \in Callers, Grab(c)
    PROVE  RingInv'
<1>1. VmEventTypeOK /\ RoomForHolders /\ QueueInv
    BY DEF RingInv
<1>2. PICK l \in {"have", "prepare", "run"} : Goto(c, l)
    BY DEF Grab, Return
<1>3. /\ RoomForHolders'
      /\ target_producers' \in Int /\ foreign_producers' \in Int /\ UNCHANGED <<reqs, rsps>>
    <2>1. CASE Available > 0 /\ Reserve(c) /\ Goto(c, "have")
        <3>1. c \notin Holders /\ Holders' = Holders \cup {c}
            BY <1>1, <2>1, HoldersGoto DEF Grab, Holders
        <3> QED BY <1>1, <2>1, <3>1, SlotTaken DEF Reserve
    <2>2. CASE UNCHANGED slots /\ (Goto(c, "prepare") \/ Goto(c, "run"))
        <3>1. Holders' = Holders
            BY <1>1, <2>2, HoldersGoto DEF Grab, Holders
        <3> QED BY <1>1, <2>2, <3>1, SlotsKept DEF slots, VmEventTypeOK
    <2> QED BY <2>1, <2>2 DEF Grab, Return
<1>4. VmEventTypeOK'
    <2>1. evt' \in [VCPUs \cup Foreign -> {"mem", "sync", "async", "busy"}]
        BY <1>1, ReturnType DEF Grab, VmEventTypeOK, fate
    <2> QED BY <1>1, <1>2, <1>3, <2>1, GotoType DEF Grab, VmEventTypeOK, fate, asleep
<1>5. QueueInv'
    BY <1>1, <1>2, QueueKept DEF Grab, asleep
<1> QED BY <1>3, <1>4, <1>5 DEF RingInv

\* prepare_to_wait.
LEMMA PrepareKeeps ==
    ASSUME RingInv, NEW v \in VCPUs, Prepare(v)
    PROVE  RingInv'
<1>1. VmEventTypeOK /\ RoomForHolders /\ QueueInv /\ v \in Callers
    BY DEF RingInv, Callers
<1>2. /\ wq' \in Seq(VCPUs)
      /\ \A w : w # v => (Contains(wq', w) => Contains(wq, w))
    <2>1. /\ Append(wq, v) \in Seq(VCPUs)
          /\ Len(Append(wq, v)) = Len(wq) + 1 /\ Len(wq) \in Nat
          /\ \A i \in 1 .. Len(wq) : Append(wq, v)[i] = wq[i]
          /\ Append(wq, v)[Len(wq) + 1] = v
        BY <1>1, AppendProperties, LenProperties DEF VmEventTypeOK
    <2> QED BY <2>1 DEF Prepare, Contains
<1>3. VmEventTypeOK'
    BY <1>1, <1>2, GotoType DEF Prepare, VmEventTypeOK, fate, slots
<1>4. Holders' = Holders
    BY <1>1, HoldersGoto DEF Prepare, Holders
<1>5. RoomForHolders'
    BY <1>1, <1>4, SlotsKept DEF Prepare
<1>6. QueueInv'
    BY <1>1, <1>2, QueueKept DEF Prepare
<1> QED BY <1>3, <1>5, <1>6 DEF RingInv

\* The second look at ring_page, which takes nobody to sleep without a ring.
LEMMA RetestKeeps ==
    ASSUME RingInv, NEW v \in VCPUs, Retest(v)
    PROVE  RingInv'
<1>1. VmEventTypeOK /\ RoomForHolders /\ QueueInv /\ v \in Callers
    BY DEF RingInv, Callers
<1>2. PICK l \in {"regrab", "leave"} : Goto(v, l) /\ (~ring_page => l = "leave")
    BY DEF Retest
<1>3. VmEventTypeOK'
    BY <1>1, <1>2, GotoType DEF Retest, VmEventTypeOK, fate, slots, asleep
<1>4. Holders' = Holders
    BY <1>1, <1>2, HoldersGoto DEF Retest, Holders
<1>5. RoomForHolders'
    BY <1>1, <1>4, SlotsKept DEF Retest
<1>6. QueueInv'
    <2>1. CASE ring_page
        BY <2>1 DEF Retest, QueueInv
    <2>2. CASE ~ring_page
        BY <1>1, <1>2, <2>2, QueueKept DEF Retest, asleep
    <2> QED BY <2>1, <2>2
<1> QED BY <1>3, <1>5, <1>6 DEF RingInv

\* The second try, which goes to sleep only from where it was as good as asleep.
LEMMA RegrabKeeps ==
    ASSUME RingInv, NEW v \in VCPUs, Regrab(v)
    PROVE  RingInv'
<1>1. VmEventTypeOK /\ RoomForHolders /\ QueueInv /\ v \in Callers
    BY DEF RingInv, Callers
<1>2. PICK l \in {"finish", "sleep"} : Goto(v, l)
    BY DEF Regrab
<1>3. /\ RoomForHolders'
      /\ target_producers' \in Int /\ foreign_producers' \in Int /\ UNCHANGED <<reqs, rsps>>
    <2>1. CASE Available > 0 /\ Reserve(v) /\ Goto(v, "finish")
        <3>1. v \notin Holders /\ Holders' = Holders \cup {v}
            BY <1>1, <2>1, HoldersGoto DEF Regrab, Holders
        <3> QED BY <1>1, <2>1, <3>1, SlotTaken DEF Reserve
    <2>2. CASE UNCHANGED slots /\ Goto(v, "sleep")
        <3>1. Holders' = Holders
            BY <1>1, <2>2, HoldersGoto DEF Regrab, Holders
        <3> QED BY <1>1, <2>2, <3>1, SlotsKept DEF slots, VmEventTypeOK
    <2> QED BY <2>1, <2>2 DEF Regrab
<1>4. VmEventTypeOK'
    BY <1>1, <1>2, <1>3, GotoType DEF Regrab, VmEventTypeOK, fate, asleep
<1>5. QueueInv'
    <2>1. pc[v] = "regrab" /\ UNCHANGED <<wq, ring_page>>
        BY DEF Regrab, asleep
    <2>2. \A w \in VCPUs : pc'[w] \in {"regrab", "sleep"} => pc[w] \in {"regrab", "sleep"}
        BY <1>1, <1>2, <2>1, GotoType DEF Callers
    <2> QED BY <1>1, <2>1, <2>2 DEF QueueInv
<1> QED BY <1>3, <1>4, <1>5 DEF RingInv

\* wait() returns.
LEMMA AwakeKeeps ==
    ASSUME RingInv, NEW v \in VCPUs, Awake(v)
    PROVE  RingInv'
<1>1. VmEventTypeOK /\ RoomForHolders /\ QueueInv /\ v \in Callers
    BY DEF RingInv, Callers
<1>2. VmEventTypeOK'
    BY <1>1, GotoType DEF Awake, VmEventTypeOK, fate, slots, asleep
<1>3. Holders' = Holders
    BY <1>1, HoldersGoto DEF Awake, Holders
<1>4. RoomForHolders'
    BY <1>1, <1>3, SlotsKept DEF Awake
<1>5. QueueInv'
    BY <1>1, QueueKept DEF Awake, asleep
<1> QED BY <1>2, <1>4, <1>5 DEF RingInv

\* finish_wait.
LEMMA FinishKeeps ==
    ASSUME RingInv, NEW v \in VCPUs, Finish(v)
    PROVE  RingInv'
<1>1. VmEventTypeOK /\ RoomForHolders /\ QueueInv /\ v \in Callers
    BY DEF RingInv, Callers
<1>2. PICK l \in {"have", "run"} : Goto(v, l) /\ (l = "have" <=> pc[v] = "finish")
    BY DEF Finish, NoRing, Return
<1>3. wq' \in Seq(VCPUs) /\ \A w : Contains(wq', w) => Contains(wq, w)
    <2>1. CASE Contains(wq, v)
        <3> DEFINE i == CHOOSE i \in 1 .. Len(wq) : wq[i] = v
        <3>1. i \in 1 .. Len(wq)
            BY <2>1 DEF Contains
        <3>2. wq' = RemoveAt(wq, i)
            BY <2>1 DEF Finish
        <3> HIDE DEF i
        <3> QED BY <1>1, <3>1, <3>2, OneOutOfQueue DEF VmEventTypeOK
    <2>2. CASE ~Contains(wq, v)
        BY <1>1, <2>2 DEF Finish, VmEventTypeOK, fate
    <2> QED BY <2>1, <2>2
<1>4. VmEventTypeOK'
    <2>1. /\ evt' \in [VCPUs \cup Foreign -> {"mem", "sync", "async", "busy"}]
          /\ vm_event_pause_count' \in [VCPUs -> Nat]
          /\ crashed' \in BOOLEAN /\ orphans' \in [VCPUs -> Nat] /\ forgotten' = forgotten
        BY <1>1, NoRingType DEF Finish, VmEventTypeOK, fate
    <2> QED BY <1>1, <1>2, <1>3, <2>1, GotoType DEF Finish, VmEventTypeOK, slots
<1>5. Holders' = Holders
    BY <1>1, <1>2, HoldersGoto DEF Finish, Holders
<1>6. RoomForHolders'
    BY <1>1, <1>5, SlotsKept DEF Finish
<1>7. QueueInv'
    BY <1>1, <1>2, <1>3, QueueKept DEF Finish
<1> QED BY <1>4, <1>6, <1>7 DEF RingInv

\* vm_event_put_request: the request takes the place of the reservation.
LEMMA PutKeeps ==
    ASSUME RingInv, NEW c \in Callers, Put(c)
    PROVE  RingInv'
<1> DEFINE extra == IF c \in VCPUs /\ Available < NrVcpus THEN {c} ELSE {}
           r     == [who |-> c, paused |-> Pauses(c)]
<1>1. VmEventTypeOK /\ RoomForHolders /\ QueueInv
    BY DEF RingInv
<1>2. Available \in Int /\ Available >= 0 /\ extra \in SUBSET VCPUs
    BY <1>1, AvailableType DEF RoomForHolders
<1>3. /\ wq' \in Seq(VCPUs) /\ (\A v : Contains(wq', v) => Contains(wq, v))
      /\ pause_flags' \in SUBSET VCPUs /\ blocked' \in Int /\ last_vcpu_wake_up' \in VCPUs
    <2>1. Wake(Available, extra)
        BY DEF Put
    <2> HIDE DEF extra
    <2> QED BY <1>1, <1>2, <2>1, WakeProperties
<1>4. Goto(c, "run") /\ Return(c)
    BY DEF Put, Return
<1>5. c \in Holders /\ Holders' = Holders \ {c}
    BY <1>1, <1>4, HoldersGoto DEF Put, Holders, Callers
<1>6. reqs' \in Seq(Requests) /\ Len(reqs') = Len(reqs) + 1
    <2>1. r \in Requests
        BY DEF Requests, Pauses, Callers
    <2>2. reqs' = Append(reqs, r) /\ reqs \in Seq(Requests)
        BY <1>1 DEF Put, VmEventTypeOK, fate
    <2> QED BY <2>1, <2>2, AppendProperties
<1>7. /\ target_producers' = Cardinality(Holders' \cap VCPUs)
      /\ foreign_producers' = Cardinality(Holders' \cap Foreign)
      /\ target_producers' \in Int /\ foreign_producers' \in Int
      /\ target_producers' + foreign_producers' = target_producers + foreign_producers - 1
    BY <1>1, <1>5, SlotReleased DEF Put
<1>8. RoomForHolders'
    <2>1. /\ RingSize \in Int /\ Len(reqs) \in Int /\ Len(rsps) \in Int
          /\ target_producers \in Int /\ foreign_producers \in Int
        BY <1>1, VmEventAssumption, AvailableType DEF VmEventTypeOK
    <2>2. rsps' = rsps
        BY DEF Put
    <2>3. Available' = Available
        BY <1>6, <1>7, <2>1, <2>2 DEF Available, InUse
    <2> QED BY <1>2, <1>7, <2>3 DEF RoomForHolders
<1>9. VmEventTypeOK'
    <2>1. vm_event_pause_count' \in [VCPUs -> Nat]
        BY <1>1, PauseType DEF Put, Pauses, VmEventTypeOK
    <2>2. evt' \in [VCPUs \cup Foreign -> {"mem", "sync", "async", "busy"}]
        BY <1>1, <1>4, ReturnType
    <2>3. stray' \in BOOLEAN
        BY <1>1 DEF Put, VmEventTypeOK, fate
    <2> QED BY <1>1, <1>3, <1>4, <1>6, <1>7, <2>1, <2>2, <2>3, GotoType DEF Put, VmEventTypeOK, fate
<1>10. QueueInv'
    BY <1>1, <1>3, <1>4, QueueKept DEF Put
<1> QED BY <1>8, <1>9, <1>10 DEF RingInv

\* vm_event_cancel_slot: the reservation goes.
LEMMA CancelKeeps ==
    ASSUME RingInv, NEW c \in Callers, Cancel(c)
    PROVE  RingInv'
<1>1. VmEventTypeOK /\ RoomForHolders /\ QueueInv
    BY DEF RingInv
<1>2. Available + 1 \in Int /\ Available + 1 >= 0 /\ Available >= 0
    BY <1>1, AvailableType DEF RoomForHolders
<1>3. /\ wq' \in Seq(VCPUs) /\ (\A v : Contains(wq', v) => Contains(wq, v))
      /\ pause_flags' \in SUBSET VCPUs /\ blocked' \in Int /\ last_vcpu_wake_up' \in VCPUs
    <2>1. Wake(Available + 1, {})
        BY DEF Cancel
    <2> QED BY <1>1, <1>2, <2>1, WakeProperties
<1>4. Goto(c, "run") /\ Return(c)
    BY DEF Cancel, Return
<1>5. c \in Holders /\ Holders' = Holders \ {c}
    BY <1>1, <1>4, HoldersGoto DEF Cancel, Holders, Callers
<1>6. /\ target_producers' = Cardinality(Holders' \cap VCPUs)
      /\ foreign_producers' = Cardinality(Holders' \cap Foreign)
      /\ target_producers' \in Int /\ foreign_producers' \in Int
      /\ target_producers' + foreign_producers' = target_producers + foreign_producers - 1
    BY <1>1, <1>5, SlotReleased DEF Cancel
<1>7. RoomForHolders'
    <2>1. /\ RingSize \in Int /\ Len(reqs) \in Int /\ Len(rsps) \in Int
          /\ target_producers \in Int /\ foreign_producers \in Int
        BY <1>1, VmEventAssumption, AvailableType DEF VmEventTypeOK
    <2>2. Available' = Available + 1
        BY <1>6, <2>1 DEF Available, InUse, Cancel
    <2> QED BY <1>2, <1>6, <2>2 DEF RoomForHolders
<1>8. VmEventTypeOK'
    <2>1. evt' \in [VCPUs \cup Foreign -> {"mem", "sync", "async", "busy"}]
        BY <1>1, <1>4, ReturnType
    <2> QED BY <1>1, <1>3, <1>4, <1>6, <2>1, GotoType DEF Cancel, VmEventTypeOK, fate
<1>9. QueueInv'
    BY <1>1, <1>3, <1>4, QueueKept DEF Cancel
<1> QED BY <1>7, <1>8, <1>9 DEF RingInv

\* The helper's answer takes the place of the request.
LEMMA AnswerKeeps ==
    ASSUME RingInv, Answer
    PROVE  RingInv'
<1>1. VmEventTypeOK /\ RoomForHolders /\ QueueInv
    BY DEF RingInv
<1>2. /\ reqs' \in Seq(Requests) /\ Len(reqs') = Len(reqs) - 1
      /\ rsps' \in Seq(Requests) /\ Len(rsps') = Len(rsps) + 1
    <2>1. reqs \in Seq(Requests) /\ rsps \in Seq(Requests) /\ reqs # <<>>
        BY <1>1 DEF Answer, VmEventTypeOK, fate
    <2>2. Head(reqs) \in Requests /\ Tail(reqs) \in Seq(Requests) /\ Len(Tail(reqs)) = Len(reqs) - 1
        BY <2>1, HeadTailProperties
    <2>3. reqs' = Tail(reqs) /\ rsps' = Append(rsps, Head(reqs))
        BY DEF Answer
    <2> QED BY <2>1, <2>2, <2>3, AppendProperties
<1>3. VmEventTypeOK'
    BY <1>1, <1>2 DEF Answer, VmEventTypeOK, fate, asleep, callers
<1>4. RoomForHolders'
    <2>1. Holders' = Holders
        BY DEF Answer, callers, Holders
    <2>2. Available' = Available
        <3>1. /\ RingSize \in Int /\ Len(reqs) \in Int /\ Len(rsps) \in Int
              /\ target_producers \in Int /\ foreign_producers \in Int
            BY <1>1, VmEventAssumption, AvailableType DEF VmEventTypeOK
        <3> QED BY <1>2, <3>1 DEF Answer, Available, InUse
    <2> QED BY <1>1, <2>1, <2>2 DEF Answer, RoomForHolders
<1>5. QueueInv'
    BY <1>1 DEF Answer, asleep, callers, QueueInv
<1> QED BY <1>3, <1>4, <1>5 DEF RingInv

\* Xen takes an answer: one more request is free.
LEMMA ResumeKeeps ==
    ASSUME RingInv, Resume
    PROVE  RingInv'
<1>1. VmEventTypeOK /\ RoomForHolders /\ QueueInv
    BY DEF RingInv
<1>2. Available + 1 \in Int /\ Available + 1 >= 0 /\ Available >= 0
    BY <1>1, AvailableType DEF RoomForHolders
<1>3. /\ wq' \in Seq(VCPUs) /\ (\A v : Contains(wq', v) => Contains(wq, v))
      /\ pause_flags' \in SUBSET VCPUs /\ blocked' \in Int /\ last_vcpu_wake_up' \in VCPUs
    <2>1. Wake(Available + 1, {})
        BY DEF Resume
    <2> QED BY <1>1, <1>2, <2>1, WakeProperties
<1>4. rsps' \in Seq(Requests) /\ Len(rsps') = Len(rsps) - 1 /\ reqs' = reqs
    BY <1>1, HeadTailProperties DEF Resume, VmEventTypeOK, fate
<1>5. vm_event_pause_count' \in [VCPUs -> Nat]
    <2> DEFINE w == Head(rsps).who
    <2>1. vm_event_pause_count \in [VCPUs -> Nat]
        BY <1>1 DEF VmEventTypeOK
    <2>2. \/ vm_event_pause_count' = vm_event_pause_count
          \/ vm_event_pause_count' = [vm_event_pause_count EXCEPT ![w] = Most(0, @ - 1)]
        BY DEF Resume
    <2> HIDE DEF w
    <2>3. \A n \in Nat : Most(0, n - 1) \in Nat
        BY DEF Most
    <2> QED BY <2>1, <2>2, <2>3
<1>6. VmEventTypeOK'
    BY <1>1, <1>3, <1>4, <1>5 DEF Resume, VmEventTypeOK, fate
<1>7. RoomForHolders'
    <2>1. Holders' = Holders
        BY DEF Resume, Holders
    <2>2. Available' = Available + 1
        <3>1. /\ RingSize \in Int /\ Len(reqs) \in Int /\ Len(rsps) \in Int
              /\ target_producers \in Int /\ foreign_producers \in Int
            BY <1>1, VmEventAssumption, AvailableType DEF VmEventTypeOK
        <3> QED BY <1>4, <3>1 DEF Resume, Available, InUse
    <2> QED BY <1>1, <1>2, <2>1, <2>2 DEF Resume, RoomForHolders
<1>8. QueueInv'
    BY <1>1, <1>3 DEF Resume, QueueInv
<1> QED BY <1>6, <1>7, <1>8 DEF RingInv

\* vm_event_disable finds nobody in the queue.
LEMMA DisableKeeps ==
    ASSUME RingInv, Disable
    PROVE  RingInv'
<1>1. VmEventTypeOK /\ RoomForHolders /\ QueueInv
    BY DEF RingInv
<1>2. Cardinality(pause_flags) \in Nat
    BY <1>1, VcpusFinite DEF VmEventTypeOK
<1>3. VmEventTypeOK'
    <2>1. blocked' \in Int
        BY <1>1, <1>2 DEF Disable, VmEventTypeOK, fate
    <2>2. pause_flags' \in SUBSET VCPUs /\ ring_page' \in BOOLEAN
        BY DEF Disable
    <2> QED BY <1>1, <2>1, <2>2 DEF Disable, VmEventTypeOK, fate, slots, callers
<1>4. Holders' = Holders
    BY DEF Disable, callers, Holders
<1>5. RoomForHolders'
    BY <1>1, <1>4, SlotsKept DEF Disable
<1>6. QueueInv'
    <2>1. wq' = <<>>
        BY DEF Disable
    <2>2. \A v : ~Contains(<<>>, v)
        BY DEF Contains
    <2> QED BY <2>1, <2>2 DEF QueueInv
<1> QED BY <1>3, <1>5, <1>6 DEF RingInv

\* The requests a vCPU is paused for can be counted.
LEMMA PausedFinite ==
    ASSUME NEW s \in Seq(Requests), NEW v
    PROVE  IsFiniteSet(PausedIn(s, v)) /\ Cardinality(PausedIn(s, v)) \in Nat
<1>1. PICK n \in Nat : n = Len(s)
    BY LenProperties
<1>2. IsFiniteSet(1 .. n)
    BY FS_Interval
<1>3. PausedIn(s, v) \in SUBSET (1 .. n)
    BY <1>1 DEF PausedIn
<1>4. IsFiniteSet(PausedIn(s, v))
    BY <1>2, <1>3, FS_Subset
<1> QED BY <1>4, FS_CardinalityType

\* vm_event_enable: an empty ring has room for the reservations that survive.
LEMMA EnableKeeps ==
    ASSUME RingInv, Enable
    PROVE  RingInv'
<1>1. VmEventTypeOK /\ RoomForHolders /\ QueueInv
    BY DEF RingInv
<1>2. /\ <<>> \in Seq(Requests) /\ <<>> \in Seq(VCPUs) /\ Len(<<>>) = 0
      /\ enables' \in 0 .. MaxEnables
    BY <1>1, VmEventAssumption, EmptySeq DEF Enable, VmEventTypeOK, fate
<1>3. VmEventTypeOK'
    <2>1. orphans' \in [VCPUs -> Nat]
        <3>1. reqs \in Seq(Requests) /\ rsps \in Seq(Requests) /\ orphans \in [VCPUs -> Nat]
            BY <1>1 DEF VmEventTypeOK
        <3>2. \A v \in VCPUs : orphans[v] + Cardinality(PausedIn(reqs, v))
                                 + Cardinality(PausedIn(rsps, v)) \in Nat
            BY <3>1, PausedFinite
        <3> QED BY <3>2 DEF Enable
    <2>2. forgotten' \in SUBSET VCPUs
        <3>1. Range(wq) \in SUBSET VCPUs
            BY <1>1, ElementOfSeq, LenProperties DEF VmEventTypeOK, Range
        <3> QED BY <1>1, <3>1 DEF Enable, VmEventTypeOK
    <2> QED BY <1>1, <1>2, <2>1, <2>2 DEF Enable, VmEventTypeOK, callers
<1>4. RoomForHolders'
    <2>1. Holders' = Holders
        BY DEF Enable, callers, Holders
    <2>2. Available' >= 0
        <3>1. /\ RingSize \in Int /\ Len(reqs) \in Nat /\ Len(rsps) \in Nat
              /\ target_producers \in Int /\ foreign_producers \in Int
            BY <1>1, VmEventAssumption, AvailableType DEF VmEventTypeOK
        <3>2. /\ Len(reqs') = 0 /\ Len(rsps') = 0
              /\ UNCHANGED <<target_producers, foreign_producers>>
            BY <1>2 DEF Enable
        <3> QED BY <1>1, <3>1, <3>2 DEF RoomForHolders, Available, InUse
    <2> QED BY <1>1, <2>1, <2>2 DEF Enable, RoomForHolders
<1>5. QueueInv'
    BY DEF Enable, QueueInv
<1> QED BY <1>3, <1>4, <1>5 DEF RingInv

-----------------------------------------------------------------------------
(* The theorems *)

\* Every step keeps the invariant.
LEMMA NextRingInv ==
    ASSUME RingInv, [VmEventNext]_evars
    PROVE  RingInv'
<1>1. CASE UNCHANGED evars
    BY <1>1 DEF evars, slots, asleep, callers, fate, RingInv, VmEventTypeOK, RoomForHolders,
                QueueInv, Holders, Available, InUse
<1>2. ASSUME NEW c \in Callers, NEW e \in {"mem", "sync", "async", "busy"}, Trigger(c, e)
      PROVE  RingInv'
    BY <1>2, TriggerKeeps
<1>3. ASSUME NEW c \in Callers, ClaimStep(c) PROVE RingInv'
    BY <1>3, TestKeeps, GrabKeeps, PutKeeps, CancelKeeps DEF ClaimStep
<1>4. ASSUME NEW v \in VCPUs, WaitStep(v) PROVE RingInv'
    BY <1>4, PrepareKeeps, RetestKeeps, RegrabKeeps, AwakeKeeps, FinishKeeps DEF WaitStep
<1>5. CASE Answer \/ Resume
    BY <1>5, AnswerKeeps, ResumeKeeps
<1>6. CASE Disable \/ Enable
    BY <1>6, DisableKeeps, EnableKeeps
<1>7. ASSUME NEW v \in VCPUs, TriggerNoMemory(v) PROVE RingInv'
    BY <1>7, NoMemoryKeeps
<1> QED BY <1>1, <1>2, <1>3, <1>4, <1>5, <1>6, <1>7 DEF VmEventNext, VmEventStep, Callers

\* The invariant holds throughout.
THEOREM RingInvariant == VmEventSpec => []RingInv
<1>1. VmEventInit => RingInv
    BY InitRingInv
<1>2. RingInv /\ [VmEventNext]_evars => RingInv'
    BY NextRingInv
<1> QED BY <1>1, <1>2, PTL DEF VmEventSpec

\* The fields of struct vm_event_domain and of the vCPUs keep their types
\* through every claim, wake-up, answer, take-down and set-up; in particular no
\* pause count goes below zero.
THEOREM VmEventTypeCorrect == VmEventSpec => []VmEventTypeOK
<1>1. RingInv => VmEventTypeOK
    BY DEF RingInv
<1> QED BY <1>1, RingInvariant, PTL

\* vm_event_grab_slot, vm_event_release_slot and vm_event_put_request agree on
\* the slots: there is always a free request for whoever holds a reservation,
\* so neither BUG_ON(avail_req < 0) nor an overwritten request can occur.
THEOREM SlotAccounting == VmEventSpec => []RoomForHolders
<1>1. RingInv => RoomForHolders
    BY DEF RingInv
<1> QED BY <1>1, RingInvariant, PTL

-----------------------------------------------------------------------------
(* The pause counts *)

\* v has been paused by p2m_mem_access_check and has not put its request yet.
InMem(v) == pc[v] # "run" /\ evt[v] = "mem"

LEMMA PausedAppend ==
    ASSUME NEW s \in Seq(Requests), NEW r \in Requests, NEW v
    PROVE  Cardinality(PausedIn(Append(s, r), v))
             = Cardinality(PausedIn(s, v)) + (IF r.who = v /\ r.paused THEN 1 ELSE 0)
<1>1. PICK n \in Nat : n = Len(s)
    BY LenProperties
<1>2. /\ Len(Append(s, r)) = n + 1 /\ Append(s, r)[n + 1] = r
      /\ \A i \in 1 .. n : Append(s, r)[i] = s[i]
    BY <1>1, AppendProperties
<1>3. IsFiniteSet(PausedIn(s, v)) /\ Cardinality(PausedIn(s, v)) \in Nat
      /\ n + 1 \notin PausedIn(s, v)
    <2>1. n + 1 \notin PausedIn(s, v)
        BY <1>1 DEF PausedIn
    <2> QED BY <2>1, PausedFinite
<1>4. CASE r.who = v /\ r.paused
    <2>1. PausedIn(Append(s, r), v) = PausedIn(s, v) \cup {n + 1}
        BY <1>1, <1>2, <1>4 DEF PausedIn
    <2> QED BY <1>3, <1>4, <2>1, FS_AddElement
<1>5. CASE ~(r.who = v /\ r.paused)
    <2>1. PausedIn(Append(s, r), v) = PausedIn(s, v)
        BY <1>1, <1>2, <1>5 DEF PausedIn
    <2> QED BY <1>3, <1>5, <2>1
<1> QED BY <1>4, <1>5

LEMMA PausedTail ==
    ASSUME NEW s \in Seq(Requests), s # <<>>, NEW v
    PROVE  Cardinality(PausedIn(Tail(s), v))
             = Cardinality(PausedIn(s, v)) - (IF Head(s).who = v /\ Head(s).paused THEN 1 ELSE 0)
<1>1. PICK n \in Nat : n = Len(s)
    BY LenProperties
<1>2. /\ n > 0 /\ Tail(s) \in Seq(Requests) /\ Len(Tail(s)) = n - 1 /\ Head(s) = s[1]
      /\ \A i \in 1 .. n - 1 : Tail(s)[i] = s[i + 1]
    BY <1>1, EmptySeq, HeadTailProperties, LenProperties
<1> DEFINE S == PausedIn(Tail(s), v)
           T == PausedIn(s, v) \ {1}
           f == [i \in S |-> i + 1]
<1>3. S \subseteq 1 .. n - 1 /\ T \subseteq 2 .. n
    BY <1>1, <1>2 DEF PausedIn
<1>4. \A i \in 1 .. n - 1 : i \in S <=> i + 1 \in T
    BY <1>1, <1>2 DEF PausedIn
<1>5. IsFiniteSet(S) /\ IsFiniteSet(PausedIn(s, v)) /\ Cardinality(PausedIn(s, v)) \in Nat
    BY <1>2, PausedFinite
<1>6. 1 \in PausedIn(s, v) <=> Head(s).who = v /\ Head(s).paused
    BY <1>1, <1>2 DEF PausedIn
<1> HIDE DEF S, T
<1>7. f \in Bijection(S, T)
    <2>1. f \in [S -> T]
        BY <1>3, <1>4
    <2>2. \A a, b \in S : f[a] = f[b] => a = b
        BY <1>3
    <2>3. \A t \in T : \E a \in S : f[a] = t
        <3> TAKE t \in T
        <3>1. t - 1 \in 1 .. n - 1 /\ (t - 1) + 1 = t
            BY <1>3
        <3>2. t - 1 \in S
            BY <1>4, <3>1
        <3> QED BY <3>1, <3>2
    <2> HIDE DEF f
    <2> QED BY <2>1, <2>2, <2>3 DEF Bijection, Injection, Surjection, IsInjective
<1>8. Cardinality(T) = Cardinality(S)
    BY <1>5, <1>7, FS_Bijection DEF ExistsBijection
<1>9. Cardinality(T) = IF 1 \in PausedIn(s, v) THEN Cardinality(PausedIn(s, v)) - 1
                       ELSE Cardinality(PausedIn(s, v))
    BY <1>5, FS_RemoveElement DEF T
<1> QED BY <1>5, <1>6, <1>8, <1>9 DEF S

\* What v has been paused for, and what it has been left with.
Owed(v) == Cardinality(PausedIn(reqs, v)) + Cardinality(PausedIn(rsps, v))
             + (IF InMem(v) THEN 1 ELSE 0) + orphans[v]

\* What there is to show for each vCPU, with numbers for the parts of Owed.
LEMMA OwedParts ==
    ASSUME RingInv, PausedForRequest, NEW v \in VCPUs
    PROVE  /\ vm_event_pause_count \in [VCPUs -> Nat] /\ orphans \in [VCPUs -> Nat]
           /\ \E a \in Nat, b \in Nat, o \in Nat :
                /\ a = Cardinality(PausedIn(reqs, v)) /\ b = Cardinality(PausedIn(rsps, v))
                /\ o = orphans[v]
                /\ vm_event_pause_count[v] = a + b + (IF InMem(v) THEN 1 ELSE 0) + o
<1>1. /\ vm_event_pause_count \in [VCPUs -> Nat] /\ orphans \in [VCPUs -> Nat]
      /\ reqs \in Seq(Requests) /\ rsps \in Seq(Requests)
    BY DEF RingInv, VmEventTypeOK
<1>2. PICK a \in Nat, b \in Nat : a = Cardinality(PausedIn(reqs, v))
                                  /\ b = Cardinality(PausedIn(rsps, v))
    BY <1>1, PausedFinite
<1>3. PICK o \in Nat : o = orphans[v]
    BY <1>1
<1>4. vm_event_pause_count[v] = a + b + (IF InMem(v) THEN 1 ELSE 0) + o
    BY <1>2, <1>3 DEF PausedForRequest, InMem
<1> QED BY <1>1, <1>2, <1>3, <1>4

\* A step that pauses and unpauses nobody.
LEMMA PauseKept ==
    ASSUME PausedForRequest, UNCHANGED <<reqs, rsps, vm_event_pause_count, orphans>>,
           \A v \in VCPUs : InMem(v)' = InMem(v)
    PROVE  PausedForRequest'
<1> SUFFICES ASSUME NEW v \in VCPUs PROVE vm_event_pause_count'[v] = Owed(v)'
    BY DEF PausedForRequest, Owed, InMem
<1>1. vm_event_pause_count[v] = Owed(v) /\ InMem(v)' = InMem(v)
    BY DEF PausedForRequest, Owed, InMem
<1> QED BY <1>1 DEF Owed

\* A step of c's that leaves the requests and the pause counts alone: c goes on
\* with its event, or returns from one that has not paused it.
LEMMA CallKept ==
    ASSUME RingInv, PausedForRequest, NEW c \in Callers, NEW l,
           l \in {"run", "test", "grab", "prepare", "retest", "regrab",
                  "sleep", "leave", "finish", "have"},
           Goto(c, l), pc[c] # "run",
           IF l = "run" THEN Return(c) ELSE UNCHANGED evt,
           l = "run" /\ c \in VCPUs => evt[c] # "mem",
           UNCHANGED <<reqs, rsps, vm_event_pause_count, orphans>>
    PROVE  PausedForRequest'
<1>1. /\ pc'[c] = l /\ \A d \in Callers : d # c => pc'[d] = pc[d] /\ evt'[d] = evt[d]
      /\ l # "run" => evt'[c] = evt[c]
    BY GotoType DEF RingInv, VmEventTypeOK, Return, Callers
<1>2. ASSUME NEW v \in VCPUs PROVE InMem(v)' = InMem(v)
    <2>1. CASE v # c
        BY <1>1, <2>1 DEF InMem, Callers
    <2>2. CASE v = c
        BY <1>1, <2>2 DEF InMem
    <2> QED BY <2>1, <2>2
<1> QED BY <1>2, PauseKept

\* A claim that finds no ring leaves the pause of p2m_mem_access_check behind.
LEMMA NoRingPause ==
    ASSUME RingInv, PausedForRequest, NEW c \in Callers, NoRing(c), pc[c] # "run",
           UNCHANGED <<reqs, rsps>>
    PROVE  PausedForRequest'
<1>1. /\ pc'[c] = "run" /\ \A d \in Callers : d # c => pc'[d] = pc[d] /\ evt'[d] = evt[d]
      /\ vm_event_pause_count' = vm_event_pause_count
      /\ orphans' = IF evt[c] = "mem" THEN [orphans EXCEPT ![c] = @ + 1] ELSE orphans
    BY DEF RingInv, VmEventTypeOK, NoRing, Return, Goto, Orphan, Callers
<1> SUFFICES ASSUME NEW v \in VCPUs PROVE vm_event_pause_count'[v] = Owed(v)'
    BY DEF PausedForRequest, Owed, InMem
<1>2. orphans \in [VCPUs -> Nat]
    BY OwedParts
<1>3. PICK a \in Nat, b \in Nat, o \in Nat :
         /\ a = Cardinality(PausedIn(reqs, v)) /\ b = Cardinality(PausedIn(rsps, v))
         /\ o = orphans[v]
         /\ vm_event_pause_count[v] = a + b + (IF InMem(v) THEN 1 ELSE 0) + o
    BY OwedParts
<1>4. Owed(v)' = a + b + (IF InMem(v)' THEN 1 ELSE 0) + orphans'[v]
    BY <1>3 DEF Owed
<1>5. CASE v = c /\ evt[c] = "mem"
    <2>1. orphans'[v] = o + 1 /\ ~InMem(v)' /\ InMem(v)
        BY <1>1, <1>2, <1>3, <1>5 DEF InMem
    <2> QED BY <1>1, <1>3, <1>4, <2>1
<1>6. CASE v = c /\ evt[c] # "mem"
    <2>1. orphans'[v] = o /\ ~InMem(v)' /\ ~InMem(v)
        BY <1>1, <1>3, <1>6 DEF InMem
    <2> QED BY <1>1, <1>3, <1>4, <2>1
<1>7. CASE v # c
    <2>1. orphans'[v] = o
        BY <1>1, <1>2, <1>3, <1>7
    <2>2. InMem(v)' = InMem(v)
        BY <1>1, <1>7 DEF InMem, Callers
    <2> QED BY <1>1, <1>3, <1>4, <2>1, <2>2
<1> QED BY <1>5, <1>6, <1>7

\* p2m_mem_access_check pauses before it claims a slot, the others not yet.
LEMMA TriggerPause ==
    ASSUME RingInv, PausedForRequest, NEW c \in Callers,
           NEW e \in {"mem", "sync", "async", "busy"}, Trigger(c, e)
    PROVE  PausedForRequest'
<1>1. /\ pc[c] = "run" /\ pc'[c] = "test" /\ evt'[c] = e
      /\ \A d \in Callers : d # c => pc'[d] = pc[d] /\ evt'[d] = evt[d]
      /\ UNCHANGED <<reqs, rsps, orphans>>
    BY GotoType DEF Trigger, RingInv, VmEventTypeOK, Callers, slots, fate
<1>2. vm_event_pause_count' = IF e = "mem" THEN [vm_event_pause_count EXCEPT ![c] = @ + 1]
                              ELSE vm_event_pause_count
    BY DEF Trigger
<1> SUFFICES ASSUME NEW v \in VCPUs PROVE vm_event_pause_count'[v] = Owed(v)'
    BY DEF PausedForRequest, Owed, InMem
<1>3. vm_event_pause_count \in [VCPUs -> Nat]
    BY OwedParts
<1>4. PICK a \in Nat, b \in Nat, o \in Nat :
         /\ a = Cardinality(PausedIn(reqs, v)) /\ b = Cardinality(PausedIn(rsps, v))
         /\ o = orphans[v]
         /\ vm_event_pause_count[v] = a + b + (IF InMem(v) THEN 1 ELSE 0) + o
    BY OwedParts
<1>5. Owed(v)' = a + b + (IF InMem(v)' THEN 1 ELSE 0) + o
    BY <1>1, <1>4 DEF Owed
<1>6. CASE v = c /\ e = "mem"
    <2>1. InMem(v)' /\ ~InMem(v) /\ vm_event_pause_count'[v] = vm_event_pause_count[v] + 1
        BY <1>1, <1>2, <1>3, <1>6 DEF InMem
    <2> QED BY <1>4, <1>5, <2>1
<1>7. CASE ~(v = c /\ e = "mem")
    <2>1. vm_event_pause_count'[v] = vm_event_pause_count[v]
        BY <1>2, <1>3, <1>7
    <2>2. InMem(v)' = InMem(v)
        BY <1>1, <1>7 DEF InMem, Callers
    <2> QED BY <1>4, <1>5, <2>1, <2>2
<1> QED BY <1>6, <1>7

\* It pauses too when it has no request to send.
LEMMA NoMemoryPause ==
    ASSUME RingInv, PausedForRequest, NEW u \in VCPUs, TriggerNoMemory(u)
    PROVE  PausedForRequest'
<1>1. /\ vm_event_pause_count' = [vm_event_pause_count EXCEPT ![u] = @ + 1]
      /\ orphans' = [orphans EXCEPT ![u] = @ + 1]
      /\ UNCHANGED <<reqs, rsps, pc, evt>>
    BY DEF TriggerNoMemory, Orphan, slots
<1> SUFFICES ASSUME NEW v \in VCPUs PROVE vm_event_pause_count'[v] = Owed(v)'
    BY DEF PausedForRequest, Owed, InMem
<1>2. vm_event_pause_count \in [VCPUs -> Nat] /\ orphans \in [VCPUs -> Nat]
    BY OwedParts
<1>3. PICK a \in Nat, b \in Nat, o \in Nat :
         /\ a = Cardinality(PausedIn(reqs, v)) /\ b = Cardinality(PausedIn(rsps, v))
         /\ o = orphans[v]
         /\ vm_event_pause_count[v] = a + b + (IF InMem(v) THEN 1 ELSE 0) + o
    BY OwedParts
<1>4. Owed(v)' = a + b + (IF InMem(v) THEN 1 ELSE 0) + orphans'[v]
    BY <1>1, <1>3 DEF Owed, InMem
<1>5. CASE v = u
    BY <1>1, <1>2, <1>3, <1>4, <1>5
<1>6. CASE v # u
    BY <1>1, <1>2, <1>3, <1>4, <1>6
<1> QED BY <1>5, <1>6

\* vm_event_put_request: the request carries the pause on, or makes one.
LEMMA PutPause ==
    ASSUME RingInv, PausedForRequest, NEW c \in Callers, Put(c)
    PROVE  PausedForRequest'
<1>1. /\ pc[c] = "have" /\ pc'[c] = "run" /\ evt[c] \in {"mem", "sync", "async", "busy"}
      /\ \A d \in Callers : d # c => pc'[d] = pc[d] /\ evt'[d] = evt[d]
      /\ UNCHANGED <<rsps, orphans>>
    BY GotoType DEF Put, Return, RingInv, VmEventTypeOK, Callers, fate
<1>2. vm_event_pause_count' = IF Pauses(c) /\ evt[c] # "mem"
                              THEN [vm_event_pause_count EXCEPT ![c] = @ + 1]
                              ELSE vm_event_pause_count
    BY DEF Put
<1> SUFFICES ASSUME NEW v \in VCPUs PROVE vm_event_pause_count'[v] = Owed(v)'
    BY DEF PausedForRequest, Owed, InMem
<1>3. vm_event_pause_count \in [VCPUs -> Nat]
    BY OwedParts
<1>4. PICK a \in Nat, b \in Nat, o \in Nat :
         /\ a = Cardinality(PausedIn(reqs, v)) /\ b = Cardinality(PausedIn(rsps, v))
         /\ o = orphans[v]
         /\ vm_event_pause_count[v] = a + b + (IF InMem(v) THEN 1 ELSE 0) + o
    BY OwedParts
<1>5. Cardinality(PausedIn(reqs', v)) = a + (IF c = v /\ Pauses(c) THEN 1 ELSE 0)
    <2>0. [who |-> c, paused |-> Pauses(c)] \in Requests
        BY DEF Requests, Pauses, Callers
    <2>1. PICK r \in Requests : r = [who |-> c, paused |-> Pauses(c)]
        BY <2>0
    <2>2. reqs' = Append(reqs, r) /\ reqs \in Seq(Requests)
        BY <2>1 DEF Put, RingInv, VmEventTypeOK
    <2>3. Cardinality(PausedIn(Append(reqs, r), v))
            = Cardinality(PausedIn(reqs, v)) + (IF r.who = v /\ r.paused THEN 1 ELSE 0)
        BY <2>2, PausedAppend
    <2> QED BY <1>4, <2>1, <2>2, <2>3
<1>6. Owed(v)' = a + (IF c = v /\ Pauses(c) THEN 1 ELSE 0) + b
                   + (IF InMem(v)' THEN 1 ELSE 0) + o
    BY <1>1, <1>4, <1>5 DEF Owed
<1>7. CASE v # c
    <2>1. vm_event_pause_count'[v] = vm_event_pause_count[v] /\ InMem(v)' = InMem(v)
        BY <1>1, <1>2, <1>3, <1>7 DEF InMem, Callers
    <2> QED BY <1>4, <1>6, <1>7, <2>1
<1>8. CASE v = c
    <2>1. ~InMem(v)' /\ (InMem(v) <=> evt[c] = "mem") /\ (Pauses(c) <=> evt[c] # "async")
        BY <1>1, <1>8 DEF InMem, Pauses
    <2>2. vm_event_pause_count'[v] = vm_event_pause_count[v]
                                       + (IF Pauses(c) /\ evt[c] # "mem" THEN 1 ELSE 0)
        BY <1>2, <1>3, <1>8
    <2> QED BY <1>1, <1>4, <1>6, <1>8, <2>1, <2>2
<1> QED BY <1>7, <1>8

\* The answer takes the place of the request.
LEMMA AnswerPause ==
    ASSUME RingInv, PausedForRequest, Answer
    PROVE  PausedForRequest'
<1>1. /\ reqs # <<>> /\ reqs' = Tail(reqs) /\ rsps' = Append(rsps, Head(reqs))
      /\ UNCHANGED <<pc, evt, vm_event_pause_count, orphans>>
      /\ reqs \in Seq(Requests) /\ rsps \in Seq(Requests)
    BY DEF Answer, callers, fate, RingInv, VmEventTypeOK
<1> SUFFICES ASSUME NEW v \in VCPUs PROVE vm_event_pause_count'[v] = Owed(v)'
    BY DEF PausedForRequest, Owed, InMem
<1>2. PICK r \in Requests : r = Head(reqs)
    BY <1>1, HeadTailProperties
<1>3. PICK a \in Nat, b \in Nat, o \in Nat :
         /\ a = Cardinality(PausedIn(reqs, v)) /\ b = Cardinality(PausedIn(rsps, v))
         /\ o = orphans[v]
         /\ vm_event_pause_count[v] = a + b + (IF InMem(v) THEN 1 ELSE 0) + o
    BY OwedParts
<1>4. Cardinality(PausedIn(reqs', v)) = a - (IF r.who = v /\ r.paused THEN 1 ELSE 0)
    BY <1>1, <1>2, <1>3, PausedTail
<1>5. Cardinality(PausedIn(rsps', v)) = b + (IF r.who = v /\ r.paused THEN 1 ELSE 0)
    <2>1. Cardinality(PausedIn(Append(rsps, r), v))
            = Cardinality(PausedIn(rsps, v)) + (IF r.who = v /\ r.paused THEN 1 ELSE 0)
        BY <1>1, PausedAppend
    <2> QED BY <1>1, <1>2, <1>3, <2>1
<1>6. InMem(v)' = InMem(v) /\ orphans'[v] = o /\ vm_event_pause_count'[v] = vm_event_pause_count[v]
    BY <1>1, <1>3 DEF InMem
<1>7. Owed(v)' = (a - (IF r.who = v /\ r.paused THEN 1 ELSE 0))
                   + (b + (IF r.who = v /\ r.paused THEN 1 ELSE 0))
                   + (IF InMem(v) THEN 1 ELSE 0) + o
    BY <1>4, <1>5, <1>6 DEF Owed
<1> QED BY <1>3, <1>6, <1>7

\* vm_event_vcpu_unpause takes back one pause, and there is one to take.
LEMMA ResumePause ==
    ASSUME RingInv, PausedForRequest, Resume
    PROVE  PausedForRequest'
<1>1. /\ rsps # <<>> /\ rsps' = Tail(rsps) /\ UNCHANGED <<reqs, pc, evt, orphans>>
      /\ reqs \in Seq(Requests) /\ rsps \in Seq(Requests)
    BY DEF Resume, fate, RingInv, VmEventTypeOK
<1>2. vm_event_pause_count' =
         IF Head(rsps).paused
         THEN [vm_event_pause_count EXCEPT ![Head(rsps).who] = Most(0, @ - 1)]
         ELSE vm_event_pause_count
    BY DEF Resume
<1> SUFFICES ASSUME NEW v \in VCPUs PROVE vm_event_pause_count'[v] = Owed(v)'
    BY DEF PausedForRequest, Owed, InMem
<1>3. vm_event_pause_count \in [VCPUs -> Nat]
    BY OwedParts
<1>4. PICK r \in Requests : r = Head(rsps)
    BY <1>1, HeadTailProperties
<1>5. PICK a \in Nat, b \in Nat, o \in Nat :
         /\ a = Cardinality(PausedIn(reqs, v)) /\ b = Cardinality(PausedIn(rsps, v))
         /\ o = orphans[v]
         /\ vm_event_pause_count[v] = a + b + (IF InMem(v) THEN 1 ELSE 0) + o
    BY OwedParts
<1>6. Cardinality(PausedIn(rsps', v)) = b - (IF r.who = v /\ r.paused THEN 1 ELSE 0)
    BY <1>1, <1>4, <1>5, PausedTail
<1>7. InMem(v)' = InMem(v)
    BY <1>1 DEF InMem
<1>8. Owed(v)' = a + (b - (IF r.who = v /\ r.paused THEN 1 ELSE 0))
                   + (IF InMem(v) THEN 1 ELSE 0) + o
    BY <1>1, <1>5, <1>6, <1>7 DEF Owed
<1>9. CASE r.who = v /\ r.paused
    <2>1. b >= 1
        <3>1. IsFiniteSet(PausedIn(rsps, v)) /\ Len(rsps) \in Nat /\ Len(rsps) > 0
              /\ Head(rsps) = rsps[1]
            BY <1>1, PausedFinite, LenProperties, EmptySeq
        <3>2. 1 \in PausedIn(rsps, v)
            BY <1>4, <1>9, <3>1 DEF PausedIn
        <3> QED BY <1>5, <3>1, <3>2, FS_EmptySet
    <2>2. vm_event_pause_count'[v] = Most(0, vm_event_pause_count[v] - 1)
        BY <1>2, <1>3, <1>4, <1>9
    <2>3. PICK m \in {0, 1} : m = IF InMem(v) THEN 1 ELSE 0
        OBVIOUS
    <2>4. vm_event_pause_count[v] = a + b + m + o /\ Owed(v)' = a + (b - 1) + m + o
        BY <1>5, <1>8, <1>9, <2>3
    <2>5. vm_event_pause_count'[v] = a + b + m + o - 1
        BY <2>1, <2>2, <2>3, <2>4 DEF Most
    <2> QED BY <2>3, <2>4, <2>5
<1>10. CASE ~(r.who = v /\ r.paused)
    <2>1. vm_event_pause_count'[v] = vm_event_pause_count[v]
        BY <1>2, <1>3, <1>4, <1>10
    <2> QED BY <1>5, <1>8, <1>10, <2>1
<1> QED BY <1>9, <1>10

LEMMA ClaimPause ==
    ASSUME RingInv, PausedForRequest, NEW c \in Callers, ClaimStep(c)
    PROVE  PausedForRequest'
<1> USE DEF slots, fate
<1>1. CASE Test(c)
    <2>1. pc[c] = "test" /\ UNCHANGED <<reqs, rsps>>
        BY <1>1 DEF Test
    <2>2. CASE ring_page
        BY <1>1, <2>1, <2>2, CallKept DEF Test
    <2>3. CASE ~ring_page
        BY <1>1, <2>1, <2>3, NoRingPause DEF Test
    <2> QED BY <2>2, <2>3
<1>2. CASE Grab(c)
    <2>1. /\ pc[c] = "grab" /\ UNCHANGED <<reqs, rsps, vm_event_pause_count, orphans>>
          /\ \/ Goto(c, "have") /\ UNCHANGED evt
             \/ Goto(c, "prepare") /\ UNCHANGED evt
             \/ Return(c) /\ Goto(c, "run") /\ (c \in VCPUs => evt[c] = "busy")
        BY <1>2 DEF Grab, Reserve, Return, Callers
    <2>2. CASE Goto(c, "have") /\ UNCHANGED evt
        BY <2>1, <2>2, CallKept
    <2>3. CASE Goto(c, "prepare") /\ UNCHANGED evt
        BY <2>1, <2>3, CallKept
    <2>4. CASE Return(c) /\ Goto(c, "run") /\ (c \in VCPUs => evt[c] = "busy")
        BY <2>1, <2>4, CallKept
    <2> QED BY <2>1, <2>2, <2>3, <2>4
<1>3. CASE Cancel(c)
    <2>1. /\ pc[c] = "have" /\ UNCHANGED <<reqs, rsps, vm_event_pause_count, orphans>>
          /\ Return(c) /\ Goto(c, "run") /\ (c \in VCPUs => evt[c] = "sync")
        BY <1>3 DEF Cancel, Return, Callers
    <2> QED BY <2>1, CallKept
<1> QED BY <1>1, <1>2, <1>3, PutPause DEF ClaimStep

LEMMA WaitPause ==
    ASSUME RingInv, PausedForRequest, NEW v \in VCPUs, WaitStep(v)
    PROVE  PausedForRequest'
<1>1. v \in Callers /\ pc[v] # "run" /\ UNCHANGED <<reqs, rsps>>
    BY DEF WaitStep, Prepare, Retest, Regrab, Awake, Finish, slots, Reserve, Callers
<1>2. CASE Finish(v) /\ pc[v] = "leave"
    BY <1>1, <1>2, NoRingPause DEF Finish
<1>3. CASE ~(Finish(v) /\ pc[v] = "leave")
    <2>1. UNCHANGED <<vm_event_pause_count, orphans, evt>>
        BY <1>3 DEF WaitStep, Prepare, Retest, Regrab, Awake, Finish, fate
    <2>2. PICK l \in {"retest", "regrab", "leave", "finish", "sleep", "prepare", "have"} :
             Goto(v, l)
        BY <1>3 DEF WaitStep, Prepare, Retest, Regrab, Awake, Finish
    <2> QED BY <1>1, <2>1, <2>2, CallKept
<1> QED BY <1>2, <1>3

\* The requests that a new ring wipes out leave their pauses behind.
LEMMA EnablePause ==
    ASSUME RingInv, PausedForRequest, Enable
    PROVE  PausedForRequest'
<1>1. /\ reqs' = <<>> /\ rsps' = <<>> /\ UNCHANGED <<pc, evt, vm_event_pause_count>>
      /\ orphans' = [v \in VCPUs |-> orphans[v] + Cardinality(PausedIn(reqs, v))
                                               + Cardinality(PausedIn(rsps, v))]
    BY DEF Enable, callers
<1> SUFFICES ASSUME NEW v \in VCPUs PROVE vm_event_pause_count'[v] = Owed(v)'
    BY DEF PausedForRequest, Owed, InMem
<1>2. PICK a \in Nat, b \in Nat, o \in Nat :
         /\ a = Cardinality(PausedIn(reqs, v)) /\ b = Cardinality(PausedIn(rsps, v))
         /\ o = orphans[v]
         /\ vm_event_pause_count[v] = a + b + (IF InMem(v) THEN 1 ELSE 0) + o
    BY OwedParts
<1>3. PausedIn(<<>>, v) = {}
    BY DEF PausedIn
<1>4. Cardinality(PausedIn(reqs', v)) = 0 /\ Cardinality(PausedIn(rsps', v)) = 0
    BY <1>1, <1>3, FS_EmptySet
<1>5. orphans'[v] = o + a + b /\ InMem(v)' = InMem(v)
    BY <1>1, <1>2 DEF InMem
<1>6. Owed(v)' = (IF InMem(v) THEN 1 ELSE 0) + (o + a + b)
    BY <1>2, <1>4, <1>5 DEF Owed
<1> QED BY <1>1, <1>2, <1>6

LEMMA NextPause ==
    ASSUME RingInv, PausedForRequest, [VmEventNext]_evars
    PROVE  PausedForRequest'
<1>1. CASE UNCHANGED evars \/ Disable
    <2>1. UNCHANGED <<reqs, rsps, vm_event_pause_count, orphans, pc, evt>>
        BY <1>1 DEF Disable, evars, slots, callers, fate
    <2> QED BY <2>1, PauseKept DEF InMem
<1> QED
    BY <1>1, TriggerPause, NoMemoryPause, ClaimPause, WaitPause, AnswerPause, ResumePause,
       EnablePause
    DEF VmEventNext, VmEventStep, Callers

\* vm_event_vcpu_pause and _unpause balance, through every take-down and set-up
\* of a ring: a vCPU is paused once for every request of its own that says so and
\* is not yet answered, once more between the pause of p2m_mem_access_check and
\* its request, and for what can be named when no request was made, the claim
\* found no ring, or a new ring wiped the request out; so an answer never undoes
\* a pause twice, nor another's.
THEOREM PausesBalance == VmEventSpec => []PausedForRequest
<1>1. VmEventInit => PausedForRequest
    <2> SUFFICES ASSUME VmEventInit, NEW v \in VCPUs
                 PROVE  vm_event_pause_count[v] = Owed(v)
        BY DEF PausedForRequest, Owed, InMem
    <2>1. PausedIn(<<>>, v) = {}
        BY DEF PausedIn
    <2>2. Cardinality(PausedIn(reqs, v)) = 0 /\ Cardinality(PausedIn(rsps, v)) = 0
        BY <2>1, FS_EmptySet DEF VmEventInit
    <2>3. ~InMem(v) /\ orphans[v] = 0 /\ vm_event_pause_count[v] = 0
        BY DEF VmEventInit, InMem
    <2> QED BY <2>2, <2>3 DEF Owed
<1>2. RingInv /\ PausedForRequest /\ [VmEventNext]_evars => PausedForRequest'
    BY NextPause
<1> QED BY <1>1, <1>2, RingInvariant, PTL DEF VmEventSpec
=============================================================================
