--------------------------- MODULE TraceBufProofs ---------------------------
(***************************************************************************)
(* Proofs about TraceBuf, for every number of CPUs, buffer size, record    *)
(* size and event set.  The inductive invariant is a conjunction of parts: *)
(* where a call can be in mid-flight when tracing is switched (CallInv),   *)
(* that the space a call reserved in its dry run is still there for every  *)
(* record it has yet to write (RoomInv), and how the records lie between   *)
(* cons and prod (RecsInv).                                                *)
(***************************************************************************)
EXTENDS TraceBuf, SequenceTheorems, TLAPS

\* Tracing is off and a TBUFOP_disable has yet to take CPU c's lock: nobody
\* can switch tracing on before c's call has left its critical section.
BeingDisabled(c) == ~tb_init_done /\ ctl <= c

\* Before alloc_trace_bufs nothing traces.
AllocInv ==
    t_bufs = {} => /\ ~tb_init_done
                   /\ \A c \in CPUS : /\ pc[c] = "idle"
                                       /\ recs[c] = <<>>
                                       /\ stack[c] = <<>>

\* A call that no disable has overtaken runs with tracing on, for all the calls
\* of a CPU: those that an interrupt has stopped too.
NestInv == \A c \in CPUS : Depth(c) > overtaken[c] => tb_init_done

\* Nobody can switch tracing on while a disable goes through the locks.
SweepInv == ctl # CtlIdle => ~tb_init_done

CallOK(c) ==
    /\ pc[c] # "idle" => ev[c] \in Events
    /\ page[c] # "unset" => pc[c] \in InsertPCs
    \* A record about to be published was started before any disable was over.
    /\ page[c] = "ok" => tb_init_done \/ BeingDisabled(c)
    /\ pc[c] \in {"wrap_lost", "lost"} => lost_records[c] > 0
    /\ pc[c] = "lost" /\ page[c] = "null" => Overtaken(c)

CallInv == \A c \in CPUS : CallOK(c)

\* What the local bytes_to_wrap says of the real one.
WrapOK(c) ==
    /\ pc[c] = "wrap_lost" => ToWrap(c) < LostRecSize
    /\ pc[c] = "lost" => \/ to_wrap[c] = DataSize
                         \/ to_wrap[c] = ToWrap(c) /\ LostRecSize <= ToWrap(c)
    /\ pc[c] = "wrap_rec" => ToWrap(c) < RecSize[ev[c]] \/ Overtaken(c)

WrapInv == \A c \in CPUS : WrapOK(c)

\* The space reserved for the records still to be written.
RoomOK(c) ==
    /\ Unconsumed(c) <= DataSize
    /\ pc[c] = "wrap_lost" => ToWrap(c) + LostRecSize + RecSize[ev[c]] <= Avail(c)
    /\ pc[c] = "lost" =>
          LostRecSize + RecTotal(WrapAfterLost(to_wrap[c]), RecSize[ev[c]]) <= Avail(c)
    /\ pc[c] = "wrap_rec" => ToWrap(c) + RecSize[ev[c]] <= Avail(c)
    /\ pc[c] = "rec" => RecSize[ev[c]] <= Avail(c)

RoomInv == \A c \in CPUS : RoomOK(c)

\* The records between cons and prod lie in order and end at prod.
RecsInv == \A c \in CPUS :
    /\ recs[c] = <<>> => prod[c] = cons[c]
    /\ recs[c] # <<>> => recs[c][Len(recs[c])].end = prod[c]
    /\ \A i \in 1 .. Len(recs[c]) :
          Dist(recs[c][i].end, cons[c]) \in 1 .. Unconsumed(c)
    /\ \A i, j \in 1 .. Len(recs[c]) :
          i < j => Dist(recs[c][i].end, cons[c]) < Dist(recs[c][j].end, cons[c])

IInv == TypeOK /\ AllocInv /\ NestInv /\ SweepInv /\ CallInv /\ WrapInv /\ RoomInv /\ RecsInv
           /\ PanicOnlyIfOvertaken

-----------------------------------------------------------------------------
(* Arithmetic of positions *)

Pos == 0 .. 2 * DataSize - 1

\* Writing n words moves prod n words away from cons.
LEMMA AdvanceDist ==
    ASSUME NEW p \in Pos, NEW q \in Pos, NEW n \in Nat,
           Dist(p, q) + n <= DataSize
    PROVE  /\ Advance(p, n) \in Pos
           /\ Dist(Advance(p, n), q) = Dist(p, q) + n
  BY SizeAssumption DEF Pos, Dist, Advance

\* Moving cons to a position e on the way to f shortens the distance to f.
LEMMA ConsumeDist ==
    ASSUME NEW f \in Pos, NEW q \in Pos, NEW e \in Pos,
           Dist(e, q) <= Dist(f, q)
    PROVE  Dist(f, e) = Dist(f, q) - Dist(e, q)
  BY SizeAssumption DEF Pos, Dist

\* Distances are natural numbers, and zero only between equal positions.
LEMMA DistNat ==
    ASSUME NEW p \in Pos, NEW q \in Pos
    PROVE  /\ Dist(p, q) \in 0 .. 2 * DataSize - 1
           /\ Dist(p, p) = 0
           /\ Dist(p, q) = 0 => p = q
  BY SizeAssumption DEF Pos, Dist

\* A record that fits before the end of the buffer leaves that much less, or
\* starts the buffer anew.
LEMMA WrapAdvance ==
    ASSUME NEW p \in Pos, NEW n \in Nat, n <= WrapAt(p)
    PROVE  /\ n < WrapAt(p) => WrapAt(Advance(p, n)) = WrapAt(p) - n
           /\ n = WrapAt(p) => WrapAt(Advance(p, n)) = DataSize
  BY SizeAssumption DEF Pos, WrapAt, Advance

LEMMA WrapNat ==
    ASSUME NEW p \in Pos
    PROVE  WrapAt(p) \in 1 .. DataSize
  BY SizeAssumption DEF Pos, WrapAt

-----------------------------------------------------------------------------
(* The invariant *)

LEMMA InitInv == Init => IInv
  <1> SUFFICES ASSUME Init PROVE IInv
    OBVIOUS
  <1> USE CpuAssumption, SizeAssumption, MaskAssumption DEF Init
  <1>1. TypeOK
    <2>1. recs \in [CPUS -> Seq(Records)]
      OBVIOUS
    <2>2. ctl \in 0 .. CtlIdle
      BY DEF CtlIdle
    <2>3. pc \in [CPUS -> PCs]
      BY DEF PCs
    <2>4. /\ prod \in [CPUS -> 0 .. 2 * DataSize - 1]
          /\ cons \in [CPUS -> 0 .. 2 * DataSize - 1]
          /\ to_wrap \in [CPUS -> 0 .. DataSize]
      OBVIOUS
    <2>5. /\ lost_records \in [CPUS -> Nat]
          /\ missed \in [CPUS -> Nat]
          /\ owed \in [CPUS -> Nat]
          /\ overtaken \in [CPUS -> Nat]
          /\ stack \in [CPUS -> Seq(Frames)]
          /\ page \in [CPUS -> {"unset", "ok", "null"}]
          /\ ev \in [CPUS -> Events \cup {NoEvent}]
      OBVIOUS
    <2> QED
      BY <2>1, <2>2, <2>3, <2>4, <2>5 DEF TypeOK
  <1>2. AllocInv /\ NestInv /\ SweepInv /\ CallInv /\ WrapInv /\ PanicOnlyIfOvertaken
    BY DEF AllocInv, NestInv, SweepInv, Depth, CallInv, CallOK, WrapInv, WrapOK,
           PanicOnlyIfOvertaken, InsertPCs
  <1>3. RoomInv /\ RecsInv
    BY DEF RoomInv, RoomOK, RecsInv, Unconsumed, Dist
  <1> QED
    BY <1>1, <1>2, <1>3 DEF IInv

\* A call that finds tracing off has been overtaken.
LEMMA OffOvertaken ==
    ASSUME IInv, NEW c \in CPUS
    PROVE  /\ Depth(c) \in Nat /\ overtaken[c] \in Nat
           /\ pc[c] # "idle" /\ ~tb_init_done => Overtaken(c)
  <1>1. Len(stack[c]) \in Nat /\ overtaken[c] \in Nat
    BY DEF IInv, TypeOK
  <1>2. Depth(c) \in Nat
    <2>1. CASE pc[c] = "idle"
      <3>1. Depth(c) = Len(stack[c]) + 0
        BY <2>1 DEF Depth
      <3> QED
        BY <1>1, <3>1
    <2>2. CASE pc[c] # "idle"
      <3>1. Depth(c) = Len(stack[c]) + 1
        BY <2>2 DEF Depth
      <3> QED
        BY <1>1, <3>1
    <2> QED
      BY <2>1, <2>2
  <1>3. Depth(c) > overtaken[c] => tb_init_done
    BY DEF IInv, NestInv
  <1> QED
    BY <1>1, <1>2, <1>3 DEF Overtaken

\* A step of a call that leaves buffer, counts and tracing alone.
LEMMA TraceVarInv ==
    ASSUME IInv, ~panic, NEW c \in CPUS, NEW e \in Events, TraceVar(c, e)
    PROVE  IInv'
  <1> USE SizeAssumption DEF TraceVar, GoTo, mask, ring, lost, irq
  <1>1. TypeOK'
    <2>1. pc' \in [CPUS -> PCs] /\ ev' \in [CPUS -> Events \cup {NoEvent}]
      BY DEF IInv, TypeOK, PCs
    <2>2. below' \in SUBSET CPUS /\ to_wrap' \in [CPUS -> 0 .. DataSize]
      <3>1. below \in SUBSET CPUS /\ to_wrap \in [CPUS -> 0 .. DataSize] /\ 0 \in 0 .. DataSize
        BY DEF IInv, TypeOK
      <3>2. /\ below' = below \/ below' = below \ {c}
            /\ to_wrap' = to_wrap \/ to_wrap' = [to_wrap EXCEPT ![c] = 0]
        OBVIOUS
      <3> HIDE DEF TraceVar
      <3> QED
        BY <3>1, <3>2
    <2>3. stack' \in [CPUS -> Seq(Frames)]
      <3>1. CASE pc[c] = "idle"
        BY <3>1 DEF IInv, TypeOK
      <3>2. CASE pc[c] \in {"lock", "notify"}
        <4> DEFINE f == [pc |-> pc[c], ev |-> ev[c], below |-> c \in below]
        <4>1. f \in Frames
          BY <3>2 DEF IInv, CallInv, CallOK, Frames
        <4>2. stack[c] \in Seq(Frames) /\ stack' = [stack EXCEPT ![c] = Append(stack[c], f)]
          BY <3>2 DEF IInv, TypeOK
        <4> HIDE DEF f
        <4>3. Append(stack[c], f) \in Seq(Frames)
          BY <4>1, <4>2
        <4> QED
          BY <4>2, <4>3 DEF IInv, TypeOK
      <3> QED
        BY <3>1, <3>2
    <2> QED
      BY <2>1, <2>2, <2>3 DEF IInv, TypeOK
  <1>2. AllocInv' /\ NestInv' /\ SweepInv'
    BY DEF IInv, AllocInv, NestInv, SweepInv
  <1>3. /\ tb_init_done /\ UNCHANGED <<prod, cons, recs, page, lost_records, ctl, panic,
                                      tb_init_done, overtaken>>
        /\ pc'[c] = "lock" /\ ev'[c] = e /\ pc[c] \in {"idle", "lock", "notify"}
        /\ \A d \in CPUS \ {c} : /\ pc'[d] = pc[d] /\ ev'[d] = ev[d]
                                  /\ stack'[d] = stack[d] /\ to_wrap'[d] = to_wrap[d]
    BY DEF IInv, TypeOK
  <1> HIDE DEF TraceVar
  <1>4. CallInv'
    BY <1>3 DEF IInv, CallInv, CallOK, BeingDisabled, Overtaken, Depth, InsertPCs
  <1>5. WrapInv' /\ RoomInv' /\ RecsInv' /\ PanicOnlyIfOvertaken'
    BY <1>3 DEF IInv, WrapInv, WrapOK, RoomInv, RoomOK, RecsInv,
           PanicOnlyIfOvertaken, Overtaken, Depth, ToWrap, Avail, Unconsumed
  <1> QED
    BY <1>1, <1>2, <1>4, <1>5 DEF IInv

\* The top of the stack is a call that may be found at "lock" or "notify".
LEMMA TopFrame ==
    ASSUME IInv, NEW c \in CPUS, stack[c] # <<>>
    PROVE  /\ stack[c][Len(stack[c])] \in Frames
           /\ SubSeq(stack[c], 1, Len(stack[c]) - 1) \in Seq(Frames)
           /\ Len(SubSeq(stack[c], 1, Len(stack[c]) - 1)) = Len(stack[c]) - 1
           /\ Len(stack[c]) \in Nat \ {0}
  <1>1. stack[c] \in Seq(Frames)
    BY DEF IInv, TypeOK
  <1> QED
    BY <1>1

LEMMA TraceResumeInv ==
    ASSUME IInv, ~panic, NEW c \in CPUS, TraceResume(c)
    PROVE  IInv'
  <1> DEFINE s == stack[c]
             f == s[Len(s)]
             t == SubSeq(s, 1, Len(s) - 1)
  <1>0. /\ pc[c] = "idle" /\ s # <<>>
        /\ pc' = [pc EXCEPT ![c] = f.pc]
        /\ ev' = [ev EXCEPT ![c] = f.ev]
        /\ below' = IF f.below THEN below \cup {c} ELSE below
        /\ stack' = [stack EXCEPT ![c] = t]
        /\ UNCHANGED <<tb_init_done, mask, t_bufs, ring, lost, to_wrap, page, ctl,
                       irq, panic, overtaken>>
    BY DEF TraceResume, GoTo, IInv, TypeOK
  <1>1. f \in Frames /\ t \in Seq(Frames) /\ Len(t) = Len(s) - 1 /\ Len(s) \in Nat \ {0}
    BY <1>0, TopFrame
  <1> HIDE DEF s, f, t
  <1>2. f.pc \in {"lock", "notify"} /\ f.ev \in Events
    BY <1>1 DEF Frames
  <1> USE DEF mask, ring, lost, irq
  <1>3. TypeOK'
    <2>1. pc' \in [CPUS -> PCs] /\ ev' \in [CPUS -> Events \cup {NoEvent}]
      BY <1>0, <1>2 DEF IInv, TypeOK, PCs
    <2>2. stack' \in [CPUS -> Seq(Frames)] /\ below' \in SUBSET CPUS
      BY <1>0, <1>1 DEF IInv, TypeOK
    <2> QED
      BY <1>0, <2>1, <2>2 DEF IInv, TypeOK
  <1>4. /\ pc'[c] = f.pc /\ ev'[c] = f.ev /\ stack'[c] = t
        /\ \A d \in CPUS \ {c} : pc'[d] = pc[d] /\ ev'[d] = ev[d] /\ stack'[d] = stack[d]
    BY <1>0 DEF IInv, TypeOK
  <1>5. Depth(c)' = Depth(c) /\ \A d \in CPUS \ {c} : Depth(d)' = Depth(d)
    <2>1. Depth(c)' = Len(t) + 1
      BY <1>2, <1>4 DEF Depth
    <2>2. Depth(c) = Len(s) + 0
      BY <1>0 DEF Depth, s
    <2>3. \A d \in CPUS \ {c} : Depth(d)' = Depth(d)
      BY <1>4 DEF Depth
    <2> QED
      BY <1>1, <2>1, <2>2, <2>3
  <1>6. AllocInv' /\ NestInv' /\ SweepInv'
    BY <1>0, <1>5 DEF IInv, AllocInv, NestInv, SweepInv, s
  <1>7. CallInv'
    BY <1>0, <1>2, <1>4, <1>5 DEF IInv, CallInv, CallOK, BeingDisabled, Overtaken, InsertPCs
  <1>8. WrapInv' /\ RoomInv' /\ RecsInv' /\ PanicOnlyIfOvertaken'
    BY <1>0, <1>2, <1>4, <1>5
    DEF IInv, WrapInv, WrapOK, RoomInv, RoomOK, RecsInv, PanicOnlyIfOvertaken, Overtaken,
        ToWrap, Avail, Unconsumed
  <1> QED
    BY <1>3, <1>6, <1>7, <1>8 DEF IInv

LEMMA TraceLockInv ==
    ASSUME IInv, ~panic, NEW c \in CPUS, TraceLock(c)
    PROVE  IInv'
  <1> USE SizeAssumption DEF TraceLock, GoTo, mask, ring, lost, call, irq
  <1>1. TypeOK'
    BY DEF IInv, TypeOK, PCs, LockedPCs
  <1>2. AllocInv' /\ NestInv' /\ SweepInv'
    BY DEF IInv, TypeOK, AllocInv, NestInv, SweepInv, Depth
  <1>3. CallInv'
    BY DEF IInv, TypeOK, CallInv, CallOK, BeingDisabled, Overtaken, Depth, InsertPCs
  <1>4. WrapInv' /\ RoomInv' /\ RecsInv' /\ PanicOnlyIfOvertaken'
    BY DEF IInv, TypeOK, WrapInv, WrapOK, RoomInv, RoomOK, RecsInv, PanicOnlyIfOvertaken,
           Overtaken, Depth, ToWrap, Avail, Unconsumed
  <1> QED
    BY <1>1, <1>2, <1>3, <1>4 DEF IInv

LEMMA TraceDropInv ==
    ASSUME IInv, ~panic, NEW c \in CPUS, TraceDrop(c)
    PROVE  IInv'
  <1> USE SizeAssumption DEF TraceDrop, GoTo, mask, ring, lost, call, irq
  <1>1. TypeOK'
    <2>1. /\ lost_records' \in [CPUS -> Nat] /\ missed' \in [CPUS -> Nat]
          /\ owed' \in [CPUS -> Nat]
      BY DEF IInv, TypeOK
    <2>2. pc' \in [CPUS -> PCs]
      BY DEF IInv, TypeOK, PCs, LockedPCs
    <2>3. below' \in SUBSET CPUS
      BY DEF IInv, TypeOK
    <2> QED
      BY <2>1, <2>2, <2>3 DEF IInv, TypeOK
  <1>2. AllocInv' /\ NestInv' /\ SweepInv'
    BY DEF IInv, TypeOK, AllocInv, NestInv, SweepInv, Depth
  <1>3. CallInv'
    BY DEF IInv, TypeOK, CallInv, CallOK, BeingDisabled, Overtaken, Depth, InsertPCs
  <1>4. WrapInv' /\ RoomInv' /\ RecsInv' /\ PanicOnlyIfOvertaken'
    BY DEF IInv, TypeOK, WrapInv, WrapOK, RoomInv, RoomOK, RecsInv, PanicOnlyIfOvertaken,
           Overtaken, Depth, ToWrap, Avail, Unconsumed
  <1> QED
    BY <1>1, <1>2, <1>3, <1>4 DEF IInv

LEMMA TraceUnlockInv ==
    ASSUME IInv, ~panic, NEW c \in CPUS, TraceUnlock(c)
    PROVE  IInv'
  <1> USE SizeAssumption DEF TraceUnlock, GoTo, mask, ring, lost, call, irq
  <1>1. TypeOK'
    BY DEF IInv, TypeOK, PCs, LockedPCs, InsertPCs
  <1>2. AllocInv' /\ NestInv' /\ SweepInv'
    BY DEF IInv, TypeOK, AllocInv, NestInv, SweepInv, Depth
  <1>3. CallInv'
    BY DEF IInv, TypeOK, CallInv, CallOK, BeingDisabled, Overtaken, Depth, InsertPCs
  <1>4. WrapInv' /\ RoomInv' /\ RecsInv' /\ PanicOnlyIfOvertaken'
    BY DEF IInv, TypeOK, WrapInv, WrapOK, RoomInv, RoomOK, RecsInv, PanicOnlyIfOvertaken,
           Overtaken, Depth, ToWrap, Avail, Unconsumed
  <1> QED
    BY <1>1, <1>2, <1>3, <1>4 DEF IInv

LEMMA TraceNotifyInv ==
    ASSUME IInv, ~panic, NEW c \in CPUS, TraceNotify(c)
    PROVE  IInv'
  <1> USE SizeAssumption DEF TraceNotify, GoTo, mask, ring, lost, call, irq
  <1>1. TypeOK'
    BY DEF IInv, TypeOK, PCs, LockedPCs, InsertPCs
  <1>2. AllocInv' /\ NestInv' /\ SweepInv'
    <2>1. AllocInv' /\ SweepInv'
      BY DEF IInv, TypeOK, AllocInv, SweepInv
    <2>2. \A d \in CPUS \ {c} : Depth(d)' = Depth(d) /\ overtaken'[d] = overtaken[d]
      BY DEF IInv, TypeOK, Depth
    <2>3. Len(stack[c]) \in Nat /\ overtaken[c] \in Nat
      BY DEF IInv, TypeOK
    <2>4. Depth(c) = Len(stack[c]) + 1 /\ Depth(c)' = Len(stack[c]) + 0
      BY DEF IInv, TypeOK, Depth
    <2>5. overtaken'[c] = IF overtaken[c] > Len(stack[c]) THEN Len(stack[c]) ELSE overtaken[c]
      BY DEF IInv, TypeOK
    <2> QED
      BY <2>1, <2>2, <2>3, <2>4, <2>5 DEF IInv, NestInv
  <1>3. CallInv'
    BY DEF IInv, TypeOK, CallInv, CallOK, BeingDisabled, Overtaken, Depth, InsertPCs
  <1>4. WrapInv' /\ RoomInv' /\ RecsInv' /\ PanicOnlyIfOvertaken'
    BY DEF IInv, TypeOK, WrapInv, WrapOK, RoomInv, RoomOK, RecsInv, PanicOnlyIfOvertaken,
           Overtaken, Depth, ToWrap, Avail, Unconsumed
  <1> QED
    BY <1>1, <1>2, <1>3, <1>4 DEF IInv

LEMMA SendVirqInv ==
    ASSUME IInv, ~panic, SendVirq
    PROVE  IInv'
  <1> USE SizeAssumption DEF SendVirq, GoTo, mask, ring, lost, call, irq
  <1>1. TypeOK'
    BY DEF IInv, TypeOK, PCs, LockedPCs, InsertPCs
  <1>2. AllocInv' /\ NestInv' /\ SweepInv'
    BY DEF IInv, TypeOK, AllocInv, NestInv, SweepInv, Depth
  <1>3. CallInv'
    BY DEF IInv, TypeOK, CallInv, CallOK, BeingDisabled, Overtaken, Depth, InsertPCs
  <1>4. WrapInv' /\ RoomInv' /\ RecsInv' /\ PanicOnlyIfOvertaken'
    BY DEF IInv, TypeOK, WrapInv, WrapOK, RoomInv, RoomOK, RecsInv, PanicOnlyIfOvertaken,
           Overtaken, Depth, ToWrap, Avail, Unconsumed
  <1> QED
    BY <1>1, <1>2, <1>3, <1>4 DEF IInv

LEMMA AckVirqInv ==
    ASSUME IInv, ~panic, AckVirq
    PROVE  IInv'
  <1> USE SizeAssumption DEF AckVirq, GoTo, mask, ring, lost, call, irq
  <1>1. TypeOK'
    BY DEF IInv, TypeOK, PCs, LockedPCs, InsertPCs
  <1>2. AllocInv' /\ NestInv' /\ SweepInv'
    BY DEF IInv, TypeOK, AllocInv, NestInv, SweepInv, Depth
  <1>3. CallInv'
    BY DEF IInv, TypeOK, CallInv, CallOK, BeingDisabled, Overtaken, Depth, InsertPCs
  <1>4. WrapInv' /\ RoomInv' /\ RecsInv' /\ PanicOnlyIfOvertaken'
    BY DEF IInv, TypeOK, WrapInv, WrapOK, RoomInv, RoomOK, RecsInv, PanicOnlyIfOvertaken,
           Overtaken, Depth, ToWrap, Avail, Unconsumed
  <1> QED
    BY <1>1, <1>2, <1>3, <1>4 DEF IInv

LEMMA SetCpuMaskInv ==
    ASSUME IInv, ~panic, NEW m \in SUBSET CPUS, SetCpuMask(m)
    PROVE  IInv'
  <1> USE SizeAssumption DEF SetCpuMask, GoTo, mask, ring, lost, call, irq
  <1>1. TypeOK'
    BY DEF IInv, TypeOK, PCs, LockedPCs, InsertPCs
  <1>2. AllocInv' /\ NestInv' /\ SweepInv'
    BY DEF IInv, TypeOK, AllocInv, NestInv, SweepInv, Depth
  <1>3. CallInv'
    BY DEF IInv, TypeOK, CallInv, CallOK, BeingDisabled, Overtaken, Depth, InsertPCs
  <1>4. WrapInv' /\ RoomInv' /\ RecsInv' /\ PanicOnlyIfOvertaken'
    BY DEF IInv, TypeOK, WrapInv, WrapOK, RoomInv, RoomOK, RecsInv, PanicOnlyIfOvertaken,
           Overtaken, Depth, ToWrap, Avail, Unconsumed
  <1> QED
    BY <1>1, <1>2, <1>3, <1>4 DEF IInv

LEMMA SetEvtMaskInv ==
    ASSUME IInv, ~panic, NEW m \in SUBSET Events, SetEvtMask(m)
    PROVE  IInv'
  <1> USE SizeAssumption DEF SetEvtMask, GoTo, mask, ring, lost, call, irq
  <1>1. TypeOK'
    BY DEF IInv, TypeOK, PCs, LockedPCs, InsertPCs
  <1>2. AllocInv' /\ NestInv' /\ SweepInv'
    BY DEF IInv, TypeOK, AllocInv, NestInv, SweepInv, Depth
  <1>3. CallInv'
    BY DEF IInv, TypeOK, CallInv, CallOK, BeingDisabled, Overtaken, Depth, InsertPCs
  <1>4. WrapInv' /\ RoomInv' /\ RecsInv' /\ PanicOnlyIfOvertaken'
    BY DEF IInv, TypeOK, WrapInv, WrapOK, RoomInv, RoomOK, RecsInv, PanicOnlyIfOvertaken,
           Overtaken, Depth, ToWrap, Avail, Unconsumed
  <1> QED
    BY <1>1, <1>2, <1>3, <1>4 DEF IInv

LEMMA NextRecordInv ==
    ASSUME IInv, ~panic, NEW c \in CPUS, NextRecord(c)
    PROVE  IInv'
  <1> USE SizeAssumption DEF NextRecord, GoTo, mask, ring, lost, call, irq
  <1>1. TypeOK'
    BY DEF IInv, TypeOK, PCs, LockedPCs, InsertPCs
  <1>2. AllocInv' /\ NestInv' /\ SweepInv'
    BY DEF IInv, TypeOK, AllocInv, NestInv, SweepInv, Depth
  <1>3. CallInv'
    <2>1. \A d \in CPUS : Overtaken(d)' = Overtaken(d)
      BY DEF Overtaken, Depth
    <2>2. page'[c] = "null" => Overtaken(c)
      BY OffOvertaken DEF IInv, TypeOK, InsertPCs
    <2> QED
      BY <2>1, <2>2 DEF IInv, TypeOK, CallInv, CallOK, BeingDisabled, InsertPCs
  <1>4. WrapInv' /\ RoomInv' /\ RecsInv' /\ PanicOnlyIfOvertaken'
    BY DEF IInv, TypeOK, WrapInv, WrapOK, RoomInv, RoomOK, RecsInv, PanicOnlyIfOvertaken,
           Overtaken, Depth, ToWrap, Avail, Unconsumed
  <1> QED
    BY <1>1, <1>2, <1>3, <1>4 DEF IInv

LEMMA BugOnInv ==
    ASSUME IInv, ~panic, NEW c \in CPUS, BugOn(c)
    PROVE  IInv'
  <1> USE SizeAssumption DEF BugOn, GoTo, mask, ring, lost, call, irq
  <1>1. TypeOK'
    BY DEF IInv, TypeOK, PCs, LockedPCs, InsertPCs
  <1>2. AllocInv' /\ NestInv' /\ SweepInv'
    BY DEF IInv, TypeOK, AllocInv, NestInv, SweepInv, Depth
  <1>3. CallInv'
    BY DEF IInv, TypeOK, CallInv, CallOK, BeingDisabled, Overtaken, Depth, InsertPCs
  <1>4. WrapInv' /\ RoomInv' /\ RecsInv'
    BY DEF IInv, TypeOK, WrapInv, WrapOK, RoomInv, RoomOK, RecsInv, Overtaken, Depth, ToWrap,
           Avail, Unconsumed
  <1>5. PanicOnlyIfOvertaken'
    <2>1. pc[c] # "wrap_lost"
      BY DEF IInv, WrapInv, WrapOK, WrapBug, WrapLimit, TypeOK, ToWrap, WrapAt
    <2>2. WrapBug(c) /\ Overtaken(c)
      BY <2>1, WrapNat DEF IInv, WrapInv, WrapOK, WrapBug, WrapLimit, TypeOK, CallInv, CallOK, ToWrap, Pos
    <2>3. WrapBug(c)' /\ Overtaken(c)'
      BY <2>2 DEF WrapBug, WrapLimit, ToWrap, Overtaken, Depth
    <2> QED
      BY <2>3 DEF PanicOnlyIfOvertaken
  <1> QED
    BY <1>1, <1>2, <1>3, <1>4, <1>5 DEF IInv

LEMMA EnableInv ==
    ASSUME IInv, ~panic, Enable
    PROVE  IInv'
  <1> USE SizeAssumption DEF Enable, GoTo, mask, ring, lost, call, irq
  <1>0. \A d \in CPUS : d \in Nat /\ d < CtlIdle
    BY CpuAssumption DEF CPUS, CtlIdle
  <1>1. TypeOK'
    BY DEF IInv, TypeOK, PCs, LockedPCs, InsertPCs
  <1>2. AllocInv' /\ NestInv' /\ SweepInv'
    BY DEF IInv, TypeOK, AllocInv, NestInv, SweepInv, Depth
  <1>3. CallInv'
    BY <1>0 DEF IInv, TypeOK, CallInv, CallOK, BeingDisabled, Overtaken, Depth, InsertPCs, LockedPCs, Locked
  <1>4. WrapInv'
    BY <1>0 DEF IInv, TypeOK, CallInv, CallOK, WrapInv, WrapOK, Overtaken, Depth, ToWrap, Locked,
                LockedPCs, InsertPCs
  <1>5. RoomInv' /\ RecsInv'
    BY DEF IInv, TypeOK, RoomInv, RoomOK, RecsInv, ToWrap, Avail, Unconsumed
  <1>6. PanicOnlyIfOvertaken'
    BY DEF IInv, PanicOnlyIfOvertaken
  <1> QED
    BY <1>1, <1>2, <1>3, <1>4, <1>5, <1>6 DEF IInv

LEMMA DisableStartInv ==
    ASSUME IInv, ~panic, DisableStart
    PROVE  IInv'
  <1> USE SizeAssumption DEF DisableStart, GoTo, mask, ring, lost, call, irq
  <1>0. \A d \in CPUS : d \in Nat /\ d < CtlIdle
    BY CpuAssumption DEF CPUS, CtlIdle
  <1>1. TypeOK'
    <2>1. ctl' \in 0 .. CtlIdle
      BY CpuAssumption DEF CtlIdle
    <2>2. owed' \in [CPUS -> Nat] /\ overtaken' \in [CPUS -> Nat]
      BY DEF IInv, TypeOK, Depth
    <2> QED
      BY <2>1, <2>2 DEF IInv, TypeOK
  <1>2. AllocInv' /\ NestInv' /\ SweepInv'
    BY DEF IInv, TypeOK, AllocInv, NestInv, SweepInv, Depth
  <1>3. CallInv'
    BY <1>0 DEF IInv, TypeOK, CallInv, CallOK, BeingDisabled, Overtaken, Depth, InsertPCs, LockedPCs, Locked
  <1>4. WrapInv'
    BY <1>0 DEF IInv, TypeOK, CallInv, CallOK, WrapInv, WrapOK, Overtaken, Depth, ToWrap, Locked,
                LockedPCs, InsertPCs
  <1>5. RoomInv' /\ RecsInv'
    BY DEF IInv, TypeOK, RoomInv, RoomOK, RecsInv, ToWrap, Avail, Unconsumed
  <1>6. PanicOnlyIfOvertaken'
    BY DEF IInv, PanicOnlyIfOvertaken
  <1> QED
    BY <1>1, <1>2, <1>3, <1>4, <1>5, <1>6 DEF IInv

LEMMA DisableClearInv ==
    ASSUME IInv, ~panic, DisableClear
    PROVE  IInv'
  <1> USE SizeAssumption DEF DisableClear, GoTo, mask, ring, lost, call, irq
  <1>0. \A d \in CPUS : d \in Nat /\ d < CtlIdle
    BY CpuAssumption DEF CPUS, CtlIdle
  <1>1. TypeOK'
    <2>1. ctl \in CPUS /\ ctl' \in 0 .. CtlIdle
      BY CpuAssumption DEF IInv, TypeOK, CtlIdle, CPUS
    <2>2. lost_records' \in [CPUS -> Nat] /\ missed' \in [CPUS -> Nat]
      BY DEF IInv, TypeOK
    <2> QED
      BY <2>1, <2>2 DEF IInv, TypeOK
  <1>2. AllocInv' /\ NestInv' /\ SweepInv'
    BY DEF IInv, TypeOK, AllocInv, NestInv, SweepInv, Depth
  <1>3. CallInv'
    BY <1>0 DEF IInv, TypeOK, CallInv, CallOK, BeingDisabled, Overtaken, Depth, InsertPCs, LockedPCs, Locked
  <1>4. WrapInv'
    BY <1>0 DEF IInv, TypeOK, CallInv, CallOK, WrapInv, WrapOK, Overtaken, Depth, ToWrap, Locked,
                LockedPCs, InsertPCs
  <1>5. RoomInv' /\ RecsInv'
    BY DEF IInv, TypeOK, RoomInv, RoomOK, RecsInv, ToWrap, Avail, Unconsumed
  <1>6. PanicOnlyIfOvertaken'
    BY DEF IInv, PanicOnlyIfOvertaken
  <1> QED
    BY <1>1, <1>2, <1>3, <1>4, <1>5, <1>6 DEF IInv

\* The dry run leaves room for every record the call goes on to write.
LEMMA TraceReserveInv ==
    ASSUME IInv, ~panic, NEW c \in CPUS, TraceReserve(c)
    PROVE  IInv'
  <1> USE SizeAssumption DEF TraceReserve, Fits, GoTo, mask, ring, lost, call, irq
  <1>0. /\ ToWrap(c) \in 1 .. DataSize
        /\ ev[c] \in Events
        /\ RecSize[ev[c]] \in Nat \ {0}
        /\ LostRecSize + RecSize[ev[c]] <= DataSize
    BY WrapNat DEF IInv, TypeOK, CallInv, CallOK, ToWrap, Pos
  <1>1. TypeOK'
    <2>1. to_wrap' \in [CPUS -> 0 .. DataSize]
      BY <1>0 DEF IInv, TypeOK
    <2>2. pc' \in [CPUS -> PCs]
      BY DEF IInv, TypeOK, PCs, LockedPCs, InsertPCs
    <2> QED
      BY <2>1, <2>2 DEF IInv, TypeOK
  <1>2. AllocInv' /\ NestInv' /\ SweepInv' /\ RecsInv' /\ PanicOnlyIfOvertaken'
    BY DEF IInv, TypeOK, AllocInv, NestInv, SweepInv, Depth, RecsInv, PanicOnlyIfOvertaken, Unconsumed
  <1>3. CallInv'
    BY DEF IInv, TypeOK, CallInv, CallOK, BeingDisabled, Overtaken, Depth, InsertPCs
  <1>4. WrapInv'
    <2>1. \A d \in CPUS : Overtaken(d)' = Overtaken(d)
      BY DEF IInv, TypeOK, Overtaken, Depth
    <2>2. /\ UNCHANGED <<prod, ev>>
          /\ \A d \in CPUS \ {c} : pc'[d] = pc[d] /\ to_wrap'[d] = to_wrap[d]
          /\ to_wrap'[c] = ToWrap(c)
          /\ pc'[c] = IF lost_records[c] > 0
                      THEN IF LostRecSize > ToWrap(c) THEN "wrap_lost" ELSE "lost"
                      ELSE IF RecSize[ev[c]] > ToWrap(c) THEN "wrap_rec" ELSE "rec"
      BY DEF IInv, TypeOK
    <2> HIDE DEF TraceReserve
    <2>3. \A d \in CPUS : ToWrap(d)' = ToWrap(d)
      BY <2>2 DEF ToWrap
    <2>4. \A d \in CPUS \ {c} : WrapOK(d)'
      BY <2>1, <2>2, <2>3 DEF IInv, WrapInv, WrapOK
    <2>5. WrapOK(c)'
      BY <1>0, <2>2, <2>3 DEF WrapOK
    <2> QED
      BY <2>4, <2>5 DEF WrapInv
  <1>5. RoomInv'
    <2>1. UNCHANGED <<prod, cons, ev>>
      OBVIOUS
    <2>2. \A d \in CPUS : d # c => pc'[d] = pc[d] /\ to_wrap'[d] = to_wrap[d]
      BY DEF IInv, TypeOK
    <2>3. pc'[c] = "wrap_lost" => ToWrap(c) + LostRecSize + RecSize[ev[c]] <= Avail(c)
      BY <1>0 DEF IInv, TypeOK, TotalSize, RecTotal, WrapAfterLost, Avail, Unconsumed, Dist
    <2>4. pc'[c] = "lost" =>
             LostRecSize + RecTotal(WrapAfterLost(to_wrap'[c]), RecSize[ev[c]]) <= Avail(c)
      BY <1>0 DEF IInv, TypeOK, TotalSize
    <2>5. pc'[c] = "wrap_rec" => ToWrap(c) + RecSize[ev[c]] <= Avail(c)
      BY <1>0 DEF IInv, TypeOK, TotalSize, RecTotal
    <2>6. pc'[c] = "rec" => RecSize[ev[c]] <= Avail(c)
      BY <1>0 DEF IInv, TypeOK, TotalSize, RecTotal
    <2> QED
      BY <2>1, <2>2, <2>3, <2>4, <2>5, <2>6
      DEF IInv, RoomInv, RoomOK, ToWrap, Avail, Unconsumed
  <1> QED
    BY <1>1, <1>2, <1>3, <1>4, <1>5 DEF IInv

\* What __insert_record does on a call that has room: prod moves size words on,
\* or stays.
Inserted(c, size) ==
    /\ prod' \in [CPUS -> Pos]
    /\ recs' \in [CPUS -> Seq(Records)]
    /\ page' \in [CPUS -> {"unset", "ok", "null"}]
    /\ page'[c] = "unset"
    /\ \A d \in CPUS : d # c => /\ prod'[d] = prod[d]
                                /\ recs'[d] = recs[d]
                                /\ page'[d] = page[d]
    /\ Inserts(c, size) => /\ prod'[c] = Advance(prod[c], size)
                           /\ Unconsumed(c)' = Unconsumed(c) + size
    /\ ~Inserts(c, size) => prod'[c] = prod[c] /\ recs'[c] = recs[c]
    /\ cons' = cons
    /\ RecsInv'

LEMMA InsertFacts ==
    ASSUME IInv, NEW c \in CPUS, NEW kind \in {"event", "wrap", "lost"},
           NEW e \in Events \cup {NoEvent}, NEW n \in Nat, NEW size \in Nat \ {0},
           Inserts(c, size) => size <= Avail(c),
           InsertRecord(c, kind, e, n, size)
    PROVE  Inserted(c, size)
  <1> USE SizeAssumption DEF InsertRecord
  <1> DEFINE next == Advance(prod[c], size)
             rec  == [kind |-> kind, ev |-> e, n |-> n, end |-> next]
  <1>1. prod[c] \in Pos /\ cons[c] \in Pos
    BY DEF IInv, TypeOK, Pos
  <1>2. Unconsumed(c) \in Nat
    BY <1>1, DistNat DEF Unconsumed
  <1>3. CASE ~Inserts(c, size)
    <2>1. UNCHANGED <<prod, recs, cons>>
      BY <1>3
    <2> QED
      BY <1>3, <2>1 DEF IInv, TypeOK, RecsInv, Unconsumed, Pos, Inserted
  <1>4. CASE Inserts(c, size)
    <2>1. /\ prod' = [prod EXCEPT ![c] = next]
          /\ recs' = [recs EXCEPT ![c] = Append(@, rec)]
          /\ UNCHANGED cons
      BY <1>4
    <2>2. next \in Pos /\ Dist(next, cons[c]) = Unconsumed(c) + size
      BY <1>1, <1>2, <1>4, AdvanceDist DEF Avail, Unconsumed
    <2>3. rec \in Records
      BY <2>2 DEF Records, Pos
    <2>4. prod' \in [CPUS -> Pos] /\ prod'[c] = next
      BY <2>1, <2>2 DEF IInv, TypeOK, Pos
    <2>5. recs[c] \in Seq(Records) /\ recs'[c] = Append(recs[c], rec)
      BY <2>1 DEF IInv, TypeOK
    <2>6. recs' \in [CPUS -> Seq(Records)]
      BY <2>1, <2>3, <2>5 DEF IInv, TypeOK
    <2>7. page' \in [CPUS -> {"unset", "ok", "null"}] /\ page'[c] = "unset"
      BY DEF IInv, TypeOK
    <2>8. \A d \in CPUS : d # c => /\ prod'[d] = prod[d]
                                   /\ recs'[d] = recs[d]
                                   /\ page'[d] = page[d]
      BY <2>1 DEF IInv, TypeOK
    <2>9. Unconsumed(c)' = Unconsumed(c) + size
      BY <2>1, <2>2, <2>4 DEF Unconsumed
    <2>10. RecsInv'
      <3> SUFFICES ASSUME NEW d \in CPUS
          PROVE /\ recs'[d] = <<>> => prod'[d] = cons'[d]
                /\ recs'[d] # <<>> => recs'[d][Len(recs'[d])].end = prod'[d]
                /\ \A i \in 1 .. Len(recs'[d]) :
                      Dist(recs'[d][i].end, cons'[d]) \in 1 .. Unconsumed(d)'
                /\ \A i, j \in 1 .. Len(recs'[d]) :
                      i < j => Dist(recs'[d][i].end, cons'[d]) < Dist(recs'[d][j].end, cons'[d])
        BY DEF RecsInv
      <3>1. CASE d # c
        BY <3>1, <2>1, <2>8 DEF IInv, RecsInv, Unconsumed
      <3>2. CASE d = c
        <4> DEFINE s == recs[c]
                   t == Append(s, rec)
        <4>1. /\ Len(t) = Len(s) + 1
              /\ t[Len(t)] = rec
              /\ \A i \in 1 .. Len(s) : t[i] = s[i]
              /\ Len(s) \in Nat
          BY <2>3, <2>5
        <4>2. \A i \in 1 .. Len(s) : Dist(s[i].end, cons[c]) \in 1 .. Unconsumed(c)
          BY DEF IInv, RecsInv
        <4>3. \A i, j \in 1 .. Len(s) :
                i < j => Dist(s[i].end, cons[c]) < Dist(s[j].end, cons[c])
          BY DEF IInv, RecsInv
        <4>4. t # <<>> /\ t[Len(t)].end = next
          <5>1. t # <<>>
            BY <2>3, <2>5
          <5>2. rec.end = next
            OBVIOUS
          <5> QED
            BY <5>1, <5>2, <4>1
        <4>5. Len(s) \in Nat /\ Len(t) = Len(s) + 1
          BY <4>1
        <4> HIDE DEF t, s, next, InsertRecord
        <4>6. \A i \in 1 .. Len(t) : i \in 1 .. Len(s) \/ i = Len(t)
          BY <4>5
        <4>7. \A i \in 1 .. Len(t) :
                Dist(t[i].end, cons[c]) \in 1 .. Unconsumed(c) + size
          <5> SUFFICES ASSUME NEW i \in 1 .. Len(t)
              PROVE Dist(t[i].end, cons[c]) \in 1 .. Unconsumed(c) + size
            OBVIOUS
          <5>1. CASE i \in 1 .. Len(s)
            <6>1. Dist(s[i].end, cons[c]) \in 1 .. Unconsumed(c)
              BY <5>1, <4>2
            <6>2. t[i] = s[i]
              BY <5>1, <4>1
            <6> QED
              BY <6>1, <6>2, <1>2
          <5>2. CASE i = Len(t)
            <6>1. t[i].end = next
              BY <5>2, <4>4
            <6> QED
              BY <6>1, <2>2, <1>2
          <5> QED
            BY <5>1, <5>2, <4>6
        <4>8. \A i, j \in 1 .. Len(t) :
                i < j => Dist(t[i].end, cons[c]) < Dist(t[j].end, cons[c])
          <5> SUFFICES ASSUME NEW i \in 1 .. Len(t), NEW j \in 1 .. Len(t), i < j
              PROVE Dist(t[i].end, cons[c]) < Dist(t[j].end, cons[c])
            OBVIOUS
          <5>1. i \in 1 .. Len(s) /\ t[i] = s[i]
            BY <4>1, <4>5
          <5>2. CASE j \in 1 .. Len(s)
            BY <5>1, <5>2, <4>1, <4>3
          <5>3. CASE j = Len(t)
            <6>1. t[j].end = next
              BY <5>3, <4>4
            <6>2. Dist(t[i].end, cons[c]) \in 1 .. Unconsumed(c)
              BY <5>1, <4>2
            <6> QED
              BY <6>1, <6>2, <2>2, <1>2
          <5> QED
            BY <5>2, <5>3, <4>6
        <4>9. recs'[d] = t /\ prod'[d] = next /\ cons'[d] = cons[c]
          BY <3>2, <2>1, <2>4, <2>5 DEF t, s
        <4> QED
          BY <3>2, <4>7, <4>8, <4>4, <4>9, <2>9
      <3> QED
        BY <3>1, <3>2
    <2> QED
      BY <1>4, <2>1, <2>4, <2>6, <2>7, <2>8, <2>9, <2>10 DEF Inserted
  <1> QED
    BY <1>3, <1>4


\* What holds of the sizes and positions in a call that is inserting.
LEMMA CallFacts ==
    ASSUME IInv, NEW c \in CPUS, pc[c] \in InsertPCs
    PROVE  /\ ev[c] \in Events
           /\ RecSize[ev[c]] \in Nat \ {0}
           /\ LostRecSize + RecSize[ev[c]] <= DataSize
           /\ prod[c] \in Pos
           /\ cons[c] \in Pos
           /\ Unconsumed(c) \in Nat
           /\ ToWrap(c) \in 1 .. DataSize
  <1>1. prod[c] \in Pos /\ cons[c] \in Pos
    BY DEF IInv, TypeOK, Pos
  <1>2. ev[c] \in Events
    BY DEF IInv, CallInv, CallOK, InsertPCs
  <1>3. Unconsumed(c) \in Nat /\ ToWrap(c) \in 1 .. DataSize
    BY <1>1, DistNat, WrapNat DEF Unconsumed, ToWrap
  <1> QED
    BY <1>1, <1>2, <1>3, SizeAssumption

\* An insertion on CPU c concerns c alone.
LEMMA InsertFrame ==
    ASSUME IInv, NEW c \in CPUS, NEW size \in Nat, Inserted(c, size),
           NEW l \in PCs, pc' = [pc EXCEPT ![c] = l], pc[c] # "idle",
           NEW w \in 0 .. DataSize, to_wrap' = [to_wrap EXCEPT ![c] = w],
           NEW x \in Nat, lost_records' = [lost_records EXCEPT ![c] = x],
           NEW y \in Nat, missed' = [missed EXCEPT ![c] = y],
           NEW z \in Nat, owed' = [owed EXCEPT ![c] = z],
           ~panic, l # "idle",
           UNCHANGED <<tb_init_done, mask, t_bufs, ev, below, ctl, irq, panic, stack,
                       overtaken>>
    PROVE  /\ TypeOK'
           /\ AllocInv'
           /\ NestInv'
           /\ SweepInv'
           /\ RecsInv'
           /\ PanicOnlyIfOvertaken'
           /\ \A d \in CPUS \ {c} : CallOK(d)' /\ WrapOK(d)' /\ RoomOK(d)'
           /\ pc'[c] = l
           /\ to_wrap'[c] = w
           /\ lost_records'[c] = x
           /\ Overtaken(c)' <=> Overtaken(c)
  <1> USE DEF mask, irq
  <1>1. TypeOK'
    BY DEF IInv, TypeOK, Inserted, Pos
  <1>2. AllocInv' /\ PanicOnlyIfOvertaken'
    BY DEF IInv, AllocInv, PanicOnlyIfOvertaken
  <1>3. \A d \in CPUS \ {c} : /\ pc'[d] = pc[d]
                              /\ to_wrap'[d] = to_wrap[d]
                              /\ lost_records'[d] = lost_records[d]
                              /\ page'[d] = page[d]
                              /\ prod'[d] = prod[d]
                              /\ cons'[d] = cons[d]
    BY DEF IInv, TypeOK, Inserted
  <1>4. \A d \in CPUS \ {c} : CallOK(d)'
    BY <1>3 DEF IInv, CallInv, CallOK, BeingDisabled, Overtaken, Depth
  <1>5. \A d \in CPUS \ {c} : WrapOK(d)' /\ RoomOK(d)'
    BY <1>3 DEF IInv, WrapInv, WrapOK, RoomInv, RoomOK, ToWrap, Avail, Unconsumed,
                Overtaken, Depth
  <1>6. pc'[c] = l /\ to_wrap'[c] = w /\ lost_records'[c] = x
    BY DEF IInv, TypeOK
  <1>7. /\ \A d \in CPUS : Depth(d)' = Depth(d)
        /\ Overtaken(c)' <=> Overtaken(c)
    BY <1>3, <1>6 DEF Depth, Overtaken
  <1>8. NestInv' /\ SweepInv'
    BY <1>7 DEF IInv, NestInv, SweepInv
  <1> QED
    BY <1>1, <1>2, <1>4, <1>5, <1>6, <1>7, <1>8 DEF Inserted

LEMMA InsertWrapForLostInv ==
    ASSUME IInv, ~panic, NEW c \in CPUS, InsertWrapForLost(c)
    PROVE  IInv'
  <1> DEFINE size == ToWrap(c)
             rsz  == RecSize[ev[c]]
  <1>0. /\ pc[c] = "wrap_lost"
        /\ InsertRecord(c, "wrap", NoEvent, 0, size)
        /\ to_wrap' = [to_wrap EXCEPT ![c] = DataSize]
        /\ pc' = [pc EXCEPT ![c] = "lost"]
        /\ UNCHANGED <<tb_init_done, mask, t_bufs, lost_records, missed, owed, ev,
                       below, ctl, irq, panic, stack, overtaken>>
    BY DEF InsertWrapForLost, GoTo, lost
  <1>1. /\ ev[c] \in Events
        /\ rsz \in Nat \ {0}
        /\ LostRecSize + rsz <= DataSize
        /\ Unconsumed(c) \in Nat
        /\ size \in 1 .. DataSize
    BY <1>0, CallFacts DEF InsertPCs
  <1>2. /\ size + LostRecSize + rsz <= Avail(c)
        /\ lost_records[c] > 0 /\ lost_records[c] \in Nat /\ missed[c] \in Nat /\ owed[c] \in Nat
    BY <1>0 DEF IInv, RoomInv, RoomOK, CallInv, CallOK, TypeOK
  <1>3. Inserted(c, size)
    <2>1. size \in Nat \ {0} /\ size <= Avail(c)
      BY <1>1, <1>2, SizeAssumption DEF Avail
    <2> HIDE DEF size
    <2> QED
      BY <1>0, <2>1, InsertFacts
  <1> HIDE DEF size, rsz
  <1>4. /\ lost_records' = [lost_records EXCEPT ![c] = lost_records[c]]
        /\ missed' = [missed EXCEPT ![c] = missed[c]]
        /\ owed' = [owed EXCEPT ![c] = owed[c]]
    BY <1>0 DEF IInv, TypeOK
  <1>5. /\ TypeOK' /\ AllocInv' /\ NestInv' /\ SweepInv' /\ RecsInv' /\ PanicOnlyIfOvertaken'
        /\ \A d \in CPUS \ {c} : CallOK(d)' /\ WrapOK(d)' /\ RoomOK(d)'
        /\ pc'[c] = "lost" /\ to_wrap'[c] = DataSize
        /\ lost_records'[c] = lost_records[c]
    <2>1. "lost" \in PCs /\ DataSize \in 0 .. DataSize /\ size \in Nat
      BY <1>1, <1>2, SizeAssumption DEF PCs, LockedPCs, InsertPCs
    <2>2. UNCHANGED <<tb_init_done, mask, t_bufs, ev, below, ctl, irq, panic, stack,
                       overtaken>>
      BY <1>0
    <2>3. pc[c] # "idle"
      BY <1>0
    <2>4. /\ pc' = [pc EXCEPT ![c] = "lost"]
          /\ to_wrap' = [to_wrap EXCEPT ![c] = DataSize]
      BY <1>0
    <2> QED
      BY <1>2, <1>3, <1>4, <2>1, <2>2, <2>3, <2>4, InsertFrame
  <1>6. CallOK(c)'
    BY <1>0, <1>1, <1>2, <1>3, <1>5 DEF CallOK, BeingDisabled, Inserted, InsertPCs
  <1>7. WrapOK(c)'
    BY <1>5 DEF WrapOK
  <1>8. RoomOK(c)'
    <2>1. Unconsumed(c)' \in Nat /\ Unconsumed(c)' <= Unconsumed(c) + size
      BY <1>1, <1>3 DEF Inserted, Unconsumed
    <2>2. LostRecSize + rsz <= Avail(c)' /\ Unconsumed(c)' <= DataSize
      BY <1>1, <1>2, <2>1, SizeAssumption DEF Avail
    <2>3. RecTotal(WrapAfterLost(DataSize), rsz) = rsz
      BY <1>1, SizeAssumption DEF RecTotal, WrapAfterLost
    <2> QED
      BY <1>0, <1>5, <2>2, <2>3 DEF RoomOK, rsz
  <1> QED
    BY <1>5, <1>6, <1>7, <1>8 DEF IInv, CallInv, WrapInv, RoomInv

LEMMA InsertLostRecordsInv ==
    ASSUME IInv, ~panic, NEW c \in CPUS, InsertLostRecords(c)
    PROVE  IInv'
  <1> DEFINE size == LostRecSize
             rsz  == RecSize[ev[c]]
             wrap == WrapAfterLost(to_wrap[c])
             next == IF rsz > wrap THEN "wrap_rec" ELSE "rec"
             miss == IF Inserts(c, LostRecSize) THEN 0 ELSE missed[c]
             due  == IF Inserts(c, LostRecSize) THEN 0 ELSE owed[c]
  <1>0. /\ pc[c] = "lost"
        /\ InsertRecord(c, "lost", NoEvent, lost_records[c], LostRecSize)
        /\ lost_records' = [lost_records EXCEPT ![c] = 0]
        /\ missed' = [missed EXCEPT ![c] = miss]
        /\ owed' = [owed EXCEPT ![c] = due]
        /\ to_wrap' = [to_wrap EXCEPT ![c] = wrap]
        /\ pc' = [pc EXCEPT ![c] = next]
        /\ UNCHANGED <<tb_init_done, mask, t_bufs, ev, below, ctl, irq, panic, stack,
                       overtaken>>
    BY DEF InsertLostRecords, LostCount, GoTo
  <1>1. /\ ev[c] \in Events
        /\ rsz \in Nat \ {0}
        /\ LostRecSize + rsz <= DataSize
        /\ Unconsumed(c) \in Nat
        /\ ToWrap(c) \in 1 .. DataSize
        /\ prod[c] \in Pos
    BY <1>0, CallFacts DEF InsertPCs
  <1>2. /\ \/ to_wrap[c] = DataSize
           \/ to_wrap[c] = ToWrap(c) /\ LostRecSize <= ToWrap(c)
        /\ LostRecSize + RecTotal(wrap, rsz) <= Avail(c)
        /\ lost_records[c] \in Nat /\ missed[c] \in Nat /\ owed[c] \in Nat
        /\ page[c] = "null" => Overtaken(c)
        /\ page[c] # "unset" /\ page[c] \in {"unset", "ok", "null"}
    BY <1>0 DEF IInv, RoomInv, RoomOK, WrapInv, WrapOK, CallInv, CallOK, TypeOK,
                InsertRecord
  <1>3. wrap \in 1 .. DataSize /\ RecTotal(wrap, rsz) \in Nat /\ rsz <= RecTotal(wrap, rsz)
    BY <1>1, <1>2, SizeAssumption DEF WrapAfterLost, RecTotal
  <1>4. LostRecSize <= Avail(c)
    BY <1>1, <1>2, <1>3, SizeAssumption DEF Avail
  <1>5. Inserted(c, LostRecSize)
    BY <1>0, <1>2, <1>4, InsertFacts, SizeAssumption
  <1>6. miss \in Nat /\ due \in Nat
    BY <1>2
  <1>7. next \in PCs /\ next # "idle"
    BY DEF PCs, LockedPCs, InsertPCs
  <1> HIDE DEF next, wrap, miss, due, rsz
  <1>8. /\ TypeOK' /\ AllocInv' /\ NestInv' /\ SweepInv' /\ RecsInv' /\ PanicOnlyIfOvertaken'
        /\ \A d \in CPUS \ {c} : CallOK(d)' /\ WrapOK(d)' /\ RoomOK(d)'
        /\ pc'[c] = next /\ to_wrap'[c] = wrap
        /\ lost_records'[c] = 0
        /\ Overtaken(c)' <=> Overtaken(c)
    <2>1. pc[c] # "idle" /\ wrap \in 0 .. DataSize /\ LostRecSize \in Nat /\ 0 \in Nat
      BY <1>0, <1>3, SizeAssumption
    <2> QED
      BY <1>0, <1>5, <1>6, <1>7, <2>1, InsertFrame
  <1>9. CallOK(c)'
    BY <1>0, <1>1, <1>5, <1>8 DEF CallOK, BeingDisabled, Inserted, InsertPCs, next
  \* After a full line-up, or a wrap record skipped, no wrap record is due.
  <1>10. next = "wrap_rec" => /\ to_wrap[c] = ToWrap(c)
                              /\ LostRecSize < ToWrap(c)
                              /\ wrap = ToWrap(c) - LostRecSize
    BY <1>1, <1>2, SizeAssumption DEF next, wrap, WrapAfterLost
  <1>11. CASE Inserts(c, LostRecSize)
    <2>1. Unconsumed(c)' = Unconsumed(c) + LostRecSize
      BY <1>5, <1>11 DEF Inserted
    <2>2. next = "wrap_rec" => ToWrap(c)' = wrap
      BY <1>1, <1>5, <1>10, <1>11, WrapAdvance, SizeAssumption DEF Inserted, ToWrap
    <2>3. next = "wrap_rec" => wrap < rsz /\ RecTotal(wrap, rsz) = wrap + rsz
      BY <1>1, <1>3 DEF next, RecTotal
    <2>4. RecTotal(wrap, rsz) <= Avail(c)' /\ Unconsumed(c)' <= DataSize
      BY <1>1, <1>2, <1>3, <2>1, SizeAssumption DEF Avail
    <2>5. WrapOK(c)'
      BY <1>0, <1>8, <2>2, <2>3 DEF WrapOK, next, rsz
    <2>6. RoomOK(c)'
      <3>1. rsz <= Avail(c)'
        BY <1>1, <1>3, <2>1, <2>4, SizeAssumption DEF Avail
      <3> QED
        BY <1>0, <1>8, <2>2, <2>3, <2>4, <3>1 DEF RoomOK, next, rsz
    <2> QED
      BY <1>8, <1>9, <2>5, <2>6 DEF IInv, CallInv, WrapInv, RoomInv
  <1>12. CASE ~Inserts(c, LostRecSize)
    <2>1. UNCHANGED <<prod[c], cons[c]>>
      BY <1>5, <1>12 DEF Inserted
    <2>2. Unconsumed(c)' = Unconsumed(c) /\ ToWrap(c)' = ToWrap(c)
      BY <2>1 DEF Unconsumed, ToWrap
    \* The record was refused because tracing is off, not for want of space.
    <2>3. next = "wrap_rec" => Overtaken(c)'
      BY <1>1, <1>2, <1>8, <1>10, <1>12, SizeAssumption DEF Inserts
    <2>4. WrapOK(c)'
      BY <1>8, <2>3 DEF WrapOK, next
    <2>5. RoomOK(c)'
      <3>1. next = "wrap_rec" => ToWrap(c) + rsz <= Avail(c)
        BY <1>1, <1>2, <1>10, SizeAssumption DEF next, RecTotal, Avail
      <3>2. rsz <= Avail(c) /\ Unconsumed(c) <= DataSize
        BY <1>1, <1>2, <1>3, SizeAssumption DEF Avail
      <3> QED
        BY <1>0, <1>8, <2>2, <3>1, <3>2 DEF RoomOK, next, rsz, Avail
    <2> QED
      BY <1>8, <1>9, <2>4, <2>5 DEF IInv, CallInv, WrapInv, RoomInv
  <1> QED
    BY <1>11, <1>12

LEMMA InsertWrapForRecInv ==
    ASSUME IInv, ~panic, NEW c \in CPUS, InsertWrapForRec(c)
    PROVE  IInv'
  <1> DEFINE size == ToWrap(c)
             rsz  == RecSize[ev[c]]
  <1>0. /\ pc[c] = "wrap_rec"
        /\ InsertRecord(c, "wrap", NoEvent, 0, size)
        /\ pc' = [pc EXCEPT ![c] = "rec"]
        /\ UNCHANGED <<tb_init_done, mask, t_bufs, lost_records, missed, owed, ev,
                       below, to_wrap, ctl, irq, panic, stack, overtaken>>
    BY DEF InsertWrapForRec, GoTo, lost
  <1>1. /\ ev[c] \in Events
        /\ rsz \in Nat \ {0}
        /\ Unconsumed(c) \in Nat
        /\ size \in 1 .. DataSize
    BY <1>0, CallFacts DEF InsertPCs
  <1>2. /\ size + rsz <= Avail(c)
        /\ lost_records[c] \in Nat /\ missed[c] \in Nat /\ owed[c] \in Nat /\ to_wrap[c] \in 0 .. DataSize
    BY <1>0 DEF IInv, RoomInv, RoomOK, TypeOK
  <1>3. Inserted(c, size)
    <2>1. size \in Nat \ {0} /\ size <= Avail(c)
      BY <1>1, <1>2, SizeAssumption DEF Avail
    <2> HIDE DEF size
    <2> QED
      BY <1>0, <2>1, InsertFacts
  <1> HIDE DEF size, rsz
  <1>4. /\ lost_records' = [lost_records EXCEPT ![c] = lost_records[c]]
        /\ missed' = [missed EXCEPT ![c] = missed[c]]
        /\ owed' = [owed EXCEPT ![c] = owed[c]]
        /\ to_wrap' = [to_wrap EXCEPT ![c] = to_wrap[c]]
    BY <1>0 DEF IInv, TypeOK
  <1>5. /\ TypeOK' /\ AllocInv' /\ NestInv' /\ SweepInv' /\ RecsInv' /\ PanicOnlyIfOvertaken'
        /\ \A d \in CPUS \ {c} : CallOK(d)' /\ WrapOK(d)' /\ RoomOK(d)'
        /\ pc'[c] = "rec"
    <2>1. "rec" \in PCs /\ to_wrap[c] \in 0 .. DataSize /\ size \in Nat
      BY <1>1, <1>2, SizeAssumption DEF PCs, LockedPCs, InsertPCs
    <2>2. UNCHANGED <<tb_init_done, mask, t_bufs, ev, below, ctl, irq, panic, stack,
                       overtaken>>
      BY <1>0
    <2>3. pc[c] # "idle"
      BY <1>0
    <2>4. pc' = [pc EXCEPT ![c] = "rec"]
      BY <1>0
    <2> QED
      BY <1>2, <1>3, <1>4, <2>1, <2>2, <2>3, <2>4, InsertFrame
  <1>6. CallOK(c)' /\ WrapOK(c)'
    BY <1>0, <1>1, <1>3, <1>5 DEF CallOK, WrapOK, BeingDisabled, Inserted, InsertPCs
  <1>7. RoomOK(c)'
    <2>1. Unconsumed(c)' \in Nat /\ Unconsumed(c)' <= Unconsumed(c) + size
      BY <1>1, <1>3 DEF Inserted, Unconsumed
    <2>2. rsz <= Avail(c)' /\ Unconsumed(c)' <= DataSize
      BY <1>1, <1>2, <2>1, SizeAssumption DEF Avail
    <2> QED
      BY <1>0, <1>5, <2>2 DEF RoomOK, rsz
  <1> QED
    BY <1>5, <1>6, <1>7 DEF IInv, CallInv, WrapInv, RoomInv

LEMMA InsertEventInv ==
    ASSUME IInv, ~panic, NEW c \in CPUS, InsertEvent(c)
    PROVE  IInv'
  <1> DEFINE rsz  == RecSize[ev[c]]
  <1>0. /\ pc[c] = "rec"
        /\ InsertRecord(c, "event", ev[c], 0, rsz)
        /\ pc' = [pc EXCEPT ![c] = "unlock"]
        /\ UNCHANGED <<tb_init_done, mask, t_bufs, lost_records, missed, owed, ev,
                       below, to_wrap, ctl, irq, panic, stack, overtaken>>
    BY DEF InsertEvent, GoTo, lost
  <1>1. /\ ev[c] \in Events
        /\ rsz \in Nat \ {0}
        /\ Unconsumed(c) \in Nat
    BY <1>0, CallFacts DEF InsertPCs
  <1>2. /\ rsz <= Avail(c)
        /\ lost_records[c] \in Nat /\ missed[c] \in Nat /\ owed[c] \in Nat /\ to_wrap[c] \in 0 .. DataSize
    BY <1>0 DEF IInv, RoomInv, RoomOK, TypeOK
  <1>3. Inserted(c, rsz)
    BY <1>0, <1>1, <1>2, InsertFacts
  <1> HIDE DEF rsz
  <1>4. /\ lost_records' = [lost_records EXCEPT ![c] = lost_records[c]]
        /\ missed' = [missed EXCEPT ![c] = missed[c]]
        /\ owed' = [owed EXCEPT ![c] = owed[c]]
        /\ to_wrap' = [to_wrap EXCEPT ![c] = to_wrap[c]]
    BY <1>0 DEF IInv, TypeOK
  <1>5. /\ TypeOK' /\ AllocInv' /\ NestInv' /\ SweepInv' /\ RecsInv' /\ PanicOnlyIfOvertaken'
        /\ \A d \in CPUS \ {c} : CallOK(d)' /\ WrapOK(d)' /\ RoomOK(d)'
        /\ pc'[c] = "unlock"
    <2>1. "unlock" \in PCs /\ to_wrap[c] \in 0 .. DataSize /\ rsz \in Nat
      BY <1>1, <1>2, SizeAssumption DEF PCs, LockedPCs, InsertPCs
    <2>2. UNCHANGED <<tb_init_done, mask, t_bufs, ev, below, ctl, irq, panic, stack,
                       overtaken>>
      BY <1>0
    <2>3. pc[c] # "idle"
      BY <1>0
    <2>4. pc' = [pc EXCEPT ![c] = "unlock"]
      BY <1>0
    <2> QED
      BY <1>2, <1>3, <1>4, <2>1, <2>2, <2>3, <2>4, InsertFrame
  <1>6. CallOK(c)' /\ WrapOK(c)'
    BY <1>0, <1>1, <1>3, <1>5 DEF CallOK, WrapOK, Inserted
  <1>7. RoomOK(c)'
    <2>1. Unconsumed(c)' <= DataSize
      BY <1>1, <1>2, <1>3, SizeAssumption DEF Inserted, Unconsumed, Avail
    <2> QED
      BY <1>5, <2>1 DEF RoomOK
  <1> QED
    BY <1>5, <1>6, <1>7 DEF IInv, CallInv, WrapInv, RoomInv

LEMMA SetSizeInv ==
    ASSUME IInv, ~panic, NEW online \in SUBSET CPUS, 0 \in online, SetSize(online)
    PROVE  IInv'
  <1> USE SizeAssumption DEF SetSize, mask, lost, call, irq
  <1>1. \A c \in CPUS : pc[c] = "idle" /\ recs[c] = <<>>
    BY DEF IInv, AllocInv
  <1>2. TypeOK'
    <2>1. (prod \in [CPUS -> 0 .. 2 * DataSize - 1])' /\ (cons \in [CPUS -> 0 .. 2 * DataSize - 1])'
      OBVIOUS
    <2> QED
      BY <2>1 DEF IInv, TypeOK
  <1>3. AllocInv' /\ NestInv' /\ SweepInv' /\ PanicOnlyIfOvertaken'
    BY DEF IInv, AllocInv, NestInv, SweepInv, PanicOnlyIfOvertaken
  <1>4. CallInv' /\ WrapInv'
    BY <1>1 DEF IInv, CallInv, CallOK, WrapInv, WrapOK, BeingDisabled, Overtaken, Depth, InsertPCs
  <1>5. RoomInv' /\ RecsInv'
    BY <1>1 DEF RoomInv, RoomOK, RecsInv, Unconsumed, Dist
  <1> QED
    BY <1>2, <1>3, <1>4, <1>5 DEF IInv

\* Reading only ever makes room.
LEMMA ConsumeInv ==
    ASSUME IInv, ~panic, NEW c \in CPUS, Consume(c)
    PROVE  IInv'
  <1> PICK k \in 1 .. Len(recs[c]) :
        /\ cons' = [cons EXCEPT ![c] = recs[c][k].end]
        /\ recs' = [recs EXCEPT ![c] = SubSeq(@, k + 1, Len(@))]
    BY DEF Consume
  <1> DEFINE s == recs[c]
             e == s[k].end
             t == SubSeq(s, k + 1, Len(s))
  <1>0. UNCHANGED <<tb_init_done, mask, t_bufs, prod, lost, call, ctl, irq, panic,
                  overtaken>>
    BY DEF Consume
  <1>1. s \in Seq(Records) /\ Len(s) \in Nat /\ k \in 1 .. Len(s)
    BY DEF IInv, TypeOK
  <1>2. /\ \A i \in 1 .. Len(s) : s[i].end \in Pos
        /\ e \in Pos /\ cons[c] \in Pos /\ prod[c] \in Pos
    <2>1. \A i \in 1 .. Len(s) : s[i] \in Records
      BY <1>1
    <2>2. \A i \in 1 .. Len(s) : s[i].end \in Pos
      BY <2>1 DEF Records, Pos
    <2>3. cons[c] \in Pos /\ prod[c] \in Pos
      BY DEF IInv, TypeOK, Pos
    <2> HIDE DEF s
    <2> QED
      BY <1>1, <2>2, <2>3
  <1>3. /\ \A i \in 1 .. Len(s) : Dist(s[i].end, cons[c]) \in 1 .. Unconsumed(c)
        /\ \A i, j \in 1 .. Len(s) :
             i < j => Dist(s[i].end, cons[c]) < Dist(s[j].end, cons[c])
        /\ s[Len(s)].end = prod[c]
    BY <1>1 DEF IInv, RecsInv
  <1>4. cons'[c] = e /\ recs'[c] = t /\ prod'[c] = prod[c]
    BY <1>0 DEF IInv, TypeOK
  <1>5. \A d \in CPUS \ {c} : cons'[d] = cons[d] /\ recs'[d] = recs[d] /\ prod'[d] = prod[d]
    BY <1>0 DEF IInv, TypeOK
  <1>6. /\ t \in Seq(Records)
        /\ Len(t) = Len(s) - k
        /\ \A i \in 1 .. Len(t) : t[i] = s[k + i]
    BY <1>1
  <1>7. Dist(e, cons[c]) \in 1 .. Unconsumed(c) /\ Unconsumed(c) \in Nat
    BY <1>2, <1>3, DistNat DEF Unconsumed
  <1>8. Unconsumed(c)' = Unconsumed(c) - Dist(e, cons[c])
    BY <1>2, <1>4, <1>7, ConsumeDist DEF Unconsumed
  <1>9. \A i \in k .. Len(s) :
          Dist(s[i].end, e) = Dist(s[i].end, cons[c]) - Dist(e, cons[c])
    <2> SUFFICES ASSUME NEW i \in k .. Len(s)
                 PROVE  Dist(s[i].end, e) = Dist(s[i].end, cons[c]) - Dist(e, cons[c])
      OBVIOUS
    <2>1. i \in 1 .. Len(s) /\ s[i].end \in Pos
      BY <1>1, <1>2
    <2>2. Dist(e, cons[c]) <= Dist(s[i].end, cons[c])
      BY <1>1, <1>3, <1>7, <2>1
    <2> QED
      BY <1>2, <2>1, <2>2, ConsumeDist
  <1> HIDE DEF s, e, t
  <1>10. TypeOK'
    <2>1. cons' \in [CPUS -> 0 .. 2 * DataSize - 1]
      BY <1>2 DEF IInv, TypeOK, Pos, e, s
    <2>2. recs' \in [CPUS -> Seq(Records)]
      BY <1>6 DEF IInv, TypeOK, t, s
    <2> QED
      BY <1>0, <2>1, <2>2 DEF IInv, TypeOK, mask, lost, call, irq
  <1>11. AllocInv'
    <2>1. t_bufs # {}
      BY <1>1 DEF IInv, AllocInv, s
    <2> QED
      BY <1>0, <2>1 DEF AllocInv
  <1>12. NestInv' /\ SweepInv' /\ CallInv' /\ WrapInv' /\ PanicOnlyIfOvertaken'
    BY <1>0 DEF IInv, NestInv, SweepInv, CallInv, BeingDisabled, CallOK, WrapInv, WrapOK, PanicOnlyIfOvertaken,
                Overtaken, Depth, ToWrap, call, lost
  <1>13. RoomInv'
    <2>1. Avail(c) <= Avail(c)' /\ Unconsumed(c)' <= Unconsumed(c)
      BY <1>7, <1>8, SizeAssumption DEF Avail
    <2>2. \A d \in CPUS \ {c} : Unconsumed(d)' = Unconsumed(d)
      BY <1>5 DEF Unconsumed
    <2>3. UNCHANGED <<prod, pc, ev, to_wrap>>
      BY <1>0 DEF call
    <2>4. RoomOK(c)'
      <3>1. RoomOK(c)
        BY DEF IInv, RoomInv
      <3>2. ToWrap(c)' = ToWrap(c)
        BY <2>3 DEF ToWrap
      <3>3. Unconsumed(c)' \in Nat
        BY <1>7, <1>8
      <3>4. pc[c] \in InsertPCs => /\ RecSize[ev[c]] \in Nat
                                   /\ ToWrap(c) \in Nat
        BY CallFacts
      <3>5. pc[c] = "lost" => RecTotal(WrapAfterLost(to_wrap[c]), RecSize[ev[c]]) \in Int
        <4>1. to_wrap[c] \in Nat
          BY SizeAssumption DEF IInv, TypeOK
        <4> QED
          BY <3>4, <4>1, SizeAssumption DEF RecTotal, WrapAfterLost, InsertPCs
      <3> QED
        BY <1>7, <2>1, <2>3, <3>1, <3>2, <3>3, <3>4, <3>5, SizeAssumption
        DEF RoomOK, InsertPCs, Avail
    <2>5. \A d \in CPUS \ {c} : RoomOK(d)'
      BY <2>2, <2>3 DEF IInv, RoomInv, RoomOK, Avail, ToWrap
    <2> QED
      BY <2>4, <2>5 DEF RoomInv
  <1>14. RecsInv'
    <2>1. t = <<>> => prod[c] = e
      BY <1>1, <1>3, <1>6 DEF e
    <2>2. t # <<>> => t[Len(t)].end = prod[c]
      <3> SUFFICES ASSUME t # <<>> PROVE t[Len(t)].end = prod[c]
        OBVIOUS
      <3>1. Len(t) \in 1 .. Len(t)
        BY <1>6
      <3>2. t[Len(t)] = s[k + Len(t)] /\ k + Len(t) = Len(s)
        BY <1>1, <1>6, <3>1
      <3> QED
        BY <1>3, <3>2
    <2>3. \A i \in 1 .. Len(t) : Dist(t[i].end, e) \in 1 .. Unconsumed(c)'
      <3> SUFFICES ASSUME NEW i \in 1 .. Len(t)
                   PROVE  Dist(t[i].end, e) \in 1 .. Unconsumed(c)'
        OBVIOUS
      <3>1. k + i \in 1 .. Len(s) /\ k + i \in k .. Len(s) /\ k < k + i /\ t[i] = s[k + i]
        BY <1>1, <1>6
      <3>2. Dist(t[i].end, e) = Dist(s[k + i].end, cons[c]) - Dist(e, cons[c])
        BY <1>9, <3>1
      <3>3. Dist(e, cons[c]) < Dist(s[k + i].end, cons[c])
        BY <1>1, <1>3, <3>1 DEF e
      <3>4. Dist(s[k + i].end, cons[c]) \in 1 .. Unconsumed(c)
        BY <1>3, <3>1
      <3> QED
        BY <1>7, <1>8, <3>2, <3>3, <3>4
    <2>4. \A i, j \in 1 .. Len(t) : i < j => Dist(t[i].end, e) < Dist(t[j].end, e)
      <3> SUFFICES ASSUME NEW i \in 1 .. Len(t), NEW j \in 1 .. Len(t), i < j
                   PROVE  Dist(t[i].end, e) < Dist(t[j].end, e)
        OBVIOUS
      <3>1. /\ k + i \in 1 .. Len(s) /\ k + i \in k .. Len(s) /\ t[i] = s[k + i]
            /\ k + j \in 1 .. Len(s) /\ k + j \in k .. Len(s) /\ t[j] = s[k + j]
            /\ k + i < k + j
        BY <1>1, <1>6
      <3>2. /\ Dist(t[i].end, e) = Dist(s[k + i].end, cons[c]) - Dist(e, cons[c])
            /\ Dist(t[j].end, e) = Dist(s[k + j].end, cons[c]) - Dist(e, cons[c])
        BY <1>9, <3>1
      <3>3. Dist(s[k + i].end, cons[c]) < Dist(s[k + j].end, cons[c])
        BY <1>3, <3>1
      <3>4. /\ Dist(s[k + i].end, cons[c]) \in 1 .. Unconsumed(c)
            /\ Dist(s[k + j].end, cons[c]) \in 1 .. Unconsumed(c)
        BY <1>3, <3>1
      <3> QED
        BY <1>7, <3>2, <3>3, <3>4
    <2>5. \A d \in CPUS \ {c} : Unconsumed(d)' = Unconsumed(d)
      BY <1>5 DEF Unconsumed
    <2> QED
      <3> SUFFICES ASSUME NEW d \in CPUS
          PROVE /\ recs'[d] = <<>> => prod'[d] = cons'[d]
                /\ recs'[d] # <<>> => recs'[d][Len(recs'[d])].end = prod'[d]
                /\ \A i \in 1 .. Len(recs'[d]) :
                      Dist(recs'[d][i].end, cons'[d]) \in 1 .. Unconsumed(d)'
                /\ \A i, j \in 1 .. Len(recs'[d]) :
                      i < j => Dist(recs'[d][i].end, cons'[d]) < Dist(recs'[d][j].end, cons'[d])
        BY DEF RecsInv
      <3>1. CASE d = c
        BY <3>1, <1>4, <2>1, <2>2, <2>3, <2>4
      <3>2. CASE d # c
        BY <3>2, <1>5, <2>5 DEF IInv, RecsInv
      <3> QED
        BY <3>1, <3>2
  <1> QED
    BY <1>10, <1>11, <1>12, <1>13, <1>14 DEF IInv

LEMMA NextInv == IInv /\ [Next]_vars => IInv'
  <1> SUFFICES ASSUME IInv, [Next]_vars PROVE IInv'
    OBVIOUS
  <1>1. CASE UNCHANGED vars
    BY <1>1 DEF vars, mask, ring, call, lost, irq, IInv, TypeOK, AllocInv, NestInv,
                SweepInv, CallInv, CallOK, WrapInv, WrapOK, RoomInv, RoomOK, RecsInv, BeingDisabled, Overtaken, Depth,
                PanicOnlyIfOvertaken, WrapBug, WrapLimit, ToWrap, Avail, Unconsumed
  <1>2. ASSUME ~panic, NEW c \in CPUS, TraceStep(c) PROVE IInv'
    BY <1>2, TraceVarInv, TraceLockInv, TraceDropInv, TraceReserveInv, BugOnInv,
       NextRecordInv, InsertWrapForLostInv, InsertLostRecordsInv,
       InsertWrapForRecInv, InsertEventInv, TraceUnlockInv, TraceNotifyInv,
       TraceResumeInv
    DEF TraceStep, CallStep
  <1>3. ASSUME ~panic, ControlStep PROVE IInv'
    BY <1>3, MaskAssumption, SetCpuMaskInv, SetEvtMaskInv, SetSizeInv, EnableInv, DisableStartInv,
       DisableClearInv
    DEF ControlStep
  <1>4. ASSUME ~panic, HypervisorStep PROVE IInv'
    BY <1>2, <1>3, <1>4, SendVirqInv DEF HypervisorStep
  <1>5. ASSUME ~panic, ConsumerStep PROVE IInv'
    BY <1>5, ConsumeInv, AckVirqInv DEF ConsumerStep
  <1> QED
    BY <1>1, <1>4, <1>5 DEF Next, Halted

-----------------------------------------------------------------------------
(* The theorems *)

LEMMA Invariance == Spec => []IInv
  BY InitInv, NextInv, PTL DEF Spec

\* Type correctness; prod and cons never leave the range bogus() accepts.
THEOREM TypeCorrect == Spec => []TypeOK
  <1>1. IInv => TypeOK
    BY DEF IInv
  <1> QED
    BY <1>1, Invariance, PTL

\* The buffers never overflow: a record is written only over words that dom0
\* has consumed, for any interleaving of the producer with cons updates,
\* mask changes and switching tracing off and on.
THEOREM Overrun == Spec => []NoOverrun
  <1>1. IInv => NoOverrun
    <2> SUFFICES ASSUME IInv, NEW c \in CPUS
        PROVE /\ Unconsumed(c) <= DataSize
              /\ pc[c] = "rec" => RecSize[ev[c]] <= Avail(c)
              /\ pc[c] = "lost" => LostRecSize <= Avail(c)
              /\ pc[c] \in {"wrap_lost", "wrap_rec"} /\ ~WrapBug(c) => ToWrap(c) <= Avail(c)
      BY DEF NoOverrun
    <2>1. RoomOK(c)
      BY DEF IInv, RoomInv
    <2>2. ASSUME pc[c] \in InsertPCs
          PROVE  /\ RecSize[ev[c]] \in Nat /\ ToWrap(c) \in Nat /\ Unconsumed(c) \in Nat
                 /\ RecTotal(WrapAfterLost(to_wrap[c]), RecSize[ev[c]]) \in Int
                 /\ pc[c] = "lost" =>
                      0 <= RecTotal(WrapAfterLost(to_wrap[c]), RecSize[ev[c]])
      <3>1. /\ RecSize[ev[c]] \in Nat /\ ToWrap(c) \in Nat /\ Unconsumed(c) \in Nat
            /\ to_wrap[c] \in 0 .. DataSize
            /\ pc[c] = "lost" => to_wrap[c] >= LostRecSize
        <4>1. /\ RecSize[ev[c]] \in Nat /\ LostRecSize + RecSize[ev[c]] <= DataSize
              /\ ToWrap(c) \in 1 .. DataSize /\ Unconsumed(c) \in Nat
          BY <2>2, CallFacts
        <4>2. to_wrap[c] \in 0 .. DataSize /\ WrapOK(c)
          BY DEF IInv, TypeOK, WrapInv
        <4> QED
          BY <4>1, <4>2, SizeAssumption DEF WrapOK
      <3> QED
        BY <3>1, SizeAssumption DEF RecTotal, WrapAfterLost
    <2> QED
      BY <2>1, <2>2, SizeAssumption DEF RoomOK, Avail, InsertPCs
  <1> QED
    BY <1>1, Invariance, PTL

\* The BUG_ON of insert_wrap_record is confined to calls that a disable has
\* overtaken since they tested tb_init_done, however calls nest.
THEOREM PanicConfined == Spec => []PanicOnlyIfOvertaken
  <1>1. IInv => PanicOnlyIfOvertaken
    BY DEF IInv
  <1> QED
    BY <1>1, Invariance, PTL

\* prod of an allocated buffer moves only where a call publishes a record, by
\* the size of that record.
LEMMA ProdStep ==
    ASSUME IInv, [Next]_vars, t_bufs # {}
    PROVE  \/ prod' = prod
           \/ \E c \in CPUS : \E size \in Nat \ {0} :
                 /\ Inserts(c, size)
                 /\ prod' = [prod EXCEPT ![c] = Advance(prod[c], size)]
  <1> DEFINE Published(c) ==
               \/ prod' = prod
               \/ \E size \in Nat \ {0} :
                    /\ Inserts(c, size)
                    /\ prod' = [prod EXCEPT ![c] = Advance(prod[c], size)]
  <1>1. ASSUME NEW c \in CPUS, NEW kind, NEW e, NEW n, NEW size \in Nat \ {0},
               InsertRecord(c, kind, e, n, size)
        PROVE  Published(c)
    BY <1>1 DEF InsertRecord
  <1>2. ASSUME NEW c \in CPUS, InsertWrapForLost(c) \/ InsertWrapForRec(c)
        PROVE  Published(c)
    <2>1. pc[c] \in InsertPCs /\ InsertRecord(c, "wrap", NoEvent, 0, ToWrap(c))
      BY <1>2 DEF InsertWrapForLost, InsertWrapForRec, InsertPCs
    <2>2. ToWrap(c) \in Nat \ {0}
      BY <2>1, CallFacts, SizeAssumption
    <2> QED
      BY <1>1, <2>1, <2>2
  <1>3. ASSUME NEW c \in CPUS, InsertLostRecords(c) PROVE Published(c)
    BY <1>1, <1>3, SizeAssumption DEF InsertLostRecords
  <1>4. ASSUME NEW c \in CPUS, InsertEvent(c) PROVE Published(c)
    <2>1. pc[c] \in InsertPCs /\ InsertRecord(c, "event", ev[c], 0, RecSize[ev[c]])
      BY <1>4 DEF InsertEvent, InsertPCs
    <2>2. RecSize[ev[c]] \in Nat \ {0}
      BY <2>1, CallFacts
    <2> QED
      BY <1>1, <2>1, <2>2
  <1>5. ASSUME NEW c \in CPUS, TraceStep(c) PROVE Published(c)
    <2>1. \/ UNCHANGED ring
          \/ InsertWrapForLost(c) \/ InsertWrapForRec(c)
          \/ InsertLostRecords(c) \/ InsertEvent(c)
      BY <1>5 DEF TraceStep, TraceVar, TraceLock, TraceDrop, TraceReserve, BugOn,
                  NextRecord, TraceUnlock, TraceNotify, TraceResume, CallStep
    <2> QED
      BY <2>1, <1>2, <1>3, <1>4 DEF ring
  <1> HIDE DEF Published
  <1>6. CASE \E c \in CPUS : TraceStep(c)
    BY <1>5, <1>6 DEF Published
  <1>7. CASE SendVirq \/ ControlStep
    BY <1>7 DEF SendVirq, ControlStep, SetCpuMask, SetEvtMask, SetSize, Enable,
                DisableStart, DisableClear, ring
  <1>8. CASE ConsumerStep
    BY <1>8 DEF ConsumerStep, Consume, AckVirq, ring
  <1>9. CASE UNCHANGED vars
    BY <1>9 DEF vars, ring
  <1> QED
    BY <1>6, <1>7, <1>8, <1>9 DEF Next, HypervisorStep, Halted

\* Once TBUFOP_disable has returned prod stands still: a call that had passed
\* next_record's test of tb_init_done still held its lock, so the disable could
\* not have got past that CPU.
LEMMA StillOnceDisabled ==
    ASSUME IInv, [Next]_vars, ~tb_init_done, ctl = CtlIdle, t_bufs # {}
    PROVE  prod' = prod
  <1> SUFFICES ASSUME prod' # prod PROVE FALSE
    OBVIOUS
  <1>1. PICK c \in CPUS : page[c] = "ok"
    BY ProdStep DEF Inserts
  <1>2. BeingDisabled(c)
    BY <1>1 DEF IInv, CallInv, CallOK
  <1> QED
    BY <1>2, CpuAssumption DEF BeingDisabled, CPUS, CtlIdle

\* No record is placed into any buffer after the hypercall that disables tracing
\* has returned, whatever call was under way when it started.
THEOREM DisableIsFinal == Spec => NoRecordAfterDisable
  <1>1. IInv /\ [Next]_vars =>
          [~tb_init_done /\ ctl = CtlIdle /\ t_bufs # {} => prod' = prod]_vars
    BY StillOnceDisabled
  <1> QED
    BY <1>1, Invariance, PTL DEF Spec, NoRecordAfterDisable

\* No record crosses the end of the data area, for any buffer and record size.
THEOREM Straddle == Spec => NoStraddle
  <1> DEFINE Short(c) ==
               prod'[c] # prod[c] /\ t_bufs # {} =>
                 IF prod[c] < DataSize THEN prod'[c] \in prod[c] + 1 .. DataSize
                 ELSE prod'[c] \in (prod[c] + 1 .. 2 * DataSize - 1) \cup {0}
  <1>1. IInv /\ [Next]_vars => [\A c \in CPUS : Short(c)]_vars
    <2> SUFFICES ASSUME IInv, [Next]_vars, NEW c \in CPUS, prod'[c] # prod[c], t_bufs # {}
                 PROVE  Short(c)
      OBVIOUS
    <2>1. PICK d \in CPUS : \E size \in Nat \ {0} :
                 /\ Inserts(d, size)
                 /\ prod' = [prod EXCEPT ![d] = Advance(prod[d], size)]
      BY ProdStep
    <2>2. PICK size \in Nat \ {0} :
                 /\ Inserts(d, size)
                 /\ prod' = [prod EXCEPT ![d] = Advance(prod[d], size)]
      BY <2>1
    <2>3. d = c /\ prod'[c] = Advance(prod[c], size) /\ size <= WrapAt(prod[c])
      BY <2>2 DEF IInv, TypeOK, Inserts, ToWrap
    <2>4. prod[c] \in 0 .. 2 * DataSize - 1
      BY DEF IInv, TypeOK
    <2> QED
      BY <2>3, <2>4, SizeAssumption DEF Advance, WrapAt
  <1> QED
    BY <1>1, Invariance, PTL DEF Spec, NoStraddle

-----------------------------------------------------------------------------
(***************************************************************************)
(* The trace buffers implement the lossy log, for every number of CPUs,    *)
(* buffer size, record size and event set, and for any nesting of calls:   *)
(* a TRC_LOST_RECORDS record announces every drop since tracing was last   *)
(* switched on and no drop twice, and no event overtakes the announcement  *)
(* of an earlier drop.                                                     *)
(*                                                                         *)
(* insert_lost_records clears lost_records whether or not its record gets  *)
(* in, and a call that a disable has overtaken may drop its event after    *)
(* the disable has cleared the count.  LossInv says how far the three      *)
(* counts can part company: nothing is owed where a record can be refused. *)
(***************************************************************************)
LossOK(c) ==
    /\ owed[c] <= lost_records[c]
    /\ lost_records[c] <= missed[c]
    /\ ~tb_init_done => owed[c] = 0
    /\ pc[c] \in {"wrap_rec", "rec"} => owed[c] = 0
    /\ pc[c] = "wrap_lost" /\ page[c] = "null" => owed[c] = 0
    \* insert_lost_records runs out of room before the end of the buffer only
    \* when the wrap record before it was refused.
    /\ pc[c] = "lost" /\ (page[c] = "null" \/ ToWrap(c) < LostRecSize) => owed[c] = 0

LossInv == \A c \in CPUS : LossOK(c)

-----------------------------------------------------------------------------
(* The counts *)

LEMMA InitLoss == Init => LossInv
  BY DEF Init, LossInv, LossOK

\* A CPU whose call, counts and prod a step leaves alone.
LEMMA LossFrame ==
    ASSUME NEW c \in CPUS, LossOK(c), tb_init_done' \/ tb_init_done' = tb_init_done,
           UNCHANGED <<pc[c], page[c], lost_records[c], missed[c], owed[c], prod[c]>>
    PROVE  LossOK(c)'
  BY DEF LossOK, ToWrap

\* A step of CPU c's call that writes no record.
LEMMA QuietLoss ==
    ASSUME IInv, LossInv, NEW c \in CPUS,
           \/ \E e \in Events : TraceVar(c, e)
           \/ TraceLock(c) \/ TraceDrop(c) \/ TraceReserve(c) \/ BugOn(c)
           \/ NextRecord(c) \/ TraceUnlock(c) \/ TraceNotify(c) \/ TraceResume(c)
    PROVE  LossOK(c)'
  <1>0. /\ LossOK(c) /\ CallOK(c)
        /\ lost_records[c] \in Nat /\ missed[c] \in Nat /\ owed[c] \in Nat
        /\ pc \in [CPUS -> PCs] /\ page \in [CPUS -> {"unset", "ok", "null"}]
        /\ lost_records \in [CPUS -> Nat] /\ missed \in [CPUS -> Nat] /\ owed \in [CPUS -> Nat]
    BY DEF LossInv, IInv, CallInv, TypeOK
  <1> USE DEF GoTo, ring, lost, call
  \* The steps that keep the counts and go where nothing is said of them.
  <1>1. ASSUME UNCHANGED <<lost_records, missed, owed, tb_init_done>>,
               pc'[c] \in {"idle", "lock", "space", "unlock", "notify"}
        PROVE  LossOK(c)'
    BY <1>0, <1>1 DEF LossOK
  <1>2. ASSUME NEW e \in Events, TraceVar(c, e) PROVE LossOK(c)'
    BY <1>0, <1>1, <1>2 DEF TraceVar
  <1>3. CASE TraceLock(c) \/ TraceUnlock(c) \/ TraceNotify(c)
    BY <1>0, <1>1, <1>3 DEF TraceLock, TraceUnlock, TraceNotify
  <1>4. CASE TraceResume(c)
    <2>1. stack[c] # <<>> /\ stack[c][Len(stack[c])] \in Frames
      BY <1>4, TopFrame DEF TraceResume
    <2>2. pc'[c] \in {"lock", "notify"}
      BY <1>0, <1>4, <2>1 DEF TraceResume, Frames
    <2>3. UNCHANGED <<lost_records, missed, owed, tb_init_done>>
      BY <1>4 DEF TraceResume
    <2> QED
      BY <1>1, <2>2, <2>3
  <1>5. CASE TraceDrop(c)
    <2>1. /\ pc'[c] = "unlock" /\ UNCHANGED tb_init_done
          /\ lost_records'[c] = lost_records[c] + 1 /\ missed'[c] = missed[c] + 1
          /\ owed'[c] = IF tb_init_done THEN owed[c] + 1 ELSE owed[c]
      BY <1>0, <1>5 DEF TraceDrop
    <2> QED
      BY <1>0, <2>1 DEF LossOK
  <1>6. CASE TraceReserve(c)
    <2>1. /\ pc[c] = "space" /\ UNCHANGED <<lost_records, missed, owed, prod, page, tb_init_done>>
          /\ pc'[c] = IF lost_records[c] > 0
                      THEN IF LostRecSize > ToWrap(c) THEN "wrap_lost" ELSE "lost"
                      ELSE IF RecSize[ev[c]] > ToWrap(c) THEN "wrap_rec" ELSE "rec"
      BY <1>0, <1>6 DEF TraceReserve
    <2>2. page[c] = "unset"
      BY <1>0, <2>1 DEF CallOK, InsertPCs
    <2>3. ToWrap(c)' = ToWrap(c) /\ ToWrap(c) \in Int
      BY <2>1, WrapNat DEF ToWrap, IInv, TypeOK, Pos
    <2>4. pc'[c] = "lost" => ~(ToWrap(c)' < LostRecSize)
      BY <2>1, <2>3, SizeAssumption
    <2>5. pc'[c] \in {"wrap_rec", "rec"} => owed[c] = 0
      BY <1>0, <2>1 DEF LossOK
    <2> QED
      BY <1>0, <2>1, <2>2, <2>4, <2>5 DEF LossOK
  <1>7. CASE BugOn(c)
    BY <1>0, <1>7, LossFrame DEF BugOn
  <1>8. CASE NextRecord(c)
    <2>1. /\ page'[c] = IF tb_init_done THEN "ok" ELSE "null"
          /\ UNCHANGED <<pc, lost_records, missed, owed, prod, tb_init_done>>
      BY <1>0, <1>8 DEF NextRecord
    <2>2. ToWrap(c)' = ToWrap(c)
      BY <2>1 DEF ToWrap
    <2> QED
      BY <1>0, <2>1, <2>2 DEF LossOK
  <1> QED
    BY <1>2, <1>3, <1>4, <1>5, <1>6, <1>7, <1>8

\* A step of CPU c's call that writes a record, or fails to.
LEMMA InsertLoss ==
    ASSUME IInv, LossInv, NEW c \in CPUS,
           \/ InsertWrapForLost(c) \/ InsertLostRecords(c)
           \/ InsertWrapForRec(c) \/ InsertEvent(c)
    PROVE  LossOK(c)'
  <1>0. /\ LossOK(c) /\ CallOK(c)
        /\ lost_records[c] \in Nat /\ missed[c] \in Nat /\ owed[c] \in Nat
        /\ pc \in [CPUS -> PCs] /\ page \in [CPUS -> {"unset", "ok", "null"}]
        /\ lost_records \in [CPUS -> Nat] /\ missed \in [CPUS -> Nat] /\ owed \in [CPUS -> Nat]
        /\ prod \in [CPUS -> Pos] /\ prod[c] \in Pos
        /\ ToWrap(c) \in 1 .. DataSize
    BY WrapNat DEF LossInv, IInv, CallInv, TypeOK, ToWrap, Pos
  <1>1. page[c] # "unset" /\ page'[c] = "unset" /\ UNCHANGED tb_init_done
    BY <1>0 DEF InsertWrapForLost, InsertLostRecords, InsertWrapForRec, InsertEvent,
                InsertRecord
  <1> USE DEF GoTo, lost
  <1>2. CASE InsertWrapForLost(c)
    <2>1. pc[c] = "wrap_lost" /\ pc'[c] = "lost" /\ UNCHANGED <<lost_records, missed, owed>>
      BY <1>0, <1>2 DEF InsertWrapForLost
    <2>2. CASE page[c] = "ok"
      <3>1. prod'[c] = Advance(prod[c], ToWrap(c))
        BY <1>0, <1>2, <2>2, SizeAssumption DEF InsertWrapForLost, InsertRecord, Inserts
      <3>2. ToWrap(c) \in Nat /\ ToWrap(c) = WrapAt(prod[c])
        BY <1>0, SizeAssumption DEF ToWrap
      <3>3. ToWrap(c)' = DataSize
        BY <1>0, <3>1, <3>2, WrapAdvance, SizeAssumption DEF ToWrap
      <3>4. ~(ToWrap(c)' < LostRecSize)
        <4>1. LostRecSize <= DataSize
          <5>1. ev[c] \in Events
            BY <1>0, <2>1 DEF CallOK
          <5> QED BY <5>1, SizeAssumption
        <4> QED BY <3>3, <4>1, SizeAssumption
      <3> QED
        BY <1>0, <1>1, <2>1, <3>4 DEF LossOK
    <2>3. CASE page[c] # "ok"
      <3>1. owed[c] = 0
        BY <1>0, <1>1, <2>1, <2>3 DEF LossOK
      <3> QED
        BY <1>0, <1>1, <2>1, <3>1 DEF LossOK
    <2> QED
      BY <2>2, <2>3
  <1>3. CASE InsertLostRecords(c)
    <2>1. /\ pc[c] = "lost" /\ pc'[c] \in {"wrap_rec", "rec"} /\ lost_records'[c] = 0
          /\ missed'[c] = IF Inserts(c, LostRecSize) THEN 0 ELSE missed[c]
          /\ owed'[c] = IF Inserts(c, LostRecSize) THEN 0 ELSE owed[c]
      BY <1>0, <1>3 DEF InsertLostRecords
    <2>2. owed'[c] = 0
      <3> SUFFICES ASSUME ~Inserts(c, LostRecSize) PROVE owed[c] = 0
        BY <2>1
      <3>1. page[c] = "null" \/ ToWrap(c) < LostRecSize
        BY <1>0, <1>1, SizeAssumption DEF Inserts
      <3> QED
        BY <1>0, <2>1, <3>1 DEF LossOK
    <2> QED
      BY <1>0, <1>1, <2>1, <2>2 DEF LossOK
  <1>4. CASE InsertWrapForRec(c)
    <2>1. pc[c] = "wrap_rec" /\ pc'[c] = "rec" /\ UNCHANGED <<lost_records, missed, owed>>
      BY <1>0, <1>4 DEF InsertWrapForRec
    <2> QED
      BY <1>0, <1>1, <2>1 DEF LossOK
  <1>5. CASE InsertEvent(c)
    <2>1. pc[c] = "rec" /\ pc'[c] = "unlock" /\ UNCHANGED <<lost_records, missed, owed>>
      BY <1>0, <1>5 DEF InsertEvent
    <2> QED
      BY <1>0, <1>1, <2>1 DEF LossOK
  <1> QED
    BY <1>2, <1>3, <1>4, <1>5

\* A step of CPU c's call concerns c alone.
LEMMA TraceStepLoss ==
    ASSUME IInv, LossInv, NEW c \in CPUS, TraceStep(c)
    PROVE  LossInv'
  <1>1. LossOK(c)'
    BY QuietLoss, InsertLoss DEF TraceStep, CallStep
  <1>2. ASSUME NEW d \in CPUS, d # c PROVE LossOK(d)'
    <2>1. /\ pc'[d] = pc[d] /\ page'[d] = page[d] /\ prod'[d] = prod[d]
          /\ lost_records'[d] = lost_records[d] /\ missed'[d] = missed[d]
          /\ owed'[d] = owed[d] /\ UNCHANGED tb_init_done
      <3> USE <1>2 DEF IInv, TypeOK, GoTo, ring, lost, call
      <3>1. CASE \E e \in Events : TraceVar(c, e)
        BY <3>1 DEF TraceVar
      <3>2. CASE TraceLock(c) \/ TraceDrop(c) \/ TraceReserve(c) \/ TraceResume(c)
        BY <3>2 DEF TraceLock, TraceDrop, TraceReserve, TraceResume
      <3>3. CASE BugOn(c) \/ NextRecord(c) \/ TraceUnlock(c) \/ TraceNotify(c)
        BY <3>3 DEF BugOn, NextRecord, TraceUnlock, TraceNotify
      <3>4. CASE InsertWrapForLost(c) \/ InsertWrapForRec(c) \/ InsertEvent(c)
        BY <3>4 DEF InsertWrapForLost, InsertWrapForRec, InsertEvent, InsertRecord
      <3>5. CASE InsertLostRecords(c)
        BY <3>5 DEF InsertLostRecords, InsertRecord
      <3> QED
        BY <3>1, <3>2, <3>3, <3>4, <3>5 DEF TraceStep, CallStep
    <2> QED
      BY <2>1, LossFrame DEF LossInv
  <1> QED
    BY <1>1, <1>2 DEF LossInv

LEMMA NextLoss == IInv /\ LossInv /\ [Next]_vars => LossInv'
  <1> SUFFICES ASSUME IInv, LossInv, [Next]_vars PROVE LossInv'
    OBVIOUS
  <1> USE DEF ring, lost, call
  <1>1. ASSUME UNCHANGED <<pc, page, lost, prod>>, tb_init_done' \/ tb_init_done' = tb_init_done
        PROVE  LossInv'
    BY <1>1, LossFrame DEF LossInv
  <1>2. CASE UNCHANGED vars \/ SendVirq \/ AckVirq \/ (\E c \in CPUS : Consume(c))
    BY <1>1, <1>2 DEF vars, SendVirq, AckVirq, Consume
  <1>3. CASE \/ \E m \in CpuMasks : SetCpuMask(m)
             \/ \E m \in EvtMasks : SetEvtMask(m)
             \/ Enable
    BY <1>1, <1>3 DEF SetCpuMask, SetEvtMask, Enable
  <1>4. ASSUME NEW online \in SUBSET CPUS, SetSize(online) PROVE LossInv'
    <2>1. /\ UNCHANGED <<pc, page, lost_records, missed, owed>> /\ tb_init_done'
          /\ \A c \in CPUS : pc[c] = "idle"
      BY <1>4 DEF SetSize, IInv, AllocInv
    <2> QED
      BY <2>1 DEF LossInv, LossOK
  \* With tracing off nothing is owed.
  <1>5. CASE DisableStart
    <2>1. /\ UNCHANGED <<lost_records, missed>> /\ \A c \in CPUS : owed'[c] = 0
          /\ lost_records \in [CPUS -> Nat]
      BY <1>5 DEF DisableStart, IInv, TypeOK
    <2> QED
      BY <2>1 DEF LossInv, LossOK
  <1>6. CASE DisableClear
    <2>1. /\ ctl \in CPUS /\ pc[ctl] \notin LockedPCs
          /\ UNCHANGED <<tb_init_done, pc, page, prod, owed>>
          /\ lost_records' = [lost_records EXCEPT ![ctl] = 0]
          /\ missed' = [missed EXCEPT ![ctl] = 0]
      BY <1>6, CpuAssumption DEF DisableClear, IInv, TypeOK, CPUS, CtlIdle, Locked
    <2>2. ~tb_init_done
      BY <1>6 DEF DisableClear, IInv, SweepInv
    <2> SUFFICES ASSUME NEW c \in CPUS PROVE LossOK(c)'
      BY DEF LossInv
    <2>3. CASE c = ctl
      <3>1. lost_records'[c] = 0 /\ missed'[c] = 0 /\ pc'[c] \notin LockedPCs
        BY <2>1, <2>3 DEF IInv, TypeOK
      <3>2. owed[c] = 0
        BY <2>2 DEF LossInv, LossOK
      <3> QED
        BY <2>1, <3>1, <3>2 DEF LossOK, LockedPCs, InsertPCs
    <2>4. CASE c # ctl
      <3>1. lost_records'[c] = lost_records[c] /\ missed'[c] = missed[c]
        BY <2>1, <2>4 DEF IInv, TypeOK
      <3> QED
        BY <2>1, <3>1, LossFrame DEF LossInv
    <2> QED
      BY <2>3, <2>4
  <1> QED
    BY <1>2, <1>3, <1>4, <1>5, <1>6, TraceStepLoss
    DEF Next, Halted, HypervisorStep, ConsumerStep, ControlStep

LEMMA LossInvariance == Spec => [](IInv /\ LossInv)
  BY InitInv, NextInv, InitLoss, NextLoss, PTL DEF Spec

-----------------------------------------------------------------------------
(* The refinement *)

\* What a reader sees of a record, and of a buffer.
Item(r) == [kind |-> r.kind, ev |-> r.ev, n |-> r.n]

Shown(s) == [i \in 1 .. Len(s) |-> Item(s[i])]

ShownLog == [c \in CPUS |-> Shown(recs[c])]

LEMMA ShownAppend ==
    ASSUME NEW s \in Seq(Records), NEW r \in Records
    PROVE  Shown(Append(s, r)) = Append(Shown(s), Item(r))
  <1>1. /\ Len(s) \in Nat /\ Len(Append(s, r)) = Len(s) + 1
        /\ \A i \in 1 .. Len(s) : Append(s, r)[i] = s[i]
        /\ Append(s, r)[Len(s) + 1] = r
    BY AppendProperties, LenProperties
  <1>2. PICK n \in Nat : n = Len(s)
    BY <1>1
  <1> DEFINE S == {Item(x) : x \in Records}
             a == Shown(Append(s, r))
             b == Append(Shown(s), Item(r))
  <1>3. Item(r) \in S /\ \A i \in 1 .. n : s[i] \in Records /\ Item(s[i]) \in S
    BY <1>2, ElementOfSeq
  <1>4. Shown(s) \in Seq(S) /\ Len(Shown(s)) = n /\ \A i \in 1 .. n : Shown(s)[i] = Item(s[i])
    BY <1>2, <1>3 DEF Shown
  <1> HIDE DEF S
  <1>5. /\ b \in Seq(S) /\ Len(b) = n + 1 /\ b[n + 1] = Item(r)
        /\ \A i \in 1 .. n : b[i] = Item(s[i])
    BY <1>3, <1>4, AppendProperties
  <1>6. /\ a = [i \in 1 .. n + 1 |-> Item(Append(s, r)[i])]
    BY <1>1, <1>2 DEF Shown
  <1>7. \A i \in 1 .. n + 1 : Item(Append(s, r)[i]) = b[i]
    BY <1>1, <1>2, <1>5
  <1>8. b = [i \in 1 .. n + 1 |-> b[i]]
    BY <1>5, LenProperties
  <1> HIDE DEF a, b
  <1>9. a = b
    BY <1>6, <1>7, <1>8
  <1> QED BY <1>9 DEF a, b

LEMMA ShownSubSeq ==
    ASSUME NEW s \in Seq(Records), NEW k \in 1 .. Len(s)
    PROVE  Shown(SubSeq(s, k + 1, Len(s))) = SubSeq(Shown(s), k + 1, Len(Shown(s)))
  <1>1. PICK n \in Nat : n = Len(s)
    BY LenProperties
  <1>2. Len(Shown(s)) = n
    BY <1>1 DEF Shown
  <1>3. k \in 1 .. n
    BY <1>1
  <1>4. SubSeq(s, k + 1, n) = [i \in 1 .. n - k |-> s[i + k]]
    BY <1>1, <1>3
  <1>5. SubSeq(Shown(s), k + 1, n) = [i \in 1 .. n - k |-> Item(s[i + k])]
    BY <1>1, <1>3 DEF Shown
  <1>6. Len(SubSeq(s, k + 1, n)) = n - k
    BY <1>1, <1>3, <1>4
  <1> QED BY <1>1, <1>2, <1>3, <1>4, <1>5, <1>6 DEF Shown

LEMMA LogInit == Init => Log!Init
  <1> SUFFICES ASSUME Init PROVE Log!Init
    OBVIOUS
  <1>1. ShownLog = [c \in CPUS |-> <<>>]
    BY DEF Init, ShownLog, Shown
  <1>2. /\ missed = [c \in CPUS |-> 0] /\ owed = [c \in CPUS |-> 0]
        /\ tb_init_done = FALSE
    BY DEF Init
  <1> QED
    BY <1>1, <1>2 DEF Log!Init, ShownLog, Shown, Item

\* A record written to the buffer of CPU c is an item written to its log.
LEMMA LogWrite ==
    ASSUME TypeOK, NEW c \in CPUS, NEW r \in Records,
           recs' = [recs EXCEPT ![c] = Append(@, r)]
    PROVE  ShownLog' = [ShownLog EXCEPT ![c] = Append(@, Item(r))]
  <1>1. recs'[c] = Append(recs[c], r) /\ \A d \in CPUS : d # c => recs'[d] = recs[d]
    BY DEF TypeOK
  <1>2. Shown(recs'[c]) = Append(Shown(recs[c]), Item(r))
    BY <1>1, ShownAppend DEF TypeOK
  <1>3. \A d \in CPUS : d # c => Shown(recs'[d]) = Shown(recs[d])
    BY <1>1
  <1>4. ShownLog' = [d \in CPUS |-> Shown(recs'[d])]
    BY DEF ShownLog, Shown
  <1> QED
    BY <1>2, <1>3, <1>4 DEF ShownLog

\* What the lossy log consists of.
logvars == <<tb_init_done, ShownLog, owed, missed>>

\* Nothing is seen of a step that leaves records and drops alone.
LEMMA LogStutter ==
    ASSUME UNCHANGED <<tb_init_done, recs, owed, missed>>
    PROVE  UNCHANGED logvars
  BY DEF logvars, ShownLog, Shown

\* __insert_record writes one item, if it writes at all.
LEMMA LogInsert ==
    ASSUME IInv, NEW c \in CPUS, pc[c] \in InsertPCs,
           NEW kind \in {"event", "wrap", "lost"}, NEW e \in Events \cup {NoEvent},
           NEW n \in Nat, NEW size \in Nat, size <= DataSize,
           InsertRecord(c, kind, e, n, size)
    PROVE  IF Inserts(c, size)
           THEN ShownLog' = [ShownLog EXCEPT ![c] = Append(@, [kind |-> kind, ev |-> e, n |-> n])]
           ELSE UNCHANGED recs
  <1>1. CASE ~Inserts(c, size)
    BY <1>1 DEF InsertRecord
  <1>2. CASE Inserts(c, size)
    <2>1. Advance(prod[c], size) \in 0 .. 2 * DataSize - 1
      <3>1. prod[c] \in 0 .. 2 * DataSize - 1
        BY DEF IInv, TypeOK
      <3> QED BY <3>1, SizeAssumption DEF Advance
    <2>2. PICK r \in Records :
             r = [kind |-> kind, ev |-> e, n |-> n, end |-> Advance(prod[c], size)]
      BY <2>1 DEF Records
    <2>3. recs' = [recs EXCEPT ![c] = Append(@, r)]
      BY <1>2, <2>2 DEF InsertRecord
    <2>4. Item(r) = [kind |-> kind, ev |-> e, n |-> n]
      BY <2>2 DEF Item
    <2>5. TypeOK
      BY DEF IInv
    <2>6. ShownLog' = [ShownLog EXCEPT ![c] = Append(@, Item(r))]
      BY <2>3, <2>5, LogWrite
    <2> QED BY <1>2, <2>4, <2>6
  <1> QED BY <1>1, <1>2

\* Every step of a call is an item, a drop or nothing.
LEMMA LogTraceStep ==
    ASSUME IInv, LossInv, NEW c \in CPUS, TraceStep(c)
    PROVE  Log!Next \/ UNCHANGED logvars
  <1>0. /\ LossOK(c) /\ missed \in [CPUS -> Nat] /\ owed \in [CPUS -> Nat]
        /\ lost_records[c] \in Nat /\ missed[c] \in Nat /\ owed[c] \in Nat
    BY DEF LossInv, IInv, TypeOK
  <1> USE DEF ring, lost, call
  <1>1. CASE \/ \E e \in Events : TraceVar(c, e)
             \/ TraceLock(c) \/ TraceReserve(c) \/ BugOn(c) \/ TraceResume(c)
             \/ NextRecord(c) \/ TraceUnlock(c) \/ TraceNotify(c)
    <2>1. UNCHANGED <<tb_init_done, recs, owed, missed>>
      BY <1>1 DEF TraceVar, TraceLock, TraceReserve, BugOn, NextRecord, TraceUnlock,
                  TraceNotify, TraceResume
    <2> QED BY <2>1, LogStutter
  <1>2. CASE TraceDrop(c)
    <2>1. /\ missed' = [missed EXCEPT ![c] = @ + 1]
          /\ owed' = [owed EXCEPT ![c] = IF tb_init_done THEN @ + 1 ELSE @]
          /\ UNCHANGED <<tb_init_done, recs>>
      BY <1>2 DEF TraceDrop
    <2>2. Log!Drop(c)
      BY <2>1 DEF Log!Drop
    <2> QED BY <2>2 DEF Log!Next
  <1>3. CASE InsertWrapForLost(c) \/ InsertWrapForRec(c)
    <2>1. pc[c] \in InsertPCs /\ InsertRecord(c, "wrap", NoEvent, 0, ToWrap(c))
          /\ UNCHANGED <<tb_init_done, owed, missed>>
      BY <1>3 DEF InsertWrapForLost, InsertWrapForRec, InsertPCs
    <2>2. ToWrap(c) \in Nat /\ ToWrap(c) <= DataSize
      BY <2>1, CallFacts, SizeAssumption
    <2>3. IF Inserts(c, ToWrap(c))
          THEN ShownLog' = [ShownLog EXCEPT ![c] =
                              Append(@, [kind |-> "wrap", ev |-> NoEvent, n |-> 0])]
          ELSE UNCHANGED recs
      BY <2>1, <2>2, LogInsert
    <2>4. Log!Pad(c) \/ UNCHANGED <<tb_init_done, recs, owed, missed>>
      BY <2>1, <2>3 DEF Log!Pad, Log!Write, ShownLog, Shown, Item
    <2> QED BY <2>4, LogStutter DEF Log!Next
  <1>4. CASE InsertLostRecords(c)
    <2>1. /\ pc[c] = "lost" /\ InsertRecord(c, "lost", NoEvent, lost_records[c], LostRecSize)
          /\ missed' = [missed EXCEPT ![c] = IF Inserts(c, LostRecSize) THEN 0 ELSE @]
          /\ owed' = [owed EXCEPT ![c] = IF Inserts(c, LostRecSize) THEN 0 ELSE @]
          /\ UNCHANGED tb_init_done
      BY <1>4 DEF InsertLostRecords, LostCount
    <2>2. lost_records[c] > 0
      BY <2>1 DEF IInv, CallInv, CallOK
    <2>3. LostRecSize \in Nat /\ LostRecSize <= DataSize
      BY <2>1, CallFacts, SizeAssumption DEF InsertPCs
    <2>4. PICK n \in Nat : n = lost_records[c]
      BY <1>0
    <2>5. IF Inserts(c, LostRecSize)
          THEN ShownLog' = [ShownLog EXCEPT ![c] =
                              Append(@, [kind |-> "lost", ev |-> NoEvent, n |-> n])]
          ELSE UNCHANGED recs
      <3>1. InsertRecord(c, "lost", NoEvent, n, LostRecSize)
        BY <2>1, <2>4
      <3> QED BY <2>1, <2>3, <3>1, LogInsert DEF InsertPCs
    <2>6. CASE Inserts(c, LostRecSize)
      <3>1. missed' = [missed EXCEPT ![c] = 0] /\ owed' = [owed EXCEPT ![c] = 0]
        BY <2>1, <2>6
      <3>2. owed[c] <= n /\ n <= missed[c] /\ n \in 1 .. missed[c]
        BY <1>0, <2>2, <2>4 DEF LossOK
      <3>3. Log!Announce(c, n)
        BY <2>1, <2>5, <2>6, <3>1, <3>2 DEF Log!Announce, Log!Write, ShownLog, Shown, Item
      <3> QED BY <3>2, <3>3 DEF Log!Next
    <2>7. CASE ~Inserts(c, LostRecSize)
      <3>1. UNCHANGED <<tb_init_done, recs, owed, missed>>
        BY <1>0, <2>1, <2>5, <2>7
      <3> QED BY <3>1, LogStutter
    <2> QED BY <2>6, <2>7
  <1>5. CASE InsertEvent(c)
    <2>1. /\ pc[c] = "rec" /\ InsertRecord(c, "event", ev[c], 0, RecSize[ev[c]])
          /\ UNCHANGED <<tb_init_done, owed, missed>>
      BY <1>5 DEF InsertEvent
    <2>2. ev[c] \in Events /\ RecSize[ev[c]] \in Nat /\ RecSize[ev[c]] <= DataSize
      BY <2>1, CallFacts, SizeAssumption DEF InsertPCs
    <2>3. PICK e \in Events : e = ev[c]
      BY <2>2
    <2>4. IF Inserts(c, RecSize[e])
          THEN ShownLog' = [ShownLog EXCEPT ![c] =
                              Append(@, [kind |-> "event", ev |-> e, n |-> 0])]
          ELSE UNCHANGED recs
      <3>1. InsertRecord(c, "event", e, 0, RecSize[e])
        BY <2>1, <2>3
      <3> QED BY <2>1, <2>2, <2>3, <3>1, LogInsert DEF InsertPCs
    \* What was owed has been announced by this call, or was forgotten.
    <2>5. owed[c] = 0
      BY <1>0, <2>1 DEF LossOK
    <2>6. Log!Emit(c, e) \/ UNCHANGED <<tb_init_done, recs, owed, missed>>
      BY <2>1, <2>4, <2>5 DEF Log!Emit, Log!Write, ShownLog, Shown, Item
    <2> QED BY <2>6, LogStutter DEF Log!Next
  <1> QED
    BY <1>1, <1>2, <1>3, <1>4, <1>5 DEF TraceStep, CallStep

\* The consumer takes whole items from the front.
LEMMA LogConsume ==
    ASSUME IInv, NEW c \in CPUS, Consume(c)
    PROVE  Log!Next
  <1>1. PICK k \in 1 .. Len(recs[c]) : recs' = [recs EXCEPT ![c] = SubSeq(@, k + 1, Len(@))]
    BY DEF Consume
  <1>2. /\ recs'[c] = SubSeq(recs[c], k + 1, Len(recs[c]))
        /\ \A d \in CPUS : d # c => recs'[d] = recs[d]
        /\ recs[c] \in Seq(Records)
    BY <1>1 DEF IInv, TypeOK
  <1>3. Shown(recs'[c]) = SubSeq(Shown(recs[c]), k + 1, Len(Shown(recs[c])))
    BY <1>2, ShownSubSeq
  <1>4. ShownLog' = [d \in CPUS |-> Shown(recs'[d])]
    BY DEF ShownLog, Shown
  <1>5. ShownLog' = [ShownLog EXCEPT ![c] = SubSeq(@, k + 1, Len(@))]
    BY <1>2, <1>3, <1>4 DEF ShownLog
  <1>6. k \in 1 .. Len(ShownLog[c])
    BY <1>2, LenProperties DEF ShownLog, Shown
  <1>7. UNCHANGED <<tb_init_done, owed, missed>>
    BY DEF Consume, lost
  <1>8. Log!Deliver(c)
    BY <1>5, <1>6, <1>7 DEF Log!Deliver, ShownLog, Shown, Item
  <1> QED BY <1>8 DEF Log!Next

LEMMA LogStep ==
    ASSUME IInv, LossInv, [Next]_vars
    PROVE  Log!Next \/ UNCHANGED logvars
  <1> USE DEF ring, lost, call
  <1>1. CASE DisableClear
    <2>1. /\ ctl \in CPUS /\ missed' = [missed EXCEPT ![ctl] = 0]
          /\ ~tb_init_done /\ UNCHANGED <<tb_init_done, owed, recs>>
      BY <1>1, CpuAssumption DEF DisableClear, IInv, TypeOK, SweepInv, CPUS, CtlIdle
    <2>2. Log!Forget(ctl)
      BY <2>1 DEF Log!Forget
    <2> QED BY <2>1, <2>2 DEF Log!Next
  <1>2. CASE \/ UNCHANGED vars \/ SendVirq \/ AckVirq
             \/ (\E m \in CpuMasks : SetCpuMask(m))
             \/ (\E m \in EvtMasks : SetEvtMask(m))
    <2>1. UNCHANGED <<tb_init_done, recs, owed, missed>>
      BY <1>2 DEF vars, SendVirq, AckVirq, SetCpuMask, SetEvtMask
    <2> QED BY <2>1, LogStutter
  <1>3. CASE Enable \/ (\E online \in SUBSET CPUS : SetSize(online))
    <2>1. tb_init_done' = TRUE /\ UNCHANGED <<recs, owed, missed>>
      BY <1>3 DEF SetSize, Enable
    <2>2. Log!SwitchOn
      BY <2>1 DEF Log!SwitchOn
    <2> QED BY <2>2 DEF Log!Next
  <1>4. CASE DisableStart
    <2>1. tb_init_done' = FALSE /\ owed' = [c \in CPUS |-> 0] /\ UNCHANGED <<recs, missed>>
      BY <1>4 DEF DisableStart
    <2>2. Log!SwitchOff
      BY <2>1 DEF Log!SwitchOff
    <2> QED BY <2>2 DEF Log!Next
  <1> QED
    BY <1>1, <1>2, <1>3, <1>4, LogTraceStep, LogConsume
    DEF Next, Halted, HypervisorStep, ConsumerStep, ControlStep

-----------------------------------------------------------------------------
(* The theorem *)

\* The trace buffers implement the lossy log: whatever an interrupt, the
\* consumer or a full buffer do to a call of __trace_var in mid-flight, as long
\* as tracing stays on every TRC_LOST_RECORDS record says exactly how many
\* events were dropped since the one before and no event is recorded ahead of
\* a drop not yet announced; a TBUFOP_disable can make a later record announce
\* more drops, of calls it overtook, and never fewer than are owed.
THEOREM LossesAreAnnounced == Spec => LossesAnnounced
  <1>1. IInv /\ LossInv /\ [Next]_vars => [Log!Next]_logvars
    BY LogStep
  <1>2. ShownLog = [c \in CPUS |-> [i \in 1 .. Len(recs[c]) |->
                 [kind |-> recs[c][i].kind, ev |-> recs[c][i].ev, n |-> recs[c][i].n]]]
    BY DEF ShownLog, Shown, Item
  <1> QED
    BY <1>1, <1>2, LogInit, LossInvariance, PTL
    DEF Spec, LossesAnnounced, Log!Spec, logvars, ShownLog, Shown, Item
=============================================================================
