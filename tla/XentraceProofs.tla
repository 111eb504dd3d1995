--------------------------- MODULE XentraceProofs ---------------------------
(***************************************************************************)
(* Proofs about the daemon, for every number of CPUs, buffer size, record  *)
(* size, event set and number of restarts: it is a consumer the trace      *)
(* buffers may have (XSpec implements TraceBuf's Spec), it writes exactly  *)
(* its window, and it leaves no record behind at its exit if its request   *)
(* to disable tracing went through.                                        *)
(***************************************************************************)
EXTENDS Xentrace, TraceBufProofs

\* The daemon is at work on the window of buffer cur.
Writing == mon \in {"write1", "write2", "advance"}

\* The buffer it looks at exists.
CurInv ==
    /\ Writing \/ mon = "discard" => cur < NrCpus
    /\ mon \notin {"off", "size", "enable", "failed"} => t_bufs # {}

\* The snapshot of prod is the end of a record that is still in the buffer,
\* however many were added behind it since.
SnapInv == Writing => \E k \in 1 .. Len(recs[cur]) : recs[cur][k].end = snap

\* What has been written of the window.
ChunkInv ==
    /\ mon \notin {"write2", "advance", "failed"} => chunks = <<>>
    /\ mon = "write2" =>
          ~OneChunk /\ chunks = << <<StartOffset, DataSize - StartOffset>> >>
    /\ mon = "advance" =>
          chunks = IF OneChunk THEN << <<StartOffset, WindowSize>> >>
                   ELSE << <<StartOffset, DataSize - StartOffset>>, <<0, EndOffset>> >>

\* Tracing is on as long as the daemon has not disabled it.  Once the hypercall
\* that disables it has returned, prod stands still and the buffers that have
\* been read are empty.
LastInv ==
    /\ ~last_read => interrupted /\ (Writing \/ mon \in {"disabling", "scan", "done", "failed"})
    /\ mon = "disabling" => ~last_read /\ ~tb_init_done
    /\ mon = "done" => ~last_read /\ cur = NrCpus
    /\ last_read => tb_init_done \/ mon \in {"off", "size", "enable", "failed"}
    /\ ~last_read /\ ~tb_init_done /\ (Writing \/ mon \in {"scan", "done"}) =>
          /\ ctl = CtlIdle
          /\ \A c \in CPUS : c < cur => prod[c] = cons[c]
          /\ Writing => snap = prod[cur]

DaemonInv == CurInv /\ SnapInv /\ ChunkInv /\ LastInv

\* With the trace buffers' own invariant.
XInv == IInv /\ XTypeOK /\ DaemonInv

-----------------------------------------------------------------------------
(* The trace buffers under the daemon *)

\* What a position or a sum of positions is modulo the size of the data area.
LEMMA ModCases ==
    ASSUME NEW x \in 0 .. 3 * DataSize - 1
    PROVE  x % DataSize = IF x < DataSize THEN x
                          ELSE IF x < 2 * DataSize THEN x - DataSize
                          ELSE x - 2 * DataSize
<1>0. DataSize \in Nat \ {0}
    BY SizeAssumption
<1>1. CASE x \in 0 .. DataSize - 1
    BY <1>0, <1>1
<1>2. CASE x \in DataSize .. 2 * DataSize - 1
    BY <1>0, <1>2
<1>3. CASE x \in 2 * DataSize .. 3 * DataSize - 1
    BY <1>0, <1>3
<1> QED BY <1>0, <1>1, <1>2, <1>3

\* The records of a buffer: where they end, and that they lie in order.
LEMMA RecordFacts ==
    ASSUME IInv, NEW c \in CPUS
    PROVE  /\ recs[c] \in Seq(Records) /\ Len(recs[c]) \in Nat
           /\ prod[c] \in Pos /\ cons[c] \in Pos
           /\ \A i \in 1 .. Len(recs[c]) :
                 /\ recs[c][i].end \in Pos
                 /\ Dist(recs[c][i].end, cons[c]) \in 1 .. DataSize
           /\ \A i, j \in 1 .. Len(recs[c]) :
                 i < j => Dist(recs[c][i].end, cons[c]) < Dist(recs[c][j].end, cons[c])
           /\ recs[c] = <<>> => prod[c] = cons[c]
           /\ recs[c] # <<>> =>
                 Len(recs[c]) \in 1 .. Len(recs[c]) /\ recs[c][Len(recs[c])].end = prod[c]
<1>1. /\ recs[c] \in Seq(Records) /\ Len(recs[c]) \in Nat
      /\ prod[c] \in Pos /\ cons[c] \in Pos
    BY DEF IInv, TypeOK, Pos
<1>2. \A i \in 1 .. Len(recs[c]) : recs[c][i] \in Records
    BY <1>1
<1>3. \A i \in 1 .. Len(recs[c]) : recs[c][i].end \in Pos
    BY <1>2 DEF Records, Pos
<1>4. Unconsumed(c) \in 0 .. DataSize
    BY <1>1, DistNat, SizeAssumption DEF IInv, RoomInv, RoomOK, Unconsumed
<1>5. \A i \in 1 .. Len(recs[c]) : Dist(recs[c][i].end, cons[c]) \in 1 .. DataSize
    BY <1>4, SizeAssumption DEF IInv, RecsInv
<1>6. recs[c] # <<>> => Len(recs[c]) \in 1 .. Len(recs[c])
    BY <1>1
<1> QED BY <1>1, <1>3, <1>5, <1>6 DEF IInv, RecsInv

\* Setting cons to the end of record k takes exactly the first k records away:
\* it is what TraceBuf allows a consumer to do.
LEMMA SetConsTakes ==
    ASSUME IInv, NEW c \in CPUS, NEW k \in 1 .. Len(recs[c]),
           NEW p, p = recs[c][k].end, SetCons(c, p)
    PROVE  /\ Consume(c)
           /\ recs' = [recs EXCEPT ![c] = SubSeq(@, k + 1, Len(@))]
<1> DEFINE read == {i \in 1 .. Len(recs[c]) :
                      Dist(recs[c][i].end, cons[c]) <= Dist(p, cons[c])}
<1>1. read = 1 .. k
    <2>1. \A i \in 1 .. Len(recs[c]) : Dist(recs[c][i].end, cons[c]) \in Int
        BY RecordFacts, SizeAssumption
    <2>2. \A i \in 1 .. Len(recs[c]) :
             Dist(recs[c][i].end, cons[c]) <= Dist(p, cons[c]) <=> i <= k
        BY <2>1, RecordFacts
    <2> QED BY <2>2, RecordFacts
<1> DEFINE m == CHOOSE i \in read : \A j \in read : j <= i
<1>2. m = k
    <2>1. k \in read /\ \A j \in read : j <= k
        BY <1>1, RecordFacts
    <2>2. m \in read /\ \A j \in read : j <= m
        BY <2>1
    <2>3. m <= k /\ k <= m /\ m \in Int /\ k \in Int
        BY <1>1, <2>1, <2>2
    <2> HIDE DEF m
    <2> QED BY <2>3
<1>3. read # {}
    BY <1>1, RecordFacts
<1>4. /\ cons' = [cons EXCEPT ![c] = p]
      /\ recs' = [recs EXCEPT ![c] = SubSeq(@, (IF read = {} THEN 0 ELSE m) + 1, Len(@))]
      /\ UNCHANGED <<tb_init_done, mask, t_bufs, prod, lost, call, ctl, irq, panic,
                     overtaken>>
    BY DEF SetCons
<1>5. recs' = [recs EXCEPT ![c] = SubSeq(@, k + 1, Len(@))]
    BY <1>2, <1>3, <1>4
<1> QED BY <1>4, <1>5 DEF Consume

\* What the rest of the hypervisor leaves to the daemon: cons, the records that
\* are in the buffers, and prod once TBUFOP_disable has returned.
LEMMA XenFacts ==
    ASSUME IInv, ~panic, XenStep
    PROVE  /\ [Next]_vars
           /\ UNCHANGED <<cons, t_bufs, tb_init_done, daemon>>
           /\ ctl = CtlIdle => ctl' = ctl
           /\ \A c \in CPUS :
                 /\ Len(recs[c]) <= Len(recs'[c])
                 /\ \A i \in 1 .. Len(recs[c]) : recs'[c][i] = recs[c][i]
           /\ ~tb_init_done /\ ctl = CtlIdle /\ t_bufs # {} => prod' = prod
<1>1. [Next]_vars
    BY DEF XenStep, Next, HypervisorStep, ControlStep
<1>2. /\ UNCHANGED <<cons, t_bufs, tb_init_done, daemon>>
      /\ ctl = CtlIdle => ctl' = ctl
    BY DEF XenStep, TraceStep, CallStep, TraceResume, TraceVar, TraceLock, TraceDrop, TraceReserve, BugOn,
           NextRecord, TraceUnlock, TraceNotify, InsertWrapForLost, InsertLostRecords,
           InsertWrapForRec, InsertEvent, InsertRecord, SendVirq, DisableClear, ring
<1>3. ASSUME NEW c \in CPUS
      PROVE  /\ Len(recs[c]) <= Len(recs'[c])
             /\ \A i \in 1 .. Len(recs[c]) : recs'[c][i] = recs[c][i]
    <2>1. recs[c] \in Seq(Records)
        BY RecordFacts
    <2>2. \/ recs' = recs
          \/ \E d \in CPUS : \E r : recs' = [recs EXCEPT ![d] = Append(@, r)]
        BY DEF XenStep, TraceStep, CallStep, TraceResume, TraceVar, TraceLock, TraceDrop, TraceReserve, BugOn,
               NextRecord, TraceUnlock, TraceNotify, InsertWrapForLost, InsertLostRecords,
               InsertWrapForRec, InsertEvent, InsertRecord, SendVirq, DisableClear, ring
    <2>3. recs'[c] = recs[c] \/ \E r : recs'[c] = Append(recs[c], r)
        BY <2>2 DEF IInv, TypeOK
    <2> QED BY <2>1, <2>3
<1>4. ~tb_init_done /\ ctl = CtlIdle /\ t_bufs # {} => prod' = prod
    BY <1>1, StillOnceDisabled
<1> QED BY <1>1, <1>2, <1>3, <1>4

\* The window the daemon works on: never empty, never more than the data area,
\* and its offsets in the data area.
LEMMA WindowFacts ==
    ASSUME XInv, Writing
    PROVE  /\ cur \in CPUS /\ snap \in Pos /\ cons[cur] \in Pos
           /\ WindowSize \in 1 .. DataSize
           /\ StartOffset = IF cons[cur] < DataSize THEN cons[cur] ELSE cons[cur] - DataSize
           /\ EndOffset = IF snap < DataSize THEN snap ELSE snap - DataSize
           /\ StartOffset \in 0 .. DataSize - 1 /\ EndOffset \in 0 .. DataSize - 1
<1>1. cur \in CPUS
    BY CpuAssumption DEF XInv, XTypeOK, DaemonInv, CurInv, CPUS
<1>2. PICK k \in 1 .. Len(recs[cur]) : recs[cur][k].end = snap
    BY DEF XInv, DaemonInv, SnapInv
<1>3. /\ snap \in Pos /\ cons[cur] \in Pos
      /\ WindowSize \in 1 .. DataSize
    BY <1>1, <1>2, RecordFacts DEF XInv, WindowSize
<1>4. snap \in 0 .. 3 * DataSize - 1 /\ cons[cur] \in 0 .. 3 * DataSize - 1
      /\ snap < 2 * DataSize /\ cons[cur] < 2 * DataSize
    BY <1>3, SizeAssumption DEF Pos
<1>5. /\ StartOffset = IF cons[cur] < DataSize THEN cons[cur] ELSE cons[cur] - DataSize
      /\ EndOffset = IF snap < DataSize THEN snap ELSE snap - DataSize
    BY <1>4, ModCases DEF StartOffset, EndOffset
<1> QED BY <1>1, <1>3, <1>4, <1>5, SizeAssumption

-----------------------------------------------------------------------------
(* Every step is one of TraceBuf *)

\* meta[i]->cons = meta[i]->prod takes all the records, or none if there is none.
LEMMA DiscardTakes ==
    ASSUME XInv, ~panic, MonDiscard
    PROVE  [Next]_vars
<1>1. cur \in CPUS /\ SetCons(cur, prod[cur])
    BY CpuAssumption DEF XInv, XTypeOK, DaemonInv, CurInv, CPUS, MonDiscard
<1>2. CASE recs[cur] = <<>>
    <2>1. prod[cur] = cons[cur]
        BY <1>1, <1>2, RecordFacts DEF XInv
    <2>2. 1 .. Len(recs[cur]) = {}
        BY <1>2
    <2>3. /\ cons' = [cons EXCEPT ![cur] = prod[cur]]
          /\ recs' = [recs EXCEPT ![cur] = SubSeq(@, 0 + 1, Len(@))]
          /\ UNCHANGED <<tb_init_done, mask, t_bufs, prod, lost, call, ctl, irq, panic,
                         overtaken>>
        BY <1>1, <2>2 DEF SetCons
    <2>4. SubSeq(recs[cur], 0 + 1, Len(recs[cur])) = recs[cur]
        BY <1>2
    <2>5. cons' = cons /\ recs' = recs
        BY <1>1, <2>1, <2>3, <2>4 DEF XInv, IInv, TypeOK
    <2> QED BY <2>3, <2>5 DEF vars, ring
<1>3. CASE recs[cur] # <<>>
    <2>1. Len(recs[cur]) \in 1 .. Len(recs[cur]) /\ recs[cur][Len(recs[cur])].end = prod[cur]
        BY <1>1, <1>3, RecordFacts DEF XInv
    <2>2. Consume(cur)
        BY <1>1, <2>1, SetConsTakes DEF XInv
    <2> QED BY <1>1, <2>2 DEF Next, ConsumerStep
<1> QED BY <1>2, <1>3

LEMMA AdvanceTakes ==
    ASSUME XInv, ~panic, MonAdvance
    PROVE  /\ [Next]_vars
           /\ \E k \in 1 .. Len(recs[cur]) :
                 /\ recs[cur][k].end = snap
                 /\ recs' = [recs EXCEPT ![cur] = SubSeq(@, k + 1, Len(@))]
<1>1. Writing /\ SetCons(cur, snap)
    BY DEF MonAdvance, Writing
<1>2. cur \in CPUS
    BY <1>1, WindowFacts
<1>3. PICK k \in 1 .. Len(recs[cur]) : recs[cur][k].end = snap
    BY <1>1 DEF XInv, DaemonInv, SnapInv
<1>4. Consume(cur) /\ recs' = [recs EXCEPT ![cur] = SubSeq(@, k + 1, Len(@))]
    BY <1>1, <1>2, <1>3, SetConsTakes DEF XInv
<1> QED BY <1>2, <1>3, <1>4 DEF Next, ConsumerStep

\* A step of the daemon, of the hypervisor or of the administrator is a step of
\* TraceBuf or leaves the trace buffers alone.
LEMMA StepRefines ==
    ASSUME XInv, [XNext]_xvars
    PROVE  [Next]_vars
<1>1. CASE ~panic /\ MonStep
    <2>1. CASE MonSetMask
        BY <1>1, <2>1, MaskAssumption DEF MonSetMask, Next, HypervisorStep, ControlStep
    <2>2. CASE MonSetSize
        <3>1. 0 \in CPUS
            BY CpuAssumption DEF CPUS
        <3> QED BY <1>1, <2>2, <3>1 DEF MonSetSize, Next, HypervisorStep, ControlStep
    <2>3. CASE MonEnable
        BY <1>1, <2>3 DEF MonEnable, Next, HypervisorStep, ControlStep
    <2>4. CASE MonDiscard
        BY <1>1, <2>4, DiscardTakes
    <2>5. CASE MonAdvance
        BY <1>1, <2>5, AdvanceTakes
    <2>6. CASE MonVirq
        BY <1>1, <2>6 DEF MonVirq, Next, ConsumerStep
    <2>7. CASE MonDisable
        BY <1>1, <2>7 DEF MonDisable, Next, HypervisorStep, ControlStep
    <2>8. CASE \/ MonNoBufs \/ MonScan \/ MonWrite1 \/ MonWrite2 \/ MonSleep \/ MonTimeout
               \/ MonDisabled \/ MonDisableFails \/ MonExit
        BY <2>8 DEF MonNoBufs, MonScan, MonWrite1, MonWrite2, WriteBuffer, MonSleep,
                    MonTimeout, MonDisabled, MonDisableFails, MonExit
    <2> QED BY <1>1, <2>1, <2>2, <2>3, <2>4, <2>5, <2>6, <2>7, <2>8 DEF MonStep
<1>2. CASE MonFail \/ Signal \/ Restart
    BY <1>2 DEF MonFail, Signal, Restart
<1>3. CASE ~panic /\ XenStep
    BY <1>3, XenFacts DEF XInv
<1>4. CASE Stopped \/ UNCHANGED xvars
    BY <1>4 DEF Stopped, xvars
<1> QED BY <1>1, <1>2, <1>3, <1>4 DEF XNext

-----------------------------------------------------------------------------
(* The daemon's invariant *)

LEMMA InitDaemon == XInit => XInv
<1> SUFFICES ASSUME XInit PROVE XInv
    OBVIOUS
<1>1. IInv
    BY InitInv DEF XInit
<1>2. XTypeOK
    <2>1. chunks \in Seq((0 .. DataSize - 1) \X (0 .. DataSize))
        BY DEF XInit
    <2>2. cur \in 0 .. NrCpus /\ snap \in 0 .. 2 * DataSize - 1 /\ runs \in 1 .. MaxRuns
        BY CpuAssumption, SizeAssumption, XentraceAssumption DEF XInit
    <2> QED BY <2>1, <2>2 DEF XInit, XTypeOK
<1>3. DaemonInv
    BY DEF XInit, DaemonInv, CurInv, SnapInv, ChunkInv, LastInv, Writing
<1> QED BY <1>1, <1>2, <1>3 DEF XInv

\* Steps outside a window that leave the trace buffers' positions alone.
LEMMA IdleKeeps ==
    ASSUME XInv, ~panic,
           \/ MonSetMask \/ MonSetSize \/ MonEnable \/ MonNoBufs \/ MonSleep \/ MonVirq
           \/ MonTimeout \/ MonDisable \/ MonDisabled \/ MonDisableFails \/ MonExit
           \/ MonFail \/ Signal \/ Restart
    PROVE  (XTypeOK /\ DaemonInv)'
<1> USE CpuAssumption, SizeAssumption, XentraceAssumption DEF XInv, XTypeOK
<1> USE DEF DaemonInv, CurInv, SnapInv, ChunkInv, LastInv, Writing
<1>1. CASE MonSetMask
    BY <1>1 DEF MonSetMask, SetEvtMask, ring
<1>2. CASE MonSetSize
    BY <1>2 DEF MonSetSize, SetSize, vars, ring
<1>3. CASE MonEnable
    BY <1>3 DEF MonEnable, Enable, ring
<1>4. CASE MonNoBufs
    BY <1>4 DEF MonNoBufs
<1>5. CASE MonSleep \/ MonTimeout
    BY <1>5 DEF MonSleep, MonTimeout, vars
<1>6. CASE MonVirq
    BY <1>6 DEF MonVirq, AckVirq
<1>7. CASE MonDisable
    BY <1>7 DEF MonDisable, DisableStart
<1>8. CASE MonDisabled
    BY <1>8 DEF MonDisabled, vars, CPUS
<1>9. CASE MonExit
    BY <1>9 DEF MonExit, vars, ring
<1>10. CASE MonFail
    BY <1>10 DEF MonFail
<1>11. CASE Signal
    BY <1>11 DEF Signal, vars, ring, StartOffset, EndOffset, WindowSize, OneChunk
<1>12. CASE Restart
    <2>1. chunks' \in Seq((0 .. DataSize - 1) \X (0 .. DataSize))
        BY <1>12 DEF Restart
    <2>2. runs' \in 1 .. MaxRuns
        BY <1>12 DEF Restart
    <2>3. UNCHANGED t_bufs /\ mon' = "off"
        BY <1>12 DEF Restart, vars
    <2>4. XTypeOK'
        <3>1. cur' \in 0 .. NrCpus /\ snap' \in 0 .. 2 * DataSize - 1
            BY <1>12 DEF Restart
        <3>2. interrupted' \in BOOLEAN /\ last_read' \in BOOLEAN
            BY <1>12 DEF Restart
        <3> QED BY <2>1, <2>2, <2>3, <3>1, <3>2
    <2>5. DaemonInv'
        BY <1>12, <2>3 DEF Restart
    <2> QED BY <2>4, <2>5
<1>13. CASE MonDisableFails
    <2>1. /\ mon = "scan" /\ last_read /\ interrupted /\ mon' = "scan"
          /\ ~last_read' /\ last_read' \in BOOLEAN /\ interrupted' /\ cur' = 0
          /\ UNCHANGED <<snap, interrupted, runs, chunks, tb_init_done, t_bufs>>
        BY <1>13 DEF MonDisableFails, vars
    <2>2. tb_init_done /\ chunks = <<>> /\ t_bufs # {}
        BY <2>1
    <2>3. XTypeOK'
        BY <2>1
    <2>4. CurInv' /\ SnapInv' /\ ChunkInv'
        BY <2>1, <2>2
    <2>5. LastInv'
        BY <2>1, <2>2
    <2> QED BY <2>3, <2>4, <2>5
<1> QED BY <1>1, <1>2, <1>3, <1>4, <1>5, <1>6, <1>7, <1>8, <1>9, <1>10, <1>11, <1>12, <1>13

LEMMA DiscardKeeps ==
    ASSUME XInv, ~panic, MonDiscard
    PROVE  (XTypeOK /\ DaemonInv)'
<1>1. cur' \in 0 .. NrCpus - 1
    BY CpuAssumption DEF XInv, XTypeOK, MonDiscard
<1>2. last_read
    BY DEF XInv, DaemonInv, LastInv, Writing, MonDiscard
<1>3. XTypeOK'
    BY <1>1, CpuAssumption DEF XInv, XTypeOK, MonDiscard
<1>4. CurInv' /\ SnapInv' /\ LastInv'
    BY <1>1, <1>2, CpuAssumption DEF XInv, DaemonInv, CurInv, SnapInv, LastInv, Writing,
       MonDiscard, SetCons
<1>5. ChunkInv'
    BY DEF XInv, DaemonInv, ChunkInv, MonDiscard
<1> QED BY <1>3, <1>4, <1>5 DEF DaemonInv

\* The snapshot is prod, the end of the last record.
LEMMA ScanKeeps ==
    ASSUME XInv, ~panic, MonScan
    PROVE  (XTypeOK /\ DaemonInv)'
<1>0. /\ cur \in CPUS /\ cur < NrCpus /\ mon = "scan"
      /\ UNCHANGED <<vars, interrupted, last_read, runs, chunks>>
    BY CpuAssumption DEF XInv, XTypeOK, MonScan, CPUS
<1>1. UNCHANGED <<prod, cons, recs, t_bufs, tb_init_done, ctl>>
    BY <1>0 DEF vars, ring
<1>2. CASE cons[cur] = prod[cur]
    <2>0. cur' = cur + 1 /\ UNCHANGED <<mon, snap>>
        BY <1>2 DEF MonScan
    <2>1. XTypeOK'
        BY <1>0, <2>0, CpuAssumption DEF XInv, XTypeOK
    <2>2. CurInv' /\ SnapInv' /\ ChunkInv'
        BY <1>0, <1>1, <2>0 DEF XInv, DaemonInv, CurInv, SnapInv, ChunkInv, Writing
    <2>3. LastInv'
        <3>1. \A c \in CPUS : c < cur' => c < cur \/ c = cur
            BY <1>0, <2>0, CpuAssumption DEF CPUS
        <3> QED BY <1>0, <1>1, <1>2, <2>0, <3>1 DEF XInv, DaemonInv, LastInv, Writing
    <2> QED BY <2>1, <2>2, <2>3 DEF DaemonInv
<1>3. CASE cons[cur] # prod[cur]
    <2>0. mon' = "write1" /\ snap' = prod[cur] /\ cur' = cur
        BY <1>3 DEF MonScan
    <2>1. prod[cur] \in Pos /\ \E k \in 1 .. Len(recs[cur]) : recs[cur][k].end = prod[cur]
        BY <1>0, <1>3, RecordFacts DEF XInv
    <2>2. XTypeOK'
        BY <1>0, <2>0, <2>1 DEF XInv, XTypeOK, Pos
    <2>3. CurInv' /\ SnapInv' /\ ChunkInv'
        BY <1>0, <1>1, <2>0, <2>1 DEF XInv, DaemonInv, CurInv, SnapInv, ChunkInv, Writing
    <2>4. LastInv'
        BY <1>0, <1>1, <2>0 DEF XInv, DaemonInv, LastInv, Writing
    <2> QED BY <2>2, <2>3, <2>4 DEF DaemonInv
<1> QED BY <1>2, <1>3

LEMMA AppendPair ==
    ASSUME NEW a, NEW b
    PROVE  Append(<<a>>, b) = <<a, b>>
<1>1. <<a>> \in Seq({a, b}) /\ b \in {a, b}
    OBVIOUS
<1>2. /\ Append(<<a>>, b) \in Seq({a, b}) /\ Len(Append(<<a>>, b)) = 2
      /\ Append(<<a>>, b)[1] = a /\ Append(<<a>>, b)[2] = b
    BY <1>1
<1>3. Append(<<a>>, b) = [i \in 1 .. 2 |-> IF i = 1 THEN a ELSE b]
    BY <1>2
<1>4. <<a, b>> = [i \in 1 .. 2 |-> IF i = 1 THEN a ELSE b]
    OBVIOUS
<1> QED BY <1>3, <1>4

LEMMA WriteKeeps ==
    ASSUME XInv, ~panic, MonWrite1 \/ MonWrite2
    PROVE  (XTypeOK /\ DaemonInv)'
<1>0. /\ Writing /\ Writing' /\ mon # "advance"
      /\ UNCHANGED <<vars, cur, snap, interrupted, last_read, runs>>
    BY DEF MonWrite1, MonWrite2, WriteBuffer, Writing
<1>1. UNCHANGED <<prod, cons, recs, t_bufs, tb_init_done, ctl>>
    BY <1>0 DEF vars, ring
<1>2. /\ StartOffset' = StartOffset /\ EndOffset' = EndOffset /\ WindowSize' = WindowSize
      /\ OneChunk' = OneChunk
    BY <1>0, <1>1 DEF StartOffset, EndOffset, WindowSize, OneChunk
<1>3. CurInv' /\ SnapInv' /\ LastInv'
    BY <1>0, <1>1 DEF XInv, DaemonInv, CurInv, SnapInv, LastInv, Writing
<1>4. CASE MonWrite1
    <2>1. chunks = <<>>
        BY <1>4 DEF XInv, DaemonInv, ChunkInv, MonWrite1
    <2>2. /\ mon' = IF OneChunk THEN "advance" ELSE "write2"
          /\ chunks' = << <<StartOffset, IF OneChunk THEN WindowSize
                                         ELSE DataSize - StartOffset>> >>
        BY <1>4, <2>1 DEF MonWrite1, WriteBuffer
    <2>3. ChunkInv'
        BY <1>2, <2>2 DEF ChunkInv
    <2>4. /\ StartOffset \in 0 .. DataSize - 1
          /\ (IF OneChunk THEN WindowSize ELSE DataSize - StartOffset) \in 0 .. DataSize
        BY <1>0, WindowFacts, SizeAssumption
    <2>5. chunks' \in Seq((0 .. DataSize - 1) \X (0 .. DataSize))
        BY <2>2, <2>4
    <2>6. XTypeOK'
        BY <1>0, <2>2, <2>5 DEF XInv, XTypeOK
    <2> QED BY <1>3, <2>3, <2>6 DEF DaemonInv
<1>5. CASE MonWrite2
    <2>1. ~OneChunk /\ chunks = << <<StartOffset, DataSize - StartOffset>> >>
        BY <1>5 DEF XInv, DaemonInv, ChunkInv, MonWrite2
    <2>2. /\ mon' = "advance"
          /\ chunks' = Append(chunks, <<0, EndOffset>>)
        BY <1>5 DEF MonWrite2, WriteBuffer
    <2>3. chunks' = << <<StartOffset, DataSize - StartOffset>>, <<0, EndOffset>> >>
        <3> PICK a, b : a = <<StartOffset, DataSize - StartOffset>> /\ b = <<0, EndOffset>>
            OBVIOUS
        <3> QED BY <2>1, <2>2, AppendPair
    <2>4. ChunkInv'
        BY <1>2, <2>1, <2>2, <2>3 DEF ChunkInv
    <2>5. chunks' \in Seq((0 .. DataSize - 1) \X (0 .. DataSize))
        <3>1. <<0, EndOffset>> \in (0 .. DataSize - 1) \X (0 .. DataSize)
            BY <1>0, WindowFacts, SizeAssumption
        <3> QED BY <2>2, <3>1 DEF XInv, XTypeOK
    <2>6. XTypeOK'
        BY <1>0, <2>2, <2>5 DEF XInv, XTypeOK
    <2> QED BY <1>3, <2>4, <2>6 DEF DaemonInv
<1> QED BY <1>4, <1>5

LEMMA AdvanceKeeps ==
    ASSUME XInv, ~panic, MonAdvance
    PROVE  (XTypeOK /\ DaemonInv)'
<1>0. /\ Writing /\ mon' = "scan" /\ cur' = cur + 1 /\ chunks' = <<>>
      /\ cons' = [cons EXCEPT ![cur] = snap]
      /\ UNCHANGED <<prod, t_bufs, tb_init_done, ctl, snap, interrupted, last_read, runs>>
    BY DEF MonAdvance, Writing, SetCons
<1>1. cur \in CPUS
    BY <1>0, WindowFacts
<1>2. XTypeOK'
    BY <1>0, <1>1, CpuAssumption DEF XInv, XTypeOK, CPUS
<1>3. CurInv' /\ SnapInv' /\ ChunkInv'
    BY <1>0 DEF XInv, DaemonInv, CurInv, SnapInv, ChunkInv, Writing
<1>4. LastInv'
    <2>1. \A c \in CPUS : c < cur' => c < cur \/ c = cur
        BY <1>0, <1>1, CpuAssumption DEF CPUS
    <2>2. cons'[cur] = snap /\ \A c \in CPUS : c # cur => cons'[c] = cons[c]
        BY <1>0, <1>1 DEF XInv, IInv, TypeOK
    <2> QED BY <1>0, <2>1, <2>2 DEF XInv, DaemonInv, LastInv, Writing
<1> QED BY <1>2, <1>3, <1>4 DEF DaemonInv

\* The hypervisor adds records behind the snapshot, and none once disabled.
LEMMA XenKeeps ==
    ASSUME XInv, ~panic, XenStep
    PROVE  (XTypeOK /\ DaemonInv)'
<1>0. /\ UNCHANGED <<cons, t_bufs, tb_init_done>>
      /\ UNCHANGED <<mon, cur, snap, interrupted, last_read, runs, chunks>>
      /\ ctl = CtlIdle => ctl' = ctl
      /\ ~tb_init_done /\ ctl = CtlIdle /\ t_bufs # {} => prod' = prod
    BY XenFacts DEF XInv, daemon
<1>1. XTypeOK'
    BY <1>0 DEF XInv, XTypeOK
<1>2. CurInv' /\ ChunkInv'
    BY <1>0 DEF XInv, DaemonInv, CurInv, ChunkInv, Writing, StartOffset, EndOffset,
                WindowSize, OneChunk
<1>3. SnapInv'
    <2> SUFFICES ASSUME Writing PROVE \E k \in 1 .. Len(recs'[cur]) : recs'[cur][k].end = snap
        BY <1>0 DEF SnapInv, Writing
    <2>1. cur \in CPUS
        BY WindowFacts
    <2>2. PICK k \in 1 .. Len(recs[cur]) : recs[cur][k].end = snap
        BY DEF XInv, DaemonInv, SnapInv
    <2>3. Len(recs[cur]) <= Len(recs'[cur]) /\ recs'[cur][k] = recs[cur][k]
        BY <2>1, <2>2, XenFacts DEF XInv
    <2>4. Len(recs[cur]) \in Nat /\ Len(recs'[cur]) \in Nat
        <3>1. IInv'
            BY XenFacts, NextInv DEF XInv
        <3>2. (recs \in [CPUS -> Seq(Records)]) /\ (recs \in [CPUS -> Seq(Records)])'
            BY <3>1 DEF XInv, IInv, TypeOK
        <3>3. recs[cur] \in Seq(Records) /\ recs'[cur] \in Seq(Records)
            BY <2>1, <3>2
        <3> QED BY <3>3
    <2> QED BY <2>2, <2>3, <2>4
<1>4. LastInv'
    BY <1>0 DEF XInv, DaemonInv, CurInv, LastInv, Writing
<1> QED BY <1>1, <1>2, <1>3, <1>4 DEF DaemonInv

LEMMA NextDaemon == XInv /\ [XNext]_xvars => XInv'
<1> SUFFICES ASSUME XInv, [XNext]_xvars PROVE XInv'
    OBVIOUS
<1>1. IInv'
    BY StepRefines, NextInv DEF XInv
<1>2. CASE UNCHANGED xvars
    <2>1. UNCHANGED <<prod, cons, recs, t_bufs, tb_init_done, ctl>>
          /\ UNCHANGED <<mon, cur, snap, interrupted, last_read, runs, chunks>>
        BY <1>2 DEF xvars, vars, ring, daemon
    <2>2. XTypeOK'
        BY <2>1 DEF XInv, XTypeOK
    <2>3. DaemonInv'
        BY <2>1 DEF XInv, DaemonInv, CurInv, SnapInv, ChunkInv, LastInv, Writing,
                    StartOffset, EndOffset, WindowSize, OneChunk
    <2> QED BY <1>1, <2>2, <2>3 DEF XInv
<1>3. CASE XNext /\ ~UNCHANGED xvars
    <2>1. (XTypeOK /\ DaemonInv)'
        BY <1>3, IdleKeeps, DiscardKeeps, ScanKeeps, WriteKeeps, AdvanceKeeps, XenKeeps
        DEF XNext, MonStep, Stopped
    <2> QED BY <1>1, <2>1 DEF XInv
<1> QED BY <1>2, <1>3

-----------------------------------------------------------------------------
(* Windows *)

\* Whether a window wraps can be told from its offsets alone, a full one
\* included, which does unless it starts at the beginning of the data area.
LEMMA WindowShape ==
    ASSUME XInv, Writing
    PROVE  /\ OneChunk => StartOffset + WindowSize = EndOffset
           /\ ~OneChunk => StartOffset + WindowSize = EndOffset + DataSize
BY WindowFacts, SizeAssumption DEF OneChunk, WindowSize, Dist, Pos

\* Where word j of the window lies in the data area.
LEMMA WordAt ==
    ASSUME XInv, Writing, NEW j \in 0 .. WindowSize - 1
    PROVE  (cons[cur] + j) % DataSize =
              IF StartOffset + j < DataSize THEN StartOffset + j
              ELSE StartOffset + j - DataSize
<1> PICK s, w, x : s = StartOffset /\ w = WindowSize /\ x = cons[cur] + j
    OBVIOUS
<1>1. /\ w \in 1 .. DataSize /\ cons[cur] \in Pos /\ j \in 0 .. w - 1
      /\ s = IF cons[cur] < DataSize THEN cons[cur] ELSE cons[cur] - DataSize
    BY WindowFacts
<1>2. x \in 0 .. 3 * DataSize - 1
    BY <1>1, SizeAssumption DEF Pos
<1>3. x % DataSize = IF x < DataSize THEN x
                     ELSE IF x < 2 * DataSize THEN x - DataSize ELSE x - 2 * DataSize
    BY <1>2, ModCases
<1> QED BY <1>1, <1>2, <1>3, SizeAssumption DEF Pos

\* The words that have been written, and those of the window.
Written == UNION {Section(chunks[i][1], chunks[i][2]) : i \in 1 .. Len(chunks)}
Window  == {(cons[cur] + j) % DataSize : j \in 0 .. WindowSize - 1}

LEMMA WrittenIsWindow ==
    ASSUME XInv, mon = "advance"
    PROVE  Written = Window
<1> PICK s, e, w : s = StartOffset /\ e = EndOffset /\ w = WindowSize
    OBVIOUS
<1>0. Writing
    BY DEF Writing
<1>1. /\ s \in 0 .. DataSize - 1 /\ e \in 0 .. DataSize - 1 /\ w \in 1 .. DataSize
      /\ DataSize \in Nat
    BY <1>0, WindowFacts, SizeAssumption
<1>2. Window = {IF s + j < DataSize THEN s + j ELSE s + j - DataSize : j \in 0 .. w - 1}
    BY <1>0, WordAt DEF Window
<1>3. CASE OneChunk
    <2>1. chunks = << <<s, w>> >> /\ s + w = e
        BY <1>0, <1>3, WindowShape DEF XInv, DaemonInv, ChunkInv
    <2>2. Written = s .. s + w - 1
        <3>1. Len(chunks) = 1 /\ chunks[1][1] = s /\ chunks[1][2] = w
            BY <2>1
        <3>2. 1 .. Len(chunks) = {1}
            BY <3>1
        <3>3. Written = Section(chunks[1][1], chunks[1][2])
            BY <3>2 DEF Written
        <3> QED BY <3>1, <3>3 DEF Section
    <2>3. ASSUME NEW x \in Window PROVE x \in s .. s + w - 1
        BY <1>1, <1>2, <2>1, <2>3
    <2>4. ASSUME NEW x \in s .. s + w - 1 PROVE x \in Window
        <3>1. x - s \in 0 .. w - 1 /\ s + (x - s) = x /\ x < DataSize
            BY <1>1, <2>1, <2>4
        <3> QED BY <1>2, <3>1
    <2> QED BY <2>2, <2>3, <2>4
<1>4. CASE ~OneChunk
    <2>1. chunks = << <<s, DataSize - s>>, <<0, e>> >> /\ s + w = e + DataSize
        BY <1>0, <1>4, WindowShape DEF XInv, DaemonInv, ChunkInv
    <2>2. Written = (s .. DataSize - 1) \cup (0 .. e - 1)
        <3>1. /\ Len(chunks) = 2 /\ chunks[1][1] = s /\ chunks[1][2] = DataSize - s
              /\ chunks[2][1] = 0 /\ chunks[2][2] = e
            BY <2>1
        <3>2. 1 .. Len(chunks) = {1, 2}
            BY <3>1
        <3>3. Written = Section(chunks[1][1], chunks[1][2])
                          \cup Section(chunks[2][1], chunks[2][2])
            BY <3>2 DEF Written
        <3>4. s + (DataSize - s) - 1 = DataSize - 1 /\ 0 + e - 1 = e - 1
            BY <1>1
        <3> QED BY <3>1, <3>3, <3>4 DEF Section
    <2>3. ASSUME NEW x \in Window PROVE x \in (s .. DataSize - 1) \cup (0 .. e - 1)
        BY <1>1, <1>2, <2>1, <2>3
    <2>4. ASSUME NEW x \in s .. DataSize - 1 PROVE x \in Window
        <3>1. x - s \in 0 .. w - 1 /\ s + (x - s) = x /\ x < DataSize
            BY <1>1, <2>1, <2>4
        <3> QED BY <1>2, <3>1
    <2>5. ASSUME NEW x \in 0 .. e - 1 PROVE x \in Window
        <3>1. /\ x + DataSize - s \in 0 .. w - 1
              /\ ~(s + (x + DataSize - s) < DataSize)
              /\ s + (x + DataSize - s) - DataSize = x
            BY <1>1, <2>1, <2>5
        <3> QED BY <1>2, <3>1
    <2> QED BY <2>2, <2>3, <2>4, <2>5
<1> QED BY <1>3, <1>4

\* The word j words past f is the one Dist(f, p) + j words past p.
LEMMA SameWord ==
    ASSUME NEW p \in Pos, NEW f \in Pos, NEW j \in Nat, Dist(f, p) + j < DataSize
    PROVE  (f + j) % DataSize = (p + (Dist(f, p) + j)) % DataSize
<1> PICK d, x, y : d = Dist(f, p) /\ x = f + j /\ y = p + (d + j)
    OBVIOUS
<1>1. /\ x \in 0 .. 3 * DataSize - 1 /\ y \in 0 .. 3 * DataSize - 1
      /\ x = y \/ x = y - 2 * DataSize
    BY SizeAssumption DEF Dist, Pos
<1>2. /\ x % DataSize = IF x < DataSize THEN x
             ELSE IF x < 2 * DataSize THEN x - DataSize ELSE x - 2 * DataSize
      /\ y % DataSize = IF y < DataSize THEN y
             ELSE IF y < 2 * DataSize THEN y - DataSize ELSE y - 2 * DataSize
    BY <1>1, ModCases
<1>3. x % DataSize = y % DataSize
    BY <1>1, <1>2, SizeAssumption
<1> QED BY <1>3

\* The words of each record up to the snapshot are words of the window.
LEMMA RecordInWindow ==
    ASSUME XInv, Writing, NEW k \in 1 .. Len(recs[cur]), recs[cur][k].end = snap,
           NEW i \in 1 .. k
    PROVE  RecordWords(cur, i) \subseteq Window
<1> PICK w, p : w = WindowSize /\ p = cons[cur]
    OBVIOUS
<1>0. cur \in CPUS /\ w \in 1 .. DataSize /\ p \in Pos /\ DataSize \in Nat
    BY WindowFacts, SizeAssumption
<1>1. i \in 1 .. Len(recs[cur]) /\ Len(recs[cur]) \in Nat
    BY <1>0, RecordFacts DEF XInv
<1> PICK f, e : f = (IF i = 1 THEN cons[cur] ELSE recs[cur][i - 1].end) /\ e = recs[cur][i].end
    OBVIOUS
<1>2. e \in Pos /\ Dist(e, p) \in 1 .. w
    <2>1. e \in Pos /\ Dist(e, p) \in 1 .. DataSize
        BY <1>0, <1>1, RecordFacts DEF XInv
    <2>2. i = k \/ Dist(e, p) < Dist(snap, p)
        BY <1>0, <1>1, RecordFacts DEF XInv
    <2> QED BY <1>0, <2>1, <2>2 DEF WindowSize
<1>3. f \in Pos /\ Dist(f, p) \in 0 .. Dist(e, p)
    <2>1. CASE i = 1
        BY <1>0, <1>2, <2>1, DistNat DEF Dist
    <2>2. CASE i # 1
        <3>1. i - 1 \in 1 .. Len(recs[cur]) /\ i - 1 < i
            BY <1>1, <2>2
        <3>2. f \in Pos /\ Dist(f, p) \in 1 .. DataSize /\ Dist(f, p) < Dist(e, p)
            BY <1>0, <1>1, <2>2, <3>1, RecordFacts DEF XInv
        <3> QED BY <1>2, <3>2, SizeAssumption
    <2> QED BY <2>1, <2>2
<1>4. Dist(e, f) = Dist(e, p) - Dist(f, p)
    BY <1>0, <1>2, <1>3, ConsumeDist
<1>5. ASSUME NEW j \in 0 .. Dist(e, f) - 1
      PROVE  (f + j) % DataSize \in Window
    <2>1. j \in Nat /\ Dist(f, p) + j \in 0 .. w - 1 /\ Dist(f, p) + j < DataSize
        BY <1>0, <1>2, <1>3, <1>4, <1>5
    <2>2. (f + j) % DataSize = (p + (Dist(f, p) + j)) % DataSize
        BY <1>0, <1>3, <2>1, SameWord
    <2> QED BY <2>1, <2>2 DEF Window
<1> QED BY <1>5 DEF RecordWords

-----------------------------------------------------------------------------
(* The theorems *)

\* The trace buffers' invariant together with the daemon's: what carries the
\* theorems below.
THEOREM DaemonInvariant == XSpec => []XInv
<1>1. XInit => XInv
    BY InitDaemon
<1>2. XInv /\ [XNext]_xvars => XInv'
    BY NextDaemon
<1> QED BY <1>1, <1>2, PTL DEF XSpec

\* The variables of the daemon keep their types: in particular no section it
\* writes starts or ends outside the data area.
THEOREM XTypeCorrect == XSpec => []XTypeOK
<1>1. XInv => XTypeOK
    BY DEF XInv
<1> QED BY <1>1, DaemonInvariant, PTL

\* The daemon only ever does what TraceBuf allows a consumer: it sets cons to
\* the end of a record that is in the buffer, also when records were published
\* since it read prod, with -D, and after a restart.  What is proved of TraceBuf
\* therefore holds with the real consumer.
THEOREM ConsumerIsLegal == XSpec => LegalConsumer
<1>1. XInit => Init
    BY DEF XInit
<1>2. XInv /\ [XNext]_xvars => [Next]_vars
    BY StepRefines
<1> QED BY <1>1, <1>2, DaemonInvariant, PTL DEF XSpec, Spec, LegalConsumer

\* With the daemon as the consumer no record is written over one that it has not
\* read.
THEOREM NoOverrunWithDaemon == XSpec => []NoOverrun
BY ConsumerIsLegal, Overrun, PTL DEF LegalConsumer

\* A daemon that exits on a signal, and whose disable was accepted, leaves no
\* record in any buffer: TBUFOP_disable returns only when no call can publish any
\* more, and the last read comes after that.
THEOREM Drained == XSpec => []DrainedAtExit
<1>1. XInv => DrainedAtExit
    <2> SUFFICES ASSUME XInv, mon = "done", ~tb_init_done, NEW c \in CPUS PROVE Unconsumed(c) = 0
        BY DEF DrainedAtExit
    <2>1. c < cur
        BY CpuAssumption DEF XInv, DaemonInv, LastInv, CPUS
    <2>2. prod[c] = cons[c]
        BY <2>1 DEF XInv, DaemonInv, LastInv
    <2>3. prod[c] \in Pos
        BY RecordFacts DEF XInv
    <2> QED BY <2>2, <2>3, DistNat DEF Unconsumed
<1> QED BY <1>1, DaemonInvariant, PTL

\* For every size of the data area and every window in it, the sections written
\* are the window, word for word.
THEOREM WindowIsWritten == XSpec => []WindowWritten
<1>1. XInv => WindowWritten
    <2> SUFFICES ASSUME XInv, mon = "advance"
                 PROVE  /\ Written = Window
                        /\ Len(chunks) = 2 => chunks[1][2] + chunks[2][2] = WindowSize
        BY DEF WindowWritten, Written, Window
    <2>1. Written = Window
        BY WrittenIsWindow
    <2>2. Len(chunks) = 2 => chunks[1][2] + chunks[2][2] = WindowSize
        <3> PICK s, e, w : s = StartOffset /\ e = EndOffset /\ w = WindowSize
            OBVIOUS
        <3>0. Writing /\ s \in Int /\ e \in Int /\ w \in Int /\ DataSize \in Int
            BY WindowFacts, SizeAssumption DEF Writing
        <3>1. CASE OneChunk
            <4>1. chunks = << <<s, w>> >>
                BY <3>1 DEF XInv, DaemonInv, ChunkInv
            <4> QED BY <4>1
        <3>2. CASE ~OneChunk
            <4>1. chunks = << <<s, DataSize - s>>, <<0, e>> >> /\ s + w = e + DataSize
                BY <3>0, <3>2, WindowShape DEF XInv, DaemonInv, ChunkInv
            <4>2. chunks[1][2] = DataSize - s /\ chunks[2][2] = e
                BY <4>1
            <4> QED BY <3>0, <4>1, <4>2
        <3> QED BY <3>1, <3>2
    <2> QED BY <2>1, <2>2
<1> QED BY <1>1, DaemonInvariant, PTL

\* Only the last step of a window, and -D, take records out of a buffer.
LEMMA OnlyAdvanceTakes ==
    ASSUME XInv, XNext, mon # "discard", ~(~panic /\ MonAdvance), NEW c \in CPUS
    PROVE  Len(recs[c]) <= Len(recs'[c])
<1>0. Len(recs[c]) \in Nat
    BY RecordFacts DEF XInv
<1>1. CASE ~panic /\ XenStep
    BY <1>1, XenFacts DEF XInv
<1>2. CASE UNCHANGED recs
    BY <1>0, <1>2
<1>3. CASE MonSetMask \/ MonSetSize \/ MonEnable \/ MonVirq \/ MonDisable
    BY <1>2, <1>3 DEF MonSetMask, SetEvtMask, MonSetSize, SetSize, MonEnable, Enable,
       MonVirq, AckVirq, MonDisable, DisableStart, vars, ring
<1>4. CASE UNCHANGED vars
    BY <1>2, <1>4 DEF vars, ring
<1>5. CASE ~panic /\ MonStep
    BY <1>3, <1>4, <1>5 DEF MonStep, MonNoBufs, MonDiscard, MonScan, MonWrite1,
       MonWrite2, WriteBuffer, MonSleep, MonTimeout, MonDisabled, MonDisableFails, MonExit
<1>6. CASE MonFail \/ Signal \/ Restart \/ Stopped
    BY <1>4, <1>6 DEF MonFail, Signal, Restart, Stopped, xvars
<1> QED BY <1>1, <1>5, <1>6 DEF XNext

\* A record that leaves a buffer has been written to the file, -D apart: each of
\* its words is in one of the sections written of the window, and a record that
\* was published in the meantime stays.
THEOREM RecordsAreSaved == XSpec => RecordsSaved
<1>1. XInv /\ [XNext]_xvars =>
        [mon # "discard" =>
           \A c \in CPUS : \A i \in 1 .. Len(recs[c]) - Len(recs'[c]) :
             RecordWords(c, i) \subseteq
               UNION {Section(chunks[j][1], chunks[j][2]) : j \in 1 .. Len(chunks)}]_xvars
    <2> SUFFICES ASSUME XInv, XNext, mon # "discard", NEW c \in CPUS,
                        NEW i \in 1 .. Len(recs[c]) - Len(recs'[c])
                 PROVE  RecordWords(c, i) \subseteq Written
        BY DEF Written
    <2>0. Len(recs[c]) \in Nat /\ Len(recs'[c]) \in Nat
        <3>1. IInv'
            BY StepRefines, NextInv DEF XInv
        <3>2. (recs \in [CPUS -> Seq(Records)]) /\ (recs \in [CPUS -> Seq(Records)])'
            BY <3>1 DEF XInv, IInv, TypeOK
        <3>3. recs[c] \in Seq(Records) /\ recs'[c] \in Seq(Records)
            BY <3>2
        <3> QED BY <3>3
    <2>1. CASE ~panic /\ MonAdvance
        <3>1. Writing /\ mon = "advance"
            BY <2>1 DEF MonAdvance, Writing
        <3>2. PICK k \in 1 .. Len(recs[cur]) :
                 /\ recs[cur][k].end = snap
                 /\ recs' = [recs EXCEPT ![cur] = SubSeq(@, k + 1, Len(@))]
            BY <2>1, AdvanceTakes
        <3>3. c = cur
            BY <2>0, <3>2 DEF XInv, IInv, TypeOK
        <3>4. i \in 1 .. k
            <4>1. recs[cur] \in Seq(Records) /\ Len(recs[cur]) \in Nat
                BY <3>3, RecordFacts DEF XInv
            <4>2. recs'[cur] = SubSeq(recs[cur], k + 1, Len(recs[cur]))
                BY <3>2, <3>3 DEF XInv, IInv, TypeOK
            <4>3. Len(recs'[cur]) = Len(recs[cur]) - k
                BY <4>1, <4>2
            <4> QED BY <3>3, <4>1, <4>3
        <3> QED BY <3>1, <3>2, <3>3, <3>4, RecordInWindow, WrittenIsWindow
    <2>2. CASE ~(~panic /\ MonAdvance)
        BY <2>0, <2>2, OnlyAdvanceTakes
    <2> QED BY <2>1, <2>2
<1> QED BY <1>1, DaemonInvariant, PTL DEF XSpec, RecordsSaved
=============================================================================
