------------------------------ MODULE TraceBuf ------------------------------
(***************************************************************************)
(* The per-CPU trace buffers of the hypervisor (xen/common/trace.c): the   *)
(* lock-protected producer __trace_var, the sysctl tb_control and the      *)
(* VIRQ_TBUF tasklet, with a consumer that only ever advances `cons' over  *)
(* whole records.  __trace_var runs with interrupts on except under its    *)
(* lock, so the handler of an interrupt may trace while a call of the same *)
(* CPU is past its tests and has no lock yet, or has given it back: calls  *)
(* of one CPU nest.                                                        *)
(*                                                                         *)
(* All sizes and positions are in 32-bit words: every record is a whole    *)
(* number of words (BUG_ON(extra & 3)), so the `& 3' half of bogus() can   *)
(* not arise.  prod and cons run modulo 2 * DataSize, as in the code, so   *)
(* that a full buffer and an empty one differ.                             *)
(***************************************************************************)
EXTENDS Integers, Sequences

CONSTANTS
    NrCpus,      \* number of physical CPUs
    DataSize,    \* data_size: words of record space in one buffer
    LostRecSize, \* LOST_REC_SIZE: words of a TRC_LOST_RECORDS record
    Events,      \* trace events
    RecSize,     \* calc_rec_size: words of the record of an event
    EvtMasks,    \* the event masks, as sets of events, and the CPU masks
    CpuMasks,    \* that TBUFOP_set_evt_mask and TBUFOP_set_cpu_mask ask for
    MaxLost,     \* bound: a drop is risked only below this many drops
    MaxNested    \* bound: interrupted calls of one CPU

CPUS == 0 .. NrCpus - 1

ASSUME CpuAssumption == NrCpus \in Nat \ {0}

\* One page holds 1022 words of data, a lost-records record 7 and the
\* largest other record 10 (header, two words of TSC, TRACE_EXTRA_MAX).
ASSUME SizeAssumption ==
    /\ DataSize \in Nat \ {0}
    /\ LostRecSize \in Nat \ {0}
    /\ RecSize \in [Events -> Nat \ {0}]
    /\ \A e \in Events : LostRecSize + RecSize[e] <= DataSize

ASSUME MaskAssumption ==
    /\ EvtMasks \subseteq SUBSET Events /\ Events \in EvtMasks
    /\ CpuMasks \subseteq SUBSET CPUS

ASSUME BoundAssumption == MaxLost \in Nat \ {0} /\ MaxNested \in Nat

\* t_buf_highwater = data_size >> 1
HighWater == DataSize \div 2

\* Event field of the wrap and lost-records records.
NoEvent == "none"

ASSUME NoEventAssumption == NoEvent \notin Events

\* No TBUFOP_disable is under way.
CtlIdle == NrCpus

VARIABLES
    tb_init_done,   \* tracing is enabled right now
    tb_event_mask,  \* the events the mask admits
    tb_cpu_mask,    \* the CPUs tracing is enabled on
    t_bufs,         \* CPUs with a buffer: those online at alloc_trace_bufs
    prod, cons,     \* per CPU: struct t_buf
    lost_records,   \* per CPU
    stack,          \* per CPU: its interrupted __trace_var calls
    pc,             \* per CPU: where its running __trace_var call is
    ev,             \* per CPU: the event of that call
    below,          \* CPUs whose call has started_below_highwater set
    to_wrap,        \* per CPU: the local bytes_to_wrap
    page,           \* per CPU: what next_record has returned
    ctl,            \* next CPU a TBUFOP_disable has to clear, or CtlIdle
    tasklet,        \* trace_notify_dom0_tasklet is scheduled
    virq,           \* VIRQ_TBUF is pending in dom0
    panic,          \* a BUG_ON fired: the hypervisor has stopped
    recs,           \* history, per CPU: the records between cons and prod
    missed,         \* history, per CPU: drops since the last record that
                    \* announced any, or since a disable cleared the count
    owed,           \* history, per CPU: those of them since tracing was last
                    \* switched on
    overtaken       \* history, per CPU: how many of its calls, the outermost
                    \* first, were past their tests when a disable began

mask == <<tb_event_mask, tb_cpu_mask>>
ring == <<prod, cons, recs>>
call == <<pc, ev, below, to_wrap, page, stack>>
lost == <<lost_records, missed, owed>>
irq  == <<tasklet, virq>>
vars == <<tb_init_done, mask, t_bufs, ring, lost, call, ctl, irq, panic, overtaken>>

-----------------------------------------------------------------------------
(* Positions *)

\* Words from position q forward to position p.
Dist(p, q) == IF p >= q THEN p - q ELSE p - q + 2 * DataSize

\* calc_unconsumed_bytes
Unconsumed(c) == Dist(prod[c], cons[c])

\* calc_bytes_avail
Avail(c) == DataSize - Unconsumed(c)

\* calc_bytes_to_wrap
WrapAt(p) == IF p < DataSize THEN DataSize - p ELSE 2 * DataSize - p
ToWrap(c) == WrapAt(prod[c])

\* Mutant: prod is not brought back below 2*data_size.
Advance_NoModulo(p, n) == p + n

\* The tail of __insert_record: next += rec_size, modulo 2*data_size.
Advance(p, n) == IF p + n >= 2 * DataSize THEN p + n - 2 * DataSize ELSE p + n

\* Mutant: the perfect line-up is forgotten.
WrapAfterLost_NoLineUp(wrap) == wrap - LostRecSize

\* bytes_to_wrap once a lost-records record has been accounted for; the
\* record "might line up perfectly with the buffer wrap".
WrapAfterLost(wrap) == IF wrap = LostRecSize THEN DataSize ELSE wrap - LostRecSize

\* Mutant: the dry run forgets the wrap record.
RecTotal_NoWrap(wrap, size) == size

\* The part of the dry run that covers the event's own record.
RecTotal(wrap, size) == IF size > wrap THEN wrap + size ELSE size

\* The dry run of __trace_var: room for a lost-records record if drops are to
\* be announced, for the event's record, and for the wrap records that keep
\* either from crossing the end of the buffer.
TotalSize(announce, wrap, size) ==
    CASE ~announce -> RecTotal(wrap, size)
      [] announce /\ LostRecSize > wrap ->
            wrap + LostRecSize + RecTotal(WrapAfterLost(DataSize), size)
      [] announce /\ LostRecSize <= wrap ->
            LostRecSize + RecTotal(WrapAfterLost(wrap), size)

-----------------------------------------------------------------------------
(* State *)

\* The steps of __trace_var that call __insert_record, those under t_lock,
\* and all of them.
InsertPCs == {"wrap_lost", "lost", "wrap_rec", "rec"}
LockedPCs == InsertPCs \cup {"space", "unlock"}
PCs       == LockedPCs \cup {"idle", "lock", "notify"}

\* per_cpu(t_lock, c) is taken.  The only other taker, TBUFOP_disable, holds
\* it for one assignment and so for no state of this model.
Locked(c) == pc[c] \in LockedPCs

\* A call that an interrupt may find: waiting for the lock, or done with it.
Frames == [pc : {"lock", "notify"}, ev : Events, below : BOOLEAN]

\* Calls of __trace_var under way on c.
Depth(c) == Len(stack[c]) + (IF pc[c] = "idle" THEN 0 ELSE 1)

\* A disable began after the running call of c had passed its tests.
Overtaken(c) == pc[c] # "idle" /\ Depth(c) <= overtaken[c]

Records == [kind : {"event", "wrap", "lost"}, ev : Events \cup {NoEvent},
            n : Nat, end : 0 .. 2 * DataSize - 1]

\* Positions stay below 2 * DataSize: bogus() never sees a bad one.
TypeOK ==
    /\ tb_init_done \in BOOLEAN
    /\ tb_event_mask \in SUBSET Events
    /\ tb_cpu_mask \in SUBSET CPUS
    /\ t_bufs \in SUBSET CPUS
    /\ prod \in [CPUS -> 0 .. 2 * DataSize - 1]
    /\ cons \in [CPUS -> 0 .. 2 * DataSize - 1]
    /\ lost_records \in [CPUS -> Nat]
    /\ pc \in [CPUS -> PCs]
    /\ ev \in [CPUS -> Events \cup {NoEvent}]
    /\ below \in SUBSET CPUS
    /\ to_wrap \in [CPUS -> 0 .. DataSize]
    /\ page \in [CPUS -> {"unset", "ok", "null"}]
    /\ ctl \in 0 .. CtlIdle
    /\ tasklet \in BOOLEAN
    /\ virq \in BOOLEAN
    /\ panic \in BOOLEAN
    /\ recs \in [CPUS -> Seq(Records)]
    /\ missed \in [CPUS -> Nat]
    /\ owed \in [CPUS -> Nat]
    /\ stack \in [CPUS -> Seq(Frames)]
    /\ overtaken \in [CPUS -> Nat]

\* Boot without a tbuf_size parameter: no buffers.  Which events the default
\* mask TRC_ALL admits is the business of module TraceFilter.
Init ==
    /\ tb_init_done = FALSE
    /\ tb_event_mask \in EvtMasks
    /\ tb_cpu_mask = CPUS
    /\ t_bufs = {}
    /\ prod = [c \in CPUS |-> 0]
    /\ cons = [c \in CPUS |-> 0]
    /\ lost_records = [c \in CPUS |-> 0]
    /\ pc = [c \in CPUS |-> "idle"]
    /\ ev = [c \in CPUS |-> NoEvent]
    /\ below = {}
    /\ to_wrap = [c \in CPUS |-> 0]
    /\ page = [c \in CPUS |-> "unset"]
    /\ ctl = CtlIdle
    /\ tasklet = FALSE
    /\ virq = FALSE
    /\ panic = FALSE
    /\ recs = [c \in CPUS |-> <<>>]
    /\ missed = [c \in CPUS |-> 0]
    /\ owed = [c \in CPUS |-> 0]
    /\ stack = [c \in CPUS |-> <<>>]
    /\ overtaken = [c \in CPUS |-> 0]

-----------------------------------------------------------------------------
(* __trace_var, on CPU c *)

GoTo(c, l) == pc' = [pc EXCEPT ![c] = l]

\* The dry run finds room for event e and what goes with it.
Fits(c, e) == TotalSize(lost_records[c] > 0, ToWrap(c), RecSize[e]) <= Avail(c)

\* The unlocked tests at the head of __trace_var pass for event e; a call they
\* reject changes nothing.  With a call at "lock" or "notify" it is the handler
\* of an interrupt that traces, and that call has to wait.  The bounds limit
\* the run, not the code: at MaxLost only a call with room ahead of it starts.
TraceVar(c, e) ==
    /\ tb_init_done
    /\ e \in tb_event_mask
    /\ c \in tb_cpu_mask
    /\ lost_records[c] < MaxLost \/ Fits(c, e)
    /\ \/ /\ pc[c] = "idle"
          /\ UNCHANGED <<stack, below, to_wrap>>
       \/ /\ pc[c] \in {"lock", "notify"}
          /\ Len(stack[c]) < MaxNested
          /\ stack' = [stack EXCEPT ![c] =
                Append(@, [pc |-> pc[c], ev |-> ev[c], below |-> c \in below])]
          /\ below' = below \ {c}
          /\ to_wrap' = [to_wrap EXCEPT ![c] = 0]
    /\ GoTo(c, "lock")
    /\ ev' = [ev EXCEPT ![c] = e]
    /\ UNCHANGED <<tb_init_done, mask, t_bufs, ring, lost, page, ctl, irq, panic,
                   overtaken>>

\* The interrupt is over: the call it found goes on.
TraceResume(c) ==
    /\ pc[c] = "idle"
    /\ stack[c] # <<>>
    /\ LET f == stack[c][Len(stack[c])]
       IN  /\ GoTo(c, f.pc)
           /\ ev' = [ev EXCEPT ![c] = f.ev]
           /\ below' = IF f.below THEN below \cup {c} ELSE below
    /\ stack' = [stack EXCEPT ![c] = SubSeq(@, 1, Len(@) - 1)]
    /\ UNCHANGED <<tb_init_done, mask, t_bufs, ring, lost, to_wrap, page, ctl,
                   irq, panic, overtaken>>

\* spin_lock_irqsave, then the sample of the level.  A CPU brought up after
\* the allocation has no buffer and leaves.
TraceLock(c) ==
    /\ pc[c] = "lock"
    /\ below' = IF c \in t_bufs /\ Unconsumed(c) < HighWater
                 THEN below \cup {c} ELSE below
    /\ GoTo(c, IF c \in t_bufs THEN "space" ELSE "unlock")
    /\ UNCHANGED <<tb_init_done, mask, t_bufs, ring, lost, ev, to_wrap, page,
                   ctl, irq, panic, stack, overtaken>>

\* calc_bytes_avail, calc_bytes_to_wrap and the dry run: no room, one more drop.
TraceDrop(c) ==
    /\ pc[c] = "space"
    /\ ~Fits(c, ev[c])
    /\ lost_records' = [lost_records EXCEPT ![c] = @ + 1]
    /\ missed' = [missed EXCEPT ![c] = @ + 1]
    /\ owed' = [owed EXCEPT ![c] = IF tb_init_done THEN @ + 1 ELSE @]
    /\ below' = below \ {c}
    /\ GoTo(c, "unlock")
    /\ UNCHANGED <<tb_init_done, mask, t_bufs, ring, ev, to_wrap, page, ctl,
                   irq, panic, stack, overtaken>>

\* The same, with room: bytes_to_wrap is computed again and the first of the
\* records to insert is chosen.
TraceReserve(c) ==
    /\ pc[c] = "space"
    /\ Fits(c, ev[c])
    /\ to_wrap' = [to_wrap EXCEPT ![c] = ToWrap(c)]
    /\ GoTo(c, IF lost_records[c] > 0
               THEN IF LostRecSize > ToWrap(c) THEN "wrap_lost" ELSE "lost"
               ELSE IF RecSize[ev[c]] > ToWrap(c) THEN "wrap_rec" ELSE "rec")
    /\ UNCHANGED <<tb_init_done, mask, t_bufs, ring, lost, ev, below, page,
                   ctl, irq, panic, stack, overtaken>>

\* The size insert_wrap_record is told it may not exceed.
WrapLimit(c) == IF pc[c] = "wrap_lost" THEN LostRecSize ELSE RecSize[ev[c]]

\* BUG_ON(space_left > size) in insert_wrap_record.
WrapBug(c) == pc[c] \in {"wrap_lost", "wrap_rec"} /\ ToWrap(c) > WrapLimit(c)

BugOn(c) ==
    /\ page[c] = "unset"
    /\ WrapBug(c)
    /\ panic' = TRUE
    /\ UNCHANGED <<tb_init_done, mask, t_bufs, ring, lost, call, ctl, irq,
                   overtaken>>

\* next_record looks at tb_init_done again, for every record.
NextRecord(c) ==
    /\ pc[c] \in InsertPCs
    /\ page[c] = "unset"
    /\ ~WrapBug(c)
    /\ page' = [page EXCEPT ![c] = IF tb_init_done THEN "ok" ELSE "null"]
    /\ UNCHANGED <<tb_init_done, mask, t_bufs, ring, lost, pc, ev, below,
                   to_wrap, ctl, irq, panic, stack, overtaken>>

\* Mutant: no test for the end of the buffer.
Inserts_NoEndTest(c, size) == page[c] = "ok"

\* The rest of __insert_record: the record is written and prod published,
\* unless next_record said no or the record would pass the end of the buffer.
Inserts(c, size) == page[c] = "ok" /\ size <= ToWrap(c)

InsertRecord(c, kind, e, n, size) ==
    /\ page[c] # "unset"
    /\ page' = [page EXCEPT ![c] = "unset"]
    /\ IF Inserts(c, size)
       THEN LET next == Advance(prod[c], size)
            IN  /\ prod' = [prod EXCEPT ![c] = next]
                /\ recs' = [recs EXCEPT ![c] = Append(@,
                              [kind |-> kind, ev |-> e, n |-> n, end |-> next])]
       ELSE UNCHANGED <<prod, recs>>
    /\ UNCHANGED cons

\* insert_wrap_record ahead of a lost-records record.
InsertWrapForLost(c) ==
    /\ pc[c] = "wrap_lost"
    /\ InsertRecord(c, "wrap", NoEvent, 0, ToWrap(c))
    /\ to_wrap' = [to_wrap EXCEPT ![c] = DataSize]
    /\ GoTo(c, "lost")
    /\ UNCHANGED <<tb_init_done, mask, t_bufs, lost, ev, below, ctl, irq,
                   panic, stack, overtaken>>

\* Mutant: the record says that something was lost, not how much.
LostCount_One(c) == 1

\* ed.lost_records of the record.
LostCount(c) == lost_records[c]

\* insert_lost_records: the count is cleared whether or not the record gets in.
InsertLostRecords(c) ==
    /\ pc[c] = "lost"
    /\ InsertRecord(c, "lost", NoEvent, LostCount(c), LostRecSize)
    /\ lost_records' = [lost_records EXCEPT ![c] = 0]
    /\ missed' = [missed EXCEPT ![c] = IF Inserts(c, LostRecSize) THEN 0 ELSE @]
    /\ owed' = [owed EXCEPT ![c] = IF Inserts(c, LostRecSize) THEN 0 ELSE @]
    /\ LET wrap == WrapAfterLost(to_wrap[c])
       IN  /\ to_wrap' = [to_wrap EXCEPT ![c] = wrap]
           /\ GoTo(c, IF RecSize[ev[c]] > wrap THEN "wrap_rec" ELSE "rec")
    /\ UNCHANGED <<tb_init_done, mask, t_bufs, ev, below, ctl, irq, panic,
                   stack, overtaken>>

\* insert_wrap_record ahead of the event's record.
InsertWrapForRec(c) ==
    /\ pc[c] = "wrap_rec"
    /\ InsertRecord(c, "wrap", NoEvent, 0, ToWrap(c))
    /\ GoTo(c, "rec")
    /\ UNCHANGED <<tb_init_done, mask, t_bufs, lost, ev, below, to_wrap, ctl,
                   irq, panic, stack, overtaken>>

\* "Write the original record".
InsertEvent(c) ==
    /\ pc[c] = "rec"
    /\ InsertRecord(c, "event", ev[c], 0, RecSize[ev[c]])
    /\ GoTo(c, "unlock")
    /\ UNCHANGED <<tb_init_done, mask, t_bufs, lost, ev, below, to_wrap, ctl,
                   irq, panic, stack, overtaken>>

TraceUnlock(c) ==
    /\ pc[c] = "unlock"
    /\ GoTo(c, "notify")
    /\ UNCHANGED <<tb_init_done, mask, t_bufs, ring, lost, ev, below, to_wrap,
                   page, ctl, irq, panic, stack, overtaken>>

\* After the unlock the level is read once more; the locals die.
TraceNotify(c) ==
    /\ pc[c] = "notify"
    /\ tasklet' = (tasklet \/ (c \in below /\ Unconsumed(c) >= HighWater))
    /\ GoTo(c, "idle")
    /\ ev' = [ev EXCEPT ![c] = NoEvent]
    /\ below' = below \ {c}
    /\ to_wrap' = [to_wrap EXCEPT ![c] = 0]
    /\ overtaken' = [overtaken EXCEPT ![c] = IF @ > Len(stack[c]) THEN Len(stack[c]) ELSE @]
    /\ UNCHANGED <<tb_init_done, mask, t_bufs, ring, lost, page, ctl, virq,
                   panic, stack>>

\* The softirq tasklet trace_notify_dom0: send_global_virq(VIRQ_TBUF).
SendVirq ==
    /\ tasklet
    /\ tasklet' = FALSE
    /\ virq' = TRUE
    /\ UNCHANGED <<tb_init_done, mask, t_bufs, ring, lost, call, ctl, panic,
                   overtaken>>

-----------------------------------------------------------------------------
(* tb_control, serialised by its own static lock *)

SetCpuMask(m) ==
    /\ ctl = CtlIdle
    /\ tb_cpu_mask' = m
    /\ UNCHANGED <<tb_init_done, tb_event_mask, t_bufs, ring, lost, call, ctl,
                   irq, panic, overtaken>>

SetEvtMask(m) ==
    /\ ctl = CtlIdle
    /\ tb_event_mask' = m
    /\ UNCHANGED <<tb_init_done, tb_cpu_mask, t_bufs, ring, lost, call, ctl,
                   irq, panic, overtaken>>

\* TBUFOP_set_size: alloc_trace_bufs for the CPUs online, once per boot; it
\* also switches tracing on.  A failed or repeated attempt changes nothing.
SetSize(online) ==
    /\ ctl = CtlIdle
    /\ t_bufs = {}
    /\ t_bufs' = online
    /\ prod' = [c \in CPUS |-> 0]
    /\ cons' = [c \in CPUS |-> 0]
    /\ tb_init_done' = TRUE
    /\ UNCHANGED <<mask, recs, lost, call, ctl, irq, panic, overtaken>>

Enable ==
    /\ ctl = CtlIdle
    /\ t_bufs # {}
    /\ tb_init_done' = TRUE
    /\ UNCHANGED <<mask, t_bufs, ring, lost, call, ctl, irq, panic, overtaken>>

DisableStart ==
    /\ ctl = CtlIdle
    /\ tb_init_done' = FALSE
    /\ ctl' = 0
    /\ owed' = [c \in CPUS |-> 0]
    /\ overtaken' = [c \in CPUS |-> Depth(c)]
    /\ UNCHANGED <<mask, t_bufs, ring, lost_records, missed, call, irq, panic>>

\* Mutant: the counts are cleared without taking t_lock.
DisableClear_NoLock ==
    /\ ctl # CtlIdle
    /\ lost_records' = [lost_records EXCEPT ![ctl] = 0]
    /\ missed' = [missed EXCEPT ![ctl] = 0]
    /\ ctl' = ctl + 1
    /\ UNCHANGED <<tb_init_done, mask, t_bufs, ring, owed, call, irq, panic,
                   overtaken>>

\* One turn of the for_each_online_cpu loop: t_lock taken, the count cleared,
\* t_lock released.  After the last CPU the hypercall returns.
DisableClear ==
    /\ ctl # CtlIdle
    /\ ~Locked(ctl)
    /\ lost_records' = [lost_records EXCEPT ![ctl] = 0]
    /\ missed' = [missed EXCEPT ![ctl] = 0]
    /\ ctl' = ctl + 1
    /\ UNCHANGED <<tb_init_done, mask, t_bufs, ring, owed, call, irq, panic,
                   overtaken>>

-----------------------------------------------------------------------------
(* The consumer in dom0 (module Xentrace has the real one) *)

\* cons is set to a position prod had earlier: the end of some record.
Consume(c) ==
    /\ \E k \in 1 .. Len(recs[c]) :
        /\ cons' = [cons EXCEPT ![c] = recs[c][k].end]
        /\ recs' = [recs EXCEPT ![c] = SubSeq(@, k + 1, Len(@))]
    /\ UNCHANGED <<tb_init_done, mask, t_bufs, prod, lost, call, ctl, irq,
                   panic, overtaken>>

AckVirq ==
    /\ virq
    /\ virq' = FALSE
    /\ UNCHANGED <<tb_init_done, mask, t_bufs, ring, lost, call, ctl, tasklet,
                   panic, overtaken>>

-----------------------------------------------------------------------------
(* Specification *)

\* The steps of the calls that have begun.
CallStep(c) ==
    \/ TraceLock(c)
    \/ TraceDrop(c)
    \/ TraceReserve(c)
    \/ BugOn(c)
    \/ NextRecord(c)
    \/ InsertWrapForLost(c)
    \/ InsertLostRecords(c)
    \/ InsertWrapForRec(c)
    \/ InsertEvent(c)
    \/ TraceUnlock(c)
    \/ TraceNotify(c)
    \/ TraceResume(c)

TraceStep(c) == (\E e \in Events : TraceVar(c, e)) \/ CallStep(c)

ControlStep ==
    \/ \E m \in CpuMasks : SetCpuMask(m)
    \/ \E m \in EvtMasks : SetEvtMask(m)
    \/ \E online \in SUBSET CPUS : 0 \in online /\ SetSize(online)
    \/ Enable
    \/ DisableStart
    \/ DisableClear

HypervisorStep == (\E c \in CPUS : TraceStep(c)) \/ SendVirq \/ ControlStep

ConsumerStep == (\E c \in CPUS : Consume(c)) \/ AckVirq

\* A BUG_ON stops the machine.
Halted == panic /\ UNCHANGED vars

Next == \/ ~panic /\ HypervisorStep
        \/ ~panic /\ ConsumerStep
        \/ Halted

Spec == Init /\ [][Next]_vars

-----------------------------------------------------------------------------
(* Properties *)

\* The words between cons and prod never exceed the buffer, and a call that
\* has passed the dry run always has room for the record it is about to write:
\* no record is written over one that dom0 has not read (the ASSERT in
\* calc_unconsumed_bytes and the window assert in xentrace's monitor_tbufs),
\* although dom0 moves cons and tb_control flips tb_init_done in mid-call.
NoOverrun ==
    \A c \in CPUS :
        /\ Unconsumed(c) <= DataSize
        /\ pc[c] = "rec" => RecSize[ev[c]] <= Avail(c)
        /\ pc[c] = "lost" => LostRecSize <= Avail(c)
        /\ pc[c] \in {"wrap_lost", "wrap_rec"} /\ ~WrapBug(c) => ToWrap(c) <= Avail(c)

\* No record crosses the end of the data area, where the consumer splits its
\* window in two: prod reaches the end exactly or stops short of it, also when
\* the wrap record of a call was skipped because tracing was off and the call
\* goes on after tracing was switched on again.
NoStraddle ==
    [][\A c \in CPUS :
         prod'[c] # prod[c] /\ t_bufs # {} =>
           IF prod[c] < DataSize THEN prod'[c] \in prod[c] + 1 .. DataSize
           ELSE prod'[c] \in (prod[c] + 1 .. 2 * DataSize - 1) \cup {0}]_vars

\* "After this hypercall returns, no more records should be placed into the
\* buffers" (tb_control): once TBUFOP_disable has been through all the locks
\* prod stands still until tracing is enabled again, whatever call was under
\* way on another CPU when it started.
NoRecordAfterDisable ==
    [][~tb_init_done /\ ctl = CtlIdle /\ t_bufs # {} => prod' = prod]_vars

\* The BUG_ON of insert_wrap_record fires only in a call that a TBUFOP_disable
\* has overtaken since the call's own tests of tb_init_done: never while tracing
\* stays on, and never in a call that starts after the disable, although the
\* disable may have returned, and tracing be on again, by the time it fires.
PanicOnlyIfOvertaken == panic => \E c \in CPUS : WrapBug(c) /\ Overtaken(c)

\* The trace buffers implement the lossy log: WRAP records are padding and
\* `end' is not visible.  So as long as tracing stays on every TRC_LOST_RECORDS
\* record carries the exact number of drops since the one before, and no event
\* overtakes the announcement of an earlier drop; a disable may at most add to
\* a later count the drops of calls it overtook.
Log == INSTANCE LossyLog WITH
    Cpus   <- CPUS,
    on     <- tb_init_done,
    log    <- [c \in CPUS |-> [i \in 1 .. Len(recs[c]) |->
                [kind |-> recs[c][i].kind, ev |-> recs[c][i].ev, n |-> recs[c][i].n]]]

LossesAnnounced == Log!Spec

\* BUG_ON(space_left > size) in insert_wrap_record is never reached.
NoPanic == ~panic
=============================================================================
