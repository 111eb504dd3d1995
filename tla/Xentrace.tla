------------------------------ MODULE Xentrace ------------------------------
(***************************************************************************)
(* The dom0 daemon xentrace (tools/xentrace/xentrace.c) as the consumer of *)
(* the trace buffers: its set-up, the loop of monitor_tbufs, write_buffer  *)
(* with the VMFUNC parser and the VMI program it runs, its wait for        *)
(* VIRQ_TBUF or a timeout, and its exit on a signal or on a failed write.  *)
(* The daemon is the only caller of tb_control here.                       *)
(***************************************************************************)
EXTENDS TraceBuf

CONSTANTS Discard,  \* option -D
          MaxRuns   \* bound: how often the daemon is started

ASSUME XentraceAssumption == Discard \in BOOLEAN /\ MaxRuns \in Nat \ {0}

VARIABLES
    mon,          \* where the daemon is
    cur,          \* i: the buffer it looks at
    snap,         \* prod as read at the start of the window
    interrupted,  \* set by close_handler
    last_read,
    runs,         \* daemons started so far
    chunks        \* the <<start, size>> sections written of this window

daemon == <<mon, cur, snap, interrupted, last_read, runs, chunks>>
xvars  == <<vars, daemon>>

XTypeOK ==
    /\ mon \in {"off", "size", "enable", "discard", "scan", "write1", "write2",
                "advance", "disabling", "poll", "done", "failed"}
    /\ cur \in 0 .. NrCpus
    /\ snap \in 0 .. 2 * DataSize - 1
    /\ interrupted \in BOOLEAN
    /\ last_read \in BOOLEAN
    /\ runs \in 1 .. MaxRuns
    /\ chunks \in Seq((0 .. DataSize - 1) \X (0 .. DataSize))

XInit ==
    /\ Init
    /\ mon = "off"
    /\ cur = 0
    /\ snap = 0
    /\ interrupted = FALSE
    /\ last_read = TRUE
    /\ runs = 1
    /\ chunks = <<>>

-----------------------------------------------------------------------------
(* Set-up *)

\* main: set_evt_mask for option -e.
MonSetMask ==
    /\ mon = "off"
    /\ SetEvtMask(Events)
    /\ mon' = "size"
    /\ UNCHANGED <<cur, snap, interrupted, last_read, runs, chunks>>

\* get_tbufs: xc_tbuf_enable first sets the size and ignores the error it gets
\* when the buffers exist, or when there is no memory for them.
MonSetSize ==
    /\ mon = "size"
    /\ SetSize(CPUS) \/ UNCHANGED vars
    /\ mon' = "enable"
    /\ UNCHANGED <<cur, snap, interrupted, last_read, runs, chunks>>

MonEnable ==
    /\ mon = "enable"
    /\ Enable
    /\ mon' = IF Discard THEN "discard" ELSE "scan"
    /\ cur' = 0
    /\ UNCHANGED <<snap, interrupted, last_read, runs, chunks>>

\* TBUFOP_enable fails if there are no buffers: exit(1).
MonNoBufs ==
    /\ mon = "enable"
    /\ t_bufs = {}
    /\ mon' = "failed"
    /\ UNCHANGED <<vars, cur, snap, interrupted, last_read, runs, chunks>>

\* cons is set to p; the records up to p are gone.
SetCons(c, p) ==
    LET read == {i \in 1 .. Len(recs[c]) :
                   Dist(recs[c][i].end, cons[c]) <= Dist(p, cons[c])}
        k    == IF read = {} THEN 0 ELSE CHOOSE i \in read : \A j \in read : j <= i
    IN  /\ cons' = [cons EXCEPT ![c] = p]
        /\ recs' = [recs EXCEPT ![c] = SubSeq(@, k + 1, Len(@))]
        /\ UNCHANGED <<tb_init_done, mask, t_bufs, prod, lost, call, ctl, irq, panic,
                       overtaken>>

\* meta[i]->cons = meta[i]->prod, buffer by buffer.
MonDiscard ==
    /\ mon = "discard"
    /\ SetCons(cur, prod[cur])
    /\ cur' = (cur + 1) % NrCpus
    /\ mon' = IF cur' = 0 THEN "scan" ELSE "discard"
    /\ UNCHANGED <<snap, interrupted, last_read, runs, chunks>>

-----------------------------------------------------------------------------
(* The window of one buffer *)

\* cons and prod are read once; an empty window is skipped.
MonScan ==
    /\ mon = "scan"
    /\ cur < NrCpus
    /\ IF cons[cur] = prod[cur]
       THEN cur' = cur + 1 /\ UNCHANGED <<mon, snap>>
       ELSE mon' = "write1" /\ snap' = prod[cur] /\ UNCHANGED cur
    /\ UNCHANGED <<vars, interrupted, last_read, runs, chunks>>

\* Mutant: the offset is not brought back into the data area.
StartOffset_NoModulo == cons[cur]

WindowSize  == Dist(snap, cons[cur])
StartOffset == cons[cur] % DataSize
EndOffset   == snap % DataSize

\* Mutant: a full window counts as one that does not wrap.
OneChunk_FullWindow == EndOffset >= StartOffset

\* The window does not wrap and is written in one piece.
OneChunk == EndOffset > StartOffset

\* write_buffer: the parser prints the two words after the header at `start',
\* the VMI program is run, then the section is written to the file.
WriteBuffer(start, size) ==
    /\ chunks' = Append(chunks, <<start, size>>)
    /\ UNCHANGED <<vars, cur, snap, interrupted, last_read, runs>>

MonWrite1 ==
    /\ mon = "write1"
    /\ WriteBuffer(StartOffset, IF OneChunk THEN WindowSize ELSE DataSize - StartOffset)
    /\ mon' = IF OneChunk THEN "advance" ELSE "write2"

MonWrite2 ==
    /\ mon = "write2"
    /\ WriteBuffer(0, EndOffset)
    /\ mon' = "advance"

\* A short write, no disk space left, an error of poll or of the event channel:
\* exit(EXIT_FAILURE) on the spot, with tracing still on.
MonFail ==
    /\ mon \in {"write1", "write2", "poll"}
    /\ mon' = "failed"
    /\ UNCHANGED <<vars, cur, snap, interrupted, last_read, runs, chunks>>

\* Mutant: prod is read again instead of the snapshot being used.
MonAdvance_Reread ==
    /\ mon = "advance"
    /\ SetCons(cur, prod[cur])
    /\ cur' = cur + 1
    /\ mon' = "scan"
    /\ chunks' = <<>>
    /\ UNCHANGED <<snap, interrupted, last_read, runs>>

\* Mutant: cons is set to the offset in the data area.
MonAdvance_Offset ==
    /\ mon = "advance"
    /\ SetCons(cur, EndOffset)
    /\ cur' = cur + 1
    /\ mon' = "scan"
    /\ chunks' = <<>>
    /\ UNCHANGED <<snap, interrupted, last_read, runs>>

\* meta[i]->cons = prod
MonAdvance ==
    /\ mon = "advance"
    /\ SetCons(cur, snap)
    /\ cur' = cur + 1
    /\ mon' = "scan"
    /\ chunks' = <<>>
    /\ UNCHANGED <<snap, interrupted, last_read, runs>>

-----------------------------------------------------------------------------
(* Between two scans *)

\* Not interrupted: wait_for_event_or_timeout.
MonSleep ==
    /\ mon = "scan" /\ cur = NrCpus
    /\ ~interrupted
    /\ mon' = "poll"
    /\ cur' = 0
    /\ UNCHANGED <<vars, snap, interrupted, last_read, runs, chunks>>

\* poll returns for the event channel; the event is taken and unmasked.
MonVirq ==
    /\ mon = "poll"
    /\ AckVirq
    /\ mon' = "scan"
    /\ UNCHANGED <<cur, snap, interrupted, last_read, runs, chunks>>

\* Mutant: poll waits without a timeout.
MonTimeout_EintrOnly ==
    /\ mon = "poll"
    /\ interrupted
    /\ mon' = "scan"
    /\ UNCHANGED <<vars, cur, snap, interrupted, last_read, runs, chunks>>

\* poll returns for the timeout, or with EINTR.
MonTimeout ==
    /\ mon = "poll"
    /\ mon' = "scan"
    /\ UNCHANGED <<vars, cur, snap, interrupted, last_read, runs, chunks>>

\* Mutant: last_read is not cleared.
MonDisable_KeepLastRead ==
    /\ mon = "scan" /\ cur = NrCpus
    /\ interrupted /\ last_read
    /\ DisableStart
    /\ mon' = "disabling"
    /\ UNCHANGED <<cur, snap, interrupted, last_read, runs, chunks>>

\* First time round after the signal: disable_tbufs, then one last read.
MonDisable ==
    /\ mon = "scan" /\ cur = NrCpus
    /\ interrupted /\ last_read
    /\ DisableStart
    /\ last_read' = FALSE
    /\ mon' = "disabling"
    /\ UNCHANGED <<cur, snap, interrupted, runs, chunks>>

\* disable_tbufs can not open the hypervisor's interface, or the hypercall is
\* refused: a message, and the last read goes ahead with tracing still on.
MonDisableFails ==
    /\ mon = "scan" /\ cur = NrCpus
    /\ interrupted /\ last_read
    /\ last_read' = FALSE
    /\ cur' = 0
    /\ UNCHANGED <<vars, mon, snap, interrupted, runs, chunks>>

\* Mutant: the daemon does not wait for the hypercall to go through the locks.
MonDisabled_Early ==
    /\ mon = "disabling"
    /\ mon' = "scan"
    /\ cur' = 0
    /\ UNCHANGED <<vars, snap, interrupted, last_read, runs, chunks>>

\* The hypercall returns.
MonDisabled ==
    /\ mon = "disabling"
    /\ ctl = CtlIdle
    /\ mon' = "scan"
    /\ cur' = 0
    /\ UNCHANGED <<vars, snap, interrupted, last_read, runs, chunks>>

MonExit ==
    /\ mon = "scan" /\ cur = NrCpus
    /\ interrupted /\ ~last_read
    /\ mon' = "done"
    /\ UNCHANGED <<vars, cur, snap, interrupted, last_read, runs, chunks>>

\* SIGHUP, SIGTERM, SIGINT or SIGALRM: close_handler.
Signal ==
    /\ mon \notin {"off", "done", "failed"}
    /\ ~interrupted
    /\ interrupted' = TRUE
    /\ UNCHANGED <<vars, mon, cur, snap, last_read, runs, chunks>>

\* The administrator starts the daemon again, on buffers that exist by now.
Restart ==
    /\ mon \in {"done", "failed"}
    /\ runs < MaxRuns
    /\ runs' = runs + 1
    /\ mon' = "off"
    /\ cur' = 0
    /\ snap' = 0
    /\ interrupted' = FALSE
    /\ last_read' = TRUE
    /\ chunks' = <<>>
    /\ UNCHANGED vars

-----------------------------------------------------------------------------
(* Specification *)

\* What the daemon does by itself.
MonStep == \/ MonSetMask \/ MonSetSize \/ MonEnable \/ MonNoBufs \/ MonDiscard
           \/ MonScan \/ MonWrite1 \/ MonWrite2 \/ MonAdvance
           \/ MonSleep \/ MonVirq \/ MonTimeout
           \/ MonDisable \/ MonDisabled \/ MonDisableFails \/ MonExit

\* The rest of the hypervisor.
XenStep == /\ (\E c \in CPUS : TraceStep(c)) \/ SendVirq \/ DisableClear
           /\ UNCHANGED daemon

Stopped == /\ panic \/ (mon \in {"done", "failed"} /\ runs = MaxRuns)
           /\ UNCHANGED xvars

XNext == \/ ~panic /\ MonStep
         \/ ~panic /\ MonFail
         \/ ~panic /\ Signal
         \/ ~panic /\ Restart
         \/ ~panic /\ XenStep
         \/ Stopped

XSpec == XInit /\ [][XNext]_xvars

\* Xen runs a call of __trace_var to its end and a hypercall and a tasklet to
\* theirs; dom0 runs the daemon; poll has a timeout; the VMI program that
\* write_buffer waits for terminates.  Events, signals, failures and restarts
\* need not happen.
XFairness ==
    /\ \A c \in CPUS : WF_xvars(~panic /\ CallStep(c) /\ UNCHANGED daemon)
    /\ WF_xvars(~panic /\ SendVirq /\ UNCHANGED daemon)
    /\ WF_xvars(~panic /\ DisableClear /\ UNCHANGED daemon)
    /\ WF_xvars(~panic /\ MonStep)

FairSpec == XSpec /\ XFairness

-----------------------------------------------------------------------------
(* Properties *)

\* The daemon is a consumer the trace buffers may have: every step of the pair
\* is one of TraceBuf, whose properties therefore hold of the real consumer.
LegalConsumer == Spec

\* Words of the data area in the section of size n from offset s.
Section(s, n) == s .. s + n - 1

\* When cons is advanced, the sections written are exactly the window: no word
\* past the end of the data area, none twice, none left out, for every way a
\* window can lie across the wrap.
WindowWritten ==
    mon = "advance" =>
        /\ UNION {Section(chunks[i][1], chunks[i][2]) : i \in 1 .. Len(chunks)}
             = {(cons[cur] + j) % DataSize : j \in 0 .. WindowSize - 1}
        /\ Len(chunks) = 2 => chunks[1][2] + chunks[2][2] = WindowSize

\* "Disable tracing, then read through all the buffers one last time"
\* (monitor_tbufs): a daemon that exits on a signal and found its disable
\* accepted leaves no record behind, although CPUs were in the middle of
\* __trace_var when it asked.  If disable_tbufs failed tracing is still on and
\* the buffers fill up again.
DrainedAtExit ==
    mon = "done" /\ ~tb_init_done => \A c \in CPUS : Unconsumed(c) = 0

\* Words of the data area that record i of buffer c occupies.
RecordWords(c, i) ==
    LET from == IF i = 1 THEN cons[c] ELSE recs[c][i - 1].end
    IN  {(from + j) % DataSize : j \in 0 .. Dist(recs[c][i].end, from) - 1}

\* A record that leaves a buffer has been written to the file, -D apart: a
\* record published while the window was being written, which may take as long
\* as the VMI program does, stays for the next window.
RecordsSaved ==
    [][mon # "discard" =>
         \A c \in CPUS : \A i \in 1 .. Len(recs[c]) - Len(recs'[c]) :
            RecordWords(c, i) \subseteq
              UNION {Section(chunks[j][1], chunks[j][2]) : j \in 1 .. Len(chunks)}]_xvars

\* Unread records do not stay at the front of a buffer for ever: whether or not
\* a VIRQ is sent, the daemon reads them, unless it ends or Xen stops.
RecordsRead ==
    \A c \in CPUS : \A p \in 0 .. 2 * DataSize - 1 :
        cons[c] = p /\ prod[c] # p ~>
            cons[c] # p \/ panic \/ mon \in {"done", "failed"}

\* A signal ends the daemon: in particular TBUFOP_disable gets every lock.
SignalEndsDaemon == interrupted ~> panic \/ mon \in {"done", "failed"}
=============================================================================
