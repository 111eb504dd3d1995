# VMI-as-a-Service in TLA+

VMI-as-a-Service is a modified Xen 4.6.0. A guest asks for a run of a virtual
machine introspection (VMI) program by switching its EPT view with VMFUNC, which
does not exit to the hypervisor. Xen notices the switch at the next intercepted
RDTSC and writes a trace record; the dom0 daemon `xentrace` reads the record and
runs the VMI program. This directory specifies that path and what it
stands on (the contents of the EPT views and the rings that carry a guest's events to
dom0), model-checks it with TLC, and proves with TLAPS, for every value of the
constants, every safety and action property that TLC does not find violated.

All paths below are relative to `src/`; `X/` stands for `src/xen-4.6.0/`.

## 1. Inventory

| part | source | state | operations | module |
|---|---|---|---|---|
| trace buffers | `X/xen/common/trace.c` | `tb_init_done`, masks, per CPU `t_buf` (`prod`, `cons`), `t_lock`, `lost_records`, the tasklet | `__trace_var`, `tb_control`, `alloc_trace_bufs`, `trace_notify_dom0` | `TraceBuf`, `LossyLog` |
| event filter | `trace.c`, `X/tools/xentrace/xentrace.c` | `tb_event_mask`, `opts.evt_mask` | the tests of `__trace_var` and `trace_will_trace_event`, `parse_evtmask`, `set_evt_mask` | `TraceFilter` |
| xentrace daemon | `xentrace.c`, `X/tools/libxc/xc_tbuf.c` | position in `monitor_tbufs`, `interrupted`, `last_read` | set-up, scan, `write_buffer` with parser and VMI program, wait, signal, exit, restart | `Xentrace` |
| altp2m views | `X/xen/arch/x86/hvm/hvm.c`, `X/xen/arch/x86/mm/{altp2m,p2m}.c`, `X/xen/arch/x86/hvm/vmx/vmx.c` | `altp2m_active`, the EPTP list, `active_vcpus`, `p2midx`, the VMCS fields | `do_altp2m_op`, VM exit, `vm_event` responses, VMFUNC | `Altp2m` |
| VMFUNC perception | `hvm.c`, `vmx.c` | the globals `eptp_idx`, `eptp_idx_last`; RDTSC exiting per vCPU | `hvm_rdtsc_intercept`, `do_intercept_rdtsc`, `do_disable_intercept_rdtsc` | `Perception` |
| altp2m view contents | `p2m.c`, `X/xen/arch/x86/mm/p2m-ept.c` | host p2m, the tables of the views, remapped gfn ranges, the locks | lazy copy, propagation, `set_mem_access`, `change_gfn`, reset, flush | `ViewTables` |
| vm_event ring | `X/xen/common/vm_event.c`, `X/xen/common/wait.c` | ring, slot counts, wait queue, blocked vCPUs, pause counts | claim, wait, put, cancel, resume, wake, enable, disable | `VmEvent` |
| xentrace memory buffer | `xentrace.c` (`membuf_*`) | `membuf.prod`, `cons`, `pending_size` | reserve, write, dump | not modelled |
| comport log | `hvm.c` | `comportlog`, `comportlogptr` | add, print | not modelled |
| user tools | `hvm_altp2m_prepare_for_vmfunc_test/`, `exec_vmfunc/`, `switch_on/` | none | issue the hypercalls, VMFUNC and RDTSC | their effect only |
| the rest of Xen | `X/` | | | not modelled |

How they interact: `Perception` and every other trace point call `__trace_var`
(macro `HVMTRACE_2D`); `trace.c` shares the buffers with `xentrace` through mapped
pages (`prod` written by Xen only, `cons` by the daemon only) and signals it with
VIRQ_TBUF; the daemon drives `tb_control` by sysctl; the views are changed by
hypercalls from dom0 and from the guest, by VMFUNC inside the guest, and by answers
to vm_events; the perception code reads `p2midx`, which the head of
`vmx_vmexit_handler` brings up to date. A violation in a restricted view becomes a
request on the monitor ring, whose answer may switch the view (`Altp2m`'s `Respond`
and `Answer`).

What is hard here, and what would make each part right:

* **trace buffers**: calls on all CPUs are anywhere in `__trace_var` when tracing
  is switched, and an interrupt that traces nests a call in another of its CPU;
  `tb_init_done` is tested outside the lock and again per record; positions run
  modulo twice the size; records must not cross the end. Right means: nothing unread
  is overwritten, losses are announced exactly while tracing stays on, a returned
  disable is final.
* **xentrace**: works on a snapshot of `prod` while Xen goes on and while the VMI
  program runs; full, wrapped and boundary windows; signal at any point; failure
  and restart on live buffers. Right means: every record that leaves a buffer has
  been written, none is left at exit if the disable was accepted, no waiting for ever.
* **altp2m**: the guest moves without telling Xen; a VM exit counts the move without a
  lock; operations take several steps, wait for vCPUs and for a lock held by somebody
  who waits for vCPUs. Right means: with orderly callers the counts are exact and no
  vCPU ever runs on a destroyed view; operations end.
* **perception**: two unlocked globals for all vCPUs of all domains, and records that
  may be masked or dropped after the globals have been brought up to date. A
  record should name the right view of the right domain, and does not (section 3).
  What is left: it names a view somebody has been on, and reports end when nobody moves.
* **filter**: three different rules for three parts of an event number.
* **vm_event ring**: slots are reserved, used and released at different times by vCPUs
  and by callers in other domains; vCPUs are blocked, queued or paused, and woken by
  whoever frees a slot; the helper may take the ring down at any moment. Right means:
  a reserved slot is there when it is used, nobody sleeps for ever, a vCPU is paused
  exactly for what it asked.
* **view contents**: a fault, an operation of dom0 and a change of the host p2m work on
  one table under three kinds of locks, some of which they let go of in between. Right
  means: a view never maps what the domain no longer has, and nothing dom0 has set is
  lost. Neither is quite true (section 3).

The hazards, each at its line and with the properties against it, are listed in
`PROJECT.json`.

## 2. Modules

### TraceBuf

One variable per global or per-CPU datum of `trace.c`, plus, per CPU, the locals of
a call of `__trace_var` (`pc`, `ev`, `below`, `to_wrap`, `page`), the calls of the CPU
that an interrupt has stopped (`stack`), and the progress of a `TBUFOP_disable` through
the locks (`ctl`). The history variables are `recs`, the records between `cons` and
`prod` with the positions at which they end; `missed` and `owed`, the events dropped and
not announced, in all and since tracing was last switched on; `overtaken`, how many of
a CPU's calls were past their tests when a disable began.

The steps of a call are cut where another actor can intervene and be noticed: the
unlocked tests (`TraceVar`), taking the lock (`TraceLock`), the dry run
(`TraceDrop`, `TraceReserve`), and for each record to insert the test of
`tb_init_done` in `next_record` (`NextRecord`) and the writing with the publication
of `prod` (`InsertWrapForLost`, `InsertLostRecords`, `InsertWrapForRec`,
`InsertEvent`), the unlock, and the late test of the high-water mark. Interrupts are off
only under the lock (`trace.c:731-818`): while a call waits for it or has given it back
another may begin on the same CPU (`TraceVar` on top of a call, `TraceResume` at its
end), to any depth; `MaxNested` bounds it for TLC. `BugOn` is
`BUG_ON(space_left > size)`. `tb_control` holds a static lock, so its operations are
single steps except disable, which takes the CPUs' locks one after the other
(`DisableStart`, `DisableClear`).

`Consume` is what the buffers allow a consumer; module `Xentrace` shows that the
daemon does no more (`LegalConsumer`).

Abstractions. Sizes are in 32-bit words; a page holds 1022, a lost-records record
takes 7, a VMFUNC record 3, no record more than 10. Payloads and the TSC are left
out, as is the split of a copy at a page boundary. The unlocked tests are one step: an
interrupt in the middle of them is the same as one before or after. `MaxLost` keeps the
count of drops finite: at the bound only a call that finds room starts, so the count is
announced at every value up to the bound. `bogus()`, which guards against a position out
of range, is not an action: `TypeOK` shows that it never finds one.

### LossyLog

What a reader may rely on: per CPU a log of events in order, which may lose events but,
as long as tracing stays on, puts a record with the exact number lost before the first
event after a loss. When tracing is switched off the losses so far may be forgotten
(`owed`), and the drop of a call that the disable overtook may be added to a later count
(`missed`). `TraceBuf` implements it (`LossesAnnounced`): the log is `recs` without
positions.

### TraceFilter

Masks and events are 32-bit words, each the set of its bits that are 1, so that the
`&` and `|` of the code are intersection and union. `Admits` is the test of
`__trace_var`: class and subclass must meet, the low byte must be equal. `ParseEvtmask`
is what an `-e` option does to the mask: a class adds its bits, a number replaces them.
`args`, the options in their order, is a history variable. `EventIds` are the events
passed to `__trace_var`, of which `public/trace.h` has the list; `FilterAssumption` says
that VMFUNC is the only HVM handler event among them that ends in 0x30, and TLC checks it
for the events of the run. The records of the trace itself, TRC_LOST_RECORDS and
TRC_TRACE_WRAP_BUFFER, are written past the mask (`trace.c:640,661`), and without `-D` a
daemon also reads what an earlier mask let through: `VmfuncAlone` is about which events
are admitted.

### Xentrace

`EXTENDS TraceBuf` and adds the daemon, which replaces `ConsumerStep` and is the
only caller of `tb_control`. Every write, the VMI program included, is one step
during which any number of steps of Xen may have happened before and after;
`chunks` holds the sections written of the current window. The parser's two `printf`s
change no state and are left out. `MonFail` is every
`exit(EXIT_FAILURE)`, `Restart` a new daemon on the buffers the old one left.
`MonDisableFails` is a `disable_tbufs` that cannot open the interface or whose hypercall
is refused (`xentrace.c:435-451`): the daemon prints a message, reads once more and exits
with tracing on. Xen has all CPUs online when the daemon allocates the buffers.

Not modelled: options `-M`, `-x`, `-X` and `-c`, and that `system()` ignores SIGINT
while the VMI program runs (the other signals are not ignored, and a later SIGINT is
the same action).

### Altp2m

One domain, its vCPUs and callers in dom0. `where` says where a vCPU is between two
VM entries; `op` holds the operation of a caller and how far it has come. A pause is
`op.paused` together with the vCPUs it is for (`Targets`): a held vCPU does not
enter the guest, and the operation goes on when they have all left their CPUs, which
they do when they have handled their exit. The synchronisation of a VM exit is three
steps: the lookup under the list's lock (`Find`), the comparison with the `atomic_dec` of
the old view (`SyncDec`), and the move with the `atomic_inc` of the new one (`SyncMove`),
the last two without a lock (`vmx.c:2939-2944`). A p2m is identified with its index and
its EPTP; rebuilding a p2m (`ept_p2m_uninit`, `ept_p2m_init`) is not visible. A NULL
from `p2m_get_altp2m` that is used, like a BUG_ON, sets `panic`.

`set_domain_state` is four kinds of step (`SetState`, `InitZero`, one `Initialise`
or `Destroy` per vCPU, `Flush`), as nothing protects them from the guest's steps;
its read and write of `altp2m_active` are one. The initial `p2midx` is 0 because
`struct vcpu` is allocated zeroed and nothing resets it before the first activation.
The CPU has VMFUNC; virtualisation exceptions are never armed in this code. Domain
teardown and the emulation of VMFUNC on other CPUs are left out.

`vm_event_resume` switches the view of any vCPU that a response with
VM_EVENT_FLAG_ALTERNATE_P2M names, ahead of and apart from the test of
VM_EVENT_FLAG_VCPU_PAUSED (`vm_event.c:415-418`). An n2rwx request carries the first flag
without pausing the vCPU (`p2m.c:1730-1756`), and `public/vm_event.h:83-90` asks for no
pause. For the vCPU that waits for this answer the switch is one step (`Respond`); for
any other it is three (`Answer`, `AnswerMove`, `AnswerEptp`; `p2m.c:2131-2145`), with the
list's lock taken throughout, also while `vmx_vmcs_enter` waits for the vCPU
(`ListFree`).

Nothing in the code keeps such an answer from a vCPU that is in the middle of its own
synchronisation, or an operation from overlapping with a set_domain_state. Both are
modelled, and counted in `disorder`. `Orderly`, `disorder = 0`, is what the code leaves
to its callers: the properties about counts and views have it as a premise, since the
code breaks them without it (section 3). `Embrace` names the waits in a circle: two vCPUs
of the domain whose operations pause each other, or an answer that pauses a vCPU which
spins on the lock that the answer holds.

`MaxOps` bounds the operations under way at a time; at `MaxDisorder` no new one begins.

### Perception

`hvm_rdtsc_intercept` in the steps `ReadIndex`, `Compare`, `Trace`, `Update`. The
globals are not atomic and not volatile: each use of `eptp_idx` after the first may
see memory or the value still in a register (`Load`). `Trace` may lose the record:
`__trace_var` masks it, drops it for want of room, or finds tracing off, and
`eptp_idx_last` is brought up to date all the same. The exit and its synchronisation of
`p2midx` are one step, which `HandlerSeesView` of `Altp2m` justifies for orderly callers;
activation with enable_notify is one step too, so the corner that `EptpFound` of `Altp2m`
is about does not occur here. `reported` (the records written) and `visited` (the views a
vCPU has been on) are history variables.

### VmEvent

One of the three rings of an HVM domain; `Init` chooses which, and `Events` and
`Outsiders` say who puts what on it. A caller goes through `Trigger` (with the pause that
`p2m_mem_access_check` makes before it claims), `Test` and `Grab`
(`vm_event_grab_slot`, whose look at `ring_page` is outside the lock), if the ring is
full `Prepare`, `Retest`, `Regrab`, `Awake` and `Finish` (the macro `wait_event`), and
`Put` or `Cancel`. `Answer` is the helper, external; `Resume` is one round of
`vm_event_resume`. What runs under the ring's lock is one step. `Wake` is `vm_event_wake`
with both its halves: `Unblocked` gives in closed form the vCPUs the loop of
`vm_event_wake_blocked` reaches.

A pause of the calling vCPU takes effect when it leaves Xen or sleeps. ASSERT is empty in
the default build, so a `Put` after a take-down writes to a page that has been given back:
`stray` records it. `TriggerNoMemory` is `p2m_mem_access_check` when it cannot allocate
the request: it pauses the vCPU all the same (`p2m.c:1723`, `1761-1762`). `NoRing` is
-ENOSYS for whoever claims: a vCPU that reports a memory access has been paused already,
and `p2m_mem_paging_populate` crashes the domain (`p2m.c:1317-1325`; `crashed`). `orphans`
counts the pauses that no answer will undo.

`xc_monitor_enable` pauses the domain around the set-up (`SetUp`); the paging and the
share ring are set up by a plain domctl, with vCPUs anywhere in Xen
(`xc_mem_paging.c:49`, `xc_memshr.c:54`). `init_waitqueue_head` then forgets whoever is on
the queue (`forgotten`), and the model ends there: the vCPU will unlink itself from a list
it is not on, and what that does to memory is not modelled. Nor is what a set-up does to
a lock that somebody holds (`vm_event_ring_lock_init`, `vm_event.c:63`, and the lock of
the queue): what runs under a lock is one step, so no set-up finds one held. The monitor
ring's pause is needed:
without it `NobodyAsleepWithoutRing` fails with one slot.

Left out: the pause of the whole domain for `access_required` without a listener,
`vm_event_cleanup` at the death of the domain, the domctl's checks, and what an answer
does apart from unpausing (`Altp2m` has the switch of the view).

### ViewTables

Host p2m and view tables as functions of guest frames. `HostSet` is `ept_set_entry` on
the host p2m; the propagation follows with the host's lock held, in one step per view
(`PropView`, `PropAll`), as it takes the lock of each. `Fault` and `LazyCopy` are the two
halves of `p2m_altp2m_lazy_copy`: the view is let go of in between, the host p2m is not.
`BeginPageOp` and `PageWrite` are the two halves of `set_mem_access` and `change_gfn`
under the lock of the view, the host p2m being read without its lock (the lookup with
P2M_ALLOC at `p2m.c:2406` too). `HostSet` may also write the page that is there already, a
change of type or access, which is propagated like any other. A write of an entry may
fail: `PageWriteFails` is an error for dom0, `LazyCopyFails` crashes the domain
(`p2m.c:2199-2205`). `FlushTable` is what
`p2m_flush_table` does to a view: nothing (below). Which view a vCPU may run on
is `Altp2m`'s matter; here it moves freely between valid ones while not in Xen.

Of an entry, `src`, `remap` and `left` are kept for the properties: the gfn at which the
host p2m had the page, whether dom0 remapped it, and whether a flush has passed it by.

Abstractions. Pages of 4K and of one type: for a superpage the propagation looks at its
first gfn only, which is not modelled. `default_access`, #VE and the M2P are left out
(`change_gfn` to INVALID_GFN ends in `p2m_remove_page`, which also clears the M2P entry of
a page the host p2m still maps). One thread in dom0; activation is one step; altp2m goes
off in several, and a change of the host p2m in between is not propagated.

## 3. Runs

`tlc -config <cfg> <module>`.

| run | instance | what it shows |
|---|---|---|
| `tracebuf_ring` | 1 CPU, calls nested once, 5 words, records of 1 and 2, lost-records record of 2, 2 drops | `TypeOK`, `NoOverrun`, `NoStraddle`, `NoRecordAfterDisable`, `PanicOnlyIfOvertaken`; `LossesAnnounced`: the refinement of `LossyLog` |
| `filter` | 13 events of several classes, 5 classes and 5 numbers, up to 3 `-e` options, any number of daemons | `MaskAsAsked`: the mask is the last number with the classes named after it; `VmfuncAlone`: a last `-e` with the number of VMFUNC admits that event alone |
| `xentrace_daemon` | 1 CPU, 5 words, records of 2, 2 daemons, with `-D` | `WindowWritten`, `RecordsSaved`, `LegalConsumer`, `DrainedAtExit`; under fairness `RecordsRead`, `SignalEndsDaemon` |
| `altp2m_views` | 2 vCPUs, 1 caller in dom0, 2 views, two operations at a time, one breach of the rules | `ActiveCount`, `NoStaleView`, `HandlerSeesView`, `InactiveMeansHost`; under fairness `OpsEnd` |
| `perception_races` | 2 vCPUs in 2 domains, 2 views | `OnlyVisited`; under fairness `PerceptionSettles` |
| `vmevent_rings` | 2 vCPUs, 1 caller outside, 2 slots, each of the three rings, set up twice | `RoomForHolders`, `NobodyAsleepWithoutRing`, `PausedForRequest`, `ClearRingUnblocks`, `NeverQueued`; under fairness `BlockedWoken`, `QueuedServed`, `PausedAnswered` |
| `view_tables` | 2 frames, 1 vCPU, 2 views, 4 operations of dom0, 2 changes of the host p2m | `ViewsFollowHost`; under fairness `TablesEnd` |

The type invariant of each module is checked too.

Bounds. Five words with records of 1 and 2 let a record, a wrap record and a
lost-records record begin and end at every offset, including exactly at the wrap,
and fill the buffer exactly and by one short. Records that announce 1 and 2 are both
written, so a count that is merely "some" would be found out; one nested call is enough
for a drop between the tests of a call and its lock. With records of 2 in 5 words every
shape of window occurs in `xentrace_daemon`: not wrapped, wrapped, ending at the wrap,
full. That run has no nested calls: `LegalConsumer` carries over what `TraceBuf` has.
Two operations at a time on two vCPUs are what it takes for a mutual wait, one breach for
an answer to meet a vCPU in mid-exit. Two vCPUs in two domains race on the globals of the
perception in every order. A ring of two slots with two vCPUs and an outsider is full, has
a queue, and has vCPUs blocked ahead of being full; the second set-up finds what the first
has left behind. Two frames and two views are the least in which a page is remapped, its
source dropped, and a second view impacted, which resets all; four operations activate,
create a view, remap in both. `MaxLost`, `MaxNested`, `MaxRuns`, `MaxArgs`, `MaxOps`,
`MaxDisorder`, `MaxEnables` and `MaxChanges` bound what the code does not.

Fairness. Weak fairness of: a call of `__trace_var` once begun, the tasklet, a
disable once begun (Xen runs all of these to their ends on its own CPUs; the lock
that a disable waits for is held for a bounded time), the daemon's own steps (dom0
schedules it, `poll` has a timeout, the VMI program that `write_buffer` waits for is
taken to terminate), operations of `do_altp2m_op` once begun, and a vCPU's VM exit
and its handling (a paused vCPU is kicked out of the guest by an interrupt). Nothing
is assumed of events, signals, failures, VMFUNCs, hypercalls or answers: they may
never happen. A vCPU that waits for an answer counts as paused, so no answer is
needed for `OpsEnd`.

`OpsEnd` allows for `Embrace`, the waits in a circle the code does not prevent, and for
nothing else.

In `Perception` an intercept once begun is run to its end. Nobody has to execute RDTSC;
`PerceptionSettles` has the premise that somebody with altp2m does, again and again.

On the ring, every caller once it has begun, every vCPU that can run, and the helper
(`Answer`, `Resume`) are weakly fair: the helper is in dom0 and loops on its event
channel. The lock of the ring is a ticket lock. The three liveness properties have the
premise `NrVcpus <= RingSize`, without which the code fails them (below). `BlockedWoken`
and `QueuedServed` also have `Settles`: outsiders never sleep and cancelling vCPUs are
never blocked, so either could hold slots for as long as it goes on. In `ViewTables` the
propagation, an operation and a copy (that may fail) are weakly fair once begun; the lock
of a p2m is an rwlock whose writers do not queue (`X/xen/common/spinlock.c:380-395`), so
`TablesEnd` depends on dom0's operations being bounded.

Deadlock is checked in all runs but those of `VmEvent` and `ViewTables`, which may stop:
a ring taken down as often as `MaxEnables` allows, with its vCPUs paused for answers that
never come, or a vCPU forgotten; all operations and changes made, and every page copied. A
stopped machine, a crashed domain, a mutual wait in `Altp2m` or a daemon not started again
is a stuttering step of its own (`Halted`, `Stopped`, the last disjunct of `Altp2mNext`).

### Where code and text disagree

Five runs check what a comment, an assertion or a document says, and TLC finds it
violated.

* `tracebuf_bug_on` (`NoPanic`): `insert_lost_records` may write nothing because a
  disable cleared `tb_init_done` in mid-call, yet the local `bytes_to_wrap` is
  reduced; the wrap record then sized from it meets `BUG_ON(space_left > size)`.
  `PanicOnlyIfOvertaken`, proved, says that it takes a call which a disable has
  overtaken since its tests. The disable may have returned by then: a nested call can
  count a drop after the disable has cleared the count, and its outer call meets it.
* `altp2m_early_notify` (`EptpFound`): a vCPU that enables VMFUNC between the
  setting of `altp2m_active` and its own initialisation crashes the domain, and
  then Xen, at its next exit.
* `perception_wrong_domain` (`TruthfulReport`): with a second domain a record pairs
  the DomID of one with the view of the other.
* `views_flush` (`NothingLeftBehind`): `p2m_flush_table`, "Reset this p2m table to be
  empty", returns at once for a view, since `np2m_base` of a view is never anything but
  P2M_BASE_EADDR. A view that is reset because a remapped page was dropped still maps
  the page, and a view destroyed and created again has its old entries.
* `views_lazy_copy` (`SpecialsKept`): "If the fault is for a present entry: indicate that
  outer handler should handle fault" (`p2m.c:2154-2155`). A guest's fault finds no entry
  and lets go of the view, dom0 restricts or remaps the page there, and the copy of the
  host entry overwrites what dom0 has set.

The models show some more that has no run of its own. A switch of views can go unreported:
`eptp_idx_last` is shared by all domains, and is brought up to date when the record was
masked, dropped, or met tracing off. Without the premise `Orderly` the properties of
`Altp2m` fail: nothing serialises a set_domain_state with another caller of
`do_altp2m_op`, and an answer for a vCPU in mid-exit has both decrement the count of the
old view, after which a view in use can be destroyed. Two vCPUs that operate on their own
domain can pause each other for ever, as can an answer and the vCPU it names (`Embrace`).
A daemon whose `disable_tbufs` fails leaves tracing on. The parser of `write_buffer` reads
whatever stands at the start of a section: one of several VMFUNC records, a wrap or
lost-records record, or nothing of the window at all when the second section is empty
(`xentrace.c:411-414`). With the added comparison of the low byte (`trace.c:722`) the
class masks of the manual (`X/docs/man/xentrace.pod.8:86`) select nothing of their class.
A call that passed the unlocked test before a disable and takes the lock after it can
still count a lost record, the phantom that the comment in `tb_control` wants to prevent
(`trace.c:422-424`). A daemon without `-e` keeps the mask an earlier
daemon has set, where the manual promises TRC_ALL. And the high-water interrupt is
sent only by a call that crosses the mark, so a daemon that sleeps again with the
level above it is woken by its timeout alone: `RecordsRead` holds because of the
timeout.

Of the ring (`vm_event.c`):

* With more vCPUs than slots (TLC: three and two), "The vCPU will be automatically unpaused
  when the ring clears" (271-272) fails: an empty ring leaves a vCPU blocked, as one must
  be online per slot before another is woken (162). `ClearRingUnblocks` therefore allows as
  many blocked vCPUs as there are more of them than slots, which is none in the run, and
  `BlockedWoken` has the premise that there is a slot for each.
* There too a vCPU that `p2m_mem_access_check` has paused before its claim, and that has
  to queue, cannot run when it is woken; the guarantee of `vm_event_wake` (188-194) that
  it will "eventually call vm_event_wake() again" fails (`QueuedServed` has the same
  premise).
* A take-down between claim and put has the request written to a page given back, and the
  vCPU may be marked as blocked with no ring there; the next set-up zeroes `blocked` with
  the flags still set.
* A vCPU paused by `p2m_mem_access_check` stays paused if its request could not be
  allocated, or if the ring goes before it has claimed; and so does one whose request a
  set-up wipes out. `PausedForRequest` counts these pauses (`orphans`), and
  `PausedAnswered` excepts the vCPUs that have one.
* A set-up of the paging or share ring can find a vCPU on the wait queue, between
  `prepare_to_wait` and its second look at the ring, and forgets it. `NobodyAsleepWithoutRing`
  says that this takes a second set-up, and never happens to the monitor ring.

Of the views (`p2m.c`):

* A page of the host p2m that is replaced in place is not followed by views that have
  remapped another gfn to it: `ViewsFollowHost` claims of a remapped entry only that its
  source has a page.
* The page operations test the EPTP list without the list's lock, so a second thread in
  dom0 could destroy the view under them.

## 4. Proofs

### TraceBufProofs

`TraceBufProofs` proves of `TraceBuf`, for every number of CPUs, any depth of nested
calls, every buffer size and all record sizes such that one lost-records record and one record fit together
(`SizeAssumption`; one page holds 1022 words, the two need 17):

| theorem | states |
|---|---|
| `TypeCorrect` | `Spec => []TypeOK` |
| `Overrun` | `Spec => []NoOverrun` |
| `PanicConfined` | `Spec => []PanicOnlyIfOvertaken` |
| `DisableIsFinal` | `Spec => NoRecordAfterDisable` |
| `Straddle` | `Spec => NoStraddle` |

None of the properties is inductive. The invariant `IInv` adds

* `AllocInv`: before the allocation nothing traces;
* `NestInv`: while a CPU has a call that no disable has overtaken, be it stopped by an
  interrupt, tracing is on; `SweepInv`: tracing is off for as long as a disable goes
  through the locks;
* `CallInv`: what the place of a call says about tracing. In particular a record
  that has passed `next_record` was started while tracing was on or while a disable
  has yet to take this CPU's lock (`BeingDisabled`), which is what makes a returned
  disable final; and a lost-records record is refused only in a call that was overtaken;
* `WrapInv`: how the local `bytes_to_wrap` relates to the real one: equal, or
  stale in the one way that only happens in a call that was overtaken. This confines the
  BUG_ON;
* `RoomInv`: the space of the dry run is still there for each record yet to be
  written, although `cons` moves (it only adds room) and earlier records of the call
  may have been skipped;
* `RecsInv`: the records lie in order between `cons` and `prod` and the last ends at
  `prod`. It is what shows that a consumer that sets `cons` to the end of a record
  keeps all distances in range.

There is one lemma per action; `InsertFacts` and `InsertFrame` state once what
`__insert_record` does to positions and to the other CPUs, and the lemmas of the
first section are the arithmetic of positions modulo twice the size. The action
properties follow from `IInv` and `ProdStep`, which says which steps move `prod`
and how far; `StillOnceDisabled` is the one the daemon's exit rests on too.

It also proves the refinement of `LossyLog`, under the same assumptions:
`LossesAreAnnounced`, `Spec => LossesAnnounced`. The initial states map (`LogInit`), and
`LogStep` maps every step: a drop to `Drop`, a wrap record to `Pad`, a lost-records record
to `Announce`, an event's record to `Emit`, a consumer's step to `Deliver`, an enable to
`SwitchOn`, the start of a disable to `SwitchOff` and a turn of its loop to `Forget`, the rest to stuttering.
`ShownAppend` and `ShownSubSeq` say that the view of a buffer as a log commutes with
writing at its end and taking from its front.

`Emit` and `Announce` have guards, and these need an invariant beyond `IInv`.
`insert_lost_records` clears `lost_records` even if `next_record` turned its record down,
and a call that a disable has overtaken may drop its event after the disable has cleared
the count, so the count and the drops not announced may differ. `LossInv` says how far:
`owed <= lost_records <= missed`, and nothing is owed wherever a record can be turned down
or is the event's own.

### TraceFilterProofs

For every list of `-e` options, every set of numbers and every set of events that meets
`FilterAssumption`:

| theorem | states |
|---|---|
| `FilterInvariant` | `FilterSpec => []FilterInv` |
| `FilterTypes` | `FilterSpec => []FilterTypeOK` |
| `MaskIsAsked` | `FilterSpec => []MaskAsAsked` |
| `OnlyVmfunc` | `FilterSpec => []VmfuncAlone` |

`MaskInv` says that the parsed mask is at every option what the options so far ask for;
`OneMore` is the step, for a list that grows at its end. `VmfuncAlone` is then a question
of which words `Admits` lets through with the VMFUNC number as the mask: the two bits 13
and 19 must be there and the low byte equal, and `FilterAssumption` leaves one event.

### XentraceProofs

For every number of CPUs, sizes, restarts, with and without `-D`:

| theorem | states |
|---|---|
| `DaemonInvariant` | `XSpec => []XInv` |
| `XTypeCorrect` | `XSpec => []XTypeOK` |
| `ConsumerIsLegal` | `XSpec => LegalConsumer`, that is, `Spec` of `TraceBuf` |
| `NoOverrunWithDaemon` | `XSpec => []NoOverrun` |
| `Drained` | `XSpec => []DrainedAtExit` |
| `WindowIsWritten` | `XSpec => []WindowWritten` |
| `RecordsAreSaved` | `XSpec => RecordsSaved` |

`XInv` is `IInv`, the types and `DaemonInv`. `SnapInv` says that the snapshot of `prod` is
still the end of a record in the buffer, however many have been published since: so
setting `cons` to it is a step `Consume` allows, which gives the refinement, and with it
everything proved of `TraceBuf`. `ChunkInv` says which sections have been written at
each step, from which `WindowWritten` is arithmetic modulo the size of the data area.
`LastInv` is the argument of the exit: once the disable has returned `prod` stands still
(`StillOnceDisabled`), so the buffers already read stay empty. Its premise is that tracing
is off: a disable that failed leaves it on, and `DrainedAtExit` claims nothing then.

### VmEventProofs

For every number of vCPUs, size of ring, finite set of outsiders and number of set-ups:

| theorem | states |
|---|---|
| `RingInvariant` | `VmEventSpec => []RingInv` |
| `VmEventTypeCorrect` | `VmEventSpec => []VmEventTypeOK` |
| `SlotAccounting` | `VmEventSpec => []RoomForHolders` |
| `PausesBalance` | `VmEventSpec => []PausedForRequest` |

`RingInv` is `VmEventTypeOK`, `RoomForHolders` and `QueueInv`. The slot accounting is
inductive given the types: a claim needs a free slot, a put exchanges a reservation for a
request, and a set-up forgets requests but no reservation. What it takes is counting:
`HoldersCount` follows the cardinalities of the holders inside and outside the domain when
one caller moves. `QueueInv` is for the sleepers: a vCPU gets into the queue before it
looks at the ring again, so while it sleeps, and while it is about to, its place in the
queue is what makes `vm_event_disable` refuse. `WakeProperties` states once what a wake-up
does to queue, flags and counts; `LastTurn` that the vCPU woken last is well defined.

`PausesBalance` needs `RingInv` only: every step keeps the equation between pause count,
requests and orphans (`PausedAppend` and `PausedTail` count over the queues), through any
number of take-downs and set-ups.

### VmEventWakeProofs

| theorem | states |
|---|---|
| `OnlineInvariant` | with `SlotPerVcpu`: `VmEventSpec => []OnlineInv` |
| `NobodyQueues` | `VmEventSpec => []NeverQueued` |
| `WaitersInvariant` | `VmEventSpec => []WaitersInv` |
| `NobodyLeftAsleep` | `VmEventSpec => []NobodyAsleepWithoutRing` |
| `BlockedInvariant` | `VmEventSpec => []BlockedInv` |
| `ClearedRingUnblocks` | `VmEventSpec => []ClearRingUnblocks` |
| `NobodyLeftBlocked` | with `SlotPerVcpu`: nobody is blocked on a clear ring |

`SlotPerVcpu` is `NrVcpus <= RingSize`, for any number of either (`NeverQueued` has it as
a premise). The code relies on it without testing it: the ring is one page, whatever the
number of vCPUs. `ClearedRingUnblocks` does without: on a clear ring at most
`NrVcpus - RingSize` vCPUs are blocked, and section 3 says what that means.

`Online` is the sentence of the comment made inductive: on the monitor ring the vCPUs that
are neither blocked nor holding a slot are no more than the free slots. It has to speak of
the time without a ring as well, when the vCPUs that have passed the test of `ring_page`
but not yet the lock are bounded instead. To keep it, `vm_event_put_request` must block
its caller unless every vCPU has a slot, and `vm_event_wake_blocked` must wake no more
than there is room for; that takes the number of vCPUs its loop reaches, and so that the
turns of the vCPUs are distinct (`Turn` is one to one, its ranks an interval).

`NobodyLeftAsleep` adds to `QueueInv` that on the monitor ring, whose set-up finds every
vCPU out of Xen or asleep, the queue is then empty (`WaitersInv`), and that before the
first set-up of any ring nobody is past the test of `ring_page` (`ForgottenInv`). It holds
for every number of vCPUs and slots.

For `ClearedRingUnblocks`, `blocked` equals the number of flags, each vCPU is at most once in
the queue and only while in `wait_event` (`WaitersInv`), and whenever more vCPUs are
blocked than are without a slot there is a request on the ring or a caller that holds or
waits for a slot, and so somebody on the way to `vm_event_wake`. `WokenOrEngaged` shows
that a wake-up keeps it so, unless it woke from the queue instead. That takes how many
vCPUs the loop wakes, from both sides: `FirstFew` says that it wakes no more than it
counts, `FirstEnough` no fewer, and `FewLeftBlocked` who is left.

### Altp2mProofs

For every number of vCPUs, callers in dom0 and views:

| theorem | states |
|---|---|
| `Altp2mTypeCorrect` | `Altp2mSpec => []Altp2mTypeOK` |
| `OrderInvariant` | `Altp2mSpec => []OrderInv` |
| `CountIsRight` | `Altp2mSpec => []ActiveCount` |
| `ViewsNotStale` | `Altp2mSpec => []NoStaleView` |
| `HandlersSeeView` | `Altp2mSpec => []HandlerSeesView` |
| `InactiveIsHost` | `Altp2mSpec => []InactiveMeansHost` |

The last four properties have the premise `Orderly`: so far nothing has overlapped with a
set_domain_state, and answers have moved only vCPUs that wait for them. It is about the
past and about the callers, and the run goes on to states where it is false. Under it all
other operations (creation, destruction and switching of views, `enable_notify`) and the
answers to vm_events may overlap in any number and order, and with every vCPU's VM exits
in mid-synchronisation, VM entries and VMFUNCs: the lock of the EPTP list and the pause
they take are enough for them. The types hold whatever the callers do. `OrderInv` is
`Altp2mTypeOK`, and `AInv` while the callers are orderly.

The four properties hold together or not at all. `OpInv` keeps what an operation found or
set before it let others in; `ListInv` says when view 0 is listed; `VcpuInv` is the core:
an initialised vCPU is on a listed view, and Xen's `p2midx` is right unless the guest may
have moved since its last exit, whose lookup finds where it is; `CountInv` is
`ActiveCount` also after a panic, with a vCPU between its `atomic_dec` and `atomic_inc` in
nobody's count. What the
attempt to prove it showed: a vCPU that has VM functions enabled before
`altp2m_vcpu_initialise` has come round to it can take itself to view 0, so "not
initialised" does not mean "on the host p2m". `InactiveMeansHost` survives because
`altp2m_vcpu_destroy` writes every vCPU's `EPT_POINTER`.

### PerceptionProofs

| theorem | states |
|---|---|
| `PerceptionTypeCorrect` | `PerceptionSpec => []PerceptionTypeOK` |
| `RecordsNameVisited` | `PerceptionSpec => []OnlyVisited` |
| `OneDomainTruthful` | with one domain: `PerceptionSpec => []TruthfulReport` |

For any vCPUs, domains and views, with every race on the globals. `KnownInv` follows the
indices wherever they go: the globals, and what a vCPU in the intercept has in a register,
hold only views that some vCPU has been on. So the wrong record of
`perception_wrong_domain` takes a second domain: on a host with one HVM domain, whose
vCPUs may race as they like, a record names a view that domain has been on. That a record
comes for every switch is claimed of nobody: it does not (section 3).

### ViewTablesProofs

For every number of frames, pages, vCPUs, views, operations and changes:

| theorem | states |
|---|---|
| `TablesInvariant` | `TablesSpec => []TablesInv` |
| `TablesTypeCorrect` | `TablesSpec => []TablesTypeOK` |
| `FollowsHost` | `TablesSpec => []ViewsFollowHost` |

`ViewsFollowHost` speaks of the time between changes; the invariant has to say what holds
during one. `Current`: an entry agrees with the host p2m unless it stands for the gfn
that changed and the propagation is still to come to its view (`Pending`). `Anchored`: a
remapped entry's source lies in the range the view has recorded, which is the only way
the propagation finds it. Both are also claimed of the entry that an operation of dom0
is about to write. `LockInv` says what the locks protect: a fault that holds the host's
lock keeps any change out, and the entry it copies is still there. `ListInv` says that
views not listed have nothing of this life in them.

### Not proved

* Liveness (`RecordsRead`, `SignalEndsDaemon`, `OpsEnd`, `PerceptionSettles`,
  `BlockedWoken`, `QueuedServed`, `PausedAnswered`, `TablesEnd`): out of reach of the
  prover, as is whatever needs `ENABLED`. TLC only.
* Without the premises named above (`Orderly`, one domain for `TruthfulReport`, a slot for
  every vCPU for `NeverQueued`, an accepted disable for `DrainedAtExit`) the properties
  concerned are false, as section 3 says.
* `NoPanic`, `EptpFound`, `TruthfulReport`, `NothingLeftBehind` and `SpecialsKept`, which
  the runs of section 3 refute.

## 5. Not modelled

* The in-memory buffer of xentrace (`-M`): sequential code in one process behind an
  option that the service cannot use, as only the other branch of `write_buffer` runs
  the VMI program.
* The comport log: a debugging array to which the two RDTSC hypercalls append a character
  each; it is printed to the console when nearly full, and nothing else reads it.
* `__trace_hypercall` builds its payload and calls `__trace_var`; `trace_hotplug`
  initialises a lock.
* The tools of the repository issue hypercalls and instructions whose effects are actions
  here.
* What sections 2 and 3 name as left out of each module.
* All else is upstream Xen, its toolstack, firmware and device models, on which the
  service merely runs.

## 6. Plan

Done: `TraceBuf` with `LossyLog`, the filter, the daemon, the views and their contents,
the perception, the vm_event ring, and the proofs of their safety. Next, in this order:

1. A composition of perception, trace buffer and daemon: from a VMFUNC to the run of the
   VMI program, with the end-to-end claim that each record that leaves the buffer was
   reported by the intercept and handed to the parser.
2. The intercept as one of the calls of `__trace_var` in module `TraceBuf`, so that a
   report lost to a full buffer is told from one swallowed because tracing was off.
3. Superpages in `ViewTables`.
