------------------------------- MODULE VmEvent -------------------------------
(***************************************************************************)
(* One vm_event ring of an HVM domain (xen/common/vm_event.c): vCPUs of    *)
(* the domain and callers in other domains reserve a slot, put a request   *)
(* and may be paused; a helper in dom0 answers; Xen takes the answers and  *)
(* wakes whoever waits for room.  The ring is one of the three a domain    *)
(* has, and what may happen on it depends on which (see Events).           *)
(*                                                                         *)
(* A pause of the calling vCPU (vcpu_pause_nosync) takes effect when the   *)
(* vCPU leaves Xen or sleeps in wait(); until then it runs on.  The build  *)
(* is the repository's default, debug=n: ASSERT is empty, and the mapping  *)
(* of a ring page that has been given back can still be written to.        *)
(***************************************************************************)
EXTENDS Integers, FiniteSets, Sequences, SequencesExt

CONSTANTS
    NrVcpus,    \* max_vcpus
    RingSize,   \* RING_SIZE of the front ring
    Rings,      \* the rings of the domain that are looked at
    Foreign,    \* callers outside the domain
    MaxEnables  \* bound: times the ring is set up

ASSUME VmEventAssumption ==
    /\ NrVcpus \in Nat \ {0}
    /\ RingSize \in Nat \ {0}
    /\ Rings \subseteq {"monitor", "paging", "share"}
    /\ IsFiniteSet(Foreign)
    /\ MaxEnables \in Nat

VCPUs == 0 .. NrVcpus - 1

ASSUME ForeignAssumption == Foreign \cap VCPUs = {}

VARIABLES
    ring,                  \* which ring this is
    ring_page,             \* is it mapped
    reqs,                  \* requests put and not answered
    rsps,                  \* answers that Xen has not taken
    target_producers, foreign_producers,
    blocked,               \* ved->blocked
    pause_flags,           \* the vCPUs with ved->pause_flag set
    last_vcpu_wake_up,
    wq,                    \* ved->wq
    pc,                    \* per caller: where it is in claiming and putting
    evt,                   \* per caller: the kind of its event
    vm_event_pause_count,  \* per vCPU
    enables,               \* times the ring has been set up
    stray,                 \* a request was written to a ring page given back
    crashed,               \* domain_crash was called
    forgotten,             \* the vCPUs on the wait queue when it was set up again
    orphans                \* history, per vCPU: its pauses that no answer will undo

slots  == <<reqs, rsps, target_producers, foreign_producers>>
asleep == <<blocked, pause_flags, last_vcpu_wake_up, wq>>
callers == <<pc, evt, vm_event_pause_count>>
fate   == <<crashed, forgotten, orphans>>
evars  == <<ring, ring_page, slots, asleep, callers, enables, stray, fate>>

-----------------------------------------------------------------------------

\* What the callers of vm_event_claim_slot do with the vCPU:
\*   "mem"    p2m_mem_access_check pauses it, then mem_access_send_req claims
\*   "sync"   claims, then pauses it (hvm_event_traps with sync, populate,
\*            mem_sharing_notify_enomem)
\*   "async"  does not pause it (n2rwx, hvm_event_traps without sync, drop_page)
\*   "busy"   as "sync", without sleeping (allow_sleep = 0)
Events ==
    CASE ring = "monitor" -> {"mem", "sync", "async"}
      [] ring = "paging"  -> {"sync", "async"}
      [] ring = "share"   -> {"sync", "busy"}

\* Nobody outside the domain puts events on the monitor ring.
Outsiders == IF ring = "monitor" THEN {} ELSE Foreign

Requests == [who : VCPUs \cup Foreign, paused : BOOLEAN]

VmEventTypeOK ==
    /\ ring \in Rings
    /\ ring_page \in BOOLEAN
    /\ reqs \in Seq(Requests) /\ rsps \in Seq(Requests)
    /\ target_producers \in Int /\ foreign_producers \in Int
    /\ blocked \in Int
    /\ pause_flags \in SUBSET VCPUs
    /\ last_vcpu_wake_up \in VCPUs
    /\ wq \in Seq(VCPUs)
    /\ pc \in [VCPUs \cup Foreign ->
                 {"run", "test", "grab", "prepare", "retest", "regrab",
                  "sleep", "leave", "finish", "have"}]
    /\ evt \in [VCPUs \cup Foreign -> {"mem", "sync", "async", "busy"}]
    /\ vm_event_pause_count \in [VCPUs -> Nat]
    /\ enables \in 0 .. MaxEnables
    /\ stray \in BOOLEAN
    /\ crashed \in BOOLEAN
    /\ forgotten \in SUBSET VCPUs
    /\ orphans \in [VCPUs -> Nat]

VmEventInit ==
    /\ ring \in Rings
    /\ ring_page = FALSE
    /\ reqs = <<>> /\ rsps = <<>>
    /\ target_producers = 0 /\ foreign_producers = 0
    /\ blocked = 0 /\ pause_flags = {} /\ last_vcpu_wake_up = 0
    /\ wq = <<>>
    /\ pc = [c \in VCPUs \cup Foreign |-> "run"]
    /\ evt = [c \in VCPUs \cup Foreign |-> "async"]
    /\ vm_event_pause_count = [v \in VCPUs |-> 0]
    /\ enables = 0
    /\ stray = FALSE
    /\ crashed = FALSE /\ forgotten = {}
    /\ orphans = [v \in VCPUs |-> 0]

InUse == Len(reqs) + Len(rsps)

\* vm_event_ring_available.  RING_FREE_REQUESTS looks at the private indices
\* of the front ring, which survive the ring page.
Available == RingSize - InUse - target_producers - foreign_producers

\* Nothing keeps the vCPU off its CPU.
Runnable(v) ==
    /\ ~crashed
    /\ v \notin pause_flags
    /\ vm_event_pause_count[v] = 0
    /\ ~Contains(wq, v)

Goto(c, l) == pc' = [pc EXCEPT ![c] = l]
Return(c)  == Goto(c, "run") /\ evt' = [evt EXCEPT ![c] = "async"]

\* The vCPU stays paused and no request says so.
Orphan(v)  == orphans' = [orphans EXCEPT ![v] = @ + 1]

\* vm_event_claim_slot returns -ENOSYS.  p2m_mem_access_check has paused the vCPU
\* already; p2m_mem_paging_populate, which is "sync" for a vCPU and one of the
\* events of an outsider, crashes the domain.
NoRing(c) ==
    /\ Return(c)
    /\ IF evt[c] = "mem" THEN Orphan(c) ELSE UNCHANGED orphans
    /\ crashed' \in IF ring # "paging" THEN {crashed}
                    ELSE IF c \in VCPUs THEN {crashed \/ evt[c] = "sync"} ELSE {crashed, TRUE}
    /\ UNCHANGED <<vm_event_pause_count, forgotten>>

-----------------------------------------------------------------------------
(* Waking, with avail slots free: vm_event_wake and what it calls *)

Least(m, n) == IF m < n THEN m ELSE n
Most(m, n)  == IF m < n THEN n ELSE m

\* Mutant: the scan always starts at vCPU 0.
Turn_FromZero(v) == v

\* The place of v in the loop of vm_event_wake_blocked.
Turn(v) == (v - last_vcpu_wake_up - 1) % NrVcpus

\* Mutant: one slot more than is needed must be free.
Unblocked_OffByOne(avail) ==
    LET online == NrVcpus - Cardinality(pause_flags)
        nr     == Least(blocked, Most(0, avail - online - 1))
    IN  {v \in pause_flags :
            Cardinality({w \in pause_flags : Turn(w) < Turn(v)}) < nr}

\* The loop of vm_event_wake_blocked clears flags, from the vCPU after the one
\* it woke last, until it has counted `blocked' down, or as many vCPUs are
\* online as there are slots.
Unblocked(avail) ==
    LET online == NrVcpus - Cardinality(pause_flags)
        count  == IF blocked < 0 THEN NrVcpus ELSE Least(blocked, NrVcpus)
        nr     == Least(count, Most(0, avail - online))
    IN  {v \in pause_flags :
            Cardinality({w \in pause_flags : Turn(w) < Turn(v)}) < nr}

\* vm_event_wake: queued vCPUs first, and only if there are none the blocked.
\* `extra' is the vCPU that vm_event_put_request marks and pauses afterwards.
Wake(avail, extra) ==
    LET ups   == IF wq = <<>> THEN Unblocked(avail) ELSE {}
        still == pause_flags \ ups
    IN  /\ wq' = SubSeq(wq, Least(avail, Len(wq)) + 1, Len(wq))
        /\ pause_flags' = still \cup extra
        /\ blocked' = blocked - Cardinality(ups) + Cardinality(extra \ still)
        /\ last_vcpu_wake_up' =
             IF ups = {} THEN last_vcpu_wake_up
             ELSE CHOOSE v \in ups : \A w \in ups : Turn(w) <= Turn(v)

-----------------------------------------------------------------------------
(* Claiming a slot *)

\* An event happens.  p2m_mem_access_check looks for a ring and pauses the
\* vCPU before it has claimed anything, ...
Trigger(c, e) ==
    /\ pc[c] = "run"
    /\ c \in VCPUs => Runnable(c) /\ e \in Events
    /\ c \in Foreign => c \in Outsiders /\ e = "async"
    /\ e = "mem" => ring_page
    /\ Goto(c, "test")
    /\ evt' = [evt EXCEPT ![c] = e]
    /\ vm_event_pause_count' =
         IF e = "mem" THEN [vm_event_pause_count EXCEPT ![c] = @ + 1]
         ELSE vm_event_pause_count
    /\ UNCHANGED <<ring, ring_page, slots, asleep, enables, stray, fate>>

\* ... and even if it could not allocate the request (xzalloc).
TriggerNoMemory(v) ==
    /\ pc[v] = "run"
    /\ Runnable(v)
    /\ "mem" \in Events /\ ring_page
    /\ vm_event_pause_count' = [vm_event_pause_count EXCEPT ![v] = @ + 1]
    /\ Orphan(v)
    /\ UNCHANGED <<ring, ring_page, slots, asleep, pc, evt, enables, stray, crashed, forgotten>>

\* vm_event_grab_slot looks at ring_page before it takes the lock.
Test(c) ==
    /\ pc[c] = "test"
    /\ IF ring_page THEN Goto(c, "grab") /\ UNCHANGED <<evt, vm_event_pause_count, fate>>
       ELSE NoRing(c)
    /\ UNCHANGED <<ring, ring_page, slots, asleep, enables, stray>>

\* The count that vm_event_grab_slot raises.
Reserve(c) ==
    /\ target_producers' = target_producers + (IF c \in VCPUs THEN 1 ELSE 0)
    /\ foreign_producers' = foreign_producers + (IF c \in VCPUs THEN 0 ELSE 1)
    /\ UNCHANGED <<reqs, rsps>>

\* The rest of vm_event_grab_slot, under the lock.  A full ring is -EBUSY, on
\* which a vCPU of the domain that may sleep goes on to do so.
Grab(c) ==
    /\ pc[c] = "grab"
    /\ \/ /\ Available > 0
          /\ Reserve(c)
          /\ Goto(c, "have") /\ UNCHANGED evt
       \/ /\ Available = 0
          /\ IF c \in VCPUs /\ evt[c] # "busy"
             THEN Goto(c, "prepare") /\ UNCHANGED evt ELSE Return(c)
          /\ UNCHANGED slots
    /\ UNCHANGED <<ring, ring_page, asleep, vm_event_pause_count, enables, stray, fate>>

\* wait_event: prepare_to_wait
Prepare(v) ==
    /\ pc[v] = "prepare"
    /\ wq' = Append(wq, v)
    /\ Goto(v, "retest")
    /\ UNCHANGED <<ring, ring_page, slots, blocked, pause_flags, last_vcpu_wake_up,
                   evt, vm_event_pause_count, enables, stray, fate>>

\* Mutant: sleeps without looking once more.
Retest_Skipped(v) ==
    /\ pc[v] = "retest"
    /\ Goto(v, "sleep")
    /\ UNCHANGED <<ring, ring_page, slots, asleep, evt, vm_event_pause_count, enables, stray, fate>>

\* wait_event: the condition once more.
Retest(v) ==
    /\ pc[v] = "retest"
    /\ Goto(v, IF ring_page THEN "regrab" ELSE "leave")
    /\ UNCHANGED <<ring, ring_page, slots, asleep, evt, vm_event_pause_count, enables, stray, fate>>

Regrab(v) ==
    /\ pc[v] = "regrab"
    /\ IF Available > 0
       THEN Reserve(v) /\ Goto(v, "finish")
       ELSE Goto(v, "sleep") /\ UNCHANGED slots
    /\ UNCHANGED <<ring, ring_page, asleep, evt, vm_event_pause_count, enables, stray, fate>>

\* wait() returns when the vCPU is scheduled again, and the loop goes round.
Awake(v) ==
    /\ pc[v] = "sleep"
    /\ Runnable(v)
    /\ Goto(v, "prepare")
    /\ UNCHANGED <<ring, ring_page, slots, asleep, evt, vm_event_pause_count, enables, stray, fate>>

\* finish_wait, and the return of vm_event_wait_slot with 0 or -ENOSYS.
Finish(v) ==
    /\ pc[v] \in {"finish", "leave"}
    /\ wq' = IF Contains(wq, v) THEN RemoveAt(wq, CHOOSE i \in 1 .. Len(wq) : wq[i] = v)
             ELSE wq
    /\ IF pc[v] = "finish" THEN Goto(v, "have") /\ UNCHANGED <<evt, vm_event_pause_count, fate>>
       ELSE NoRing(v)
    /\ UNCHANGED <<ring, ring_page, slots, blocked, pause_flags, last_vcpu_wake_up,
                   enables, stray>>

-----------------------------------------------------------------------------
(* Using the slot *)

\* The vCPU waits for the answer to its event.
Pauses(c) == c \in VCPUs /\ evt[c] # "async"

\* Mutant: an outsider's reservation is taken off the domain's count.
Release_TargetOnly(c) ==
    /\ target_producers' = target_producers - 1
    /\ UNCHANGED foreign_producers

\* The accounting in vm_event_release_slot.
Release(c) ==
    /\ target_producers' = target_producers - (IF c \in VCPUs THEN 1 ELSE 0)
    /\ foreign_producers' = foreign_producers - (IF c \in VCPUs THEN 0 ELSE 1)

\* Mutant: the request of a memory access does not say that the vCPU is paused.
Put_NoFlag(c) ==
    /\ pc[c] = "have"
    /\ reqs' = Append(reqs, [who |-> c, paused |-> Pauses(c) /\ evt[c] # "mem"])
    /\ Release(c)
    /\ Wake(Available, IF c \in VCPUs /\ Available < NrVcpus THEN {c} ELSE {})
    /\ stray' = (stray \/ ~ring_page)
    /\ vm_event_pause_count' =
         IF Pauses(c) /\ evt[c] # "mem"
         THEN [vm_event_pause_count EXCEPT ![c] = @ + 1] ELSE vm_event_pause_count
    /\ Return(c)
    /\ UNCHANGED <<ring, ring_page, rsps, enables, fate>>

\* Mutant: the vCPU is blocked only when the ring is full.
Put_LateBlock(c) ==
    /\ pc[c] = "have"
    /\ reqs' = Append(reqs, [who |-> c, paused |-> Pauses(c)])
    /\ Release(c)
    /\ Wake(Available, IF c \in VCPUs /\ Available = 0 THEN {c} ELSE {})
    /\ stray' = (stray \/ ~ring_page)
    /\ vm_event_pause_count' =
         IF Pauses(c) /\ evt[c] # "mem"
         THEN [vm_event_pause_count EXCEPT ![c] = @ + 1] ELSE vm_event_pause_count
    /\ Return(c)
    /\ UNCHANGED <<ring, ring_page, rsps, enables, fate>>

\* vm_event_put_request, and the pause just before it.  The request takes the
\* place of the reservation, so as much is available as before.
Put(c) ==
    /\ pc[c] = "have"
    /\ reqs' = Append(reqs, [who |-> c, paused |-> Pauses(c)])
    /\ Release(c)
    /\ Wake(Available, IF c \in VCPUs /\ Available < NrVcpus THEN {c} ELSE {})
    /\ stray' = (stray \/ ~ring_page)
    /\ vm_event_pause_count' =
         IF Pauses(c) /\ evt[c] # "mem"
         THEN [vm_event_pause_count EXCEPT ![c] = @ + 1] ELSE vm_event_pause_count
    /\ Return(c)
    /\ UNCHANGED <<ring, ring_page, rsps, enables, fate>>

\* vm_event_cancel_slot, from p2m_mem_paging_populate when the page is already
\* on its way back.
Cancel(c) ==
    /\ pc[c] = "have"
    /\ ring = "paging" /\ (c \in VCPUs => evt[c] = "sync")
    /\ Release(c)
    /\ Wake(Available + 1, {})
    /\ Return(c)
    /\ UNCHANGED <<ring, ring_page, reqs, rsps, vm_event_pause_count, enables, stray, fate>>

-----------------------------------------------------------------------------
(* The helper, and the operations it asks for *)

\* The helper takes a request off the ring and puts its answer there.
Answer ==
    /\ ring_page
    /\ reqs # <<>>
    /\ reqs' = Tail(reqs)
    /\ rsps' = Append(rsps, Head(reqs))
    /\ UNCHANGED <<ring, ring_page, target_producers, foreign_producers, asleep, callers,
                   enables, stray, fate>>

\* Mutant: no look at the flag, and none at zero.
Resume_NoFloor ==
    LET rsp == Head(rsps)
    IN  /\ ring_page
        /\ rsps # <<>>
        /\ rsps' = Tail(rsps)
        /\ Wake(Available + 1, {})
        /\ vm_event_pause_count' =
             IF rsp.who \in VCPUs THEN [vm_event_pause_count EXCEPT ![rsp.who] = @ - 1]
             ELSE vm_event_pause_count
        /\ UNCHANGED <<ring, ring_page, reqs, target_producers, foreign_producers, pc, evt,
                       enables, stray, fate>>

\* Mutant: a vCPU that waits for room is not unpaused.
Resume_NotBlocked ==
    LET rsp == Head(rsps)
    IN  /\ ring_page
        /\ rsps # <<>>
        /\ rsps' = Tail(rsps)
        /\ Wake(Available + 1, {})
        /\ vm_event_pause_count' =
             IF rsp.paused /\ rsp.who \notin pause_flags
             THEN [vm_event_pause_count EXCEPT ![rsp.who] = Most(0, @ - 1)]
             ELSE vm_event_pause_count
        /\ UNCHANGED <<ring, ring_page, reqs, target_producers, foreign_producers, pc, evt,
                       enables, stray, fate>>

\* One round of vm_event_resume: vm_event_get_response, then
\* vm_event_vcpu_unpause, which does not go below zero.
Resume ==
    LET rsp == Head(rsps)
    IN  /\ ring_page
        /\ rsps # <<>>
        /\ rsps' = Tail(rsps)
        /\ Wake(Available + 1, {})
        /\ vm_event_pause_count' =
             IF rsp.paused THEN [vm_event_pause_count EXCEPT ![rsp.who] = Most(0, @ - 1)]
             ELSE vm_event_pause_count
        /\ UNCHANGED <<ring, ring_page, reqs, target_producers, foreign_producers, pc, evt,
                       enables, stray, fate>>

\* Mutant: the queue is not looked at.
Disable_Queue ==
    /\ ring_page
    /\ ring_page' = FALSE
    /\ blocked' = blocked - Cardinality(pause_flags)
    /\ pause_flags' = {}
    /\ UNCHANGED <<ring, slots, last_vcpu_wake_up, wq, callers, enables, stray, fate>>

\* vm_event_disable; with a queue it is refused.
Disable ==
    /\ ring_page
    /\ wq = <<>>
    /\ ring_page' = FALSE
    /\ blocked' = blocked - Cardinality(pause_flags)
    /\ pause_flags' = {}
    /\ UNCHANGED <<ring, slots, last_vcpu_wake_up, wq, callers, enables, stray, fate>>

\* The requests in s, or the answers to them, for which v is paused.
PausedIn(s, v) == {i \in 1 .. Len(s) : s[i].who = v /\ s[i].paused}

\* xc_monitor_enable pauses the domain around the set-up, so that every vCPU has
\* left Xen or sleeps.  Nobody does for the paging and share rings.
SetUp == ring = "monitor" => \A v \in VCPUs : pc[v] \in {"run", "sleep"}

\* vm_event_enable.  The producers, the pause flags and last_vcpu_wake_up keep
\* their values; whatever was on the ring, or in the queue, is forgotten.
Enable ==
    /\ enables < MaxEnables
    /\ SetUp
    /\ ~ring_page
    /\ ring_page' = TRUE
    /\ enables' = enables + 1
    /\ blocked' = 0
    /\ reqs' = <<>> /\ rsps' = <<>>
    /\ wq' = <<>>
    /\ forgotten' = forgotten \cup Range(wq)
    /\ orphans' = [v \in VCPUs |-> orphans[v] + Cardinality(PausedIn(reqs, v))
                                             + Cardinality(PausedIn(rsps, v))]
    /\ UNCHANGED <<ring, target_producers, foreign_producers, pause_flags,
                   last_vcpu_wake_up, callers, stray, crashed>>

-----------------------------------------------------------------------------
(* Specification *)

ClaimStep(c) == Test(c) \/ Grab(c) \/ Put(c) \/ Cancel(c)
WaitStep(v)  == Prepare(v) \/ Retest(v) \/ Regrab(v) \/ Awake(v) \/ Finish(v)

VmEventStep ==
    \/ \E c \in VCPUs \cup Foreign : \E e \in {"mem", "sync", "async", "busy"} : Trigger(c, e)
    \/ \E v \in VCPUs : TriggerNoMemory(v)
    \/ \E c \in VCPUs \cup Foreign : ClaimStep(c)
    \/ \E v \in VCPUs : WaitStep(v)
    \/ Answer \/ Resume
    \/ Disable \/ Enable

\* A vCPU that init_waitqueue_head has forgotten will unlink itself from a list it
\* is not on.  The model ends there.
VmEventNext == forgotten = {} /\ VmEventStep

VmEventSpec == VmEventInit /\ [][VmEventNext]_evars

\* A vCPU that can run gets to, Xen finishes what it has begun, and the helper
\* answers what it is asked and tells Xen.
VmEventFairness ==
    /\ \A c \in VCPUs \cup Foreign : WF_evars(forgotten = {} /\ ClaimStep(c))
    /\ \A v \in VCPUs : WF_evars(forgotten = {} /\ WaitStep(v))
    /\ WF_evars(forgotten = {} /\ Answer)
    /\ WF_evars(forgotten = {} /\ Resume)

VmEventFairSpec == VmEventSpec /\ VmEventFairness

-----------------------------------------------------------------------------
(* Properties *)

Holders == {c \in VCPUs \cup Foreign : pc[c] \in {"finish", "have"}}

\* The slot accounting of vm_event_ring_available (BUG_ON(avail_req < 0)) and
\* vm_event_put_request ("Due to the reservations, this step must succeed"):
\* every reservation has a holder, and there is a free request for each, while
\* the ring fills, is woken, taken down and set up again.
RoomForHolders ==
    /\ target_producers = Cardinality(Holders \cap VCPUs)
    /\ foreign_producers = Cardinality(Holders \cap Foreign)
    /\ Available >= 0

\* A vCPU never sleeps in the wait queue of a ring that is not there, where
\* nothing would wake it; and the set-up of the monitor ring never forgets one
\* that is on the queue, however it came there after the ring was taken down.
NobodyAsleepWithoutRing ==
    /\ ~ring_page => \A v \in VCPUs : pc[v] = "sleep" => ~Contains(wq, v)
    /\ forgotten # {} => ring # "monitor" /\ enables > 1

\* A vCPU is paused exactly for the requests that say so and have no answer yet,
\* for the one it is about to put, and for what it has been left with: a request
\* that could not be allocated, a claim that found no ring, and requests that a
\* new ring has wiped out.  No answer undoes a pause of another's, or one too
\* many.
PausedForRequest ==
    \A v \in VCPUs : vm_event_pause_count[v] =
        Cardinality(PausedIn(reqs, v)) + Cardinality(PausedIn(rsps, v))
        + (IF pc[v] # "run" /\ evt[v] = "mem" THEN 1 ELSE 0) + orphans[v]

\* "The vCPU will be automatically unpaused when the ring clears"
\* (vm_event_put_request): with nothing on the ring and nobody on the way to
\* it, no vCPU is left marked as blocked, or, with fewer slots than vCPUs, only
\* those for which there is no slot.
ClearRingUnblocks ==
    ring_page /\ ~stray /\ InUse = 0 /\ (\A c \in VCPUs \cup Foreign : pc[c] = "run")
        => Cardinality(pause_flags) <= Most(0, NrVcpus - RingSize)

\* "We ensure that we only have vCPUs online if there are enough free slots"
\* (vm_event_wake_blocked): without outsiders no vCPU ever has to queue.
NeverQueued ==
    ring = "monitor" /\ ~stray /\ NrVcpus <= RingSize
        => \A v \in VCPUs : ring_page => pc[v] # "prepare"

\* Callers outside the domain never sleep and are never blocked, and a vCPU that
\* cancels is not blocked either: they can keep slots for as long as they go on.
\* The outsiders' business with the domain ends, and a page that is on its way
\* back arrives.
Settles ==
    /\ <>[](\A f \in Foreign : pc[f] = "run")
    /\ <>[][\A v \in VCPUs : ~Cancel(v)]_evars

\* What the progress of a vCPU depends on: the ring is there and has been since
\* it was set up, and the domain is in order.
Serving == ring_page /\ ~stray /\ ~crashed /\ forgotten = {}

\* With a slot for every vCPU: a vCPU that vm_event_mark_and_pause has put to
\* sleep runs again, however busy the other vCPUs keep the ring, unless the ring
\* is taken down.
BlockedWoken ==
    NrVcpus <= RingSize /\ Settles => \A v \in VCPUs :
        v \in pause_flags ~> v \notin pause_flags \/ ~Serving

\* With a slot for every vCPU: a queued vCPU gets its slot, though the vCPUs that
\* are not queued may take the one it was woken for (vm_event_wake: "We are
\* guaranteed that they will go through code paths that will eventually call
\* vm_event_wake() again").
QueuedServed ==
    NrVcpus <= RingSize /\ Settles => \A v \in VCPUs :
        pc[v] = "sleep" ~> pc[v] \in {"have", "run"} \/ crashed \/ forgotten # {}

\* With a slot for every vCPU: a vCPU that is paused for an event goes on, unless
\* it has a pause that no answer undoes or the ring is taken down.
PausedAnswered ==
    NrVcpus <= RingSize => \A v \in VCPUs :
        vm_event_pause_count[v] > 0 ~>
            vm_event_pause_count[v] = 0 \/ orphans[v] > 0 \/ ~Serving
=============================================================================
