------------------------------- MODULE Altp2m -------------------------------
(***************************************************************************)
(* Alternate p2m views of one HVM domain: the EPTP list, the view every    *)
(* vCPU is accounted to (p2midx, active_vcpus), the VMCS fields EPT_POINTER*)
(* and VM_FUNCTIONS, the guest's exit-less VMFUNC and the VM exit that     *)
(* catches up with it, the operations of do_altp2m_op, of which callers in *)
(* dom0 and the guest's own vCPUs may have MaxOps under way, and dom0's    *)
(* answers to vm_events, which may ask for a view.                         *)
(*                                                                         *)
(* vcpu_pause and domain_pause_except_self keep a vCPU from entering the   *)
(* guest and wait for it to leave its CPU, which it does only after it has *)
(* handled its VM exit.  The hardware has VMFUNC, and no virtualisation    *)
(* exceptions are armed (veinfo_gfn is never set in this code).            *)
(***************************************************************************)
EXTENDS Integers, FiniteSets

CONSTANTS
    NrVcpus,    \* vCPUs of the domain
    NrTools,    \* threads in dom0 that issue operations
    MaxAltp2m,  \* MAX_ALTP2M
    MaxOps,     \* bound: operations under way at a time
    MaxDisorder \* bound: no operation begins once the callers have broken the
                \* rules (Orderly) so often

ASSUME Altp2mAssumption ==
    /\ NrVcpus \in Nat \ {0}
    /\ NrTools \in Nat
    /\ MaxAltp2m \in Nat \ {0}
    /\ MaxOps \in Nat \ {0}
    /\ MaxDisorder \in Nat \ {0}

VCPUs   == 0 .. NrVcpus - 1
Tools   == NrVcpus .. NrVcpus + NrTools - 1
Callers == VCPUs \cup Tools
Views   == 0 .. MaxAltp2m - 1

Invalid == MaxAltp2m  \* INVALID_ALTP2M
Host    == -1         \* the EPTP of the host p2m

VARIABLES
    altp2m_active,
    altp2m_eptp,   \* the views whose entry in the EPTP list is valid
    active_vcpus,  \* per view
    p2midx,        \* per vCPU
    eptp,          \* per vCPU: EPT_POINTER, as the view it belongs to
    vmfunc,        \* the vCPUs with SECONDARY_EXEC_ENABLE_VM_FUNCTIONS
    where,         \* per vCPU: in the guest, in the three steps by which a VM
                   \* exit is synchronised, in the exit's handler, in an
                   \* operation or past it, in enable_notify, waiting for a
                   \* vm_event response, ready to enter the guest
    found,         \* per vCPU: idx of vmx_vmexit_handler
    op,            \* per caller: its operation under way
    crashed,       \* domain_crash was called
    panic,         \* a BUG_ON fired, or p2m_get_altp2m's NULL was used
    disorder       \* history: how often the callers have broken the rules

acct   == <<active_vcpus, p2midx>>
vmcs   == <<eptp, vmfunc>>
cpus   == <<where, found>>
avars  == <<altp2m_active, altp2m_eptp, acct, vmcs, cpus, op, crashed, panic, disorder>>

-----------------------------------------------------------------------------

NoOp == [step |-> "idle", view |-> 0, state |-> FALSE, n |-> 0, paused |-> FALSE]

Ops == [step : {"idle", "set_state", "init_zero", "initialise", "destroy", "flush",
                "create_p2m", "destroy_p2m", "switch_p2m", "answer_move", "answer_eptp"},
        view : Views \cup {Invalid}, state : BOOLEAN, n : VCPUs, paused : BOOLEAN]

Altp2mTypeOK ==
    /\ altp2m_active \in BOOLEAN
    /\ altp2m_eptp \in SUBSET Views
    /\ active_vcpus \in [Views -> Int]
    /\ p2midx \in [VCPUs -> Views \cup {Invalid}]
    /\ eptp \in [VCPUs -> Views \cup {Host}]
    /\ vmfunc \in SUBSET VCPUs
    /\ where \in [VCPUs -> {"guest", "exit", "found", "moving", "xen", "hypercall", "notify",
                             "event", "ready"}]
    /\ found \in [VCPUs -> Views \cup {Invalid}]
    /\ op \in [Callers -> Ops]
    /\ crashed \in BOOLEAN
    /\ panic \in BOOLEAN
    /\ disorder \in 0 .. MaxDisorder

\* hap_enable has filled the list with INVALID_MFN; nobody resets a vCPU's
\* p2midx before the first activation, so it is the zero it was allocated with.
Altp2mInit ==
    /\ altp2m_active = FALSE
    /\ altp2m_eptp = {}
    /\ active_vcpus = [i \in Views |-> 0]
    /\ p2midx = [v \in VCPUs |-> 0]
    /\ eptp = [v \in VCPUs |-> Host]
    /\ vmfunc = {}
    /\ where = [v \in VCPUs |-> "ready"]
    /\ found = [v \in VCPUs |-> Invalid]
    /\ op = [c \in Callers |-> NoOp]
    /\ crashed = FALSE
    /\ panic = FALSE
    /\ disorder = 0

Busy == {c \in Callers : op[c].step # "idle"}

\* The steps of HVMOP_altp2m_set_domain_state, and of an answer for a vCPU that
\* is not paused.
StateSteps  == {"set_state", "init_zero", "initialise", "destroy", "flush"}
AnswerSteps == {"answer_move", "answer_eptp"}

\* altp2m_list_lock is free.  Every other holder has it for one step.
ListFree == \A c \in Callers : op[c].step \notin AnswerSteps

\* The vCPUs that the operation of c pauses in the step it has come to: the one
\* the loop is at, or all of them, but never the caller itself.
Targets(c) ==
    CASE op[c].step \in {"initialise", "destroy", "answer_eptp"} -> {op[c].n} \ {c}
      [] op[c].step = "destroy_p2m" /\ op[c].view \in Views \ {0} -> VCPUs \ {c}
      [] op[c].step = "switch_p2m" /\ op[c].view \in Views -> VCPUs \ {c}
      [] OTHER -> {}

\* Mutant: vcpu_pause does not raise the pause count.
Held_NoCount(v) == FALSE

\* Somebody holds a pause on v.
Held(v) == \E c \in Callers : op[c].paused /\ v \in Targets(c)

\* The pauses of c have returned: their vCPUs are off their CPUs.
PausesDone(c) ==
    /\ op[c].paused
    /\ \A v \in Targets(c) : where[v] \in {"ready", "event"}

MoveTo(v, w) == where' = [where EXCEPT ![v] = w]
Done(c)      == op' = [op EXCEPT ![c] = NoOp]

\* vmx_vcpu_update_eptp for a vCPU whose p2midx is idx.
EptpFor(idx) == IF altp2m_active /\ idx # Invalid THEN idx ELSE Host

\* atomic_dec of the old view, p2midx = idx, atomic_inc of the new one.
Account(v, idx) ==
    /\ p2midx' = [p2midx EXCEPT ![v] = idx]
    /\ active_vcpus' = [i \in Views |->
          active_vcpus[i] - (IF i = p2midx[v] THEN 1 ELSE 0) + (IF i = idx THEN 1 ELSE 0)]

-----------------------------------------------------------------------------
(* The guest *)

Enter(v) ==
    /\ where[v] = "ready"
    /\ ~Held(v)
    /\ ~crashed
    /\ MoveTo(v, "guest")
    /\ UNCHANGED <<altp2m_active, altp2m_eptp, acct, vmcs, found, op, crashed, panic, disorder>>

\* VMFUNC leaf 0 with a valid list entry switches EPT_POINTER without an exit.
Vmfunc(v, i) ==
    /\ where[v] = "guest"
    /\ v \in vmfunc
    /\ i \in altp2m_eptp
    /\ eptp' = [eptp EXCEPT ![v] = i]
    /\ UNCHANGED <<altp2m_active, altp2m_eptp, acct, vmfunc, cpus, op, crashed, panic,
                   disorder>>

\* Any VM exit, that of a VMFUNC with an invalid entry included (answered #UD).
Exit(v) ==
    /\ where[v] = "guest"
    /\ MoveTo(v, "exit")
    /\ UNCHANGED <<altp2m_active, altp2m_eptp, acct, vmcs, found, op, crashed, panic, disorder>>

\* p2m_find_altp2m_by_eptp
FindByEptp(e) == IF e \in altp2m_eptp THEN e ELSE Invalid

\* The part of vmx_vmexit_handler that every exit goes through before its own
\* handler: has the guest switched EPTP?  The lookup takes the list's lock; an
\* EPTP that is not in the list crashes the domain and goes on.
Find(v) ==
    LET checks == altp2m_active /\ v \in vmfunc
        idx    == FindByEptp(eptp[v])
    IN  /\ where[v] = "exit"
        /\ checks => ListFree
        /\ MoveTo(v, IF checks THEN "found" ELSE "xen")
        /\ found' = [found EXCEPT ![v] = IF checks THEN idx ELSE @]
        /\ crashed' = (crashed \/ (checks /\ idx = Invalid))
        /\ UNCHANGED <<altp2m_active, altp2m_eptp, acct, vmcs, op, panic, disorder>>

\* Without a lock: the comparison with p2midx, BUG_ON(idx >= MAX_ALTP2M) and the
\* atomic_dec of the old view.
SyncDec(v) ==
    LET bug   == found[v] # p2midx[v] /\ Invalid \in {found[v], p2midx[v]}
        moves == found[v] # p2midx[v] /\ ~bug
    IN  /\ where[v] = "found"
        /\ panic' = bug
        /\ MoveTo(v, IF moves THEN "moving" ELSE "xen")
        /\ found' = [found EXCEPT ![v] = IF moves THEN @ ELSE Invalid]
        /\ active_vcpus' = IF moves THEN [active_vcpus EXCEPT ![p2midx[v]] = @ - 1]
                           ELSE active_vcpus
        /\ UNCHANGED <<altp2m_active, altp2m_eptp, p2midx, vmcs, op, crashed, disorder>>

\* Mutant: the vCPU is moved to its new view but not counted there.
SyncMove_NoInc(v) ==
    /\ where[v] = "moving"
    /\ MoveTo(v, "xen")
    /\ p2midx' = [p2midx EXCEPT ![v] = found[v]]
    /\ found' = [found EXCEPT ![v] = Invalid]
    /\ UNCHANGED <<altp2m_active, altp2m_eptp, active_vcpus, vmcs, op, crashed, panic, disorder>>

\* p2midx = idx and the atomic_inc of the new view.
SyncMove(v) ==
    /\ where[v] = "moving"
    /\ MoveTo(v, "xen")
    /\ p2midx' = [p2midx EXCEPT ![v] = found[v]]
    /\ active_vcpus' = [active_vcpus EXCEPT ![found[v]] = @ + 1]
    /\ found' = [found EXCEPT ![v] = Invalid]
    /\ UNCHANGED <<altp2m_active, altp2m_eptp, vmcs, op, crashed, panic, disorder>>

\* The exit's handler has nothing (more) to do with altp2m.
Handled(v) ==
    /\ where[v] \in {"xen", "hypercall"} /\ v \notin Busy
    /\ MoveTo(v, "ready")
    /\ UNCHANGED <<altp2m_active, altp2m_eptp, acct, vmcs, found, op, crashed, panic, disorder>>

\* p2m_mem_access_check pauses the vCPU until dom0 answers.
SendEvent(v) ==
    /\ where[v] = "xen"
    /\ MoveTo(v, "event")
    /\ UNCHANGED <<altp2m_active, altp2m_eptp, acct, vmcs, found, op, crashed, panic, disorder>>

\* HVMOP_altp2m_vcpu_enable_notify, by a vCPU for itself: the test of
\* altp2m_active.  Bad arguments set rc but do not stop it.
EnableNotify(v) ==
    /\ where[v] = "xen"
    /\ altp2m_active
    /\ MoveTo(v, "notify")
    /\ UNCHANGED <<altp2m_active, altp2m_eptp, acct, vmcs, found, op, crashed, panic, disorder>>

\* Mutant: altp2m_active is not tested again.
VmfuncFor_NoTest(v) == vmfunc \cup {v}

\* vmx_vcpu_update_vmfunc_ve tests altp2m_active itself.
VmfuncFor(v) == IF altp2m_active THEN vmfunc \cup {v} ELSE vmfunc \ {v}

NotifyDone(v) ==
    /\ where[v] = "notify"
    /\ vmfunc' = VmfuncFor(v)
    /\ MoveTo(v, "ready")
    /\ UNCHANGED <<altp2m_active, altp2m_eptp, acct, eptp, found, op, crashed, panic, disorder>>

-----------------------------------------------------------------------------
(* do_altp2m_op: the tests ahead of the switch *)

\* Nothing keeps an operation from overlapping with a set_domain_state, or an
\* answer from moving a vCPU that runs; the model counts how often it happens.
Disturb(b) ==
    /\ disorder < MaxDisorder
    /\ disorder' = IF b THEN disorder + 1 ELSE disorder

\* A vCPU issues one operation per VM exit.
Begin(c, step, view, state) ==
    /\ c \notin Busy
    /\ IF c \in VCPUs THEN where[c] = "xen" /\ MoveTo(c, "hypercall") ELSE UNCHANGED where
    /\ Cardinality(Busy) < MaxOps
    /\ Disturb(\/ step \in StateSteps /\ Busy # {}
               \/ \E d \in Busy : op[d].step \in StateSteps)
    /\ op' = [op EXCEPT ![c] = [NoOp EXCEPT !.step = step, !.view = view, !.state = state]]
    /\ UNCHANGED <<altp2m_active, altp2m_eptp, acct, vmcs, found, crashed, panic>>

BeginSetState(c, state) == Begin(c, "set_state", 0, state)

\* Every other operation needs an active altp2m, here and now.
BeginViewOp(c, step, view) == altp2m_active /\ Begin(c, step, view, FALSE)

\* vcpu_pause, or domain_pause_except_self: the count goes up, then the wait.
Pause(c) ==
    /\ Targets(c) # {} /\ ~op[c].paused
    /\ op' = [op EXCEPT ![c].paused = TRUE]
    /\ UNCHANGED <<altp2m_active, altp2m_eptp, acct, vmcs, cpus, crashed, panic, disorder>>

\* What c has to pause is paused.
Alone(c) == Targets(c) = {} \/ PausesDone(c)

-----------------------------------------------------------------------------
(* HVMOP_altp2m_set_domain_state *)

SetState(c) ==
    /\ op[c].step = "set_state"
    /\ altp2m_active' = op[c].state
    /\ op' = [op EXCEPT ![c] =
                IF op[c].state = altp2m_active THEN NoOp
                ELSE [@ EXCEPT !.step = IF altp2m_active THEN "destroy" ELSE "init_zero"]]
    /\ UNCHANGED <<altp2m_eptp, acct, vmcs, cpus, crashed, panic, disorder>>

\* p2m_init_altp2m_by_id(d, 0).  If it fails the operation ends there, with
\* altp2m_active set.
InitZero(c) ==
    /\ op[c].step = "init_zero"
    /\ ListFree
    /\ altp2m_eptp' = altp2m_eptp \cup {0}
    /\ op' = [op EXCEPT ![c] =
                IF 0 \in altp2m_eptp THEN NoOp ELSE [@ EXCEPT !.step = "initialise"]]
    /\ UNCHANGED <<altp2m_active, acct, vmcs, cpus, crashed, panic, disorder>>

\* Mutant: the loop runs past the last vCPU.
NextVcpu_OffByOne(c, last) ==
    op' = [op EXCEPT ![c] =
             IF op[c].n + 1 <= NrVcpus THEN [@ EXCEPT !.n = op[c].n + 1, !.paused = FALSE]
             ELSE IF last = "idle" THEN NoOp
             ELSE [@ EXCEPT !.step = last, !.n = 0, !.paused = FALSE]]

\* vcpu_unpause; the for_each_vcpu loop goes on, or ends in step `last'.
NextVcpu(c, last) ==
    op' = [op EXCEPT ![c] =
             IF op[c].n + 1 < NrVcpus THEN [@ EXCEPT !.n = op[c].n + 1, !.paused = FALSE]
             ELSE IF last = "idle" THEN NoOp
             ELSE [@ EXCEPT !.step = last, !.n = 0, !.paused = FALSE]]

\* altp2m_vcpu_initialise for the vCPU the loop has come to.  It does not look
\* at what p2midx was.
Initialise(c) ==
    LET v == op[c].n
    IN  /\ op[c].step = "initialise"
        /\ Alone(c)
        /\ p2midx' = [p2midx EXCEPT ![v] = 0]
        /\ active_vcpus' = [active_vcpus EXCEPT ![0] = @ + 1]
        /\ eptp' = [eptp EXCEPT ![v] = EptpFor(0)]
        /\ NextVcpu(c, "idle")
        /\ UNCHANGED <<altp2m_active, altp2m_eptp, vmfunc, cpus, crashed, panic, disorder>>

\* altp2m_vcpu_destroy
Destroy(c) ==
    LET v == op[c].n
    IN  /\ op[c].step = "destroy"
        /\ Alone(c)
        /\ Account(v, Invalid)
        /\ eptp' = [eptp EXCEPT ![v] = EptpFor(Invalid)]
        /\ vmfunc' = VmfuncFor(v)
        /\ NextVcpu(c, "flush")
        /\ UNCHANGED <<altp2m_active, altp2m_eptp, cpus, crashed, panic, disorder>>

\* p2m_flush_altp2m
Flush(c) ==
    /\ op[c].step = "flush"
    /\ ListFree
    /\ altp2m_eptp' = {}
    /\ Done(c)
    /\ UNCHANGED <<altp2m_active, acct, vmcs, cpus, crashed, panic, disorder>>

-----------------------------------------------------------------------------
(* The operations on one view *)

\* p2m_init_next_altp2m takes the first free entry, if there is one.
Create(c) ==
    /\ op[c].step = "create_p2m"
    /\ ListFree
    /\ altp2m_eptp' = altp2m_eptp \cup
          {i \in Views \ altp2m_eptp : \A j \in Views \ altp2m_eptp : i <= j}
    /\ Done(c)
    /\ UNCHANGED <<altp2m_active, acct, vmcs, cpus, crashed, panic, disorder>>

\* Mutant: the vCPUs are not paused.
DestroyView_NoPause(c) ==
    LET i == op[c].view
    IN  /\ op[c].step = "destroy_p2m"
        /\ ListFree
        /\ altp2m_eptp' = IF i \in Views \ {0} /\ active_vcpus[i] = 0
                          THEN altp2m_eptp \ {i} ELSE altp2m_eptp
        /\ Done(c)
        /\ UNCHANGED <<altp2m_active, acct, vmcs, cpus, crashed, panic, disorder>>

\* p2m_destroy_altp2m_by_id: view 0 is never destroyed, and no other while a
\* vCPU uses it.
DestroyView(c) ==
    LET i == op[c].view
    IN  /\ op[c].step = "destroy_p2m"
        /\ Alone(c) /\ ListFree
        /\ altp2m_eptp' = IF i \in Views \ {0} /\ active_vcpus[i] = 0
                          THEN altp2m_eptp \ {i} ELSE altp2m_eptp
        /\ Done(c)
        /\ UNCHANGED <<altp2m_active, acct, vmcs, cpus, crashed, panic, disorder>>

\* The vCPUs that p2m_switch_domain_altp2m_by_id has to move to view i.
Movers(i) == {v \in VCPUs : i \in altp2m_eptp /\ p2midx[v] # i}

\* p2m_switch_domain_altp2m_by_id
SwitchDomain(c) ==
    LET i   == op[c].view
        bug == \E v \in Movers(i) : p2midx[v] = Invalid
    IN  /\ op[c].step = "switch_p2m"
        /\ Alone(c) /\ ListFree
        /\ panic' = bug
        /\ p2midx' = [v \in VCPUs |-> IF v \in Movers(i) THEN i ELSE p2midx[v]]
        /\ active_vcpus' = [j \in Views |->
              active_vcpus[j] - Cardinality({v \in Movers(i) : p2midx[v] = j})
                              + (IF j = i THEN Cardinality(Movers(i)) ELSE 0)]
        /\ eptp' = [v \in VCPUs |-> IF v \in Movers(i) THEN EptpFor(i) ELSE eptp[v]]
        /\ Done(c)
        /\ UNCHANGED <<altp2m_active, altp2m_eptp, vmfunc, cpus, crashed, disorder>>

-----------------------------------------------------------------------------
(* vm_event_resume, for an answer that names vCPU v *)

\* p2m_altp2m_check and p2m_switch_vcpu_altp2m_by_id have something to do.
Moves(v, i) == altp2m_active /\ i \in altp2m_eptp /\ i # p2midx[v]

\* Mutant: no altp2m_vcpu_update_p2m.
Respond_NoUpdate(t, v, i) ==
    /\ t \notin Busy
    /\ Cardinality(Busy) < MaxOps
    /\ where[v] = "event"
    /\ altp2m_active /\ i \in Views => ListFree
    /\ MoveTo(v, "ready")
    /\ IF Moves(v, i) /\ p2midx[v] # Invalid THEN Account(v, i) ELSE UNCHANGED acct
    /\ UNCHANGED <<altp2m_active, altp2m_eptp, vmcs, found, op, crashed, panic, disorder>>

\* The vCPU waits for this answer: it is switched to view i, where Invalid stands
\* for an answer that asks for none, and unpaused.
Respond(t, v, i) ==
    LET bug == Moves(v, i) /\ p2midx[v] = Invalid
    IN  /\ t \notin Busy
        /\ Cardinality(Busy) < MaxOps
        /\ where[v] = "event"
        /\ altp2m_active /\ i \in Views => ListFree
        /\ MoveTo(v, "ready")
        /\ panic' = bug
        /\ IF Moves(v, i) /\ ~bug
           THEN Account(v, i) /\ eptp' = [eptp EXCEPT ![v] = EptpFor(i)]
           ELSE UNCHANGED <<acct, eptp>>
        /\ UNCHANGED <<altp2m_active, altp2m_eptp, vmfunc, found, op, crashed, disorder>>

\* Any other vCPU is switched just the same: its request did not pause it, or the
\* answer names it without one.  With the list's lock taken, the atomic_dec.
Answer(t, v, i) ==
    /\ t \notin Busy
    /\ Cardinality(Busy) < MaxOps
    /\ where[v] # "event"
    /\ ListFree
    /\ Moves(v, i)
    /\ Disturb(TRUE)
    /\ panic' = (p2midx[v] = Invalid)
    /\ active_vcpus' = [j \in Views |-> active_vcpus[j] - (IF j = p2midx[v] THEN 1 ELSE 0)]
    /\ op' = [op EXCEPT ![t] = [NoOp EXCEPT !.step = "answer_move", !.view = i, !.n = v]]
    /\ UNCHANGED <<altp2m_active, altp2m_eptp, p2midx, vmcs, cpus, crashed>>

\* p2midx = idx and the atomic_inc.
AnswerMove(t) ==
    /\ op[t].step = "answer_move"
    /\ p2midx' = [p2midx EXCEPT ![op[t].n] = op[t].view]
    /\ active_vcpus' = [active_vcpus EXCEPT ![op[t].view] = @ + 1]
    /\ op' = [op EXCEPT ![t].step = "answer_eptp"]
    /\ UNCHANGED <<altp2m_active, altp2m_eptp, vmcs, cpus, crashed, panic, disorder>>

\* altp2m_vcpu_update_p2m, whose vmx_vmcs_enter pauses the vCPU, with the list's
\* lock still taken; then the lock is released.
AnswerEptp(t) ==
    LET v == op[t].n
    IN  /\ op[t].step = "answer_eptp"
        /\ PausesDone(t)
        /\ eptp' = [eptp EXCEPT ![v] = EptpFor(p2midx[v])]
        /\ Done(t)
        /\ UNCHANGED <<altp2m_active, altp2m_eptp, acct, vmfunc, cpus, crashed, panic, disorder>>

-----------------------------------------------------------------------------
(* Who waits for whom *)

\* Caller c has to take the list's lock.
WantsList(c) ==
    \/ op[c].step \in {"init_zero", "flush", "create_p2m", "destroy_p2m", "switch_p2m"}
    \/ c \in VCPUs /\ where[c] = "exit" /\ altp2m_active /\ c \in vmfunc

\* Whom c waits for: the vCPUs it pauses, and the holder of the list's lock.
WaitsFor(c) ==
    (IF op[c].paused THEN Targets(c) ELSE {}) \cup
    (IF WantsList(c) THEN {t \in Tools : op[t].step \in AnswerSteps} ELSE {})

\* Everyone waits for everyone: two vCPUs of the domain that pause each other, or
\* an answer that pauses a vCPU which spins on the lock the answer holds.
Embrace ==
    \E S \in SUBSET Callers \ {{}} : \A c \in S : WaitsFor(c) \cap S # {}

-----------------------------------------------------------------------------
(* Specification *)

\* The synchronisation of a VM exit.
Sync(v) == Find(v) \/ SyncDec(v) \/ SyncMove(v)

GuestStep(v) ==
    \/ Enter(v)
    \/ \E i \in Views : Vmfunc(v, i)
    \/ Exit(v)
    \/ Sync(v)
    \/ Handled(v)
    \/ SendEvent(v)
    \/ EnableNotify(v)
    \/ NotifyDone(v)

BeginStep(c) ==
    \/ \E state \in BOOLEAN : BeginSetState(c, state)
    \/ BeginViewOp(c, "create_p2m", 0)
    \/ \E i \in Views \cup {Invalid} :
          BeginViewOp(c, "destroy_p2m", i) \/ BeginViewOp(c, "switch_p2m", i)

OpStep(c) ==
    \/ Pause(c) \/ SetState(c) \/ InitZero(c) \/ Initialise(c) \/ Destroy(c) \/ Flush(c)
    \/ Create(c) \/ DestroyView(c) \/ SwitchDomain(c) \/ AnswerMove(c) \/ AnswerEptp(c)

RespondStep ==
    \E t \in Tools, v \in VCPUs, i \in Views \cup {Invalid} :
        Respond(t, v, i) \/ Answer(t, v, i)

Altp2mNext ==
    \/ ~panic /\ \E v \in VCPUs : GuestStep(v)
    \/ ~panic /\ \E c \in Callers : BeginStep(c)
    \/ ~panic /\ \E c \in Callers : OpStep(c)
    \/ ~panic /\ RespondStep
    \/ (panic \/ crashed \/ Embrace) /\ UNCHANGED avars

Altp2mSpec == Altp2mInit /\ [][Altp2mNext]_avars

\* Xen finishes what it has begun: operations and VM exits get on, and a paused
\* vCPU is kicked out of the guest by an interrupt.
Altp2mFairness ==
    /\ \A v \in VCPUs : /\ WF_avars(~panic /\ Exit(v))
                        /\ WF_avars(~panic /\ Sync(v))
                        /\ WF_avars(~panic /\ Handled(v))
                        /\ WF_avars(~panic /\ NotifyDone(v))
    /\ \A c \in Callers : WF_avars(~panic /\ OpStep(c))

Altp2mFairSpec == Altp2mSpec /\ Altp2mFairness

-----------------------------------------------------------------------------
(* Properties *)

\* What do_altp2m_op and vm_event_resume leave to their callers, for nothing in
\* them sees to it: no operation has overlapped with a set_domain_state, and no
\* answer has moved a vCPU other than one that waits for it.
Orderly == disorder = 0

\* The vCPUs that altp2m_vcpu_initialise has been through and
\* altp2m_vcpu_destroy has not.
Initialised ==
    {v \in VCPUs :
        \/ altp2m_active /\ \A c \in Callers :
              /\ op[c].step # "init_zero"
              /\ op[c].step = "initialise" => v < op[c].n
        \/ \E c \in Callers : op[c].step = "destroy" /\ v >= op[c].n}

\* Those that are not between the atomic_dec and the atomic_inc of their exit.
Counted == {v \in Initialised : where[v] # "moving"}

\* "count of vcpu's currently using this p2m" (p2m.h): with orderly callers
\* active_vcpus is the number of counted vCPUs whose p2midx is the view, through
\* activation, deactivation, switches from dom0 and the guest's own VMFUNCs,
\* although a VM exit counts without any lock.
ActiveCount ==
    Orderly /\ ~panic => \A i \in Views :
        active_vcpus[i] = Cardinality({v \in Counted : p2midx[v] = i})

\* With orderly callers no vCPU's EPT_POINTER ever names a view that has been
\* destroyed or flushed, although the guest moves between views without telling
\* Xen and p2m_destroy_altp2m_by_id only looks at active_vcpus, which misses a
\* vCPU in mid-exit.
NoStaleView ==
    Orderly => \A v \in VCPUs : eptp[v] \in altp2m_eptp \cup {Host}

\* With orderly callers p2m_get_altp2m gives, in Xen, the view the vCPU really
\* runs on: what the fault handlers change is what the guest sees.
HandlerSeesView ==
    Orderly /\ altp2m_active /\ ~panic =>
        \A v \in Initialised :
            where[v] \notin {"guest", "exit", "found", "moving"} => eptp[v] = p2midx[v]

\* With orderly callers, when deactivation has returned every vCPU is on the
\* host p2m, can not VMFUNC, and the list is empty, whatever enable_notify was
\* under way.
InactiveMeansHost ==
    Orderly /\ ~altp2m_active /\ Busy = {} =>
        /\ altp2m_eptp = {}
        /\ \A v \in VCPUs : eptp[v] = Host
        /\ vmfunc = {}

\* An operation on the domain comes to an end, its waits for vCPUs and for the
\* list's lock included, unless it is caught in such an embrace: nothing else, no
\* overlap of operations and no answer, keeps one waiting for ever.
OpsEnd == \A c \in Callers : c \in Busy ~> c \notin Busy \/ panic \/ Embrace

\* "If the guest has the ability to switch EPTP without an exit, figure out
\* whether it has done so and update the altp2m data" (vmx_vmexit_handler): the
\* lookup succeeds, for a vCPU that has the ability runs on a listed view.
EptpFound == ~crashed /\ ~panic
=============================================================================
