---------------------------- MODULE Altp2mProofs ----------------------------
(***************************************************************************)
(* Proofs about Altp2m, for every number of vCPUs, of threads in dom0 and  *)
(* of views.  The types hold whatever the callers do.  The rest is proved  *)
(* for as many operations as there may be, as long as the callers have     *)
(* been orderly: nothing has overlapped with a set_domain_state, and no    *)
(* answer has moved a vCPU that was not waiting for it.                    *)
(***************************************************************************)
EXTENDS Altp2m, FiniteSetTheorems, TLAPS

\* An operation that activates or deactivates altp2m is the only one under way.
\* Any number of others may overlap, and so may the guest's VMFUNCs, its VM exits,
\* enable_notify and the answers to vm_events.
StateAlone ==
    \A c, d \in Callers : op[c].step \in StateSteps /\ op[d].step # "idle" => c = d

\* Where the caller is, and what its operation has found or set.
OpInv == \A c \in Callers :
    /\ c \in VCPUs /\ op[c].step # "idle" => where[c] = "hypercall"
    /\ op[c].step = "set_state" => op[c].n = 0
    /\ op[c].step = "init_zero" => op[c].n = 0 /\ altp2m_eptp = {}
    /\ op[c].step = "initialise" => altp2m_eptp = {0}
    /\ op[c].step \in {"init_zero", "initialise", "create_p2m", "destroy_p2m", "switch_p2m"}
          => altp2m_active
    /\ op[c].step \in {"destroy", "flush"} => ~altp2m_active

\* View 0 is there while altp2m is active, and none is when it is not.
ListInv ==
    /\ altp2m_active /\ (\A c \in Callers : op[c].step # "init_zero") => 0 \in altp2m_eptp
    /\ ~altp2m_active /\ (\A c \in Callers : op[c].step \notin {"destroy", "flush"})
          => altp2m_eptp = {}

\* Where the guest may have moved and Xen does not know it yet.
Apart == {"guest", "exit", "found", "moving"}

\* An initialised vCPU is on a listed view, and Xen knows on which unless the
\* guest may have moved since; its exit finds that view.  Any other is on the host
\* p2m, or has taken itself to view 0 before altp2m_vcpu_initialise came round to
\* it: with the host p2m's EPTP its next exit is a crash, with view 0 it is a
\* BUG_ON or, for a p2midx that has been 0 since the domain was built, nothing.
VcpuInv == \A v \in VCPUs :
    /\ v \in Initialised => eptp[v] \in altp2m_eptp /\ p2midx[v] \in altp2m_eptp
    /\ v \in Initialised /\ altp2m_active /\ (v \notin vmfunc \/ where[v] \notin Apart)
          => eptp[v] = p2midx[v]
    /\ v \in Initialised /\ where[v] \in {"found", "moving"} => found[v] = eptp[v]
    /\ where[v] = "moving" => v \in Initialised
    /\ v \notin Initialised /\ where[v] = "found" => found[v] \in {0, Invalid}
    /\ v \notin Initialised =>
          /\ p2midx[v] \in {0, Invalid}
          /\ eptp[v] = Host \/ (altp2m_active /\ eptp[v] = 0 /\ 0 \in altp2m_eptp)
          /\ v \in vmfunc => altp2m_active

\* The members of S whose view in f is i.
Users(S, f, i) == {v \in S : f[v] = i}

CountInv == \A i \in Views : active_vcpus[i] = Cardinality(Users(Counted, p2midx, i))

ViewInv == OpInv /\ ListInv /\ VcpuInv /\ CountInv

AInv == Altp2mTypeOK /\ StateAlone /\ ListFree /\ ViewInv

\* The inductive invariant.
OrderInv == Altp2mTypeOK /\ (Orderly => AInv)

-----------------------------------------------------------------------------
(* Types, for any number of operations under way *)

LEMMA ViewFacts ==
    /\ 0 \in Views /\ Invalid \notin Views /\ Host \notin Views /\ 0 # Invalid
    /\ 0 \in VCPUs /\ \A v \in VCPUs : v \in Nat /\ v < NrVcpus
    /\ \A t \in Tools : t \notin VCPUs
BY Altp2mAssumption DEF Views, Invalid, Host, VCPUs, Tools

LEMMA NoOpType == NoOp \in Ops /\ NoOp.step = "idle" /\ NoOp.n = 0 /\ NoOp.paused = FALSE
BY ViewFacts DEF NoOp, Ops

\* There are finitely many vCPUs and callers.
LEMMA SomeVcpus ==
    \A S \in SUBSET VCPUs : IsFiniteSet(S) /\ Cardinality(S) \in Nat
<1>1. IsFiniteSet(VCPUs)
    BY Altp2mAssumption, FS_Interval DEF VCPUs
<1> QED BY <1>1, FS_Subset, FS_CardinalityType

\* atomic_inc of the count of one view.
LEMMA CountUp ==
    ASSUME NEW f \in [Views -> Int], NEW i
    PROVE  [f EXCEPT ![i] = @ + 1] \in [Views -> Int]
<1>1. CASE i \in Views
    BY <1>1
<1>2. CASE i \notin Views
    <2>1. [f EXCEPT ![i] = @ + 1] = f
        BY <1>2
    <2> QED BY <2>1
<1> QED BY <1>1, <1>2

LEMMA InitTypes == Altp2mInit => Altp2mTypeOK
<1> SUFFICES ASSUME Altp2mInit PROVE Altp2mTypeOK
    OBVIOUS
<1>1. /\ active_vcpus \in [Views -> Int] /\ p2midx \in [VCPUs -> Views \cup {Invalid}]
      /\ eptp \in [VCPUs -> Views \cup {Host}]
    BY ViewFacts DEF Altp2mInit
<1>2. op \in [Callers -> Ops]
    BY NoOpType DEF Altp2mInit
<1>3. disorder \in 0 .. MaxDisorder
    BY Altp2mAssumption DEF Altp2mInit
<1> QED BY <1>1, <1>2, <1>3 DEF Altp2mInit, Altp2mTypeOK

LEMMA GuestTypes ==
    ASSUME Altp2mTypeOK, NEW v \in VCPUs, GuestStep(v)
    PROVE  Altp2mTypeOK'
<1> USE DEF Altp2mTypeOK, MoveTo, acct, vmcs, cpus
<1>1. CASE Enter(v) \/ Exit(v) \/ Handled(v) \/ SendEvent(v) \/ EnableNotify(v)
    BY <1>1 DEF Enter, Exit, Handled, SendEvent, EnableNotify
<1>2. CASE \E i \in Views : Vmfunc(v, i)
    BY <1>2 DEF Vmfunc
<1>3. CASE NotifyDone(v)
    BY <1>3 DEF NotifyDone, VmfuncFor
<1>4. CASE Find(v)
    <2>1. FindByEptp(eptp[v]) \in Views \cup {Invalid}
        BY DEF FindByEptp
    <2>2. crashed' \in BOOLEAN
        BY <1>4 DEF Find
    <2>3. found' \in [VCPUs -> Views \cup {Invalid}]
        BY <1>4, <2>1 DEF Find
    <2> QED BY <1>4, <2>2, <2>3 DEF Find
<1>5. CASE SyncDec(v)
    <2>1. panic' \in BOOLEAN
        BY <1>5 DEF SyncDec
    <2>2. active_vcpus' \in [Views -> Int] /\ found' \in [VCPUs -> Views \cup {Invalid}]
        BY <1>5 DEF SyncDec
    <2> QED BY <1>5, <2>1, <2>2 DEF SyncDec
<1>6. CASE SyncMove(v)
    <2>1. p2midx' \in [VCPUs -> Views \cup {Invalid}] /\ found' \in [VCPUs -> Views \cup {Invalid}]
        BY <1>6 DEF SyncMove
    <2>2. active_vcpus' \in [Views -> Int]
        BY <1>6, CountUp DEF SyncMove
    <2> QED BY <1>6, <2>1, <2>2 DEF SyncMove
<1> QED BY <1>1, <1>2, <1>3, <1>4, <1>5, <1>6 DEF GuestStep, Sync

\* The operation of c is at the given step and vCPU, and the others are where
\* they were.
OpMoves(c, step, n) ==
    /\ op'[c].step = step /\ op'[c].n = n
    /\ \A d \in Callers \ {c} : op'[d] = op[d]

LEMMA BeginOp ==
    ASSUME Altp2mTypeOK, NEW c \in Callers,
           NEW step \in {"set_state", "create_p2m", "destroy_p2m", "switch_p2m"},
           NEW view \in Views \cup {Invalid}, NEW state \in BOOLEAN,
           Begin(c, step, view, state)
    PROVE  op' \in [Callers -> Ops] /\ OpMoves(c, step, 0)
<1>1. PICK r : r = [NoOp EXCEPT !.step = step, !.view = view, !.state = state]
    OBVIOUS
<1>2. op' = [op EXCEPT ![c] = r]
    BY <1>1 DEF Begin
<1>3. r \in Ops
    BY <1>1, ViewFacts DEF NoOp, Ops
<1>4. r.step = step /\ r.n = 0
    BY <1>1 DEF NoOp
<1> QED BY <1>2, <1>3, <1>4 DEF Altp2mTypeOK, OpMoves

LEMMA BeginTypes ==
    ASSUME Altp2mTypeOK, NEW c \in Callers, BeginStep(c)
    PROVE  Altp2mTypeOK'
<1>1. PICK step \in {"set_state", "create_p2m", "destroy_p2m", "switch_p2m"},
           view \in Views \cup {Invalid}, state \in BOOLEAN : Begin(c, step, view, state)
    BY ViewFacts DEF BeginStep, BeginSetState, BeginViewOp
<1>2. op' \in [Callers -> Ops]
    BY <1>1, BeginOp
<1>3. disorder' \in 0 .. MaxDisorder
    BY <1>1, Altp2mAssumption DEF Begin, Disturb, Altp2mTypeOK
<1>4. where' \in [VCPUs -> {"guest", "exit", "found", "moving", "xen", "hypercall", "notify",
                            "event", "ready"}]
    BY <1>1 DEF Begin, MoveTo, Altp2mTypeOK
<1> QED BY <1>1, <1>2, <1>3, <1>4 DEF Begin, Altp2mTypeOK, acct, vmcs

\* The loop goes on to the next vCPU, or to the step after it.
LEMMA NextVcpuOp ==
    ASSUME Altp2mTypeOK, NEW c \in Callers, NEW last \in {"idle", "flush"}, NextVcpu(c, last)
    PROVE  /\ op' \in [Callers -> Ops]
           /\ op[c].n + 1 < NrVcpus => OpMoves(c, op[c].step, op[c].n + 1)
           /\ ~(op[c].n + 1 < NrVcpus) => OpMoves(c, last, 0)
<1>1. op[c] \in Ops /\ op[c].n \in VCPUs
    BY DEF Altp2mTypeOK, Ops
<1>2. op[c].n + 1 < NrVcpus => op[c].n + 1 \in VCPUs
    BY <1>1, Altp2mAssumption DEF VCPUs
<1>3. CASE op[c].n + 1 < NrVcpus
    <2>1. PICK r : r = [op[c] EXCEPT !.n = op[c].n + 1, !.paused = FALSE]
        OBVIOUS
    <2>2. op' = [op EXCEPT ![c] = r]
        BY <1>3, <2>1 DEF NextVcpu
    <2>3. r \in Ops /\ r.step = op[c].step /\ r.n = op[c].n + 1
        BY <1>1, <1>2, <1>3, <2>1 DEF Ops
    <2> QED BY <1>3, <2>2, <2>3 DEF Altp2mTypeOK, OpMoves
<1>4. CASE ~(op[c].n + 1 < NrVcpus) /\ last = "idle"
    <2>1. op' = [op EXCEPT ![c] = NoOp]
        BY <1>4 DEF NextVcpu
    <2> QED BY <1>4, <2>1, NoOpType DEF Altp2mTypeOK, OpMoves
<1>5. CASE ~(op[c].n + 1 < NrVcpus) /\ last # "idle"
    <2>1. PICK r : r = [op[c] EXCEPT !.step = last, !.n = 0, !.paused = FALSE]
        OBVIOUS
    <2>2. op' = [op EXCEPT ![c] = r]
        BY <1>5, <2>1 DEF NextVcpu
    <2>3. r \in Ops /\ r.step = last /\ r.n = 0
        BY <1>1, <2>1, ViewFacts DEF Ops
    <2> QED BY <1>5, <2>2, <2>3 DEF Altp2mTypeOK, OpMoves
<1> QED BY <1>3, <1>4, <1>5

LEMMA OpTypes ==
    ASSUME Altp2mTypeOK, NEW c \in Callers, OpStep(c)
    PROVE  Altp2mTypeOK'
<1>0. op[c] \in Ops
    BY DEF Altp2mTypeOK
<1>1. CASE Pause(c)
    <2>1. op' \in [Callers -> Ops]
        BY <1>0, <1>1 DEF Pause, Altp2mTypeOK, Ops
    <2> QED BY <1>1, <2>1 DEF Pause, Altp2mTypeOK, acct, vmcs, cpus
<1>2. CASE SetState(c)
    <2>1. op' \in [Callers -> Ops]
        <3>1. \A s \in {"destroy", "init_zero"} : [op[c] EXCEPT !.step = s] \in Ops
            BY <1>0 DEF Ops
        <3> QED BY <1>2, <3>1, NoOpType DEF SetState, Altp2mTypeOK
    <2>2. altp2m_active' \in BOOLEAN
        BY <1>0, <1>2 DEF SetState, Ops
    <2> QED BY <1>2, <2>1, <2>2 DEF SetState, Altp2mTypeOK, acct, vmcs, cpus
<1>3. CASE InitZero(c)
    <2>1. op' \in [Callers -> Ops]
        <3>1. [op[c] EXCEPT !.step = "initialise"] \in Ops
            BY <1>0 DEF Ops
        <3> QED BY <1>3, <3>1, NoOpType DEF InitZero, Altp2mTypeOK
    <2> QED BY <1>3, <2>1, ViewFacts DEF InitZero, Altp2mTypeOK, acct, vmcs, cpus
<1>4. CASE Initialise(c)
    <2>1. op' \in [Callers -> Ops]
        BY <1>4, NextVcpuOp DEF Initialise
    <2>2. op[c].n \in VCPUs /\ EptpFor(0) \in Views \cup {Host}
        BY <1>0, ViewFacts DEF Ops, EptpFor
    <2> QED BY <1>4, <2>1, <2>2, ViewFacts DEF Initialise, Altp2mTypeOK, cpus
<1>5. CASE Destroy(c)
    <2>1. op' \in [Callers -> Ops]
        BY <1>5, NextVcpuOp DEF Destroy
    <2>2. op[c].n \in VCPUs /\ EptpFor(Invalid) \in Views \cup {Host}
        BY <1>0 DEF Ops, EptpFor
    <2>3. p2midx' \in [VCPUs -> Views \cup {Invalid}] /\ active_vcpus' \in [Views -> Int]
        BY <1>5, <2>2 DEF Destroy, Account, Altp2mTypeOK
    <2>4. vmfunc' \in SUBSET VCPUs
        BY <1>5, <2>2 DEF Destroy, VmfuncFor, Altp2mTypeOK
    <2> QED BY <1>5, <2>1, <2>2, <2>3, <2>4 DEF Destroy, Altp2mTypeOK, cpus
<1>6. CASE Flush(c) \/ Create(c) \/ DestroyView(c)
    <2>1. op' \in [Callers -> Ops]
        BY <1>6, NoOpType DEF Flush, Create, DestroyView, Done, Altp2mTypeOK
    <2>2. altp2m_eptp' \in SUBSET Views
        BY <1>6 DEF Flush, Create, DestroyView, Altp2mTypeOK
    <2> QED BY <1>6, <2>1, <2>2
           DEF Flush, Create, DestroyView, Altp2mTypeOK, acct, vmcs, cpus
<1>7. CASE SwitchDomain(c)
    <2>1. op' \in [Callers -> Ops]
        BY <1>7, NoOpType DEF SwitchDomain, Done, Altp2mTypeOK
    <2>2. panic' \in BOOLEAN
        BY <1>7 DEF SwitchDomain
    <2>3. \A v \in Movers(op[c].view) : op[c].view \in Views /\ EptpFor(op[c].view) \in Views \cup {Host}
        BY DEF Movers, EptpFor, Altp2mTypeOK
    <2>4. /\ p2midx' \in [VCPUs -> Views \cup {Invalid}]
          /\ eptp' \in [VCPUs -> Views \cup {Host}]
        BY <1>7, <2>3 DEF SwitchDomain, Altp2mTypeOK
    <2>5. active_vcpus' \in [Views -> Int]
        <3>1. \A S \in SUBSET VCPUs : Cardinality(S) \in Int
            BY SomeVcpus
        <3>2. Cardinality(Movers(op[c].view)) \in Int
            BY <3>1 DEF Movers
        <3>3. \A j \in Views : Cardinality({v \in Movers(op[c].view) : p2midx[v] = j}) \in Int
            BY <3>1 DEF Movers
        <3> QED BY <1>7, <3>2, <3>3 DEF SwitchDomain, Altp2mTypeOK
    <2> QED BY <1>7, <2>1, <2>2, <2>4, <2>5 DEF SwitchDomain, Altp2mTypeOK, cpus
<1>8. CASE AnswerMove(c)
    <2>1. [op[c] EXCEPT !.step = "answer_eptp"] \in Ops
        BY <1>0 DEF Ops
    <2>2. op' \in [Callers -> Ops]
        BY <1>8, <2>1 DEF AnswerMove, Altp2mTypeOK
    <2>3. op[c].n \in VCPUs /\ op[c].view \in Views \cup {Invalid}
        BY <1>0 DEF Ops
    <2>4. p2midx' \in [VCPUs -> Views \cup {Invalid}]
        BY <1>8, <2>3 DEF AnswerMove, Altp2mTypeOK
    <2>5. active_vcpus' \in [Views -> Int]
        BY <1>8, CountUp DEF AnswerMove, Altp2mTypeOK
    <2> QED BY <1>8, <2>2, <2>4, <2>5 DEF AnswerMove, Altp2mTypeOK, vmcs, cpus
<1>9. CASE AnswerEptp(c)
    <2>1. op' \in [Callers -> Ops]
        BY <1>9, NoOpType DEF AnswerEptp, Done, Altp2mTypeOK
    <2>2. op[c].n \in VCPUs
        BY <1>0 DEF Ops
    <2>3. EptpFor(p2midx[op[c].n]) \in Views \cup {Host}
        BY <2>2 DEF EptpFor, Altp2mTypeOK
    <2>4. eptp' \in [VCPUs -> Views \cup {Host}]
        BY <1>9, <2>2, <2>3 DEF AnswerEptp, Altp2mTypeOK
    <2> QED BY <1>9, <2>1, <2>4 DEF AnswerEptp, Altp2mTypeOK, acct, cpus
<1> QED BY <1>1, <1>2, <1>3, <1>4, <1>5, <1>6, <1>7, <1>8, <1>9 DEF OpStep

LEMMA RespondTypes ==
    ASSUME Altp2mTypeOK, RespondStep
    PROVE  Altp2mTypeOK'
<1>0. PICK t \in Tools, v \in VCPUs, i \in Views \cup {Invalid} :
         Respond(t, v, i) \/ Answer(t, v, i)
    BY DEF RespondStep
<1>1. CASE Respond(t, v, i)
    <2>1. panic' \in BOOLEAN
        BY <1>1 DEF Respond, Altp2mTypeOK
    <2>2. Moves(v, i) => EptpFor(i) \in Views \cup {Host}
        BY DEF EptpFor, Moves, Altp2mTypeOK
    <2>3. /\ p2midx' \in [VCPUs -> Views \cup {Invalid}] /\ active_vcpus' \in [Views -> Int]
          /\ eptp' \in [VCPUs -> Views \cup {Host}]
        BY <1>1, <2>2 DEF Respond, Account, Altp2mTypeOK, acct
    <2>4. where' \in [VCPUs -> {"guest", "exit", "found", "moving", "xen", "hypercall", "notify",
                                "event", "ready"}]
        BY <1>1 DEF Respond, MoveTo, Altp2mTypeOK
    <2> QED BY <1>1, <2>1, <2>3, <2>4 DEF Respond, Altp2mTypeOK
<1>2. CASE Answer(t, v, i)
    <2>1. panic' \in BOOLEAN /\ disorder' \in 0 .. MaxDisorder
        BY <1>2, Altp2mAssumption DEF Answer, Disturb, Altp2mTypeOK
    <2>2. active_vcpus' \in [Views -> Int]
        BY <1>2 DEF Answer, Altp2mTypeOK
    <2>3. [NoOp EXCEPT !.step = "answer_move", !.view = i, !.n = v] \in Ops
        BY DEF NoOp, Ops
    <2>4. op' \in [Callers -> Ops]
        BY <1>2, <2>3 DEF Answer, Altp2mTypeOK
    <2> QED BY <1>2, <2>1, <2>2, <2>4 DEF Answer, Altp2mTypeOK, vmcs, cpus
<1> QED BY <1>0, <1>1, <1>2

LEMMA NextTypes == Altp2mTypeOK /\ [Altp2mNext]_avars => Altp2mTypeOK'
<1> SUFFICES ASSUME Altp2mTypeOK, [Altp2mNext]_avars PROVE Altp2mTypeOK'
    OBVIOUS
<1>1. CASE UNCHANGED avars
    BY <1>1 DEF avars, acct, vmcs, cpus, Altp2mTypeOK
<1> QED BY <1>1, GuestTypes, BeginTypes, OpTypes, RespondTypes DEF Altp2mNext

\* However many operations overlap, no vCPU is ever put on a view that is not
\* one, and no loop over the vCPUs runs past the last.
THEOREM Altp2mTypeCorrect == Altp2mSpec => []Altp2mTypeOK
<1>1. Altp2mInit => Altp2mTypeOK
    BY InitTypes
<1>2. Altp2mTypeOK /\ [Altp2mNext]_avars => Altp2mTypeOK'
    BY NextTypes
<1> QED BY <1>1, <1>2, PTL DEF Altp2mSpec

-----------------------------------------------------------------------------
(* Which vCPUs are initialised, and counting them *)

\* Initialised as an operator of the state it depends on.
Inits(active, o) ==
    {v \in VCPUs :
        \/ active /\ \A c \in Callers :
              /\ o[c].step # "init_zero"
              /\ o[c].step = "initialise" => v < o[c].n
        \/ \E c \in Callers : o[c].step = "destroy" /\ v >= o[c].n}

LEMMA InitialisedIs ==
    /\ Initialised = Inits(altp2m_active, op)
    /\ Initialised' = Inits(altp2m_active', op')
BY DEF Initialised, Inits

\* With at most one operation at these steps it is the one that decides.
LEMMA Phases ==
    ASSUME NEW a \in BOOLEAN, NEW o \in [Callers -> Ops], NEW c \in Callers,
           \A d \in Callers \ {c} : o[d].step \notin {"init_zero", "initialise", "destroy"}
    PROVE  /\ o[c].step = "init_zero" => Inits(a, o) = {}
           /\ o[c].step = "initialise" /\ a => Inits(a, o) = {v \in VCPUs : v < o[c].n}
           /\ o[c].step = "destroy" /\ ~a => Inits(a, o) = {v \in VCPUs : v >= o[c].n}
           /\ o[c].step \notin {"init_zero", "initialise", "destroy"} =>
                 Inits(a, o) = IF a THEN VCPUs ELSE {}
<1>1. \A d \in Callers : o[d].step \in {"init_zero", "initialise", "destroy"} => d = c
    OBVIOUS
<1>2. ASSUME o[c].step = "init_zero" PROVE Inits(a, o) = {}
    BY <1>1, <1>2 DEF Inits
<1>3. ASSUME o[c].step = "initialise", a PROVE Inits(a, o) = {v \in VCPUs : v < o[c].n}
    BY <1>1, <1>3 DEF Inits
<1>4. ASSUME o[c].step = "destroy", ~a PROVE Inits(a, o) = {v \in VCPUs : v >= o[c].n}
    BY <1>1, <1>4 DEF Inits
<1>5. ASSUME o[c].step \notin {"init_zero", "initialise", "destroy"}
      PROVE  Inits(a, o) = IF a THEN VCPUs ELSE {}
    BY <1>1, <1>5 DEF Inits
<1> QED BY <1>2, <1>3, <1>4, <1>5

\* A step that leaves every operation's step and loop where they were, and
\* altp2m_active as it was, leaves the same vCPUs initialised.
LEMMA SameInitialised ==
    ASSUME altp2m_active' = altp2m_active,
           \A c \in Callers : op'[c].step = op[c].step /\ op'[c].n = op[c].n
    PROVE  Initialised' = Initialised
BY DEF Initialised

LEMMA InitialisedSubset ==
    /\ Initialised \subseteq VCPUs /\ Initialised' \subseteq VCPUs
    /\ Counted \subseteq VCPUs /\ Counted' \subseteq VCPUs
BY DEF Initialised, Counted

\* Who is counted depends on who is initialised and who is in mid-exit.
LEMMA SameCounted ==
    ASSUME Initialised' = Initialised,
           \A u \in VCPUs : where'[u] = "moving" <=> where[u] = "moving"
    PROVE  Counted' = Counted
<1>1. Initialised \subseteq VCPUs
    BY InitialisedSubset
<1>2. \A u \in Initialised : where'[u] # "moving" <=> where[u] # "moving"
    BY <1>1
<1> QED BY <1>2 DEF Counted

LEMMA SameCount ==
    ASSUME CountInv, Counted' = Counted, UNCHANGED <<active_vcpus, p2midx>>
    PROVE  CountInv'
BY DEF CountInv

\* A vCPU in S is one of the users of its own view and of no other.
LEMMA CountOne ==
    ASSUME NEW S \in SUBSET VCPUs, NEW v \in S, NEW f, NEW i
    PROVE  /\ Cardinality(Users(S, f, i)) \in Int
           /\ Cardinality(Users(S \ {v}, f, i)) \in Int
           /\ Cardinality(Users(S, f, i)) =
                 Cardinality(Users(S \ {v}, f, i)) + (IF f[v] = i THEN 1 ELSE 0)
<1>1. Users(S \ {v}, f, i) \in SUBSET VCPUs /\ Users(S, f, i) \in SUBSET VCPUs
    BY DEF Users
<1>2. /\ IsFiniteSet(Users(S \ {v}, f, i)) /\ Cardinality(Users(S \ {v}, f, i)) \in Int
      /\ Cardinality(Users(S, f, i)) \in Int
    BY <1>1, SomeVcpus
<1>3. CASE f[v] = i
    <2>1. Users(S, f, i) = Users(S \ {v}, f, i) \cup {v} /\ v \notin Users(S \ {v}, f, i)
        BY <1>3 DEF Users
    <2>2. Cardinality(Users(S \ {v}, f, i) \cup {v}) = Cardinality(Users(S \ {v}, f, i)) + 1
        BY <1>2, <2>1, FS_AddElement
    <2> QED BY <1>2, <1>3, <2>1, <2>2
<1>4. CASE f[v] # i
    <2>1. Users(S, f, i) = Users(S \ {v}, f, i)
        BY <1>4 DEF Users
    <2> QED BY <1>2, <1>4, <2>1
<1> QED BY <1>3, <1>4

LEMMA SameUsers ==
    ASSUME NEW S, NEW f, NEW g, NEW i, \A u \in S : f[u] = g[u]
    PROVE  Users(S, f, i) = Users(S, g, i)
BY DEF Users

\* Account moves one counted vCPU from the users of one view to those of another.
LEMMA AccountCounts ==
    ASSUME Altp2mTypeOK, CountInv, NEW v \in Counted, NEW idx \in Views \cup {Invalid},
           Account(v, idx), Counted' = Counted
    PROVE  CountInv'
<1>1. Counted \in SUBSET VCPUs /\ v \in VCPUs
    BY InitialisedSubset
<1>2. p2midx'[v] = idx /\ \A u \in Counted \ {v} : p2midx'[u] = p2midx[u]
    BY <1>1 DEF Account, Altp2mTypeOK
<1> SUFFICES ASSUME NEW i \in Views
             PROVE  active_vcpus'[i] = Cardinality(Users(Counted', p2midx', i))
    BY DEF CountInv
<1>3. Users(Counted \ {v}, p2midx, i) = Users(Counted \ {v}, p2midx', i)
    BY <1>2, SameUsers
<1>4. Cardinality(Users(Counted, p2midx, i)) =
         Cardinality(Users(Counted \ {v}, p2midx, i)) + (IF p2midx[v] = i THEN 1 ELSE 0)
    BY <1>1, CountOne
<1>5. Cardinality(Users(Counted, p2midx', i)) =
         Cardinality(Users(Counted \ {v}, p2midx', i)) + (IF p2midx'[v] = i THEN 1 ELSE 0)
    BY <1>1, CountOne
<1>6. active_vcpus[i] = Cardinality(Users(Counted, p2midx, i))
    BY DEF CountInv
<1>7. active_vcpus'[i] =
         active_vcpus[i] - (IF i = p2midx[v] THEN 1 ELSE 0) + (IF i = idx THEN 1 ELSE 0)
    BY DEF Account
<1>8. Cardinality(Users(Counted \ {v}, p2midx, i)) \in Int
    BY <1>1, CountOne
<1> QED BY <1>2, <1>3, <1>4, <1>5, <1>6, <1>7, <1>8

-----------------------------------------------------------------------------
(* The guest's steps keep the invariant *)

\* What a step that leaves the operations and the list alone cannot disturb.
LEMMA OpsKept ==
    ASSUME ViewInv, UNCHANGED <<altp2m_active, altp2m_eptp, op>>,
           \A c \in VCPUs : op[c].step # "idle" => where'[c] = where[c]
    PROVE  OpInv' /\ ListInv' /\ Initialised' = Initialised
<1>1. Initialised' = Initialised
    BY SameInitialised
<1>2. ListInv'
    BY DEF ViewInv, ListInv
<1>3. OpInv'
    BY DEF ViewInv, OpInv
<1> QED BY <1>1, <1>2, <1>3

\* A vCPU moves between the guest and Xen, and nothing else happens.
LEMMA WhereKeeps ==
    ASSUME AInv, NEW v \in VCPUs, NEW w, MoveTo(v, w), v \notin Busy,
           w \notin {"found", "moving"}, where[v] # "moving",
           w \notin Apart => where[v] \notin Apart,
           UNCHANGED <<altp2m_active, altp2m_eptp, active_vcpus, p2midx, eptp, vmfunc, found, op>>
    PROVE  ViewInv'
<1>1. op[v].step = "idle"
    BY DEF Busy, Callers
<1>2. where'[v] = w /\ \A u \in VCPUs \ {v} : where'[u] = where[u]
    BY DEF MoveTo, AInv, Altp2mTypeOK
<1>3. OpInv' /\ ListInv' /\ Initialised' = Initialised
    BY <1>1, <1>2, OpsKept DEF AInv
<1>4. VcpuInv'
    BY <1>2, <1>3 DEF VcpuInv, AInv, ViewInv, Apart
<1>5. CountInv'
    BY <1>2, <1>3, SameCounted, SameCount DEF AInv, ViewInv
<1> QED BY <1>3, <1>4, <1>5 DEF ViewInv

\* The caller of an operation that is a vCPU is in its hypercall.
LEMMA NotInXenNotBusy ==
    ASSUME OpInv, NEW v \in VCPUs, where[v] # "hypercall"
    PROVE  v \notin Busy
BY DEF OpInv, Busy, Callers

LEMMA VmfuncStep ==
    ASSUME AInv, NEW v \in VCPUs, NEW i \in Views, Vmfunc(v, i)
    PROVE  ViewInv'
<1>1. OpInv' /\ ListInv' /\ Initialised' = Initialised
    BY OpsKept DEF AInv, Vmfunc, cpus
<1>2. eptp'[v] = i /\ \A u \in VCPUs \ {v} : eptp'[u] = eptp[u]
    BY DEF Vmfunc, AInv, Altp2mTypeOK
<1>3. v \in vmfunc /\ where[v] = "guest" /\ i \in altp2m_eptp
      /\ UNCHANGED <<altp2m_active, altp2m_eptp, active_vcpus, p2midx, vmfunc, where, found>>
    BY DEF Vmfunc, acct, cpus
<1>4. ASSUME v \notin Initialised PROVE altp2m_active /\ i = 0
    <2>1. altp2m_active
        BY <1>3, <1>4 DEF AInv, ViewInv, VcpuInv
    <2>2. PICK c \in Callers : op[c].step \in {"init_zero", "initialise"}
        BY <1>4, <2>1 DEF Initialised
    <2>3. altp2m_eptp \in {{}, {0}}
        BY <2>2 DEF AInv, ViewInv, OpInv
    <2> QED BY <1>3, <2>1, <2>3
<1>5. VcpuInv'
    BY <1>1, <1>2, <1>3, <1>4 DEF VcpuInv, AInv, ViewInv, Apart
<1>6. CountInv'
    BY <1>1, <1>3, SameCounted, SameCount DEF AInv, ViewInv
<1> QED BY <1>1, <1>5, <1>6 DEF ViewInv

LEMMA NotifyStep ==
    ASSUME AInv, NEW v \in VCPUs, NotifyDone(v)
    PROVE  ViewInv'
<1>1. where[v] = "notify" /\ where'[v] = "ready"
      /\ \A u \in VCPUs \ {v} : where'[u] = where[u]
    BY DEF NotifyDone, MoveTo, AInv, Altp2mTypeOK
<1>2. v \notin Busy
    BY <1>1, NotInXenNotBusy DEF AInv, ViewInv
<1>3. UNCHANGED <<altp2m_active, altp2m_eptp, active_vcpus, p2midx, eptp, found, op>>
    BY DEF NotifyDone, acct
<1>4. op[v].step = "idle"
    BY <1>2 DEF Busy, Callers
<1>5. OpInv' /\ ListInv' /\ Initialised' = Initialised
    BY <1>1, <1>3, <1>4, OpsKept DEF AInv
<1>6. \A u \in VCPUs \ {v} : u \in vmfunc' <=> u \in vmfunc
    BY DEF NotifyDone, VmfuncFor
<1>7. v \in vmfunc' => altp2m_active
    BY DEF NotifyDone, VmfuncFor
<1>8. VcpuInv'
    BY <1>1, <1>3, <1>5, <1>6, <1>7 DEF VcpuInv, AInv, ViewInv, Apart
<1>9. CountInv'
    BY <1>1, <1>3, <1>5, SameCounted, SameCount DEF AInv, ViewInv
<1> QED BY <1>5, <1>8, <1>9 DEF ViewInv

\* The exit of an initialised vCPU finds the view it runs on; that of any other
\* finds view 0, or nothing.
LEMMA FindStep ==
    ASSUME AInv, NEW v \in VCPUs, Find(v)
    PROVE  ViewInv'
<1> DEFINE checks == altp2m_active /\ v \in vmfunc
           idx == FindByEptp(eptp[v])
<1>1. /\ where[v] = "exit" /\ where'[v] = IF checks THEN "found" ELSE "xen"
      /\ \A u \in VCPUs \ {v} : where'[u] = where[u]
    BY DEF Find, MoveTo, AInv, Altp2mTypeOK
<1>2. op[v].step = "idle"
    BY <1>1, NotInXenNotBusy DEF AInv, ViewInv, Busy, Callers
<1>3. UNCHANGED <<altp2m_active, altp2m_eptp, active_vcpus, p2midx, eptp, vmfunc, op>>
    BY DEF Find, acct, vmcs
<1>4. OpInv' /\ ListInv' /\ Initialised' = Initialised
    BY <1>1, <1>2, <1>3, OpsKept DEF AInv
<1>5. (checks => found'[v] = idx) /\ \A u \in VCPUs \ {v} : found'[u] = found[u]
    BY DEF Find, AInv, Altp2mTypeOK
<1>6. v \in Initialised => idx = eptp[v]
    BY DEF AInv, ViewInv, VcpuInv, FindByEptp
<1>7. v \notin Initialised => idx \in {0, Invalid}
    BY ViewFacts DEF AInv, Altp2mTypeOK, ViewInv, VcpuInv, FindByEptp
<1>8. VcpuInv'
    <2> HIDE DEF idx
    <2> QED BY <1>1, <1>3, <1>4, <1>5, <1>6, <1>7 DEF VcpuInv, AInv, ViewInv, Apart
<1>9. CountInv'
    BY <1>1, <1>3, <1>4, SameCounted, SameCount DEF AInv, ViewInv
<1> QED BY <1>4, <1>8, <1>9 DEF ViewInv

\* The exit has found what p2midx says, or meets the BUG_ON, or takes the vCPU out
\* of the count.
LEMMA SyncDecStep ==
    ASSUME AInv, NEW v \in VCPUs, SyncDec(v)
    PROVE  ViewInv'
<1> DEFINE moves == found[v] # p2midx[v] /\ Invalid \notin {found[v], p2midx[v]}
<1>1. /\ where[v] = "found" /\ where'[v] = IF moves THEN "moving" ELSE "xen"
      /\ \A u \in VCPUs \ {v} : where'[u] = where[u]
    BY DEF SyncDec, MoveTo, AInv, Altp2mTypeOK
<1>2. op[v].step = "idle"
    BY <1>1, NotInXenNotBusy DEF AInv, ViewInv, Busy, Callers
<1>3. UNCHANGED <<altp2m_active, altp2m_eptp, p2midx, eptp, vmfunc, op>>
    BY DEF SyncDec, vmcs
<1>4. OpInv' /\ ListInv' /\ Initialised' = Initialised
    BY <1>1, <1>2, <1>3, OpsKept DEF AInv
<1>5. (moves => found'[v] = found[v]) /\ \A u \in VCPUs \ {v} : found'[u] = found[u]
    BY DEF SyncDec, AInv, Altp2mTypeOK
<1>6. moves => v \in Initialised
    BY <1>1 DEF AInv, ViewInv, VcpuInv
<1>7. v \in Initialised => found[v] = eptp[v] /\ Invalid \notin {found[v], p2midx[v]}
    BY <1>1, ViewFacts DEF AInv, Altp2mTypeOK, ViewInv, VcpuInv
<1>8. VcpuInv'
    BY <1>1, <1>3, <1>4, <1>5, <1>6, <1>7 DEF VcpuInv, AInv, ViewInv, Apart
<1>9. CASE moves
    <2>1. active_vcpus' = [active_vcpus EXCEPT ![p2midx[v]] = active_vcpus[p2midx[v]] - 1]
        BY <1>9 DEF SyncDec
    <2>2. v \in Counted /\ Counted' = Counted \ {v}
        BY <1>1, <1>4, <1>6, <1>9, InitialisedSubset DEF Counted
    <2>3. CountInv'
        <3> SUFFICES ASSUME NEW i \in Views
                     PROVE  active_vcpus'[i] = Cardinality(Users(Counted', p2midx', i))
            BY DEF CountInv
        <3>1. /\ Cardinality(Users(Counted, p2midx, i)) =
                    Cardinality(Users(Counted \ {v}, p2midx, i)) + (IF p2midx[v] = i THEN 1 ELSE 0)
              /\ Cardinality(Users(Counted \ {v}, p2midx, i)) \in Int
            BY <2>2, InitialisedSubset, CountOne
        <3>2. active_vcpus[i] = Cardinality(Users(Counted, p2midx, i))
            BY DEF CountInv, AInv, ViewInv
        <3>3. active_vcpus'[i] = IF i = p2midx[v] THEN active_vcpus[i] - 1 ELSE active_vcpus[i]
            BY <2>1 DEF AInv, Altp2mTypeOK
        <3>4. Users(Counted', p2midx', i) = Users(Counted \ {v}, p2midx, i)
            BY <1>3, <2>2
        <3> QED BY <3>1, <3>2, <3>3, <3>4
    <2> QED BY <1>4, <1>8, <2>3 DEF ViewInv
<1>10. CASE ~moves
    <2>1. active_vcpus' = active_vcpus
        BY <1>10 DEF SyncDec
    <2>2. CountInv'
        BY <1>1, <1>3, <1>4, <1>10, <2>1, SameCounted, SameCount DEF AInv, ViewInv
    <2> QED BY <1>4, <1>8, <2>2 DEF ViewInv
<1> QED BY <1>9, <1>10

\* The vCPU is counted again, for the view it runs on.
LEMMA SyncMoveStep ==
    ASSUME AInv, NEW v \in VCPUs, SyncMove(v)
    PROVE  ViewInv'
<1>1. /\ where[v] = "moving" /\ where'[v] = "xen"
      /\ \A u \in VCPUs \ {v} : where'[u] = where[u]
    BY DEF SyncMove, MoveTo, AInv, Altp2mTypeOK
<1>2. op[v].step = "idle"
    BY <1>1, NotInXenNotBusy DEF AInv, ViewInv, Busy, Callers
<1>3. UNCHANGED <<altp2m_active, altp2m_eptp, eptp, vmfunc, op>>
    BY DEF SyncMove, vmcs
<1>4. OpInv' /\ ListInv' /\ Initialised' = Initialised
    BY <1>1, <1>2, <1>3, OpsKept DEF AInv
<1>5. v \in Initialised /\ found[v] = eptp[v] /\ found[v] \in Views
    BY <1>1 DEF AInv, Altp2mTypeOK, ViewInv, VcpuInv
<1>6. /\ p2midx'[v] = found[v]
      /\ \A u \in VCPUs \ {v} : p2midx'[u] = p2midx[u] /\ found'[u] = found[u]
    BY DEF SyncMove, AInv, Altp2mTypeOK
<1>7. VcpuInv'
    BY <1>1, <1>3, <1>4, <1>5, <1>6 DEF VcpuInv, AInv, ViewInv, Apart
<1>8. v \notin Counted /\ v \in Counted' /\ Counted' \ {v} = Counted
    BY <1>1, <1>4, <1>5, InitialisedSubset DEF Counted
<1>9. CountInv'
    <2> SUFFICES ASSUME NEW i \in Views
                 PROVE  active_vcpus'[i] = Cardinality(Users(Counted', p2midx', i))
        BY DEF CountInv
    <2>0. PICK T : T = Counted'
        OBVIOUS
    <2>1. /\ Cardinality(Users(T, p2midx', i)) =
                Cardinality(Users(T \ {v}, p2midx', i)) + (IF p2midx'[v] = i THEN 1 ELSE 0)
          /\ Cardinality(Users(T \ {v}, p2midx', i)) \in Int
        BY <1>8, <2>0, InitialisedSubset, CountOne
    <2>2. Users(T \ {v}, p2midx', i) = Users(Counted, p2midx, i)
        <3>1. \A u \in Counted : p2midx'[u] = p2midx[u]
            BY <1>6, <1>8, InitialisedSubset
        <3> QED BY <1>8, <2>0, <3>1, SameUsers
    <2>3. active_vcpus[i] = Cardinality(Users(Counted, p2midx, i))
        BY DEF CountInv, AInv, ViewInv
    <2>4. active_vcpus' = [active_vcpus EXCEPT ![found[v]] = active_vcpus[found[v]] + 1]
        BY DEF SyncMove
    <2>5. active_vcpus'[i] = IF i = found[v] THEN active_vcpus[i] + 1 ELSE active_vcpus[i]
        BY <2>4 DEF AInv, Altp2mTypeOK
    <2> QED BY <1>6, <2>0, <2>1, <2>2, <2>3, <2>5
<1> QED BY <1>4, <1>7, <1>9 DEF ViewInv

LEMMA GuestKeeps ==
    ASSUME AInv, NEW v \in VCPUs, GuestStep(v)
    PROVE  ViewInv'
<1>1. CASE Enter(v) \/ Exit(v)
    <2>1. v \notin Busy
        BY <1>1, NotInXenNotBusy DEF Enter, Exit, AInv, ViewInv
    <2> QED BY <1>1, <2>1, WhereKeeps DEF Enter, Exit, acct, vmcs, Apart
<1>2. CASE Handled(v)
    BY <1>2, WhereKeeps DEF Handled, acct, vmcs, Apart
<1>3. CASE SendEvent(v) \/ EnableNotify(v)
    <2>1. v \notin Busy
        BY <1>3, NotInXenNotBusy DEF SendEvent, EnableNotify, AInv, ViewInv
    <2> QED BY <1>3, <2>1, WhereKeeps DEF SendEvent, EnableNotify, acct, vmcs, Apart
<1> QED BY <1>1, <1>2, <1>3, VmfuncStep, NotifyStep, FindStep, SyncDecStep, SyncMoveStep
       DEF GuestStep, Sync

-----------------------------------------------------------------------------
(* The operations keep the invariant *)

\* A step of the operation of c, before and after which it is the only one.
LEMMA OpMoved ==
    ASSUME NEW c \in Callers, NEW step, NEW n, OpMoves(c, step, n),
           \A d \in Callers \ {c} : op[d].step = "idle"
    PROVE  \A d \in Callers \ {c} : op'[d].step = "idle"
BY DEF OpMoves

\* While c activates or deactivates altp2m the others are idle; while it does
\* anything else none of them activates or deactivates it.
LEMMA OthersIdle ==
    ASSUME StateAlone, NEW c \in Callers
    PROVE  /\ op[c].step \in StateSteps => \A d \in Callers \ {c} : op[d].step = "idle"
           /\ op[c].step # "idle" => \A d \in Callers \ {c} : op[d].step \notin StateSteps
BY DEF StateAlone

\* A vCPU that the operation of c waits for is out of the guest and synchronised,
\* and so is the caller.
LEMMA OffCpu ==
    ASSUME OpInv, NEW c \in Callers, op[c].step # "idle", Alone(c),
           NEW v \in VCPUs, v # c => v \in Targets(c)
    PROVE  where[v] \in {"ready", "event", "hypercall"}
<1>1. CASE v = c
    BY <1>1 DEF OpInv
<1>2. CASE v # c
    BY <1>2 DEF Alone, PausesDone
<1> QED BY <1>1, <1>2

LEMMA BeginKeeps ==
    ASSUME AInv, Altp2mTypeOK', StateAlone', NEW c \in Callers, BeginStep(c)
    PROVE  ViewInv'
<1>1. PICK step \in {"set_state", "create_p2m", "destroy_p2m", "switch_p2m"},
           view \in Views \cup {Invalid}, state \in BOOLEAN :
              Begin(c, step, view, state) /\ (step # "set_state" => altp2m_active)
    BY ViewFacts DEF BeginStep, BeginSetState, BeginViewOp
<1>2. op[c].step = "idle"
    BY <1>1 DEF Begin, Busy
<1>3. OpMoves(c, step, 0)
    BY <1>1, BeginOp DEF AInv
<1>4. /\ UNCHANGED <<altp2m_active, altp2m_eptp, active_vcpus, p2midx, eptp, vmfunc, found>>
      /\ \A u \in VCPUs \ {c} : where'[u] = where[u]
      /\ c \in VCPUs => where[c] = "xen" /\ where'[c] = "hypercall"
    BY <1>1 DEF Begin, MoveTo, acct, vmcs, AInv, Altp2mTypeOK
<1>5. \A d \in Callers \ {c} : op'[d] = op[d] /\ op[d].step \notin StateSteps
    BY <1>3 DEF OpMoves, StateAlone
<1>6. op \in [Callers -> Ops] /\ op' \in [Callers -> Ops]
      /\ altp2m_active \in BOOLEAN /\ altp2m_active' \in BOOLEAN
    BY DEF AInv, Altp2mTypeOK
<1>7. op'[c].step = step
    BY <1>3 DEF OpMoves
<1>8. Initialised' = Initialised
    <2>1. \A d \in Callers \ {c} :
             /\ op[d].step \notin {"init_zero", "initialise", "destroy"}
             /\ op'[d].step \notin {"init_zero", "initialise", "destroy"}
        BY <1>5 DEF StateSteps
    <2>2. Initialised = IF altp2m_active THEN VCPUs ELSE {}
        BY <1>2, <1>6, <2>1, InitialisedIs, Phases
    <2>3. Initialised' = IF altp2m_active' THEN VCPUs ELSE {}
        BY <1>6, <1>7, <2>1, InitialisedIs, Phases
    <2> QED BY <1>4, <2>2, <2>3
<1>9. OpInv'
    <2>1. c \in VCPUs => where'[c] = "hypercall"
        BY <1>4
    <2>2. op'[c].n = 0
        BY <1>3 DEF OpMoves
    <2>3. step # "set_state" => altp2m_active'
        BY <1>1, <1>4
    <2> QED BY <1>4, <1>5, <1>7, <2>1, <2>2, <2>3 DEF OpInv, AInv, ViewInv
<1>10. ListInv'
    BY <1>2, <1>4, <1>5 DEF ListInv, AInv, ViewInv, StateSteps
<1>11. VcpuInv'
    BY <1>4, <1>8 DEF VcpuInv, AInv, ViewInv, Apart
<1>12. CountInv'
    BY <1>4, <1>8, SameCounted, SameCount DEF AInv, ViewInv
<1> QED BY <1>9, <1>10, <1>11, <1>12 DEF ViewInv

LEMMA PauseKeeps ==
    ASSUME AInv, NEW c \in Callers, Pause(c)
    PROVE  ViewInv'
<1>1. \A d \in Callers : op'[d].step = op[d].step /\ op'[d].n = op[d].n
    BY DEF Pause, AInv, Altp2mTypeOK, Ops
<1>2. UNCHANGED <<altp2m_active, altp2m_eptp, active_vcpus, p2midx, eptp, vmfunc, where, found>>
    BY DEF Pause, acct, vmcs, cpus
<1>3. Initialised' = Initialised
    BY <1>1, <1>2, SameInitialised
<1>4. OpInv' /\ ListInv'
    BY <1>1, <1>2 DEF AInv, ViewInv, OpInv, ListInv
<1>5. VcpuInv'
    BY <1>2, <1>3 DEF AInv, ViewInv, VcpuInv
<1>6. CountInv'
    BY <1>2, <1>3, SameCounted, SameCount DEF AInv, ViewInv
<1> QED BY <1>4, <1>5, <1>6 DEF ViewInv

\* What every later step of an operation has in common.
LEMMA DoneOp ==
    ASSUME Altp2mTypeOK, NEW c \in Callers, Done(c)
    PROVE  OpMoves(c, "idle", 0)
BY NoOpType DEF Done, OpMoves, Altp2mTypeOK

LEMMA SetStateKeeps ==
    ASSUME AInv, Altp2mTypeOK', NEW c \in Callers, SetState(c)
    PROVE  ViewInv'
<1>0. op[c].step = "set_state" /\ op[c].n = 0 /\ op[c] \in Ops
    BY DEF SetState, AInv, Altp2mTypeOK, ViewInv, OpInv
<1>1. \A d \in Callers \ {c} : op[d].step = "idle"
    BY <1>0, OthersIdle DEF AInv, StateSteps
<1>2. altp2m_active' = op[c].state
      /\ UNCHANGED <<altp2m_eptp, active_vcpus, p2midx, eptp, vmfunc, where, found>>
    BY DEF SetState, acct, vmcs, cpus
<1>3. op \in [Callers -> Ops] /\ op' \in [Callers -> Ops]
      /\ altp2m_active \in BOOLEAN /\ altp2m_active' \in BOOLEAN
    BY DEF AInv, Altp2mTypeOK
<1>4. Initialised = IF altp2m_active THEN VCPUs ELSE {}
    BY <1>0, <1>1, <1>3, InitialisedIs, Phases
<1>5. c \in VCPUs => where'[c] = "hypercall"
    BY <1>0, <1>2 DEF AInv, ViewInv, OpInv
<1>6. CASE op[c].state = altp2m_active
    <2>1. OpMoves(c, "idle", 0)
        BY <1>6, DoneOp DEF SetState, Done, AInv
    <2>2. \A d \in Callers : op'[d].step = "idle"
        BY <1>1, <2>1, OpMoved DEF AInv, ViewInv, OpMoves
    <2>3. Initialised' = Initialised
        BY <1>2, <1>3, <1>4, <1>6, <2>2, InitialisedIs, Phases
    <2>4. OpInv'
        BY <2>2 DEF OpInv
    <2>5. ListInv'
        BY <1>0, <1>1, <1>2, <1>6 DEF ListInv, AInv, ViewInv
    <2>6. VcpuInv'
        BY <1>2, <1>6, <2>3 DEF VcpuInv, AInv, ViewInv
    <2>7. CountInv'
        BY <1>2, <2>3, SameCounted, SameCount DEF AInv, ViewInv
    <2> QED BY <2>2, <2>4, <2>5, <2>6, <2>7 DEF ViewInv
<1>7. CASE op[c].state # altp2m_active /\ altp2m_active
    <2>1. OpMoves(c, "destroy", 0)
        BY <1>0, <1>3, <1>7 DEF SetState, OpMoves, Ops
    <2>2. \A d \in Callers \ {c} : op'[d].step = "idle"
        BY <1>1, <2>1, OpMoved DEF AInv, ViewInv
    <2>3. op'[c].step = "destroy" /\ op'[c].n = 0 /\ ~altp2m_active'
        BY <1>2, <1>3, <1>7, <2>1 DEF OpMoves
    <2>4. Initialised' = Initialised
        <3>1. Initialised' = {v \in VCPUs : v >= 0}
            BY <1>3, <2>2, <2>3, InitialisedIs, Phases
        <3> QED BY <1>4, <1>7, <3>1, ViewFacts
    <2>5. OpInv'
        BY <1>5, <2>2, <2>3 DEF OpInv
    <2>6. ListInv'
        BY <2>3 DEF ListInv
    <2>7. VcpuInv'
        <3>1. Initialised' = VCPUs
            BY <1>4, <1>7, <2>4
        <3> QED BY <1>2, <2>3, <2>4, <3>1 DEF VcpuInv, AInv, ViewInv
    <2>8. CountInv'
        BY <1>2, <2>4, SameCounted, SameCount DEF AInv, ViewInv
    <2> QED BY <2>2, <2>5, <2>6, <2>7, <2>8 DEF ViewInv
<1>8. CASE op[c].state # altp2m_active /\ ~altp2m_active
    <2>1. OpMoves(c, "init_zero", 0)
        BY <1>0, <1>3, <1>8 DEF SetState, OpMoves, Ops
    <2>2. \A d \in Callers \ {c} : op'[d].step = "idle"
        BY <1>1, <2>1, OpMoved DEF AInv, ViewInv
    <2>3. op'[c].step = "init_zero" /\ op'[c].n = 0
        BY <2>1 DEF OpMoves
    <2>4. altp2m_active'
        BY <1>0, <1>2, <1>3, <1>8 DEF Ops
    <2>5. Initialised' = {} /\ Initialised = {}
        BY <1>3, <1>4, <1>8, <2>2, <2>3, InitialisedIs, Phases
    <2>6. altp2m_eptp = {}
        BY <1>0, <1>1, <1>8 DEF ListInv, AInv, ViewInv
    <2>7. OpInv'
        BY <1>2, <1>5, <2>2, <2>3, <2>4, <2>6 DEF OpInv
    <2>8. ListInv'
        BY <2>3, <2>4 DEF ListInv
    <2>9. VcpuInv'
        BY <1>2, <1>8, <2>4, <2>5 DEF VcpuInv, AInv, ViewInv
    <2>10. CountInv'
        BY <1>2, <2>5, SameCounted, SameCount DEF AInv, ViewInv
    <2> QED BY <2>2, <2>7, <2>8, <2>9, <2>10 DEF ViewInv
<1> QED BY <1>6, <1>7, <1>8

LEMMA InitZeroKeeps ==
    ASSUME AInv, Altp2mTypeOK', NEW c \in Callers, InitZero(c)
    PROVE  ViewInv'
<1>0. /\ op[c].step = "init_zero" /\ op[c].n = 0 /\ op[c] \in Ops
      /\ altp2m_eptp = {} /\ altp2m_active
    BY DEF InitZero, AInv, Altp2mTypeOK, ViewInv, OpInv
<1>1. \A d \in Callers \ {c} : op[d].step = "idle"
    BY <1>0, OthersIdle DEF AInv, StateSteps
<1>2. /\ altp2m_eptp' = {0}
      /\ UNCHANGED <<altp2m_active, active_vcpus, p2midx, eptp, vmfunc, where, found>>
    BY <1>0 DEF InitZero, acct, vmcs, cpus
<1>3. op \in [Callers -> Ops] /\ op' \in [Callers -> Ops]
      /\ altp2m_active \in BOOLEAN /\ altp2m_active' \in BOOLEAN
    BY DEF AInv, Altp2mTypeOK
<1>4. OpMoves(c, "initialise", 0)
    BY <1>0, <1>3 DEF InitZero, OpMoves, Ops
<1>5. \A d \in Callers \ {c} : op'[d].step = "idle"
    BY <1>1, <1>4, OpMoved DEF AInv, ViewInv
<1>6. op'[c].step = "initialise" /\ op'[c].n = 0
    BY <1>4 DEF OpMoves
<1>7. Initialised = {}
    BY <1>0, <1>1, <1>3, InitialisedIs, Phases
<1>8. Initialised' = {}
    <2>1. altp2m_active'
        BY <1>0, <1>2
    <2>2. Initialised' = {v \in VCPUs : v < op'[c].n}
        BY <1>3, <1>5, <1>6, <2>1, InitialisedIs, Phases
    <2> QED BY <1>6, <2>2, ViewFacts
<1>9. OpInv'
    <2>1. c \in VCPUs => where'[c] = "hypercall"
        BY <1>0, <1>2 DEF AInv, ViewInv, OpInv
    <2> QED BY <1>0, <1>2, <1>5, <1>6, <2>1 DEF OpInv
<1>10. ListInv'
    BY <1>0, <1>2 DEF ListInv
<1>11. VcpuInv'
    BY <1>0, <1>2, <1>7, <1>8 DEF VcpuInv, AInv, ViewInv
<1>12. CountInv'
    BY <1>2, <1>7, <1>8, SameCounted, SameCount DEF AInv, ViewInv
<1> QED BY <1>5, <1>9, <1>10, <1>11, <1>12 DEF ViewInv

LEMMA InitialiseKeeps ==
    ASSUME AInv, Altp2mTypeOK', NEW c \in Callers, Initialise(c)
    PROVE  ViewInv'
<1> DEFINE v == op[c].n
           S == {u \in VCPUs : u < v}
<1>0. op[c].step = "initialise" /\ v \in VCPUs /\ altp2m_eptp = {0} /\ altp2m_active
    BY DEF Initialise, AInv, Altp2mTypeOK, Ops, ViewInv, OpInv
<1>1. \A d \in Callers \ {c} : op[d].step = "idle"
    BY <1>0, OthersIdle DEF AInv, StateSteps
<1>2. UNCHANGED <<altp2m_active, altp2m_eptp, vmfunc, where, found>> /\ NextVcpu(c, "idle")
    BY DEF Initialise, cpus
<1>3. op \in [Callers -> Ops] /\ op' \in [Callers -> Ops]
      /\ altp2m_active \in BOOLEAN /\ altp2m_active' \in BOOLEAN
    BY DEF AInv, Altp2mTypeOK
<1>4. /\ v + 1 < NrVcpus => OpMoves(c, "initialise", v + 1)
      /\ ~(v + 1 < NrVcpus) => OpMoves(c, "idle", 0)
    BY <1>0, <1>2, NextVcpuOp DEF AInv
<1>5. \A d \in Callers \ {c} : op'[d].step = "idle"
    BY <1>1, <1>4, OpMoved DEF AInv, ViewInv
<1>6. altp2m_active'
    BY <1>0, <1>2
<1>7. Initialised = S
    BY <1>0, <1>1, <1>3, InitialisedIs, Phases
<1>8. Initialised' = S \cup {v}
    <2>1. CASE v + 1 < NrVcpus
        <3>1. op'[c].step = "initialise" /\ op'[c].n = v + 1
            BY <1>4, <2>1 DEF OpMoves
        <3>2. Initialised' = {u \in VCPUs : u < op'[c].n}
            BY <1>3, <1>5, <1>6, <3>1, InitialisedIs, Phases
        <3> QED BY <1>0, <3>1, <3>2, ViewFacts
    <2>2. CASE ~(v + 1 < NrVcpus)
        <3>1. op'[c].step = "idle"
            BY <1>4, <2>2 DEF OpMoves
        <3>2. Initialised' = VCPUs
            BY <1>3, <1>5, <1>6, <3>1, InitialisedIs, Phases
        <3> QED BY <1>0, <2>2, <3>2, Altp2mAssumption DEF VCPUs
    <2> QED BY <2>1, <2>2
<1>9. p2midx'[v] = 0 /\ \A u \in VCPUs \ {v} : p2midx'[u] = p2midx[u]
    BY <1>0 DEF Initialise, AInv, Altp2mTypeOK
<1>10. eptp'[v] = 0 /\ \A u \in VCPUs \ {v} : eptp'[u] = eptp[u]
    BY <1>0, ViewFacts DEF Initialise, EptpFor, AInv, Altp2mTypeOK
<1>11. OpInv'
    <2>1. op'[c].step \in {"initialise", "idle"}
        BY <1>4 DEF OpMoves
    <2>2. c \in VCPUs => where'[c] = "hypercall"
        BY <1>0, <1>2 DEF AInv, ViewInv, OpInv
    <2>3. altp2m_eptp' = {0}
        BY <1>0, <1>2
    <2> QED BY <1>5, <1>6, <2>1, <2>2, <2>3 DEF OpInv
<1>12. ListInv'
    BY <1>0, <1>2, <1>6 DEF ListInv
<1>a. where[v] \in {"ready", "event", "hypercall"}
    <2>1. v # c => v \in Targets(c)
        BY <1>0 DEF Targets
    <2>2. op[c].step # "idle" /\ Alone(c) /\ OpInv
        BY <1>0 DEF Initialise, AInv, ViewInv
    <2> HIDE DEF v
    <2> QED BY <1>0, <2>1, <2>2, OffCpu
<1>13. VcpuInv'
    BY <1>0, <1>2, <1>7, <1>8, <1>9, <1>10, <1>a DEF VcpuInv, AInv, ViewInv
<1>b. v \notin Counted /\ v \in Counted' /\ Counted' \ {v} = Counted
    <2>1. v \notin S
        BY <1>0, ViewFacts
    <2> QED BY <1>0, <1>2, <1>7, <1>8, <1>a, <2>1 DEF Counted
<1>14. CountInv'
    <2> SUFFICES ASSUME NEW i \in Views
                 PROVE  active_vcpus'[i] = Cardinality(Users(Counted', p2midx', i))
        BY DEF CountInv
    <2>1. PICK T : T = Counted'
        OBVIOUS
    <2>2. PICK w : w = v
        OBVIOUS
    <2>3. T \in SUBSET VCPUs /\ w \in T /\ T \ {w} = Counted
        BY <1>b, <2>1, <2>2, InitialisedSubset
    <2>4. /\ Cardinality(Users(T, p2midx', i)) =
                Cardinality(Users(T \ {w}, p2midx', i)) + (IF p2midx'[w] = i THEN 1 ELSE 0)
          /\ Cardinality(Users(T \ {w}, p2midx', i)) \in Int
        <3> HIDE DEF S, v
        <3> QED BY <2>3, CountOne
    <2>5. Users(T \ {w}, p2midx', i) = Users(Counted, p2midx, i)
        <3>1. \A u \in Counted : p2midx'[u] = p2midx[u]
            BY <1>9, <1>b, InitialisedSubset
        <3> QED BY <2>3, <3>1, SameUsers
    <2>6. active_vcpus[i] = Cardinality(Users(Counted, p2midx, i))
        BY DEF CountInv, AInv, ViewInv
    <2>7. active_vcpus'[i] = active_vcpus[i] + (IF i = 0 THEN 1 ELSE 0)
        <3>1. active_vcpus' = [active_vcpus EXCEPT ![0] = active_vcpus[0] + 1]
            BY DEF Initialise
        <3> QED BY <3>1, ViewFacts DEF AInv, Altp2mTypeOK
    <2> QED BY <1>9, <2>1, <2>2, <2>4, <2>5, <2>6, <2>7
<1> QED BY <1>5, <1>11, <1>12, <1>13, <1>14 DEF ViewInv

LEMMA DestroyKeeps ==
    ASSUME AInv, Altp2mTypeOK', NEW c \in Callers, Destroy(c)
    PROVE  ViewInv'
<1> DEFINE v == op[c].n
           S == {u \in VCPUs : u >= v}
<1>0. op[c].step = "destroy" /\ v \in VCPUs /\ ~altp2m_active
    BY DEF Destroy, AInv, Altp2mTypeOK, Ops, ViewInv, OpInv
<1>1. \A d \in Callers \ {c} : op[d].step = "idle"
    BY <1>0, OthersIdle DEF AInv, StateSteps
<1>2. UNCHANGED <<altp2m_active, altp2m_eptp, where, found>> /\ NextVcpu(c, "flush")
    BY DEF Destroy, cpus
<1>3. op \in [Callers -> Ops] /\ op' \in [Callers -> Ops]
      /\ altp2m_active \in BOOLEAN /\ altp2m_active' \in BOOLEAN
    BY DEF AInv, Altp2mTypeOK
<1>4. /\ v + 1 < NrVcpus => OpMoves(c, "destroy", v + 1)
      /\ ~(v + 1 < NrVcpus) => OpMoves(c, "flush", 0)
    BY <1>0, <1>2, NextVcpuOp DEF AInv
<1>5. \A d \in Callers \ {c} : op'[d].step = "idle"
    BY <1>1, <1>4, OpMoved DEF AInv, ViewInv
<1>6. ~altp2m_active'
    BY <1>0, <1>2
<1>7. Initialised = S
    BY <1>0, <1>1, <1>3, InitialisedIs, Phases
<1>8. Initialised' = S \ {v}
    <2>1. CASE v + 1 < NrVcpus
        <3>1. op'[c].step = "destroy" /\ op'[c].n = v + 1
            BY <1>4, <2>1 DEF OpMoves
        <3>2. Initialised' = {u \in VCPUs : u >= op'[c].n}
            BY <1>3, <1>5, <1>6, <3>1, InitialisedIs, Phases
        <3> QED BY <1>0, <3>1, <3>2, ViewFacts
    <2>2. CASE ~(v + 1 < NrVcpus)
        <3>1. op'[c].step = "flush"
            BY <1>4, <2>2 DEF OpMoves
        <3>2. Initialised' = {}
            BY <1>3, <1>5, <1>6, <3>1, InitialisedIs, Phases
        <3> QED BY <1>0, <2>2, <3>2, Altp2mAssumption DEF VCPUs
    <2> QED BY <2>1, <2>2
<1>9. p2midx'[v] = Invalid /\ \A u \in VCPUs \ {v} : p2midx'[u] = p2midx[u]
    BY <1>0 DEF Destroy, Account, AInv, Altp2mTypeOK
<1>10. eptp'[v] = Host /\ \A u \in VCPUs \ {v} : eptp'[u] = eptp[u]
    BY <1>0 DEF Destroy, EptpFor, AInv, Altp2mTypeOK
<1>11. v \notin vmfunc' /\ \A u \in VCPUs \ {v} : u \in vmfunc' <=> u \in vmfunc
    BY <1>0 DEF Destroy, VmfuncFor
<1>12. op'[c].step \in {"destroy", "flush"}
    BY <1>4 DEF OpMoves
<1>13. OpInv'
    <2>1. c \in VCPUs => where'[c] = "hypercall"
        BY <1>0, <1>2 DEF AInv, ViewInv, OpInv
    <2> QED BY <1>5, <1>6, <1>12, <2>1 DEF OpInv
<1>14. ListInv'
    BY <1>6, <1>12 DEF ListInv
<1>a. where[v] \in {"ready", "event", "hypercall"}
    <2>1. v # c => v \in Targets(c)
        BY <1>0 DEF Targets
    <2>2. op[c].step # "idle" /\ Alone(c) /\ OpInv
        BY <1>0 DEF Destroy, AInv, ViewInv
    <2> HIDE DEF v
    <2> QED BY <1>0, <2>1, <2>2, OffCpu
<1>15. VcpuInv'
    BY <1>0, <1>2, <1>7, <1>8, <1>9, <1>10, <1>11, <1>a DEF VcpuInv, AInv, ViewInv
<1>b. v \in Counted /\ Counted' = Counted \ {v}
    <2>1. v \in S
        BY <1>0, ViewFacts
    <2> QED BY <1>2, <1>7, <1>8, <1>a, <2>1 DEF Counted
<1>16. CountInv'
    <2> SUFFICES ASSUME NEW i \in Views
                 PROVE  active_vcpus'[i] = Cardinality(Users(Counted', p2midx', i))
        BY DEF CountInv
    <2>1. Counted \in SUBSET VCPUs
        BY InitialisedSubset
    <2>2. /\ Cardinality(Users(Counted, p2midx, i)) =
                Cardinality(Users(Counted \ {v}, p2midx, i)) + (IF p2midx[v] = i THEN 1 ELSE 0)
          /\ Cardinality(Users(Counted \ {v}, p2midx, i)) \in Int
        <3> HIDE DEF S, v
        <3> QED BY <1>b, <2>1, CountOne
    <2>3. Users(Counted \ {v}, p2midx', i) = Users(Counted \ {v}, p2midx, i)
        <3>1. \A u \in Counted \ {v} : p2midx'[u] = p2midx[u]
            BY <1>9, <2>1
        <3> QED BY <3>1, SameUsers
    <2>4. active_vcpus[i] = Cardinality(Users(Counted, p2midx, i))
        BY DEF CountInv, AInv, ViewInv
    <2>5. active_vcpus'[i] = active_vcpus[i] - (IF i = p2midx[v] THEN 1 ELSE 0)
        BY <2>2, <2>4, ViewFacts DEF Destroy, Account
    <2> QED BY <1>b, <2>2, <2>3, <2>4, <2>5
<1> QED BY <1>5, <1>13, <1>14, <1>15, <1>16 DEF ViewInv

\* The last step of an operation on the list or on one view.
LEMMA LastStep ==
    ASSUME AInv, Altp2mTypeOK', NEW c \in Callers, Done(c), altp2m_active' = altp2m_active,
           UNCHANGED where,
           op[c].step \in {"flush", "create_p2m", "destroy_p2m", "switch_p2m"}
    PROVE  /\ OpInv'
           /\ \A d \in Callers : op[d].step # "init_zero"
           /\ Initialised' = Initialised
           /\ Initialised = IF altp2m_active THEN VCPUs ELSE {}
           /\ op[c].step = "flush" <=> ~altp2m_active
<1>1. \A d \in Callers \ {c} : op[d].step \notin StateSteps
    BY OthersIdle DEF AInv
<1>2. OpMoves(c, "idle", 0)
    BY DoneOp DEF AInv
<1>3. op'[c].step = "idle" /\ \A d \in Callers \ {c} : op'[d] = op[d]
    BY <1>2 DEF OpMoves
<1>4. op \in [Callers -> Ops] /\ op' \in [Callers -> Ops]
      /\ altp2m_active \in BOOLEAN /\ altp2m_active' \in BOOLEAN
    BY DEF AInv, Altp2mTypeOK
<1>5. \A d \in Callers \ {c} :
         /\ op[d].step \notin {"init_zero", "initialise", "destroy"}
         /\ op'[d].step \notin {"init_zero", "initialise", "destroy"}
    BY <1>1, <1>3 DEF StateSteps
<1>6. Initialised = IF altp2m_active THEN VCPUs ELSE {}
    BY <1>4, <1>5, InitialisedIs, Phases
<1>7. Initialised' = IF altp2m_active' THEN VCPUs ELSE {}
    BY <1>3, <1>4, <1>5, InitialisedIs, Phases
<1>8. OpInv'
    BY <1>1, <1>3 DEF OpInv, AInv, ViewInv, StateSteps
<1>9. op[c].step = "flush" <=> ~altp2m_active
    BY DEF AInv, ViewInv, OpInv
<1> QED BY <1>5, <1>6, <1>7, <1>8, <1>9

LEMMA FlushKeeps ==
    ASSUME AInv, Altp2mTypeOK', NEW c \in Callers, Flush(c)
    PROVE  ViewInv'
<1>1. op[c].step = "flush" /\ altp2m_eptp' = {} /\ Done(c)
      /\ UNCHANGED <<altp2m_active, active_vcpus, p2midx, eptp, vmfunc, where, found>>
    BY DEF Flush, acct, vmcs, cpus
<1>2. OpInv' /\ Initialised' = {} /\ Initialised = {} /\ ~altp2m_active
    BY <1>1, LastStep
<1>3. ListInv'
    BY <1>1, <1>2 DEF ListInv
<1>4. VcpuInv'
    BY <1>1, <1>2 DEF VcpuInv, AInv, ViewInv
<1>5. CountInv'
    BY <1>1, <1>2, SameCounted, SameCount DEF AInv, ViewInv
<1> QED BY <1>2, <1>3, <1>4, <1>5 DEF ViewInv

LEMMA CreateKeeps ==
    ASSUME AInv, Altp2mTypeOK', NEW c \in Callers, Create(c)
    PROVE  ViewInv'
<1>1. op[c].step = "create_p2m" /\ Done(c) /\ altp2m_eptp \subseteq altp2m_eptp'
      /\ UNCHANGED <<altp2m_active, active_vcpus, p2midx, eptp, vmfunc, where, found>>
    BY DEF Create, acct, vmcs, cpus
<1>2. OpInv' /\ Initialised' = VCPUs /\ Initialised = VCPUs /\ altp2m_active
    BY <1>1, LastStep
<1>3. \A d \in Callers : op[d].step # "init_zero"
    BY <1>1, LastStep
<1>4. ListInv'
    BY <1>1, <1>2, <1>3 DEF ListInv, AInv, ViewInv
<1>5. VcpuInv'
    BY <1>1, <1>2 DEF VcpuInv, AInv, ViewInv
<1>6. CountInv'
    BY <1>1, <1>2, SameCounted, SameCount DEF AInv, ViewInv
<1> QED BY <1>2, <1>4, <1>5, <1>6 DEF ViewInv

\* A view that goes has no vCPU accounted to it, and with every vCPU out of the
\* guest and synchronised that means that none runs on it.
LEMMA DestroyViewKeeps ==
    ASSUME AInv, Altp2mTypeOK', NEW c \in Callers, DestroyView(c)
    PROVE  ViewInv'
<1> DEFINE i == op[c].view
           goes == i \in Views \ {0} /\ active_vcpus[i] = 0
<1>1. op[c].step = "destroy_p2m" /\ Done(c)
      /\ UNCHANGED <<altp2m_active, active_vcpus, p2midx, eptp, vmfunc, where, found>>
    BY DEF DestroyView, acct, vmcs, cpus
<1>2. OpInv' /\ Initialised' = VCPUs /\ Initialised = VCPUs /\ altp2m_active
    BY <1>1, LastStep
<1>3. altp2m_eptp' = IF goes THEN altp2m_eptp \ {i} ELSE altp2m_eptp
    BY DEF DestroyView
<1>4. \A d \in Callers : op[d].step # "init_zero"
    BY <1>1, LastStep
<1>5. ListInv'
    BY <1>1, <1>2, <1>3, <1>4 DEF ListInv, AInv, ViewInv
<1>6. ASSUME goes, NEW v \in VCPUs PROVE eptp[v] # i /\ p2midx[v] # i
    <2>0. \A u \in VCPUs : where[u] \in {"ready", "event", "hypercall"}
        <3>1. Targets(c) = VCPUs \ {c} /\ Alone(c) /\ OpInv
            BY <1>1, <1>6 DEF Targets, DestroyView, AInv, ViewInv
        <3> QED BY <1>1, <3>1, OffCpu
    <2>1. Users(VCPUs, p2midx, i) = {}
        <3>0. Counted = VCPUs
            BY <1>2, <2>0 DEF Counted
        <3>1. Cardinality(Users(VCPUs, p2midx, i)) = 0
            BY <1>6, <3>0 DEF CountInv, AInv, ViewInv
        <3>2. Users(VCPUs, p2midx, i) \in SUBSET VCPUs
            BY DEF Users
        <3> QED BY <3>1, <3>2, SomeVcpus, FS_EmptySet
    <2>2. p2midx[v] # i
        BY <2>1 DEF Users
    <2>3. eptp[v] = p2midx[v]
        BY <1>2, <2>0 DEF AInv, ViewInv, VcpuInv, Apart
    <2> QED BY <2>2, <2>3
<1>7. VcpuInv'
    BY <1>1, <1>2, <1>3, <1>6 DEF VcpuInv, AInv, ViewInv
<1>8. CountInv'
    BY <1>1, <1>2, SameCounted, SameCount DEF AInv, ViewInv
<1> QED BY <1>2, <1>5, <1>7, <1>8 DEF ViewInv

\* Every vCPU that is not on view i moves there, so that all are counted for it.
LEMMA SwitchKeeps ==
    ASSUME AInv, Altp2mTypeOK', NEW c \in Callers, SwitchDomain(c)
    PROVE  ViewInv'
<1>0. PICK i : i = op[c].view
    OBVIOUS
<1>1. op[c].step = "switch_p2m" /\ Done(c)
      /\ UNCHANGED <<altp2m_active, altp2m_eptp, vmfunc, where, found>>
    BY DEF SwitchDomain, cpus
<1>2. OpInv' /\ Initialised' = VCPUs /\ Initialised = VCPUs /\ altp2m_active
    BY <1>1, LastStep
<1>3. \A d \in Callers : op[d].step # "init_zero"
    BY <1>1, LastStep
<1>4. ListInv'
    BY <1>1, <1>2, <1>3 DEF ListInv, AInv, ViewInv
<1>5. /\ p2midx' = [v \in VCPUs |-> IF v \in Movers(i) THEN i ELSE p2midx[v]]
      /\ eptp' = [v \in VCPUs |-> IF v \in Movers(i) THEN EptpFor(i) ELSE eptp[v]]
      /\ active_vcpus' = [j \in Views |->
            active_vcpus[j] - Cardinality(Users(Movers(i), p2midx, j))
                            + (IF j = i THEN Cardinality(Movers(i)) ELSE 0)]
    BY <1>0 DEF SwitchDomain, Users
<1>7. /\ Movers(i) \in SUBSET VCPUs
      /\ \A j \in Views : Users(Movers(i), p2midx, j) \in SUBSET VCPUs
      /\ \A j \in Views : Users(VCPUs, p2midx, j) \in SUBSET VCPUs
    BY DEF Movers, Users
<1>8. Cardinality({}) = 0
    BY FS_EmptySet
<1>9. CASE i \in altp2m_eptp
    <2>1. i \in Views /\ i # Invalid
        BY <1>9, ViewFacts DEF AInv, Altp2mTypeOK
    <2>2. EptpFor(i) = i
        BY <1>2, <2>1 DEF EptpFor
    <2>3. Movers(i) = VCPUs \ Users(VCPUs, p2midx, i)
        BY <1>9 DEF Movers, Users
    <2>4. \A v \in VCPUs : p2midx'[v] = i
        BY <1>5, <1>9 DEF Movers
    <2>a. \A v \in VCPUs : where[v] \in {"ready", "event", "hypercall"}
        <3>1. Targets(c) = VCPUs \ {c} /\ Alone(c) /\ OpInv
            BY <1>0, <1>1, <2>1 DEF Targets, SwitchDomain, AInv, ViewInv
        <3> QED BY <1>1, <3>1, OffCpu
    <2>b. Counted = VCPUs /\ Counted' = VCPUs
        BY <1>1, <1>2, <2>a DEF Counted
    <2>c. \A j \in Views : active_vcpus[j] = Cardinality(Users(VCPUs, p2midx, j))
        BY <2>b DEF CountInv, AInv, ViewInv
    <2>5. VcpuInv'
        <3>1. \A v \in VCPUs : eptp'[v] = i \/ (eptp'[v] = eptp[v] /\ p2midx[v] = i)
            BY <1>5, <1>9, <2>2 DEF Movers
        <3>2. \A v \in VCPUs : eptp'[v] = i
            BY <1>2, <2>a, <3>1 DEF VcpuInv, AInv, ViewInv, Apart
        <3> QED BY <1>1, <1>2, <1>9, <2>a, <2>4, <3>2 DEF VcpuInv, AInv, ViewInv
    <2>6. CountInv'
        <3> SUFFICES ASSUME NEW j \in Views
                     PROVE  active_vcpus'[j] = Cardinality(Users(VCPUs, p2midx', j))
            BY <2>b DEF CountInv
        <3>1. active_vcpus'[j] = active_vcpus[j] - Cardinality(Users(Movers(i), p2midx, j))
                                    + (IF j = i THEN Cardinality(Movers(i)) ELSE 0)
            BY <1>5
        <3>2. CASE j = i
            <4>1. Users(VCPUs, p2midx', j) = VCPUs
                BY <2>4, <3>2 DEF Users
            <4>2. Users(Movers(i), p2midx, j) = {}
                BY <3>2 DEF Users, Movers
            <4>3. Cardinality(VCPUs) =
                     Cardinality(Movers(i)) + Cardinality(Users(VCPUs, p2midx, i))
                <5>1. IsFiniteSet(VCPUs) /\ Cardinality(VCPUs) \in Int
                    BY SomeVcpus
                <5>2. VCPUs \cap Users(VCPUs, p2midx, i) = Users(VCPUs, p2midx, i)
                    BY DEF Users
                <5>3. Cardinality(Users(VCPUs, p2midx, i)) \in Int
                    BY <1>7, <2>1, SomeVcpus
                <5>4. Cardinality(VCPUs \ Users(VCPUs, p2midx, i)) =
                         Cardinality(VCPUs) - Cardinality(VCPUs \cap Users(VCPUs, p2midx, i))
                    BY <5>1, FS_Difference
                <5>5. Cardinality(Movers(i)) =
                         Cardinality(VCPUs) - Cardinality(Users(VCPUs, p2midx, i))
                    BY <2>3, <5>2, <5>4, Zenon
                <5> QED BY <5>1, <5>3, <5>5
            <4>4. Cardinality(Movers(i)) \in Int /\ Cardinality(Users(VCPUs, p2midx, i)) \in Int
                BY <1>7, <2>1, SomeVcpus
            <4>5. active_vcpus[j] = Cardinality(Users(VCPUs, p2midx, i))
                BY <2>c, <3>2
            <4> QED BY <1>8, <3>1, <3>2, <4>1, <4>2, <4>3, <4>4, <4>5
        <3>3. CASE j # i
            <4>1. Users(VCPUs, p2midx', j) = {}
                BY <2>4, <3>3 DEF Users
            <4>2. Users(Movers(i), p2midx, j) = Users(VCPUs, p2midx, j)
                BY <1>9, <3>3 DEF Users, Movers
            <4>3. Cardinality(Users(VCPUs, p2midx, j)) \in Int
                BY <1>7, SomeVcpus
            <4>4. active_vcpus[j] = Cardinality(Users(VCPUs, p2midx, j))
                BY <2>c
            <4> QED BY <1>8, <3>1, <3>3, <4>1, <4>2, <4>3, <4>4
        <3> QED BY <3>2, <3>3
    <2> QED BY <1>2, <1>4, <2>5, <2>6 DEF ViewInv
<1>10. CASE i \notin altp2m_eptp
    <2>1. Movers(i) = {} /\ \A j \in Views : Users(Movers(i), p2midx, j) = {}
        BY <1>10 DEF Movers, Users
    <2>2. \A v \in VCPUs : p2midx'[v] = p2midx[v] /\ eptp'[v] = eptp[v]
        BY <1>5, <2>1
    <2>3. VcpuInv'
        BY <1>1, <1>2, <2>2 DEF VcpuInv, AInv, ViewInv
    <2>4. CountInv'
        <3> SUFFICES ASSUME NEW j \in Views
                     PROVE  active_vcpus'[j] = Cardinality(Users(Counted', p2midx', j))
            BY DEF CountInv
        <3>1. active_vcpus'[j] = active_vcpus[j] - Cardinality(Users(Movers(i), p2midx, j))
                                    + (IF j = i THEN Cardinality(Movers(i)) ELSE 0)
            BY <1>5
        <3>2. Counted' = Counted /\ Counted \subseteq VCPUs
            BY <1>1, <1>2, SameCounted, InitialisedSubset
        <3>3. Users(Counted, p2midx', j) = Users(Counted, p2midx, j)
            BY <2>2, <3>2, SameUsers
        <3>4. active_vcpus[j] \in Int /\ active_vcpus[j] = Cardinality(Users(Counted, p2midx, j))
            BY DEF AInv, Altp2mTypeOK, ViewInv, CountInv
        <3>5. Cardinality(Movers(i)) = 0 /\ Cardinality(Users(Movers(i), p2midx, j)) = 0
            BY <1>8, <2>1
        <3>6. active_vcpus'[j] = active_vcpus[j]
            BY <3>1, <3>4, <3>5
        <3> QED BY <3>2, <3>3, <3>4, <3>6
    <2> QED BY <1>2, <1>4, <2>3, <2>4 DEF ViewInv
<1> QED BY <1>9, <1>10

LEMMA RespondKeeps ==
    ASSUME AInv, NEW t \in Tools, NEW v \in VCPUs, NEW i \in Views \cup {Invalid}, Respond(t, v, i)
    PROVE  ViewInv'
<1> DEFINE moves == Moves(v, i) /\ p2midx[v] # Invalid
<1>2. where[v] = "event" /\ where'[v] = "ready"
      /\ \A u \in VCPUs \ {v} : where'[u] = where[u]
    BY DEF Respond, MoveTo, AInv, Altp2mTypeOK
<1>3. op[v].step = "idle"
    BY <1>2, NotInXenNotBusy DEF AInv, ViewInv, Busy, Callers
<1>4. UNCHANGED <<altp2m_active, altp2m_eptp, vmfunc, found, op>>
    BY DEF Respond
<1>5. OpInv' /\ ListInv' /\ Initialised' = Initialised
    BY <1>2, <1>3, <1>4, OpsKept DEF AInv
\* A vCPU that is not initialised is not moved: with nothing in the list, or
\* view 0 alone, it is on that already or meets the BUG_ON.
<1>6. moves => v \in Initialised
    <2> SUFFICES ASSUME moves, v \notin Initialised PROVE FALSE
        OBVIOUS
    <2>1. PICK c \in Callers : op[c].step \in {"init_zero", "initialise"}
        BY DEF Initialised, Moves
    <2>2. altp2m_eptp \in {{}, {0}}
        BY <2>1 DEF AInv, ViewInv, OpInv
    <2>3. p2midx[v] \in {0, Invalid}
        BY DEF AInv, ViewInv, VcpuInv
    <2> QED BY <2>2, <2>3 DEF Moves
<1>7. CASE moves
    <2>1. v \in Initialised /\ p2midx[v] # Invalid /\ i \in Views
        BY <1>6, <1>7 DEF Moves, AInv, Altp2mTypeOK
    <2>2. Account(v, i) /\ eptp' = [eptp EXCEPT ![v] = EptpFor(i)]
        BY <1>7, <2>1 DEF Respond
    <2>3. EptpFor(i) = i
        BY <1>7, <2>1, ViewFacts DEF EptpFor, Moves
    <2>4. /\ eptp'[v] = i /\ p2midx'[v] = i
          /\ \A u \in VCPUs \ {v} : eptp'[u] = eptp[u] /\ p2midx'[u] = p2midx[u]
        BY <2>2, <2>3 DEF Account, AInv, Altp2mTypeOK
    <2>5. VcpuInv'
        BY <1>2, <1>4, <1>5, <1>7, <2>1, <2>4 DEF VcpuInv, AInv, ViewInv, Moves
    <2>6. v \in Counted /\ Counted' = Counted
        BY <1>2, <1>5, <2>1, SameCounted DEF Counted
    <2>7. CountInv'
        BY <2>2, <2>6, AccountCounts DEF AInv, ViewInv
    <2> QED BY <1>5, <2>5, <2>7 DEF ViewInv
<1>8. CASE ~moves
    <2>1. UNCHANGED <<active_vcpus, p2midx, eptp>>
        BY <1>8 DEF Respond, acct
    <2>2. VcpuInv'
        BY <1>2, <1>4, <1>5, <2>1 DEF VcpuInv, AInv, ViewInv, Apart
    <2>3. CountInv'
        BY <1>2, <1>5, <2>1, SameCounted, SameCount DEF AInv, ViewInv
    <2> QED BY <1>5, <2>2, <2>3 DEF ViewInv
<1> QED BY <1>7, <1>8

-----------------------------------------------------------------------------
(* The invariant and what follows from it *)

LEMMA InitInv == Altp2mInit => AInv
<1> SUFFICES ASSUME Altp2mInit PROVE AInv
    OBVIOUS
<1>1. Altp2mTypeOK
    BY InitTypes
<1>2. \A c \in Callers : op[c].step = "idle"
    BY NoOpType DEF Altp2mInit
<1>3. Initialised = {}
    BY <1>2 DEF Initialised, Altp2mInit
<1>4. StateAlone /\ ListFree /\ OpInv /\ ListInv
    BY <1>2 DEF StateAlone, ListFree, StateSteps, AnswerSteps, OpInv, ListInv, Altp2mInit
<1>5. VcpuInv
    BY <1>3 DEF VcpuInv, Altp2mInit
<1>6. CountInv
    <2>1. \A i \in Views : Users(Counted, p2midx, i) = {}
        BY <1>3 DEF Users, Counted
    <2>2. Cardinality({}) = 0
        BY FS_EmptySet
    <2> QED BY <2>1, <2>2 DEF CountInv, Altp2mInit
<1> QED BY <1>1, <1>4, <1>5, <1>6 DEF AInv, ViewInv

\* As long as nothing overlaps with a set_domain_state and no vCPU but one that
\* waits for it is moved by an answer.
LEMMA NextInv ==
    ASSUME AInv, StateAlone', ListFree', [Altp2mNext]_avars
    PROVE  AInv'
<1>1. Altp2mTypeOK'
    BY NextTypes DEF AInv
<1>2. CASE UNCHANGED avars
    <2>1. UNCHANGED <<altp2m_active, altp2m_eptp, active_vcpus, p2midx, eptp, vmfunc, where,
                      found, op>>
        BY <1>2 DEF avars, acct, vmcs, cpus
    <2>2. OpInv' /\ ListInv' /\ Initialised' = Initialised
        BY <2>1, OpsKept DEF AInv
    <2>3. VcpuInv'
        BY <2>1, <2>2 DEF VcpuInv, AInv, ViewInv
    <2>4. CountInv'
        BY <2>1, <2>2, SameCounted, SameCount DEF AInv, ViewInv
    <2> QED BY <1>1, <2>2, <2>3, <2>4 DEF AInv, ViewInv
<1>3. ASSUME NEW v \in VCPUs, GuestStep(v) PROVE ViewInv'
    BY <1>3, GuestKeeps
<1>4. ASSUME NEW c \in Callers, BeginStep(c) PROVE ViewInv'
    BY <1>1, <1>4, BeginKeeps
<1>5. ASSUME NEW c \in Callers, OpStep(c) PROVE ViewInv'
    <2>1. ~AnswerMove(c) /\ ~AnswerEptp(c)
        BY DEF AnswerMove, AnswerEptp, AInv, ListFree, AnswerSteps
    <2> QED BY <1>1, <1>5, <2>1, PauseKeeps, SetStateKeeps, InitZeroKeeps, InitialiseKeeps,
               DestroyKeeps, FlushKeeps, CreateKeeps, DestroyViewKeeps, SwitchKeeps DEF OpStep
<1>6. ASSUME RespondStep PROVE ViewInv'
    <2>1. PICK t \in Tools, v \in VCPUs, i \in Views \cup {Invalid} :
             Respond(t, v, i) \/ Answer(t, v, i)
        BY <1>6 DEF RespondStep
    <2>2. ~Answer(t, v, i)
        <3> SUFFICES ASSUME Answer(t, v, i) PROVE FALSE
            OBVIOUS
        <3>1. t \in Callers
            BY DEF Callers
        <3>2. op'[t].step = "answer_move"
            BY <3>1 DEF Answer, NoOp, AInv, Altp2mTypeOK
        <3> QED BY <3>1, <3>2 DEF ListFree, AnswerSteps
    <2> QED BY <2>1, <2>2, RespondKeeps
<1> QED BY <1>1, <1>2, <1>3, <1>4, <1>5, <1>6 DEF Altp2mNext, AInv

\* A step of an operation makes nothing overlap with a set_domain_state, for an
\* operation on a view never turns into one, and makes nothing an answer.
LEMMA OpStepOrder ==
    ASSUME Altp2mTypeOK, StateAlone, ListFree, NEW c \in Callers, OpStep(c)
    PROVE  StateAlone' /\ ListFree'
<1>0. ~AnswerMove(c) /\ ~AnswerEptp(c)
    BY DEF AnswerMove, AnswerEptp, ListFree, AnswerSteps
<1>1. \A d \in Callers \ {c} : op'[d] = op[d]
    BY <1>0 DEF OpStep, Pause, SetState, InitZero, Initialise, Destroy, Flush, Create, DestroyView,
           SwitchDomain, NextVcpu, Done, Altp2mTypeOK
<1>2. CASE Pause(c)
    <2>1. op'[c].step = op[c].step
        BY <1>2 DEF Pause, Altp2mTypeOK, Ops
    <2> QED BY <1>1, <2>1 DEF StateAlone, ListFree
<1>3. CASE Flush(c) \/ Create(c) \/ DestroyView(c) \/ SwitchDomain(c)
    <2>1. Done(c)
        BY <1>3 DEF Flush, Create, DestroyView, SwitchDomain
    <2>2. op'[c].step = "idle"
        BY <2>1, DoneOp DEF OpMoves
    <2> QED BY <1>1, <2>2 DEF StateAlone, ListFree, StateSteps, AnswerSteps
<1>4. CASE SetState(c) \/ InitZero(c) \/ Initialise(c) \/ Destroy(c)
    <2>1. op[c].step \in StateSteps
        BY <1>4 DEF SetState, InitZero, Initialise, Destroy, StateSteps
    <2>2. op'[c].step \in StateSteps \cup {"idle"}
        <3>1. CASE SetState(c) \/ InitZero(c)
            <4>1. PICK s \in {"destroy", "init_zero", "initialise"} :
                     op'[c] = NoOp \/ op'[c] = [op[c] EXCEPT !.step = s]
                BY <3>1 DEF SetState, InitZero, Altp2mTypeOK
            <4>2. [op[c] EXCEPT !.step = s].step = s
                BY DEF Altp2mTypeOK, Ops
            <4> QED BY <4>1, <4>2, NoOpType DEF StateSteps
        <3>2. CASE Initialise(c)
            <4>1. NextVcpu(c, "idle") /\ op[c].step = "initialise"
                BY <3>2 DEF Initialise
            <4> QED BY <4>1, NextVcpuOp DEF OpMoves, StateSteps
        <3>3. CASE Destroy(c)
            <4>1. NextVcpu(c, "flush") /\ op[c].step = "destroy"
                BY <3>3 DEF Destroy
            <4> QED BY <4>1, NextVcpuOp DEF OpMoves, StateSteps
        <3> QED BY <1>4, <3>1, <3>2, <3>3
    <2> QED BY <1>1, <2>1, <2>2 DEF StateAlone, ListFree, StateSteps, AnswerSteps
<1> QED BY <1>0, <1>2, <1>3, <1>4 DEF OpStep

\* disorder counts every step after which something overlaps with a
\* set_domain_state or the list's lock is held for an answer.
LEMMA OrderKept ==
    ASSUME Altp2mTypeOK, Orderly => StateAlone /\ ListFree, [Altp2mNext]_avars, Orderly'
    PROVE  Orderly /\ StateAlone' /\ ListFree'
<1>1. ASSUME op' = op, Orderly PROVE StateAlone' /\ ListFree'
    BY <1>1 DEF StateAlone, ListFree
<1>2. CASE UNCHANGED avars
    BY <1>1, <1>2 DEF avars, Orderly
<1>3. ASSUME NEW v \in VCPUs, GuestStep(v) PROVE Orderly /\ StateAlone' /\ ListFree'
    <2>1. op' = op /\ disorder' = disorder
        BY <1>3 DEF GuestStep, Enter, Vmfunc, Exit, Sync, Find, SyncDec, SyncMove, Handled, SendEvent,
                    EnableNotify, NotifyDone, cpus
    <2> QED BY <1>1, <2>1 DEF Orderly
<1>4. ASSUME NEW c \in Callers, BeginStep(c) PROVE Orderly /\ StateAlone' /\ ListFree'
    <2>1. PICK step \in {"set_state", "create_p2m", "destroy_p2m", "switch_p2m"},
               view \in Views \cup {Invalid}, state \in BOOLEAN : Begin(c, step, view, state)
        BY <1>4, ViewFacts DEF BeginStep, BeginSetState, BeginViewOp
    <2>2. OpMoves(c, step, 0)
        BY <2>1, BeginOp
    <2>3. /\ disorder' = disorder
          /\ ~(step \in StateSteps /\ Busy # {}) /\ \A d \in Busy : op[d].step \notin StateSteps
        BY <2>1, Altp2mAssumption DEF Begin, Disturb, Orderly, Altp2mTypeOK
    <2>4. Orderly
        BY <2>3 DEF Orderly
    <2>5. \A d \in Callers \ {c} : op'[d] = op[d] /\ op[d].step \notin StateSteps
        BY <2>2, <2>3 DEF OpMoves, Busy, StateSteps
    <2>6. step \in StateSteps => \A d \in Callers : op[d].step = "idle"
        BY <2>3 DEF Busy
    <2>7. StateAlone'
        BY <2>2, <2>5, <2>6 DEF StateAlone, OpMoves
    <2>8. ListFree'
        BY <2>2, <2>4, <2>5 DEF ListFree, AnswerSteps, OpMoves
    <2> QED BY <2>4, <2>7, <2>8
<1>5. ASSUME NEW c \in Callers, OpStep(c) PROVE Orderly /\ StateAlone' /\ ListFree'
    <2>1. disorder' = disorder
        BY <1>5 DEF OpStep, Pause, SetState, InitZero, Initialise, Destroy, Flush, Create, DestroyView,
                    SwitchDomain, AnswerMove, AnswerEptp
    <2>2. Orderly
        BY <2>1 DEF Orderly
    <2> QED BY <1>5, <2>2, OpStepOrder
<1>6. ASSUME RespondStep PROVE Orderly /\ StateAlone' /\ ListFree'
    <2>1. PICK t \in Tools, v \in VCPUs, i \in Views \cup {Invalid} :
             Respond(t, v, i) \/ Answer(t, v, i)
        BY <1>6 DEF RespondStep
    <2>2. ~Answer(t, v, i)
        BY Altp2mAssumption DEF Answer, Disturb, Orderly, Altp2mTypeOK
    <2>3. op' = op /\ disorder' = disorder
        BY <2>1, <2>2 DEF Respond
    <2> QED BY <1>1, <2>3 DEF Orderly
<1> QED BY <1>2, <1>3, <1>4, <1>5, <1>6 DEF Altp2mNext

\* The inductive invariant, for any number of vCPUs, views, threads in dom0 and
\* operations under way: what the code relies on holds until an operation overlaps
\* with a set_domain_state or an answer moves a vCPU that does not wait for it.
THEOREM OrderInvariant == Altp2mSpec => []OrderInv
<1>1. Altp2mInit => OrderInv
    BY InitInv, InitTypes DEF OrderInv
<1>2. OrderInv /\ [Altp2mNext]_avars => OrderInv'
    <2> SUFFICES ASSUME OrderInv, [Altp2mNext]_avars PROVE OrderInv'
        OBVIOUS
    <2>1. Altp2mTypeOK'
        BY NextTypes DEF OrderInv
    <2>2. ASSUME Orderly' PROVE AInv'
        <3>1. Orderly /\ StateAlone' /\ ListFree'
            BY <2>2, OrderKept DEF OrderInv, AInv
        <3> QED BY <3>1, NextInv DEF OrderInv
    <2> QED BY <2>1, <2>2 DEF OrderInv
<1> QED BY <1>1, <1>2, PTL DEF Altp2mSpec

\* As long as the callers have been orderly, active_vcpus is the number of vCPUs
\* that use the view: altp2m_vcpu_initialise and altp2m_vcpu_destroy, the switches
\* from dom0, the answers to vm_events and the two unlocked halves of a VM exit
\* that catches up with a VMFUNC count each vCPU once, in whatever order they and
\* the operations on views come.
THEOREM CountIsRight == Altp2mSpec => []ActiveCount
<1>1. OrderInv => ActiveCount
    BY DEF OrderInv, AInv, ViewInv, CountInv, Users, ActiveCount
<1> QED BY <1>1, OrderInvariant, PTL

\* As long as the callers have been orderly, no vCPU's EPT_POINTER names a view
\* that p2m_destroy_altp2m_by_id or p2m_flush_altp2m has taken off the list,
\* although views are created, destroyed and switched to at the same time and the
\* count misses a vCPU in mid-exit.
THEOREM ViewsNotStale == Altp2mSpec => []NoStaleView
<1>1. OrderInv => NoStaleView
    BY DEF OrderInv, AInv, ViewInv, VcpuInv, NoStaleView
<1> QED BY <1>1, OrderInvariant, PTL

\* As long as the callers have been orderly, the view that p2m_get_altp2m gives a
\* handler is the one its vCPU runs on.
THEOREM HandlersSeeView == Altp2mSpec => []HandlerSeesView
<1>1. OrderInv => HandlerSeesView
    BY InitialisedSubset DEF OrderInv, AInv, ViewInv, VcpuInv, HandlerSeesView, Apart
<1> QED BY <1>1, OrderInvariant, PTL

\* As long as the callers have been orderly, a deactivation that has returned
\* leaves every vCPU on the host p2m without VMFUNC, and the EPTP list empty.
THEOREM InactiveIsHost == Altp2mSpec => []InactiveMeansHost
<1>1. OrderInv => InactiveMeansHost
    <2> SUFFICES ASSUME AInv, ~altp2m_active, Busy = {}
                 PROVE  /\ altp2m_eptp = {}
                        /\ \A v \in VCPUs : eptp[v] = Host
                        /\ vmfunc = {}
        BY DEF InactiveMeansHost, OrderInv
    <2>1. \A c \in Callers : op[c].step = "idle"
        BY DEF Busy
    <2>2. Initialised = {}
        BY <2>1 DEF Initialised
    <2>3. altp2m_eptp = {}
        BY <2>1 DEF AInv, ViewInv, ListInv
    <2>4. \A v \in VCPUs : eptp[v] = Host /\ v \notin vmfunc
        BY <2>2 DEF AInv, ViewInv, VcpuInv
    <2> QED BY <2>3, <2>4 DEF AInv, Altp2mTypeOK
<1> QED BY <1>1, OrderInvariant, PTL
=============================================================================
