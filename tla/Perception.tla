----------------------------- MODULE Perception -----------------------------
(***************************************************************************)
(* VMFUNC perception: a guest switches views with VMFUNC and then executes *)
(* RDTSC, which do_intercept_rdtsc makes exit; hvm_rdtsc_intercept compares*)
(* the view with the one last reported and traces a VMFUNC record when they*)
(* differ.  Both indices are plain globals, shared by every vCPU of every  *)
(* HVM domain and written without a lock.                                  *)
(*                                                                         *)
(* Module Altp2m shows that, with orderly callers, p2midx is the vCPU's    *)
(* real view once its exit has been synchronised (HandlerSeesView); here   *)
(* the exit does both at once.  Activation and enable_notify are one step  *)
(* too: the exit between them, which crashes the domain with p2midx still  *)
(* INVALID_ALTP2M, is module Altp2m's EptpFound.                           *)
(***************************************************************************)
EXTENDS Integers

CONSTANTS
    Vcpus,    \* vCPUs of all HVM domains
    Domains,  \* HVM domains
    Dom,      \* the domain of a vCPU
    Plain,    \* the vCPUs of domains that never activate altp2m
    NrViews   \* views of a domain with altp2m

ASSUME PerceptionAssumption ==
    /\ Dom \in [Vcpus -> Domains]
    /\ Plain \subseteq Vcpus
    /\ NrViews \in Nat \ {0}

Views == 0 .. NrViews - 1

VARIABLES
    eptp_idx, eptp_idx_last,  \* the globals
    view,       \* per vCPU: the view it runs on, p2midx after an exit
    active,     \* the vCPUs with altp2m active and VMFUNC enabled
    exiting,    \* the vCPUs with CPU_BASED_RDTSC_EXITING
    todo,       \* the vCPUs a hypercall still has to set or clear it on,
    enable,     \* and which of the two
    tb_init_done,
    pc,         \* per vCPU: where hvm_rdtsc_intercept is
    seen,       \* per vCPU: the value of eptp_idx it last loaded or stored
    reported,   \* history: the VMFUNC records written, as domain and view
    visited     \* history, per vCPU: the views it has been on

sweep == <<todo, enable>>
pvars == <<eptp_idx, eptp_idx_last, view, active, exiting, sweep, tb_init_done, pc, seen,
           reported, visited>>

PerceptionTypeOK ==
    /\ eptp_idx \in Views /\ eptp_idx_last \in Views
    /\ view \in [Vcpus -> Views]
    /\ active \in SUBSET Vcpus /\ exiting \in SUBSET Vcpus
    /\ todo \in SUBSET Vcpus /\ enable \in BOOLEAN
    /\ tb_init_done \in BOOLEAN
    /\ pc \in [Vcpus -> {"guest", "read", "compare", "trace", "update"}]
    /\ seen \in [Vcpus -> Views]
    /\ reported \in SUBSET (Domains \X Views)
    /\ visited \in [Vcpus -> SUBSET Views]

PerceptionInit ==
    /\ eptp_idx = 0 /\ eptp_idx_last = 0
    /\ view = [v \in Vcpus |-> 0]
    /\ active = {} /\ exiting = {}
    /\ todo = {} /\ enable = FALSE
    /\ tb_init_done = FALSE
    /\ pc = [v \in Vcpus |-> "guest"]
    /\ seen = [v \in Vcpus |-> 0]
    /\ reported = {}
    /\ visited = [v \in Vcpus |-> {0}]

-----------------------------------------------------------------------------
(* The guests and what dom0 sets up *)

\* altp2m is activated for the vCPU's domain and VMFUNC enabled on the vCPU, or
\* both are taken back; either way it is on view 0 or on the host p2m.
Activate(v) ==
    /\ v \notin Plain
    /\ pc[v] = "guest"
    /\ active' = IF v \in active THEN active \ {v} ELSE active \cup {v}
    /\ view' = [view EXCEPT ![v] = 0]
    /\ UNCHANGED <<sweep, eptp_idx, eptp_idx_last, exiting, tb_init_done, pc, seen,
                   reported, visited>>

Vmfunc(v, i) ==
    /\ pc[v] = "guest"
    /\ v \in active
    /\ view' = [view EXCEPT ![v] = i]
    /\ visited' = [visited EXCEPT ![v] = @ \cup {i}]
    /\ UNCHANGED <<sweep, eptp_idx, eptp_idx_last, active, exiting, tb_init_done, pc, seen,
                   reported>>

\* do_intercept_rdtsc.  `~(d->arch.vtsc)' is never zero: every HVM domain.
InterceptRdtsc ==
    /\ todo = {}
    /\ todo' = Vcpus
    /\ enable' = TRUE
    /\ UNCHANGED <<eptp_idx, eptp_idx_last, view, active, exiting, tb_init_done, pc, seen,
                   reported, visited>>

\* do_disable_intercept_rdtsc
DisableIntercept ==
    /\ todo = {}
    /\ eptp_idx' = 0
    /\ todo' = Vcpus
    /\ enable' = FALSE
    /\ UNCHANGED <<eptp_idx_last, view, active, exiting, tb_init_done, pc, seen, reported,
                   visited>>

\* hvm_set_rdtsc_exiting for one vCPU, paused for it by vmx_vmcs_enter.
SetExiting(v) ==
    /\ v \in todo
    /\ pc[v] = "guest"
    /\ exiting' = IF enable THEN exiting \cup {v} ELSE exiting \ {v}
    /\ todo' = todo \ {v}
    /\ UNCHANGED <<eptp_idx, eptp_idx_last, view, active, tb_init_done, pc, seen,
                   reported, visited, enable>>

\* xentrace starts or ends (module Xentrace).
SwitchTracing ==
    /\ tb_init_done' = ~tb_init_done
    /\ UNCHANGED <<sweep, eptp_idx, eptp_idx_last, view, active, exiting, pc, seen,
                   reported, visited>>

-----------------------------------------------------------------------------
(* hvm_rdtsc_intercept *)

Rdtsc(v) ==
    /\ pc[v] = "guest"
    /\ v \in exiting
    /\ pc' = [pc EXCEPT ![v] = "read"]
    /\ UNCHANGED <<sweep, eptp_idx, eptp_idx_last, view, active, exiting, tb_init_done, seen,
                   reported, visited>>

\* Mutant: the index is counted from one.
Fetch_OffByOne(v) == IF v \in active THEN (view[v] + 1) % NrViews ELSE eptp_idx

\* Mutant: p2midx is fetched without the test, INVALID_ALTP2M or not.
Fetch_NoTest(v) == IF v \in active THEN view[v] ELSE NrViews

\* eptp_idx = vcpu_altp2m(curr).p2midx, for a vCPU that can VMFUNC.
Fetch(v) == IF v \in active THEN view[v] ELSE eptp_idx

ReadIndex(v) ==
    /\ pc[v] = "read"
    /\ eptp_idx' = Fetch(v)
    /\ seen' = [seen EXCEPT ![v] = Fetch(v)]
    /\ pc' = [pc EXCEPT ![v] = "compare"]
    /\ UNCHANGED <<sweep, eptp_idx_last, view, active, exiting, tb_init_done,
                   reported, visited>>

\* A load of eptp_idx: from memory, or the value still in a register.
Load(v) == {eptp_idx, seen[v]}

Changed(x) == x # eptp_idx_last

Compare(v) ==
    /\ pc[v] = "compare"
    /\ \E x \in Load(v) :
        /\ seen' = [seen EXCEPT ![v] = x]
        /\ pc' = [pc EXCEPT ![v] = IF Changed(x) THEN "trace" ELSE "guest"]
    /\ UNCHANGED <<sweep, eptp_idx, eptp_idx_last, view, active, exiting, tb_init_done,
                   reported, visited>>

\* HVMTRACE_2D(VMFUNC, domain_id, eptp_idx).  With tracing on, __trace_var may
\* still mask the record or drop it for want of room; nobody is told.
Trace(v) ==
    /\ pc[v] = "trace"
    /\ \E x \in Load(v), written \in {FALSE, tb_init_done} :
        /\ seen' = [seen EXCEPT ![v] = x]
        /\ reported' = IF written THEN reported \cup {<<Dom[v], x>>} ELSE reported
    /\ pc' = [pc EXCEPT ![v] = "update"]
    /\ UNCHANGED <<sweep, eptp_idx, eptp_idx_last, view, active, exiting, tb_init_done, visited>>

\* Mutant: eptp_idx_last is not brought up to date.
Update_Forgotten(v) ==
    /\ pc[v] = "update"
    /\ pc' = [pc EXCEPT ![v] = "guest"]
    /\ UNCHANGED <<sweep, eptp_idx, eptp_idx_last, view, active, exiting, tb_init_done, seen,
                   reported, visited>>

\* eptp_idx_last = eptp_idx
Update(v) ==
    /\ pc[v] = "update"
    /\ eptp_idx_last' \in Load(v)
    /\ pc' = [pc EXCEPT ![v] = "guest"]
    /\ UNCHANGED <<sweep, eptp_idx, view, active, exiting, tb_init_done, seen, reported, visited>>

-----------------------------------------------------------------------------

HandlerStep(v) == ReadIndex(v) \/ Compare(v) \/ Trace(v) \/ Update(v)

InterceptStep(v) == Rdtsc(v) \/ HandlerStep(v)

PerceptionNext ==
    \/ \E v \in Vcpus : Activate(v)
    \/ \E v \in Vcpus, i \in Views : Vmfunc(v, i)
    \/ InterceptRdtsc
    \/ DisableIntercept
    \/ \E v \in Vcpus : SetExiting(v)
    \/ SwitchTracing
    \/ \E v \in Vcpus : InterceptStep(v)

PerceptionSpec == PerceptionInit /\ [][PerceptionNext]_pvars

\* An intercept that has begun is run to its end.  Nobody has to execute RDTSC.
PerceptionFairness == \A v \in Vcpus : WF_pvars(HandlerStep(v))

PerceptionFairSpec == PerceptionSpec /\ PerceptionFairness

-----------------------------------------------------------------------------
(* Properties *)

\* A VMFUNC record names a view that a vCPU of some domain has been on, for the
\* globals, which every vCPU of every domain stores to and loads from without a
\* lock, hold nothing else: no p2midx is fetched from a vCPU without VMFUNC, and
\* no late store brings up an index nobody had.
OnlyVisited == \A r \in reported : \E v \in Vcpus : r[2] \in visited[v]

\* "DomID and eptp index calculation" (README): a VMFUNC record names a domain
\* and a view that a vCPU of this domain has been on.
TruthfulReport ==
    \A r \in reported : \E v \in Vcpus : Dom[v] = r[1] /\ r[2] \in visited[v]

\* Every vCPU that uses altp2m is on view i, and nobody disables the intercept.
Settled(i) == enable /\ \A v \in active : view[v] = i

\* Once all vCPUs that use altp2m stay on one view and go on executing RDTSC, the
\* globals come to rest there, whatever stores were still under way, and no vCPU
\* of any domain traces a switch any more.
PerceptionSettles ==
    \A i \in Views :
        <>[]Settled(i) /\ []<>(\E v \in active : pc[v] = "compare")
        => <>[](eptp_idx_last = i /\ \A v \in Vcpus : pc[v] # "trace")
=============================================================================
