----------------------------- MODULE ViewTables -----------------------------
(***************************************************************************)
(* What the alternate p2m views of a domain map: the copy of a host entry  *)
(* at the first fault, the operations that restrict or remap a page in one *)
(* view, and the propagation of changes of the host p2m to the views,      *)
(* which run on different CPUs under the locks of the host p2m (gfn_lock   *)
(* takes the lock of the whole p2m), of the list and of each view.         *)
(*                                                                         *)
(* One thread in dom0 issues the operations.  Pages are 4K, every page is  *)
(* p2m_ram_rw.  Which view a vCPU runs on is Altp2m's matter: here it      *)
(* moves between views freely while it is not in Xen.                      *)
(***************************************************************************)
EXTENDS Integers, FiniteSets

CONSTANTS
    NrGfns,     \* guest frames
    Mfns,       \* machine frames
    VCPUs,
    MaxAltp2m,  \* MAX_ALTP2M
    MaxOps,     \* bound: operations of dom0
    MaxChanges  \* bound: changes of the host p2m

ASSUME ViewTablesAssumption ==
    /\ NrGfns \in Nat \ {0}
    /\ MaxAltp2m \in Nat \ {0}
    /\ MaxOps \in Nat /\ MaxChanges \in Nat
    /\ "tool" \notin VCPUs /\ "host" \notin VCPUs

Gfns  == 0 .. NrGfns - 1
Views == 0 .. MaxAltp2m - 1

None        == "none"  \* INVALID_MFN, a lock that is free
INVALID_GFN == NrGfns
HostView    == MaxAltp2m  \* the vCPU runs on the host p2m

\* The guest's pages are in place; which page is where does not matter.
Booted == {h \in [Gfns -> Mfns] : \A g1, g2 \in Gfns : g1 # g2 => h[g1] # h[g2]}

ASSUME PagesAssumption == None \notin Mfns \cup VCPUs /\ Booted # {}

VARIABLES
    altp2m_active,
    altp2m_eptp,  \* the views whose entry in the EPTP list is valid
    p2midx,       \* per vCPU: the view it runs on
    host,         \* the host p2m: per gfn an mfn or None
    view,         \* per view and gfn: an entry, NoEntry if it is not present
    remapped,     \* per view: min_remapped_gfn and max_remapped_gfn
    host_lock,    \* who holds the lock of the host p2m
    view_lock,    \* per view: does the thread in dom0 hold its lock
    prop,         \* the change of the host p2m under way
    fault,        \* per vCPU: its p2m_altp2m_lazy_copy under way
    tool,         \* the operation under way
    ops, changes, \* how many operations and changes there have been
    crashed       \* domain_crash was called

tables == <<altp2m_eptp, view, remapped>>
tvars  == <<altp2m_active, p2midx, tables, host, host_lock, view_lock, prop, fault, tool,
            ops, changes, crashed>>

-----------------------------------------------------------------------------

\* An entry of a view: the page and its access ("host" for the one the host p2m
\* has).  Kept for the properties: the gfn at which the host p2m had the page,
\* whether dom0 remapped it, and whether a flush has left it behind.
CopyOf(g, mfn) ==
    [mfn |-> mfn, a |-> "host", src |-> g, remap |-> FALSE, left |-> FALSE]

NoEntry == CopyOf(0, None)

Entries ==
    {e \in [mfn : Mfns \cup {None}, a : {"host", "r"}, src : Gfns,
             remap : BOOLEAN, left : BOOLEAN] : e.mfn = None => e = NoEntry}

NoRange == [min |-> INVALID_GFN, max |-> 0]
NoProp  == [step |-> "idle", gfn |-> 0, i |-> 0, last |-> HostView]
NoFault == [busy |-> FALSE, gfn |-> 0]
NoTool  == [step |-> "idle", view |-> 0, gfn |-> 0, new |-> 0, entry |-> NoEntry]

TablesTypeOK ==
    /\ altp2m_active \in BOOLEAN
    /\ altp2m_eptp \in SUBSET Views
    /\ p2midx \in [VCPUs -> Views \cup {HostView}]
    /\ host \in [Gfns -> Mfns \cup {None}]
    /\ view \in [Views -> [Gfns -> Entries]]
    /\ remapped \in [Views -> [min : 0 .. INVALID_GFN, max : Gfns]]
    /\ host_lock \in VCPUs \cup {"host", None}
    /\ view_lock \in [Views -> BOOLEAN]
    /\ prop \in [step : {"idle", "start", "loop", "all"}, gfn : Gfns,
                 i : 0 .. MaxAltp2m, last : Views \cup {HostView}]
    /\ fault \in [VCPUs -> [busy : BOOLEAN, gfn : Gfns]]
    /\ tool \in [step : {"idle", "write", "destroy"},
                 view : Views, gfn : Gfns, new : 0 .. INVALID_GFN,
                 entry : Entries]
    /\ ops \in 0 .. MaxOps /\ changes \in 0 .. MaxChanges
    /\ crashed \in BOOLEAN

TablesInit ==
    /\ altp2m_active = FALSE
    /\ altp2m_eptp = {}
    /\ p2midx = [v \in VCPUs |-> HostView]
    /\ host = CHOOSE h \in Booted : TRUE
    /\ view = [i \in Views |-> [g \in Gfns |-> NoEntry]]
    /\ remapped = [i \in Views |-> NoRange]
    /\ host_lock = None
    /\ view_lock = [i \in Views |-> FALSE]
    /\ prop = NoProp
    /\ fault = [v \in VCPUs |-> NoFault]
    /\ tool = NoTool
    /\ ops = 0 /\ changes = 0
    /\ crashed = FALSE

\* dom0 issues its next operation.
Issue ==
    /\ tool.step = "idle"
    /\ ops < MaxOps /\ ops' = ops + 1

\* altp2m_list_lock is held across the walk of p2m_altp2m_propagate_change.
ListFree == prop.step \in {"idle", "start"}

\* p2m_flush_table returns at once for a p2m whose np2m_base is P2M_BASE_EADDR,
\* as p2m_initialise sets it, and only nested p2ms ever get another: the table
\* of a view keeps its entries.
FlushTable(tab) ==
    [g \in Gfns |-> IF tab[g] = NoEntry THEN NoEntry ELSE [tab[g] EXCEPT !.left = TRUE]]

-----------------------------------------------------------------------------
(* Changes of the host p2m *)

\* ept_set_entry for the host p2m, with its lock held: a page is added, dropped,
\* put in the place of another or given another access.  The propagation follows
\* under the lock, whether or not anything has changed.
HostSet(g, mfn) ==
    /\ changes < MaxChanges /\ changes' = changes + 1
    /\ host_lock = None
    /\ mfn # None => \A h \in Gfns \ {g} : host[h] # mfn
    /\ host' = [host EXCEPT ![g] = mfn]
    /\ host_lock' = "host"
    /\ prop' = [NoProp EXCEPT !.step = "start", !.gfn = g]
    /\ UNCHANGED <<altp2m_active, p2midx, tables, view_lock, fault, tool, ops, crashed>>

PropEnd == prop' = NoProp /\ host_lock' = None

\* The head of p2m_altp2m_propagate_change.
PropStart ==
    /\ prop.step = "start"
    /\ IF altp2m_active
       THEN prop' = [prop EXCEPT !.step = "loop"] /\ UNCHANGED host_lock
       ELSE PropEnd
    /\ UNCHANGED <<altp2m_active, p2midx, tables, host, view_lock, fault, tool, ops,
                   changes, crashed>>

\* "Check for a dropped page that may impact this altp2m"
Impacted(i) ==
    /\ host[prop.gfn] = None
    /\ remapped[i].min <= prop.gfn /\ prop.gfn <= remapped[i].max

\* p2m_reset_altp2m
ResetView(i) ==
    /\ view' = [view EXCEPT ![i] = FlushTable(@)]
    /\ remapped' = [remapped EXCEPT ![i] = NoRange]

\* What view i maps at the changed gfn if it maps anything there.
Propagated ==
    IF host[prop.gfn] = None THEN NoEntry ELSE CopyOf(prop.gfn, host[prop.gfn])

WalkOn == prop' = [prop EXCEPT !.i = @ + 1]

\* The body of the loop of p2m_altp2m_propagate_change: the first view impacted
\* by a dropped page is reset, a second one has all of them reset, and one that
\* is not impacted takes the change over where it has an entry.
PropBody(i) ==
    \/ /\ Impacted(i) /\ prop.last = HostView
       /\ prop' = [prop EXCEPT !.i = @ + 1, !.last = i]
       /\ ResetView(i)
    \/ /\ Impacted(i) /\ prop.last # HostView
       /\ prop' = [prop EXCEPT !.i = 0, !.step = "all"]
       /\ UNCHANGED <<view, remapped>>
    \/ /\ ~Impacted(i)
       /\ WalkOn
       /\ view' = IF view[i][prop.gfn] = NoEntry THEN view
                  ELSE [view EXCEPT ![i][prop.gfn] = Propagated]
       /\ UNCHANGED remapped

\* Mutant: changes a view that dom0 has locked.
PropView_NoLock ==
    LET i == prop.i
    IN  /\ prop.step = "loop" /\ i < MaxAltp2m
        /\ IF i \in altp2m_eptp THEN PropBody(i) ELSE WalkOn /\ UNCHANGED <<view, remapped>>
        /\ UNCHANGED <<altp2m_active, altp2m_eptp, p2midx, host, host_lock, view_lock,
                       fault,
                       tool, ops, changes, crashed>>

\* One round of the loop: get_gfn_type_access takes the lock of the view.
PropView ==
    LET i == prop.i
    IN  /\ prop.step = "loop" /\ i < MaxAltp2m
        /\ IF i \in altp2m_eptp THEN ~view_lock[i] /\ PropBody(i)
           ELSE WalkOn /\ UNCHANGED <<view, remapped>>
        /\ UNCHANGED <<altp2m_active, altp2m_eptp, p2midx, host, host_lock, view_lock,
                       fault,
                       tool, ops, changes, crashed>>

\* The end of both loops: altp2m_list_unlock, and the lock of the host p2m.
PropDone ==
    /\ prop.step \in {"loop", "all"} /\ prop.i = MaxAltp2m
    /\ PropEnd
    /\ UNCHANGED <<altp2m_active, p2midx, tables, host, view_lock, fault, tool, ops,
                   changes, crashed>>

\* "At least 2 altp2m's impacted, so reset everything"
PropAll ==
    LET i == prop.i
    IN  /\ prop.step = "all" /\ i < MaxAltp2m
        /\ WalkOn
        /\ IF i = prop.last \/ i \notin altp2m_eptp
           THEN UNCHANGED <<view, remapped>>
           ELSE ~view_lock[i] /\ ResetView(i)
        /\ UNCHANGED <<altp2m_active, altp2m_eptp, p2midx, host, host_lock, view_lock,
                       fault,
                       tool, ops, changes, crashed>>

-----------------------------------------------------------------------------
(* The guest *)

\* VMFUNC, or a switch by dom0.
Switch(v, i) ==
    /\ ~crashed
    /\ p2midx[v] # HostView /\ ~fault[v].busy
    /\ i \in altp2m_eptp \ {p2midx[v]}
    /\ p2midx' = [p2midx EXCEPT ![v] = i]
    /\ UNCHANGED <<altp2m_active, tables, host, host_lock, view_lock, prop, fault,
                   tool, ops, changes, crashed>>

\* hvm_hap_nested_page_fault takes the host p2m's lock and calls
\* p2m_altp2m_lazy_copy, which looks at the view, lets go of it, and finds a
\* page in the host p2m.  If either look ends otherwise nothing is changed here.
Fault(v, g) ==
    /\ ~crashed
    /\ altp2m_active /\ p2midx[v] # HostView
    /\ ~fault[v].busy
    /\ host_lock = None /\ ~view_lock[p2midx[v]]
    /\ view[p2midx[v]][g] = NoEntry
    /\ host[g] # None
    /\ host_lock' = v
    /\ fault' = [fault EXCEPT ![v] = [busy |-> TRUE, gfn |-> g]]
    /\ UNCHANGED <<altp2m_active, p2midx, tables, host, view_lock, prop, tool, ops,
                   changes, crashed>>

\* The rest of p2m_altp2m_lazy_copy, unless set_entry fails, ...
LazyCopy(v) ==
    LET i == p2midx[v]
        g == fault[v].gfn
    IN  /\ fault[v].busy
        /\ ~view_lock[i]
        /\ view' = [view EXCEPT ![i][g] = CopyOf(g, host[g])]
        /\ host_lock' = None
        /\ fault' = [fault EXCEPT ![v] = NoFault]
        /\ UNCHANGED <<altp2m_active, altp2m_eptp, p2midx, remapped, host, view_lock,
                       prop, tool, ops, changes, crashed>>

\* ... on which it crashes the domain.
LazyCopyFails(v) ==
    /\ fault[v].busy
    /\ ~view_lock[p2midx[v]]
    /\ crashed' = TRUE
    /\ host_lock' = None
    /\ fault' = [fault EXCEPT ![v] = NoFault]
    /\ UNCHANGED <<altp2m_active, p2midx, tables, host, view_lock, prop, tool, ops, changes>>

-----------------------------------------------------------------------------
(* The operations on the pages of one view *)

\* get_entry of the view and, if there is none, of the host p2m, whose lock is
\* not taken.
Lookup(i, g) ==
    IF view[i][g] # NoEntry THEN view[i][g]
    ELSE IF host[g] # None THEN CopyOf(g, host[g])
    ELSE NoEntry

\* The test of altp2m_active by do_altp2m_op and that of altp2m_eptp, for which
\* no lock is taken; then the lock is, and the entry to write is put together.
BeginPageOp(i, g, new, entry) ==
    /\ Issue
    /\ altp2m_active /\ i \in altp2m_eptp
    /\ tool' = [step |-> "write", view |-> i, gfn |-> g, new |-> new, entry |-> entry]
    /\ view_lock' = [view_lock EXCEPT ![i] = TRUE]
    /\ UNCHANGED <<altp2m_active, p2midx, tables, host, host_lock, prop, fault, changes, crashed>>

\* Mutant: writes an entry when neither p2m has one.
SetAccess_NoTest(i, g, a) == BeginPageOp(i, g, INVALID_GFN, [Lookup(i, g) EXCEPT !.a = a])

\* p2m_set_altp2m_mem_access up to set_entry; without an entry it ends with
\* nothing changed.
SetAccess(i, g, a) ==
    /\ Lookup(i, g) # NoEntry
    /\ BeginPageOp(i, g, INVALID_GFN, [Lookup(i, g) EXCEPT !.a = a])

\* p2m_change_altp2m_gfn up to set_entry, or to p2m_remove_page.
ChangeGfn(i, g, new) ==
    IF new = INVALID_GFN
    THEN BeginPageOp(i, g, new, NoEntry)
    ELSE /\ Lookup(i, g) # NoEntry /\ Lookup(i, new) # NoEntry
         /\ BeginPageOp(i, g, new, [Lookup(i, new) EXCEPT !.remap = TRUE])

Widened(r, g) ==
    [min |-> IF g < r.min THEN g ELSE r.min, max |-> IF g > r.max THEN g ELSE r.max]

\* Mutant: an exit leaves the view locked.
PageWrite_NoUnlock ==
    /\ tool.step = "write"
    /\ view' = [view EXCEPT ![tool.view][tool.gfn] = tool.entry]
    /\ remapped' = IF tool.new = INVALID_GFN THEN remapped
                   ELSE [remapped EXCEPT ![tool.view] = Widened(@, tool.new)]
    /\ tool' = NoTool
    /\ UNCHANGED <<altp2m_active, altp2m_eptp, p2midx, host, host_lock, view_lock,
                   prop, fault,
                   ops, changes, crashed>>

\* The entry is written, the range of remapped gfns widened if the page comes
\* from another gfn, and the lock released.
PageWrite ==
    /\ tool.step = "write"
    /\ view' = [view EXCEPT ![tool.view][tool.gfn] = tool.entry]
    /\ remapped' = IF tool.new = INVALID_GFN THEN remapped
                   ELSE [remapped EXCEPT ![tool.view] = Widened(@, tool.new)]
    /\ view_lock' = [view_lock EXCEPT ![tool.view] = FALSE]
    /\ tool' = NoTool
    /\ UNCHANGED <<altp2m_active, altp2m_eptp, p2midx, host, host_lock, prop, fault,
                   ops, changes, crashed>>

\* set_entry fails: nothing is changed.
PageWriteFails ==
    /\ tool.step = "write"
    /\ view_lock' = [view_lock EXCEPT ![tool.view] = FALSE]
    /\ tool' = NoTool
    /\ UNCHANGED <<altp2m_active, p2midx, tables, host, host_lock, prop, fault, ops, changes,
                   crashed>>

-----------------------------------------------------------------------------
(* The operations on whole views *)

\* p2m_init_altp2m_helper: the table is taken as it is.
InitView(i) ==
    /\ altp2m_eptp' = altp2m_eptp \cup {i}
    /\ remapped' = [remapped EXCEPT ![i] = NoRange]
    /\ UNCHANGED view

\* HVMOP_altp2m_set_domain_state(1): altp2m_active, view 0, every vCPU to it.
Activate ==
    /\ Issue
    /\ ~altp2m_active
    /\ ListFree
    /\ altp2m_active' = TRUE
    /\ InitView(0)
    /\ p2midx' = [v \in VCPUs |-> 0]
    /\ UNCHANGED <<host, host_lock, view_lock, prop, fault, tool, changes, crashed>>

\* p2m_init_next_altp2m
Create(i) ==
    /\ Issue
    /\ altp2m_active
    /\ ListFree
    /\ i \in Views \ altp2m_eptp /\ \A j \in Views \ altp2m_eptp : i <= j
    /\ InitView(i)
    /\ UNCHANGED <<altp2m_active, p2midx, host, host_lock, view_lock, prop, fault,
                   tool, changes, crashed>>

\* p2m_destroy_altp2m_by_id, once the vCPUs have stopped.
Destroy(i) ==
    /\ Issue
    /\ altp2m_active
    /\ \A v \in VCPUs : ~fault[v].busy /\ p2midx[v] # i
    /\ ListFree
    /\ i \in altp2m_eptp \ {0}
    /\ altp2m_eptp' = altp2m_eptp \ {i}
    /\ view' = [view EXCEPT ![i] = FlushTable(@)]
    /\ UNCHANGED <<altp2m_active, p2midx, remapped, host, host_lock, view_lock, prop,
                   fault, tool, changes, crashed>>

\* HVMOP_altp2m_set_domain_state(0), until the vCPUs are moved one by one.
Deactivate ==
    /\ Issue
    /\ altp2m_active
    /\ altp2m_active' = FALSE
    /\ tool' = [tool EXCEPT !.step = "destroy"]
    /\ UNCHANGED <<p2midx, tables, host, host_lock, view_lock, prop, fault, changes, crashed>>

\* altp2m_vcpu_destroy
VcpuDestroy(v) ==
    /\ tool.step = "destroy"
    /\ ~fault[v].busy /\ p2midx[v] # HostView
    /\ p2midx' = [p2midx EXCEPT ![v] = HostView]
    /\ UNCHANGED <<altp2m_active, tables, host, host_lock, view_lock, prop, fault,
                   tool, ops, changes, crashed>>

\* p2m_flush_altp2m
FlushAll ==
    /\ tool.step = "destroy"
    /\ \A v \in VCPUs : p2midx[v] = HostView
    /\ ListFree
    /\ altp2m_eptp' = {}
    /\ view' = [i \in Views |-> FlushTable(view[i])]
    /\ tool' = NoTool
    /\ UNCHANGED <<altp2m_active, p2midx, remapped, host, host_lock, view_lock, prop,
                   fault, ops, changes, crashed>>

-----------------------------------------------------------------------------
(* Specification *)

PropStep == PropStart \/ PropView \/ PropAll \/ PropDone

BeginStep ==
    \/ \E i \in Views, g \in Gfns, a \in {"host", "r"} : SetAccess(i, g, a)
    \/ \E i \in Views, g \in Gfns, new \in Gfns \cup {INVALID_GFN} : ChangeGfn(i, g, new)
    \/ Activate
    \/ \E i \in Views : Create(i) \/ Destroy(i)
    \/ Deactivate

ToolStep ==
    \/ PageWrite \/ PageWriteFails
    \/ \E v \in VCPUs : VcpuDestroy(v)
    \/ FlushAll

TablesNext ==
    \/ \E g \in Gfns, mfn \in Mfns \cup {None} : HostSet(g, mfn)
    \/ PropStep
    \/ \E v \in VCPUs, i \in Views : Switch(v, i)
    \/ \E v \in VCPUs, g \in Gfns : Fault(v, g)
    \/ \E v \in VCPUs : LazyCopy(v) \/ LazyCopyFails(v)
    \/ BeginStep
    \/ ToolStep

TablesSpec == TablesInit /\ [][TablesNext]_tvars

\* Locks are handed on and what has begun is finished.
TablesFairness ==
    /\ WF_tvars(PropStep)
    /\ WF_tvars(ToolStep)
    /\ \A v \in VCPUs : WF_tvars(LazyCopy(v) \/ LazyCopyFails(v))

TablesFairSpec == TablesSpec /\ TablesFairness

-----------------------------------------------------------------------------
(* Properties *)

\* Between changes of the host p2m every entry that was written in this life of
\* a view stands for a page the domain has, and one that was not remapped for
\* the page the host p2m maps at that gfn: neither the copy of a host entry, nor
\* an operation that read the host p2m without its lock, can slip past
\* p2m_altp2m_propagate_change.
ViewsFollowHost ==
    altp2m_active /\ prop.step = "idle" =>
        \A i \in altp2m_eptp, g \in Gfns :
            LET e == view[i][g]
            IN  e # NoEntry /\ ~e.left =>
                    /\ host[e.src] # None
                    /\ (~e.remap => e.src = g /\ e.mfn = host[g])

\* The locks are taken in one order: an operation, a fault and a change of the
\* host p2m, of which each may wait for the others, all come to an end.  (dom0's
\* operations are bounded: the lock of a p2m is not handed on in the order of
\* arrival, so that dom0 could keep a view from the others by going on for ever.)
TablesEnd ==
    /\ prop.step # "idle" ~> prop.step = "idle"
    /\ tool.step # "idle" ~> tool.step = "idle"
    /\ \A v \in VCPUs : fault[v].busy ~> ~fault[v].busy

\* "Reset this p2m table to be empty" (p2m_flush_table): a view has no entry
\* that a flush should have removed, and so none for a page that the domain
\* has given up.
NothingLeftBehind ==
    altp2m_active /\ prop.step = "idle" =>
        \A i \in altp2m_eptp, g \in Gfns : view[i][g] # NoEntry => host[view[i][g].src] # None

\* What dom0 has restricted or remapped in a view.
Special(i, g) ==
    view[i][g] # NoEntry /\ (view[i][g].a # "host" \/ view[i][g].remap)

SamePage(e, f) ==
    e.mfn = f.mfn /\ e.a = f.a

\* "If the fault is for a present entry: indicate that outer handler should handle
\* fault" (p2m_altp2m_lazy_copy): a restriction or a remapping that dom0 has made
\* in a view is undone only by dom0, or by a change of that gfn in the host p2m or
\* of one in the range that the view has remapped, and not by a guest's fault.
SpecialsKept ==
    [][\A i \in altp2m_eptp, g \in Gfns :
          Special(i, g) /\ ~SamePage(view[i][g], view'[i][g]) =>
              \/ tool.step = "write" /\ tool.view = i /\ tool.gfn = g
              \/ prop.step = "loop" /\ (prop.gfn = g \/ Impacted(i))
              \/ prop.step = "all"]_tvars
=============================================================================
