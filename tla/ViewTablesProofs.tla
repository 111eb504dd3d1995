-------------------------- MODULE ViewTablesProofs --------------------------
(***************************************************************************)
(* Proofs about ViewTables, for every number of frames, pages, vCPUs and   *)
(* views and every number of operations and changes: what the views map    *)
(* follows the host p2m.                                                   *)
(***************************************************************************)
EXTENDS ViewTables, TLAPS

\* The propagation under way has yet to come to view i.
Pending(i) == prop.step # "idle" /\ i >= prop.i /\ i # prop.last

\* An entry that was written in this life of its view.
Live(e) == e # NoEntry /\ ~e.left

\* Where an entry at g comes from: its own gfn, or one in the range r that the
\* view has remapped, through which p2m_altp2m_propagate_change will find it.
Anchored(r, g, e) ==
    Live(e) => IF e.remap THEN r.min <= e.src /\ e.src <= r.max ELSE e.src = g

\* An entry at g of view i agrees with the host p2m, unless it stands for the
\* gfn that has just changed and the change has not got there.
Current(i, g, e) ==
    Live(e) /\ ~(Pending(i) /\ e.src = prop.gfn) =>
        host[e.src] # None /\ (~e.remap => e.mfn = host[g])

\* The remapped range once the operation under way has written its entry.
Reach ==
    IF tool.new = INVALID_GFN THEN remapped[tool.view]
    ELSE Widened(remapped[tool.view], tool.new)

\* Who holds which lock, and what a fault holds on to while it has the host's.
LockInv ==
    /\ prop.step # "idle" <=> host_lock = "host"
    /\ \A v \in VCPUs : fault[v].busy =>
          /\ host_lock = v
          /\ host[fault[v].gfn] # None
          /\ p2midx[v] # HostView
    /\ \A i \in Views : view_lock[i] <=> tool.step = "write" /\ tool.view = i

\* Which views may be in use, and that the others have nothing live in them.
ListInv ==
    /\ altp2m_active \/ tool.step = "destroy" \/ altp2m_eptp = {}
    /\ tool.step = "destroy" => ~altp2m_active
    /\ tool.step = "write" => altp2m_active /\ tool.view \in altp2m_eptp
    /\ \A v \in VCPUs : p2midx[v] \in altp2m_eptp \cup {HostView}
    /\ \A i \in Views \ altp2m_eptp, g \in Gfns : ~Live(view[i][g])

AnchorInv ==
    /\ \A i \in Views, g \in Gfns : Anchored(remapped[i], g, view[i][g])
    /\ tool.step = "write" => Anchored(Reach, tool.gfn, tool.entry)

CurrentInv ==
    altp2m_active =>
        /\ \A i \in Views, g \in Gfns : Current(i, g, view[i][g])
        /\ tool.step = "write" => Current(tool.view, tool.gfn, tool.entry)

TablesInv == TablesTypeOK /\ LockInv /\ ListInv /\ AnchorInv /\ CurrentInv

-----------------------------------------------------------------------------
(* Entries *)

\* A copy of a host entry is an entry, and a live one.
LEMMA CopyFacts ==
    ASSUME NEW g \in Gfns, NEW m \in Mfns
    PROVE  /\ CopyOf(g, m) \in Entries
           /\ CopyOf(g, m) # NoEntry /\ Live(CopyOf(g, m))
           /\ CopyOf(g, m).mfn = m /\ CopyOf(g, m).src = g
           /\ CopyOf(g, m).a = "host" /\ ~CopyOf(g, m).remap
BY PagesAssumption DEF CopyOf, NoEntry, Entries, Live

\* "Not present" is an entry, the only one without a page.
LEMMA NoEntryFacts ==
    /\ NoEntry \in Entries
    /\ ~Live(NoEntry)
    /\ \A e \in Entries : e # NoEntry => e.mfn \in Mfns
    /\ \A e \in Entries : e.src \in Gfns /\ e.remap \in BOOLEAN /\ e.left \in BOOLEAN
                          /\ e.a \in {"host", "r"} /\ e.mfn \in Mfns \cup {None}
BY PagesAssumption, ViewTablesAssumption DEF CopyOf, NoEntry, Entries, Live, Gfns

\* What changing a field of an entry does to the others.
LEMMA FieldFacts ==
    ASSUME NEW e \in Entries, e # NoEntry
    PROVE  /\ \A a \in {"host", "r"} :
                /\ [e EXCEPT !.a = a] \in Entries
                /\ Live([e EXCEPT !.a = a]) <=> Live(e)
                /\ [e EXCEPT !.a = a].src = e.src
                /\ [e EXCEPT !.a = a].mfn = e.mfn
                /\ [e EXCEPT !.a = a].remap = e.remap
           /\ [e EXCEPT !.remap = TRUE] \in Entries
           /\ Live([e EXCEPT !.remap = TRUE]) <=> Live(e)
           /\ [e EXCEPT !.remap = TRUE].src = e.src
           /\ [e EXCEPT !.remap = TRUE].remap
           /\ [e EXCEPT !.left = TRUE] \in Entries
           /\ ~Live([e EXCEPT !.left = TRUE])
<1>1. e \in [mfn : Mfns \cup {None}, a : {"host", "r"}, src : Gfns,
             remap : BOOLEAN, left : BOOLEAN] /\ e.mfn # None
    BY DEF Entries
<1>2. NoEntry.mfn = None
    BY DEF NoEntry, CopyOf
<1> QED BY <1>1, <1>2 DEF Entries, Live

\* A flush leaves nothing live.
LEMMA FlushFacts ==
    ASSUME NEW tab \in [Gfns -> Entries]
    PROVE  /\ FlushTable(tab) \in [Gfns -> Entries]
           /\ \A g \in Gfns : ~Live(FlushTable(tab)[g])
<1>1. ASSUME NEW g \in Gfns
      PROVE  /\ FlushTable(tab)[g] \in Entries
             /\ ~Live(FlushTable(tab)[g])
    <2>1. CASE tab[g] = NoEntry
        BY <2>1, NoEntryFacts DEF FlushTable
    <2>2. CASE tab[g] # NoEntry
        BY <2>2, FieldFacts DEF FlushTable
    <2> QED BY <2>1, <2>2
<1>2. FlushTable(tab) = [g \in Gfns |-> FlushTable(tab)[g]]
    BY DEF FlushTable
<1> QED BY <1>1, <1>2

\* What get_entry of a view and then of the host p2m comes back with.
LEMMA LookupFacts ==
    ASSUME TablesTypeOK, NEW i \in Views, NEW g \in Gfns
    PROVE  /\ Lookup(i, g) \in Entries
           /\ Lookup(i, g) # NoEntry =>
                 \/ Lookup(i, g) = view[i][g]
                 \/ host[g] \in Mfns /\ Lookup(i, g) = CopyOf(g, host[g])
<1>1. view[i][g] \in Entries /\ host[g] \in Mfns \cup {None}
    BY DEF TablesTypeOK
<1> QED BY <1>1, CopyFacts, NoEntryFacts DEF Lookup

PropType(p) ==
    p \in [step : {"idle", "start", "loop", "all"}, gfn : Gfns,
           i : 0 .. MaxAltp2m, last : Views \cup {HostView}]

LEMMA NoPropType == PropType(NoProp)
BY ViewTablesAssumption DEF PropType, NoProp, Gfns

LEMMA NoToolType ==
    NoTool \in [step : {"idle", "write", "destroy"}, view : Views, gfn : Gfns,
                new : 0 .. INVALID_GFN, entry : Entries]
BY NoEntryFacts, ViewTablesAssumption DEF NoTool, INVALID_GFN, Views, Gfns

-----------------------------------------------------------------------------
(* Initial states *)

LEMMA InitTables == TablesInit => TablesInv
<1> SUFFICES ASSUME TablesInit PROVE TablesInv
    OBVIOUS
<1>1. host \in [Gfns -> Mfns]
    <2>1. host \in Booted
        BY PagesAssumption DEF TablesInit
    <2> QED BY <2>1 DEF Booted
<1>2. TablesTypeOK
    <2>1. 0 \in Gfns /\ 0 \in Views /\ NrGfns \in Nat /\ MaxAltp2m \in Nat
        BY ViewTablesAssumption DEF Gfns, Views
    <2>2. NoRange \in [min : 0 .. INVALID_GFN, max : Gfns]
        BY <2>1 DEF NoRange, INVALID_GFN
    <2>4. NoFault \in [busy : BOOLEAN, gfn : Gfns]
        BY <2>1, NoEntryFacts DEF NoFault
    <2>6. view \in [Views -> [Gfns -> Entries]]
        BY NoEntryFacts DEF TablesInit
    <2>7. ops \in 0 .. MaxOps /\ changes \in 0 .. MaxChanges
        BY ViewTablesAssumption DEF TablesInit
    <2> QED BY <1>1, <2>2, <2>4, <2>6, <2>7, NoPropType, NoToolType
           DEF TablesInit, TablesTypeOK, PropType
<1>3. LockInv
    BY PagesAssumption DEF TablesInit, LockInv, NoProp, NoFault, NoTool, None
<1>4. ListInv
    BY NoEntryFacts DEF TablesInit, ListInv, NoTool
<1>5. AnchorInv
    BY NoEntryFacts DEF TablesInit, AnchorInv, Anchored, NoTool
<1>6. CurrentInv
    BY DEF TablesInit, CurrentInv
<1> QED BY <1>2, <1>3, <1>4, <1>5, <1>6 DEF TablesInv

-----------------------------------------------------------------------------
(* Changes of the host p2m *)

LEMMA HostSetKeeps ==
    ASSUME TablesInv, NEW g \in Gfns, NEW mfn \in Mfns \cup {None}, HostSet(g, mfn)
    PROVE  TablesInv'
<1> USE DEF TablesInv
<1>0. prop' = [step |-> "start", gfn |-> g, i |-> 0, last |-> HostView]
    BY DEF HostSet, NoProp
<1>1. TablesTypeOK'
    <2>1. PropType(prop')
        BY <1>0, ViewTablesAssumption DEF PropType
    <2>2. changes' \in 0 .. MaxChanges
        BY ViewTablesAssumption DEF TablesTypeOK, HostSet
    <2>3. host' \in [Gfns -> Mfns \cup {None}] /\ host_lock' \in VCPUs \cup {"host", None}
        BY DEF TablesTypeOK, HostSet
    <2> QED BY <2>1, <2>2, <2>3 DEF TablesTypeOK, HostSet, tables, PropType
<1>2. LockInv'
    BY <1>0, ViewTablesAssumption, PagesAssumption DEF LockInv, HostSet, None
<1>3. ListInv'
    BY DEF ListInv, HostSet, tables
<1>4. AnchorInv'
    BY DEF AnchorInv, HostSet, tables, Anchored, Reach
<1>5. CurrentInv'
    <2>1. prop.step = "idle"
        BY PagesAssumption, ViewTablesAssumption DEF LockInv, HostSet, None
    <2>2. ASSUME NEW i \in Views, NEW h \in Gfns, NEW e \in Entries, Current(i, h, e),
                 Anchored(remapped[i], h, e) \/ Anchored(Reach, h, e)
          PROVE  Current(i, h, e)'
        <3>1. Pending(i)'
            BY <1>0, ViewTablesAssumption DEF Pending, Views, HostView
        <3>2. Live(e) => host[e.src] # None /\ (~e.remap => e.mfn = host[h] /\ e.src = h)
            BY <2>1, <2>2 DEF Current, Pending, Anchored
        <3>3. \A k \in Gfns : k # g => host'[k] = host[k]
            BY DEF HostSet, TablesTypeOK
        <3> QED BY <1>0, <3>1, <3>2, <3>3, NoEntryFacts DEF Current
    <2> QED BY <2>2 DEF CurrentInv, AnchorInv, HostSet, tables, TablesTypeOK
<1> QED BY <1>1, <1>2, <1>3, <1>4, <1>5

LEMMA PropStartKeeps ==
    ASSUME TablesInv, PropStart
    PROVE  TablesInv'
<1> USE DEF TablesInv
<1>1. TablesTypeOK'
    <2>1. PropType(prop')
        BY NoPropType DEF TablesTypeOK, PropStart, PropEnd, PropType
    <2>2. host_lock' \in VCPUs \cup {"host", None}
        BY DEF TablesTypeOK, PropStart, PropEnd
    <2> QED BY <2>1, <2>2 DEF TablesTypeOK, PropStart, tables, PropType
<1>2. LockInv'
    BY ViewTablesAssumption, PagesAssumption
    DEF TablesTypeOK, LockInv, PropStart, PropEnd, NoProp, None
<1>3. ListInv'
    BY DEF ListInv, PropStart, tables
<1>4. AnchorInv'
    BY DEF AnchorInv, PropStart, tables, Anchored, Reach
<1>5. CurrentInv'
    <2> SUFFICES ASSUME altp2m_active PROVE CurrentInv'
        BY DEF CurrentInv, PropStart
    <2>1. prop' = [prop EXCEPT !.step = "loop"]
        BY DEF PropStart
    <2>2. \A i : Pending(i)' <=> Pending(i)
        BY <2>1 DEF Pending, PropStart, TablesTypeOK
    <2> QED BY <2>1, <2>2 DEF CurrentInv, Current, PropStart, tables, TablesTypeOK
<1> QED BY <1>1, <1>2, <1>3, <1>4, <1>5

\* A step of the propagation that gives view i the table tab and the range r,
\* and moves on: all there is to show is that tab and r are right.
LEMMA PassKeeps ==
    ASSUME TablesInv, NEW i \in Views, ~view_lock[i],
           NEW tab \in [Gfns -> Entries],
           NEW r \in [min : 0 .. INVALID_GFN, max : Gfns],
           prop.step # "idle", PropType(prop'), prop'.step # "idle", prop'.gfn = prop.gfn,
           view' = [view EXCEPT ![i] = tab],
           remapped' = [remapped EXCEPT ![i] = r],
           UNCHANGED <<altp2m_active, altp2m_eptp, p2midx, host, host_lock, view_lock,
                       fault, tool, ops, changes, crashed>>,
           \A j \in Views : j # i /\ Pending(j) => Pending(j)',
           i \notin altp2m_eptp => \A g \in Gfns : ~Live(tab[g]),
           \A g \in Gfns : Anchored(r, g, tab[g]),
           altp2m_active => \A g \in Gfns : Current(i, g, tab[g])'
    PROVE  TablesInv'
<1> USE DEF TablesInv
<1>0. /\ view'[i] = tab /\ \A j \in Views : j # i => view'[j] = view[j]
      /\ remapped'[i] = r /\ \A j \in Views : j # i => remapped'[j] = remapped[j]
    BY DEF TablesTypeOK
<1>1. TablesTypeOK'
    BY DEF TablesTypeOK, PropType
<1>2. LockInv'
    BY DEF LockInv
<1>3. ListInv'
    BY <1>0 DEF ListInv, Live
<1>4. ~(tool.step = "write" /\ tool.view = i)
    BY DEF LockInv
<1>5. AnchorInv'
    <2>1. \A j \in Views, g \in Gfns : Anchored(remapped'[j], g, view'[j][g])
        BY <1>0 DEF AnchorInv
    <2>2. tool.step = "write" => Reach' = Reach
        BY <1>0, <1>4 DEF Reach, TablesTypeOK
    <2> QED BY <2>1, <2>2 DEF AnchorInv, Anchored, Live
<1>6. CurrentInv'
    <2> SUFFICES ASSUME altp2m_active PROVE CurrentInv'
        BY DEF CurrentInv
    <2>1. ASSUME NEW j \in Views, j # i, NEW g, NEW e, Current(j, g, e)
          PROVE  Current(j, g, e)'
        BY <2>1 DEF Current, Live
    <2>2. ASSUME NEW j \in Views, NEW g \in Gfns PROVE Current(j, g, view[j][g])'
        <3>1. CASE j = i
            BY <1>0, <3>1 DEF Current
        <3>2. CASE j # i
            BY <1>0, <2>1, <3>2 DEF CurrentInv, Current
        <3> QED BY <3>1, <3>2
    <2>3. tool.step = "write" => Current(tool.view, tool.gfn, tool.entry)'
        BY <1>4, <2>1 DEF CurrentInv, TablesTypeOK, Current
    <2> QED BY <2>2, <2>3 DEF CurrentInv
<1> QED BY <1>1, <1>2, <1>3, <1>5, <1>6

\* p2m_reset_altp2m on the way: nothing in the view is live any more.
LEMMA ResetKeeps ==
    ASSUME TablesInv, NEW i \in Views, ~view_lock[i], ResetView(i),
           prop.step # "idle", PropType(prop'), prop'.step # "idle", prop'.gfn = prop.gfn,
           UNCHANGED <<altp2m_active, altp2m_eptp, p2midx, host, host_lock, view_lock,
                       fault, tool, ops, changes, crashed>>,
           \A j \in Views : j # i /\ Pending(j) => Pending(j)'
    PROVE  TablesInv'
<1> PICK tab : tab = FlushTable(view[i])
    OBVIOUS
<1>1. view[i] \in [Gfns -> Entries]
    BY DEF TablesInv, TablesTypeOK
<1>2. tab \in [Gfns -> Entries] /\ \A g \in Gfns : ~Live(tab[g])
    BY <1>1, FlushFacts
<1>3. NoRange \in [min : 0 .. INVALID_GFN, max : Gfns]
    BY ViewTablesAssumption DEF NoRange, INVALID_GFN, Gfns
<1>4. view' = [view EXCEPT ![i] = tab] /\ remapped' = [remapped EXCEPT ![i] = NoRange]
    BY DEF ResetView
<1>5. \A g \in Gfns : Anchored(NoRange, g, tab[g])
    BY <1>2 DEF Anchored
<1>6. \A g \in Gfns : Current(i, g, tab[g])'
    BY <1>2, NoEntryFacts DEF Current, Live
<1> QED BY <1>2, <1>3, <1>4, <1>5, <1>6, PassKeeps

\* The propagation goes on without touching a view.
LEMMA SkipKeeps ==
    ASSUME TablesInv, UNCHANGED <<view, remapped>>,
           prop.step # "idle", PropType(prop'), prop'.step # "idle", prop'.gfn = prop.gfn,
           UNCHANGED <<altp2m_active, altp2m_eptp, p2midx, host, host_lock, view_lock,
                       fault, tool, ops, changes, crashed>>,
           \A j \in Views : Pending(j) /\ ~Pending(j)' => j \notin altp2m_eptp
    PROVE  TablesInv'
<1> USE DEF TablesInv
<1>1. TablesTypeOK' /\ LockInv' /\ ListInv' /\ AnchorInv'
    BY DEF TablesTypeOK, PropType, LockInv, ListInv, AnchorInv, Anchored, Live, Reach
<1>2. CurrentInv'
    <2>1. ASSUME NEW j \in altp2m_eptp, NEW g, NEW e, Current(j, g, e)
          PROVE  Current(j, g, e)'
        BY <2>1 DEF Current, Live, TablesTypeOK
    <2>2. \A j \in Views \ altp2m_eptp, g \in Gfns : Current(j, g, view[j][g])'
        BY DEF ListInv, Current, Live
    <2> QED BY <2>1, <2>2 DEF CurrentInv, Current, ListInv, TablesTypeOK
<1> QED BY <1>1, <1>2

\* The view takes the change over where it has an entry, and is up to date: had
\* it remapped another gfn to a page that is gone, it would be impacted.
LEMMA TakeOverKeeps ==
    ASSUME TablesInv, NEW i \in Views, ~view_lock[i], ~Impacted(i),
           prop.step # "idle", PropType(prop'), prop'.step # "idle", prop'.gfn = prop.gfn,
           view' = IF view[i][prop.gfn] = NoEntry THEN view
                   ELSE [view EXCEPT ![i][prop.gfn] = Propagated],
           UNCHANGED <<altp2m_active, altp2m_eptp, p2midx, remapped, host, host_lock,
                       view_lock, fault, tool, ops, changes, crashed>>,
           i \in altp2m_eptp,
           \A j \in Views : j # i /\ Pending(j) => Pending(j)'
    PROVE  TablesInv'
<1> PICK p : p = prop.gfn
    OBVIOUS
<1> PICK tab : tab = IF view[i][p] = NoEntry THEN view[i]
                     ELSE [view[i] EXCEPT ![p] = Propagated]
    OBVIOUS
<1> PICK r : r = remapped[i]
    OBVIOUS
<1>1. /\ p \in Gfns /\ host[p] \in Mfns \cup {None}
      /\ view \in [Views -> [Gfns -> Entries]] /\ view[i] \in [Gfns -> Entries]
      /\ remapped \in [Views -> [min : 0 .. INVALID_GFN, max : Gfns]]
    BY DEF TablesInv, TablesTypeOK
<1>2. /\ Propagated \in Entries
      /\ Live(Propagated) => /\ host[p] # None /\ Propagated.mfn = host[p]
                             /\ Propagated.src = p /\ ~Propagated.remap
    BY <1>1, CopyFacts, NoEntryFacts DEF Propagated
<1>3. /\ tab \in [Gfns -> Entries]
      /\ ~Live(tab[p]) \/ tab[p] = Propagated
      /\ \A g \in Gfns : g # p => tab[g] = view[i][g]
    BY <1>1, <1>2, NoEntryFacts
<1>4. view' = [view EXCEPT ![i] = tab]
    BY <1>1
<1>5. ASSUME NEW g \in Gfns PROVE Anchored(r, g, tab[g])
    BY <1>2, <1>3 DEF Anchored, TablesInv, AnchorInv
<1>6. ASSUME altp2m_active, NEW g \in Gfns PROVE Current(i, g, tab[g])'
    <2> DEFINE e == tab[g]
    <2> SUFFICES ASSUME Live(e) PROVE host[e.src] # None /\ (~e.remap => e.mfn = host[g])
        BY DEF Current, Live
    <2>1. CASE g = p
        BY <1>2, <1>3, <2>1
    <2>2. CASE g # p
        <3>1. e = view[i][g]
            BY <1>3, <2>2
        <3>2. e.src = p => e.remap
            BY <1>5, <2>2 DEF Anchored
        <3>3. e.src = p => host[p] # None
            BY <1>5, <3>2 DEF Anchored, Impacted
        <3>4. e.src # p => host[e.src] # None /\ (~e.remap => e.mfn = host[g])
            BY <1>6, <3>1 DEF TablesInv, CurrentInv, Current
        <3> QED BY <3>2, <3>3, <3>4
    <2> QED BY <2>1, <2>2
<1>7. /\ remapped' = [remapped EXCEPT ![i] = r]
      /\ r \in [min : 0 .. INVALID_GFN, max : Gfns]
    BY <1>1
<1> QED BY <1>3, <1>4, <1>5, <1>6, <1>7, PassKeeps

LEMMA PropViewKeeps ==
    ASSUME TablesInv, PropView
    PROVE  TablesInv'
<1> PICK i : i = prop.i
    OBVIOUS
<1>0. /\ i \in Views /\ prop.step = "loop" /\ PropType(prop)
      /\ i \in 0 .. MaxAltp2m - 1 /\ MaxAltp2m \in Nat
    BY ViewTablesAssumption DEF PropView, TablesInv, TablesTypeOK, PropType, Views
<1>1. UNCHANGED <<altp2m_active, altp2m_eptp, p2midx, host, host_lock, view_lock,
                  fault, tool, ops, changes, crashed>>
    BY DEF PropView
<1>2. ASSUME WalkOn
      PROVE  /\ PropType(prop') /\ prop'.step # "idle" /\ prop'.gfn = prop.gfn
             /\ \A j \in Views : j # i /\ Pending(j) => Pending(j)'
    BY <1>0, <1>2 DEF WalkOn, PropType, Pending, Views
<1>3. CASE i \notin altp2m_eptp
    <2>1. WalkOn /\ UNCHANGED <<view, remapped>>
        BY <1>3 DEF PropView
    <2>2. \A j \in Views : Pending(j) /\ ~Pending(j)' => j \notin altp2m_eptp
        BY <1>2, <1>3, <2>1
    <2> QED BY <1>0, <1>1, <1>2, <2>1, <2>2, SkipKeeps
<1>4. CASE i \in altp2m_eptp
    <2>1. ~view_lock[i] /\ PropBody(i)
        BY <1>4 DEF PropView
    <2>2. CASE Impacted(i) /\ prop.last = HostView /\ ResetView(i)
               /\ prop' = [prop EXCEPT !.i = @ + 1, !.last = i]
        <3>1. /\ PropType(prop') /\ prop'.step # "idle" /\ prop'.gfn = prop.gfn
              /\ \A j \in Views : j # i /\ Pending(j) => Pending(j)'
            <4>1. /\ prop'.step = "loop" /\ prop'.gfn = prop.gfn
                  /\ prop'.i = i + 1 /\ prop'.last = i
                BY <1>0, <2>2 DEF PropType
            <4>2. PropType(prop')
                <5>1. i + 1 \in 0 .. MaxAltp2m
                    BY <1>0
                <5>2. prop' = [step |-> "loop", gfn |-> prop.gfn, i |-> i + 1, last |-> i]
                    BY <1>0, <2>2 DEF PropType
                <5> QED BY <1>0, <5>1, <5>2 DEF PropType
            <4> QED BY <1>0, <4>1, <4>2 DEF Pending, Views
        <3> QED BY <1>0, <1>1, <2>1, <2>2, <3>1, ResetKeeps
    <2>3. CASE Impacted(i) /\ prop.last # HostView
               /\ prop' = [prop EXCEPT !.i = 0, !.step = "all"]
               /\ UNCHANGED <<view, remapped>>
        <3>1. /\ PropType(prop') /\ prop'.step # "idle" /\ prop'.gfn = prop.gfn
              /\ \A j \in Views : Pending(j) => Pending(j)'
            <4>1. /\ prop'.step = "all" /\ prop'.gfn = prop.gfn
                  /\ prop'.i = 0 /\ prop'.last = prop.last
                BY <1>0, <2>3 DEF PropType
            <4>2. PropType(prop')
                <5>1. 0 \in 0 .. MaxAltp2m
                    BY <1>0
                <5>2. prop' = [step |-> "all", gfn |-> prop.gfn, i |-> 0, last |-> prop.last]
                    BY <1>0, <2>3 DEF PropType
                <5> QED BY <1>0, <5>1, <5>2 DEF PropType
            <4> QED BY <1>0, <4>1, <4>2 DEF Pending, Views
        <3> QED BY <1>0, <1>1, <2>3, <3>1, SkipKeeps
    <2>4. CASE ~Impacted(i) /\ WalkOn /\ UNCHANGED remapped
               /\ view' = IF view[i][prop.gfn] = NoEntry THEN view
                          ELSE [view EXCEPT ![i][prop.gfn] = Propagated]
        BY <1>0, <1>1, <1>2, <1>4, <2>1, <2>4, TakeOverKeeps
    <2> QED BY <2>1, <2>2, <2>3, <2>4 DEF PropBody
<1> QED BY <1>3, <1>4

LEMMA PropAllKeeps ==
    ASSUME TablesInv, PropAll
    PROVE  TablesInv'
<1> PICK i : i = prop.i
    OBVIOUS
<1>0. /\ i \in Views /\ prop.step = "all" /\ PropType(prop) /\ WalkOn
      /\ i \in 0 .. MaxAltp2m - 1 /\ MaxAltp2m \in Nat
    BY ViewTablesAssumption DEF PropAll, TablesInv, TablesTypeOK, PropType, Views
<1>1. UNCHANGED <<altp2m_active, altp2m_eptp, p2midx, host, host_lock, view_lock,
                  fault, tool, ops, changes, crashed>>
    BY DEF PropAll
<1>2. /\ PropType(prop') /\ prop'.step # "idle" /\ prop'.gfn = prop.gfn
      /\ \A j \in Views : j # i /\ Pending(j) => Pending(j)'
    BY <1>0 DEF WalkOn, PropType, Pending, Views
<1>3. CASE i = prop.last \/ i \notin altp2m_eptp
    <2>1. UNCHANGED <<view, remapped>>
        BY <1>3 DEF PropAll
    <2>2. \A j \in Views : Pending(j) /\ ~Pending(j)' => j \notin altp2m_eptp
        BY <1>2, <1>3 DEF Pending
    <2> QED BY <1>0, <1>1, <1>2, <2>1, <2>2, SkipKeeps
<1>4. CASE ~(i = prop.last \/ i \notin altp2m_eptp)
    <2>1. ~view_lock[i] /\ ResetView(i)
        BY <1>4 DEF PropAll
    <2> QED BY <1>0, <1>1, <1>2, <2>1, ResetKeeps
<1> QED BY <1>3, <1>4

\* The propagation has been through all views: nothing is pending.
LEMMA PropDoneKeeps ==
    ASSUME TablesInv, PropDone
    PROVE  TablesInv'
<1> USE DEF TablesInv
<1>0. prop' = NoProp /\ host_lock' = None /\ prop.i = MaxAltp2m
    BY DEF PropDone, PropEnd
<1>1. TablesTypeOK'
    BY <1>0, NoPropType DEF TablesTypeOK, PropDone, tables, PropType
<1>2. LockInv'
    <2>1. host_lock = "host" /\ host_lock' # "host" /\ prop'.step = "idle"
        BY <1>0, PagesAssumption DEF LockInv, PropDone, None, NoProp
    <2>2. \A v \in VCPUs : ~fault[v].busy
        BY <2>1, ViewTablesAssumption DEF LockInv
    <2> QED BY <2>1, <2>2 DEF LockInv, PropDone, tables
<1>3. ListInv' /\ AnchorInv'
    BY DEF ListInv, AnchorInv, PropDone, tables, Anchored, Live, Reach
<1>4. CurrentInv'
    <2>1. \A i \in Views : ~Pending(i)
        BY <1>0, ViewTablesAssumption DEF Pending, Views
    <2> QED BY <1>0, <2>1 DEF CurrentInv, Current, Live, PropDone, tables, TablesTypeOK
<1> QED BY <1>1, <1>2, <1>3, <1>4

-----------------------------------------------------------------------------
(* The guest *)

LEMMA SwitchKeeps ==
    ASSUME TablesInv, NEW v \in VCPUs, NEW i \in Views, Switch(v, i)
    PROVE  TablesInv'
<1> USE DEF TablesInv
<1>1. TablesTypeOK' /\ LockInv'
    BY DEF TablesTypeOK, LockInv, Switch, tables
<1>2. ListInv'
    BY DEF ListInv, Switch, tables, Live, TablesTypeOK
<1>3. AnchorInv' /\ CurrentInv'
    BY DEF AnchorInv, CurrentInv, Switch, tables, Anchored, Current, Pending, Live, Reach
<1> QED BY <1>1, <1>2, <1>3

LEMMA FaultKeeps ==
    ASSUME TablesInv, NEW v \in VCPUs, NEW g \in Gfns, Fault(v, g)
    PROVE  TablesInv'
<1> USE DEF TablesInv
<1>1. TablesTypeOK'
    BY DEF TablesTypeOK, Fault, tables
<1>2. LockInv'
    <2>1. \A w \in VCPUs : ~fault[w].busy
        BY PagesAssumption DEF LockInv, Fault
    <2>2. prop.step = "idle"
        BY PagesAssumption DEF LockInv, Fault, None
    <2> QED BY <2>1, <2>2, ViewTablesAssumption DEF LockInv, Fault, TablesTypeOK, tables
<1>3. ListInv'
    BY DEF ListInv, Fault, tables, Live, TablesTypeOK
<1>4. AnchorInv' /\ CurrentInv'
    BY DEF AnchorInv, CurrentInv, Fault, tables, Anchored, Current, Pending, Live, Reach
<1> QED BY <1>1, <1>2, <1>3, <1>4

\* While the copy is made nothing propagates, for the fault holds the host p2m.
LEMMA LazyCopyKeeps ==
    ASSUME TablesInv, NEW v \in VCPUs, LazyCopy(v)
    PROVE  TablesInv'
<1> USE DEF TablesInv
<1> PICK i : i = p2midx[v]
    OBVIOUS
<1> PICK g : g = fault[v].gfn
    OBVIOUS
<1> PICK e : e = CopyOf(g, host[g])
    OBVIOUS
<1>0. /\ i \in Views /\ i \in altp2m_eptp /\ g \in Gfns
      /\ host[g] \in Mfns /\ host[g] # None
      /\ host_lock = v /\ prop.step = "idle"
      /\ ~view_lock[i]
      /\ view' = [view EXCEPT ![i][g] = e]
    BY ViewTablesAssumption DEF LazyCopy, LockInv, ListInv, TablesTypeOK, HostView
<1>1. /\ e \in Entries /\ Live(e) /\ e.mfn = host[g] /\ e.src = g /\ ~e.remap
    BY <1>0, CopyFacts
<1>2. /\ view'[i][g] = e
      /\ \A j \in Views, h \in Gfns : j # i \/ h # g => view'[j][h] = view[j][h]
    BY <1>0 DEF TablesTypeOK
<1>3. TablesTypeOK'
    <2>1. view' \in [Views -> [Gfns -> Entries]]
        BY <1>0, <1>1 DEF TablesTypeOK
    <2>2. fault' \in [VCPUs -> [busy : BOOLEAN, gfn : Gfns]]
        BY NoEntryFacts, ViewTablesAssumption DEF TablesTypeOK, LazyCopy, NoFault, Gfns
    <2> QED BY <2>1, <2>2 DEF TablesTypeOK, LazyCopy
<1>4. LockInv'
    <2>1. \A w \in VCPUs : ~fault'[w].busy
        BY <1>0 DEF LockInv, LazyCopy, NoFault, TablesTypeOK
    <2>2. host_lock' # "host"
        BY PagesAssumption DEF LazyCopy, None
    <2> QED BY <1>0, <2>1, <2>2 DEF LockInv, LazyCopy
<1>5. ListInv'
    BY <1>0, <1>2 DEF ListInv, LazyCopy, Live
<1>6. AnchorInv'
    BY <1>1, <1>2 DEF AnchorInv, LazyCopy, Anchored, Live, Reach
<1>7. CurrentInv'
    <2>1. \A j \in Views, h \in Gfns : \A f : Current(j, h, f)' <=> Current(j, h, f)
        BY DEF LazyCopy, Current, Live, Pending
    <2>2. \A j : Current(j, g, e)
        BY <1>0, <1>1 DEF Current
    <2>3. ASSUME altp2m_active, NEW j \in Views, NEW h \in Gfns
          PROVE  Current(j, h, view'[j][h])
        BY <1>2, <2>2, <2>3 DEF CurrentInv
    <2>4. altp2m_active /\ tool.step = "write" => Current(tool.view, tool.gfn, tool.entry)'
        BY DEF CurrentInv, Current, LazyCopy, Live, Pending
    <2>5. \A j \in Views, h \in Gfns : altp2m_active => Current(j, h, view[j][h])'
        BY <2>1, <2>3 DEF Current
    <2> QED BY <2>4, <2>5 DEF CurrentInv, LazyCopy
<1> QED BY <1>3, <1>4, <1>5, <1>6, <1>7

LEMMA LazyCopyFailsKeeps ==
    ASSUME TablesInv, NEW v \in VCPUs, LazyCopyFails(v)
    PROVE  TablesInv'
<1> USE DEF TablesInv
<1>0. host_lock = v /\ prop.step = "idle"
    BY ViewTablesAssumption DEF LazyCopyFails, LockInv
<1>1. TablesTypeOK'
    <2>1. fault' \in [VCPUs -> [busy : BOOLEAN, gfn : Gfns]]
        BY ViewTablesAssumption DEF TablesTypeOK, LazyCopyFails, NoFault, Gfns
    <2> QED BY <2>1 DEF TablesTypeOK, LazyCopyFails, tables
<1>2. LockInv'
    <2>1. \A w \in VCPUs : ~fault'[w].busy
        BY <1>0 DEF LockInv, LazyCopyFails, NoFault, TablesTypeOK
    <2>2. host_lock' # "host"
        BY PagesAssumption DEF LazyCopyFails, None
    <2> QED BY <1>0, <2>1, <2>2 DEF LockInv, LazyCopyFails
<1>3. ListInv' /\ AnchorInv'
    BY DEF ListInv, AnchorInv, LazyCopyFails, tables, Anchored, Live, Reach
<1>4. CurrentInv'
    BY DEF CurrentInv, Current, Pending, Live, LazyCopyFails, tables
<1> QED BY <1>1, <1>2, <1>3, <1>4

-----------------------------------------------------------------------------
(* The operations on the pages of one view *)

\* The range takes in the gfn it is widened by and keeps what it had.
LEMMA WidenedFacts ==
    ASSUME NEW r \in [min : 0 .. INVALID_GFN, max : Gfns], NEW g \in Gfns
    PROVE  /\ Widened(r, g) \in [min : 0 .. INVALID_GFN, max : Gfns]
           /\ Widened(r, g).min <= g /\ g <= Widened(r, g).max
           /\ \A s \in Gfns : r.min <= s /\ s <= r.max =>
                 Widened(r, g).min <= s /\ s <= Widened(r, g).max
BY ViewTablesAssumption DEF Widened, Gfns, INVALID_GFN

\* Beginning an operation with an entry that is anchored and current.
LEMMA BeginPageOpKeeps ==
    ASSUME TablesInv, NEW i \in Views, NEW g \in Gfns, NEW new \in 0 .. INVALID_GFN,
           NEW entry \in Entries, BeginPageOp(i, g, new, entry),
           Anchored(IF new = INVALID_GFN THEN remapped[i] ELSE Widened(remapped[i], new),
                    g, entry),
           Current(i, g, entry)
    PROVE  TablesInv'
<1> USE DEF TablesInv
<1>0. /\ tool' = [step |-> "write", view |-> i, gfn |-> g, new |-> new, entry |-> entry]
      /\ view_lock' = [view_lock EXCEPT ![i] = TRUE]
      /\ tool.step = "idle" /\ altp2m_active /\ i \in altp2m_eptp
      /\ UNCHANGED <<altp2m_active, p2midx, altp2m_eptp, view, remapped, host, host_lock,
                     prop, fault, changes, crashed>>
    BY DEF BeginPageOp, Issue, tables
<1>1. TablesTypeOK'
    <2>1. ops' \in 0 .. MaxOps
        BY ViewTablesAssumption DEF TablesTypeOK, BeginPageOp, Issue
    <2> QED BY <1>0, <2>1 DEF TablesTypeOK
<1>2. LockInv'
    BY <1>0 DEF LockInv, TablesTypeOK
<1>3. ListInv'
    BY <1>0 DEF ListInv, Live
<1>4. AnchorInv'
    BY <1>0 DEF AnchorInv, Anchored, Live, Reach, Widened
<1>5. CurrentInv'
    BY <1>0 DEF CurrentInv, Current, Live, Pending
<1> QED BY <1>1, <1>2, <1>3, <1>4, <1>5

\* What an operation reads is anchored and current wherever it comes from.
LEMMA LookupKept ==
    ASSUME TablesInv, altp2m_active, NEW i \in Views, NEW g \in Gfns, Lookup(i, g) # NoEntry
    PROVE  Anchored(remapped[i], g, Lookup(i, g)) /\ Current(i, g, Lookup(i, g))
<1>1. Lookup(i, g) = view[i][g] \/ (host[g] \in Mfns /\ Lookup(i, g) = CopyOf(g, host[g]))
    BY LookupFacts DEF TablesInv
<1>2. CASE Lookup(i, g) = view[i][g]
    BY <1>2 DEF TablesInv, AnchorInv, CurrentInv
<1>3. CASE host[g] \in Mfns /\ Lookup(i, g) = CopyOf(g, host[g])
    BY <1>3, CopyFacts, PagesAssumption DEF Anchored, Current
<1> QED BY <1>1, <1>2, <1>3

LEMMA SetAccessKeeps ==
    ASSUME TablesInv, NEW i \in Views, NEW g \in Gfns, NEW a \in {"host", "r"},
           SetAccess(i, g, a)
    PROVE  TablesInv'
<1> PICK l : l = Lookup(i, g)
    OBVIOUS
<1> PICK e : e = [l EXCEPT !.a = a]
    OBVIOUS
<1>1. /\ l # NoEntry /\ l \in Entries /\ altp2m_active
      /\ Anchored(remapped[i], g, l) /\ Current(i, g, l)
    BY LookupFacts, LookupKept DEF SetAccess, BeginPageOp, TablesInv
<1>2. /\ e \in Entries /\ (Live(e) <=> Live(l))
      /\ e.src = l.src /\ e.mfn = l.mfn /\ e.remap = l.remap
    <2>1. \A x \in {"host", "r"} :
             /\ [l EXCEPT !.a = x] \in Entries
             /\ Live([l EXCEPT !.a = x]) <=> Live(l)
             /\ [l EXCEPT !.a = x].src = l.src
             /\ [l EXCEPT !.a = x].mfn = l.mfn
             /\ [l EXCEPT !.a = x].remap = l.remap
        BY <1>1, FieldFacts
    <2> QED BY <2>1, Zenon
<1>3. Anchored(remapped[i], g, e) /\ Current(i, g, e)
    BY <1>1, <1>2 DEF Anchored, Current
<1>4. BeginPageOp(i, g, INVALID_GFN, e) /\ INVALID_GFN \in 0 .. INVALID_GFN
    BY ViewTablesAssumption DEF SetAccess, INVALID_GFN
<1> QED BY <1>2, <1>3, <1>4, BeginPageOpKeeps

LEMMA ChangeGfnKeeps ==
    ASSUME TablesInv, NEW i \in Views, NEW g \in Gfns, NEW new \in Gfns \cup {INVALID_GFN},
           ChangeGfn(i, g, new)
    PROVE  TablesInv'
<1>0. /\ INVALID_GFN \notin Gfns /\ Gfns \subseteq 0 .. INVALID_GFN
      /\ INVALID_GFN \in 0 .. INVALID_GFN
    BY ViewTablesAssumption DEF Gfns, INVALID_GFN
<1>1. CASE new = INVALID_GFN
    <2>1. BeginPageOp(i, g, new, NoEntry)
        BY <1>1 DEF ChangeGfn
    <2>2. Anchored(remapped[i], g, NoEntry) /\ Current(i, g, NoEntry)
        BY NoEntryFacts DEF Anchored, Current
    <2> QED BY <1>0, <1>1, <2>1, <2>2, NoEntryFacts, BeginPageOpKeeps
<1>2. CASE new \in Gfns
    <2> PICK l : l = Lookup(i, new)
        OBVIOUS
    <2> PICK e : e = [l EXCEPT !.remap = TRUE]
        OBVIOUS
    <2>1. BeginPageOp(i, g, new, e) /\ l # NoEntry
        BY <1>0, <1>2 DEF ChangeGfn
    <2>2. /\ l \in Entries /\ altp2m_active
          /\ Anchored(remapped[i], new, l) /\ Current(i, new, l)
        BY <1>2, <2>1, LookupFacts, LookupKept DEF BeginPageOp, TablesInv
    <2>3. /\ e \in Entries /\ (Live(e) <=> Live(l)) /\ e.src = l.src /\ e.remap
          /\ l.src \in Gfns
        BY <2>1, <2>2, FieldFacts, NoEntryFacts
    <2>4. Anchored(Widened(remapped[i], new), g, e)
        <3>1. remapped[i] \in [min : 0 .. INVALID_GFN, max : Gfns]
            BY DEF TablesInv, TablesTypeOK
        <3> QED BY <1>2, <2>2, <2>3, <3>1, WidenedFacts DEF Anchored
    <2>5. Current(i, g, e)
        BY <2>2, <2>3 DEF Current
    <2> QED BY <1>0, <1>2, <2>1, <2>3, <2>4, <2>5, BeginPageOpKeeps
<1> QED BY <1>1, <1>2

LEMMA PageWriteKeeps ==
    ASSUME TablesInv, PageWrite
    PROVE  TablesInv'
<1> USE DEF TablesInv
<1> PICK i : i = tool.view
    OBVIOUS
<1> PICK g : g = tool.gfn
    OBVIOUS
<1> PICK e : e = tool.entry
    OBVIOUS
<1>0. /\ i \in Views /\ g \in Gfns /\ e \in Entries /\ i \in altp2m_eptp
      /\ tool.step = "write" /\ altp2m_active
      /\ Reach \in [min : 0 .. INVALID_GFN, max : Gfns]
    <2>1. remapped[i] \in [min : 0 .. INVALID_GFN, max : Gfns]
          /\ (tool.new # INVALID_GFN => tool.new \in Gfns)
        BY ViewTablesAssumption DEF TablesTypeOK, INVALID_GFN, Gfns
    <2>2. Reach \in [min : 0 .. INVALID_GFN, max : Gfns]
        BY <2>1, WidenedFacts DEF Reach
    <2> QED BY <2>2 DEF PageWrite, TablesTypeOK, ListInv
<1>1. /\ view' = [view EXCEPT ![i][g] = e]
      /\ remapped' = [remapped EXCEPT ![i] = Reach]
      /\ view_lock' = [view_lock EXCEPT ![i] = FALSE]
      /\ tool' = NoTool
      /\ UNCHANGED <<altp2m_active, altp2m_eptp, p2midx, host, host_lock, prop, fault,
                     ops, changes, crashed>>
    BY DEF PageWrite, Reach, TablesTypeOK
<1>2. /\ view'[i][g] = e
      /\ \A j \in Views, h \in Gfns : j # i \/ h # g => view'[j][h] = view[j][h]
      /\ remapped'[i] = Reach /\ \A j \in Views : j # i => remapped'[j] = remapped[j]
    BY <1>0, <1>1 DEF TablesTypeOK
<1>3. TablesTypeOK'
    <2>1. view' \in [Views -> [Gfns -> Entries]]
        BY <1>0, <1>1 DEF TablesTypeOK
    <2>2. remapped' \in [Views -> [min : 0 .. INVALID_GFN, max : Gfns]]
        BY <1>0, <1>1 DEF TablesTypeOK
    <2> QED BY <1>1, <2>1, <2>2, NoToolType DEF TablesTypeOK
<1>4. LockInv'
    BY <1>0, <1>1 DEF LockInv, TablesTypeOK, NoTool
<1>5. ListInv'
    BY <1>0, <1>1, <1>2 DEF ListInv, Live, NoTool
<1>6. AnchorInv'
    <2>1. ASSUME NEW h \in Gfns PROVE Anchored(Reach, h, view[i][h])
        <3>1. remapped[i] \in [min : 0 .. INVALID_GFN, max : Gfns]
              /\ (tool.new # INVALID_GFN => tool.new \in Gfns)
              /\ view[i][h] \in Entries
            BY <1>0, ViewTablesAssumption DEF TablesTypeOK, INVALID_GFN, Gfns
        <3>2. Anchored(remapped[i], h, view[i][h])
            BY <1>0 DEF AnchorInv
        <3> QED BY <3>1, <3>2, NoEntryFacts, WidenedFacts DEF Anchored, Reach
    <2>2. Anchored(Reach, g, e)
        BY <1>0 DEF AnchorInv
    <2>3. \A j \in Views, h \in Gfns : Anchored(remapped'[j], h, view'[j][h])
        BY <1>0, <1>2, <2>1, <2>2 DEF AnchorInv
    <2>4. tool'.step # "write"
        BY <1>1 DEF NoTool
    <2> QED BY <2>3, <2>4 DEF AnchorInv, Anchored, Live
<1>7. CurrentInv'
    <2>1. \A j, h, f : Current(j, h, f)' <=> Current(j, h, f)
        BY <1>1 DEF Current, Live, Pending
    <2>2. ASSUME NEW j \in Views, NEW h \in Gfns PROVE Current(j, h, view'[j][h])
        BY <1>0, <1>2 DEF CurrentInv
    <2>3. \A j \in Views, h \in Gfns : Current(j, h, view[j][h])'
        BY <2>1, <2>2 DEF Current
    <2>4. tool'.step # "write"
        BY <1>1 DEF NoTool
    <2> QED BY <2>3, <2>4 DEF CurrentInv
<1> QED BY <1>3, <1>4, <1>5, <1>6, <1>7

LEMMA PageWriteFailsKeeps ==
    ASSUME TablesInv, PageWriteFails
    PROVE  TablesInv'
<1> USE DEF TablesInv
<1>0. /\ tool.view \in Views /\ tool.step = "write" /\ altp2m_active
      /\ tool' = NoTool /\ tool'.step = "idle"
      /\ view_lock' = [view_lock EXCEPT ![tool.view] = FALSE]
      /\ UNCHANGED <<altp2m_active, p2midx, altp2m_eptp, view, remapped, host, host_lock,
                     prop, fault, ops, changes, crashed>>
    BY DEF PageWriteFails, NoTool, TablesTypeOK, ListInv, tables
<1>1. TablesTypeOK'
    BY <1>0, NoToolType DEF TablesTypeOK
<1>2. LockInv'
    BY <1>0 DEF LockInv, TablesTypeOK
<1>3. ListInv' /\ AnchorInv'
    BY <1>0 DEF ListInv, AnchorInv, Anchored, Live
<1>4. CurrentInv'
    BY <1>0 DEF CurrentInv, Current, Pending, Live
<1> QED BY <1>1, <1>2, <1>3, <1>4

-----------------------------------------------------------------------------
(* The operations on whole views *)

\* p2m_init_altp2m_helper on a view that is not in use: nothing in it is live.
LEMMA InitViewKeeps ==
    ASSUME TablesInv, NEW i \in Views \ altp2m_eptp, InitView(i), tool.step = "idle",
           altp2m_active', ~altp2m_active => altp2m_eptp = {},
           p2midx' \in [VCPUs -> Views \cup {HostView}],
           \A v \in VCPUs : p2midx'[v] = p2midx[v] \/ p2midx'[v] = i,
           ops' \in 0 .. MaxOps,
           UNCHANGED <<host, host_lock, view_lock, prop, fault, tool, changes, crashed>>
    PROVE  TablesInv'
<1> USE DEF TablesInv
<1>0. /\ altp2m_eptp' = altp2m_eptp \cup {i} /\ view' = view
      /\ remapped' = [remapped EXCEPT ![i] = NoRange]
    BY DEF InitView
<1>1. TablesTypeOK'
    <2>1. NoRange \in [min : 0 .. INVALID_GFN, max : Gfns]
        BY ViewTablesAssumption DEF NoRange, INVALID_GFN, Gfns
    <2> QED BY <1>0, <2>1 DEF TablesTypeOK
<1>2. LockInv'
    BY ViewTablesAssumption DEF LockInv, Views, HostView, TablesTypeOK
<1>3. ListInv'
    BY <1>0 DEF ListInv, Live
<1>4. AnchorInv'
    BY <1>0 DEF AnchorInv, ListInv, Anchored, Live, TablesTypeOK
<1>5. CurrentInv'
    BY <1>0 DEF CurrentInv, ListInv, Current, Live, Pending, TablesTypeOK
<1> QED BY <1>1, <1>2, <1>3, <1>4, <1>5

LEMMA ActivateKeeps ==
    ASSUME TablesInv, Activate
    PROVE  TablesInv'
<1>1. /\ tool.step = "idle" /\ ~altp2m_active /\ altp2m_active' /\ InitView(0)
      /\ p2midx' = [v \in VCPUs |-> 0]
      /\ UNCHANGED <<host, host_lock, view_lock, prop, fault, tool, changes, crashed>>
    BY DEF Activate, Issue
<1>2. altp2m_eptp = {} /\ 0 \in Views \ altp2m_eptp
    BY <1>1, ViewTablesAssumption DEF TablesInv, ListInv, Views
<1>3. ops' \in 0 .. MaxOps
    BY ViewTablesAssumption DEF TablesInv, TablesTypeOK, Activate, Issue
<1> QED BY <1>1, <1>2, <1>3, InitViewKeeps

LEMMA CreateKeeps ==
    ASSUME TablesInv, NEW i \in Views, Create(i)
    PROVE  TablesInv'
<1>1. /\ tool.step = "idle" /\ altp2m_active /\ altp2m_active' /\ InitView(i)
      /\ i \in Views \ altp2m_eptp
      /\ UNCHANGED <<p2midx, host, host_lock, view_lock, prop, fault, tool, changes, crashed>>
    BY DEF Create, Issue
<1>2. ops' \in 0 .. MaxOps /\ p2midx' \in [VCPUs -> Views \cup {HostView}]
    BY ViewTablesAssumption DEF TablesInv, TablesTypeOK, Create, Issue
<1> QED BY <1>1, <1>2, InitViewKeeps

\* Entries that are the same or no longer live are anchored and current.
LEMMA LeftBehindKeeps ==
    ASSUME TablesInv, view' \in [Views -> [Gfns -> Entries]],
           \A i \in Views, g \in Gfns : view'[i][g] = view[i][g] \/ ~Live(view'[i][g]),
           tool'.step # "write",
           UNCHANGED <<remapped, host, prop, altp2m_active>>
    PROVE  AnchorInv' /\ CurrentInv'
<1>1. AnchorInv'
    BY DEF TablesInv, AnchorInv, Anchored, Live
<1>2. CurrentInv'
    BY DEF TablesInv, CurrentInv, Current, Live, Pending
<1> QED BY <1>1, <1>2

LEMMA DestroyKeeps ==
    ASSUME TablesInv, NEW i \in Views, Destroy(i)
    PROVE  TablesInv'
<1> USE DEF TablesInv
<1>0. /\ view' = [view EXCEPT ![i] = FlushTable(view[i])]
      /\ altp2m_eptp' = altp2m_eptp \ {i}
      /\ tool.step = "idle" /\ altp2m_active
      /\ \A v \in VCPUs : p2midx[v] # i
      /\ UNCHANGED <<altp2m_active, p2midx, remapped, host, host_lock, view_lock, prop,
                     fault, tool, changes, crashed>>
    BY DEF Destroy, Issue
<1>1. /\ view' \in [Views -> [Gfns -> Entries]]
      /\ \A g \in Gfns : ~Live(view'[i][g])
      /\ \A j \in Views, g \in Gfns : j # i => view'[j][g] = view[j][g]
    <2>1. view[i] \in [Gfns -> Entries]
        BY DEF TablesTypeOK
    <2> QED BY <1>0, <2>1, FlushFacts DEF TablesTypeOK
<1>2. TablesTypeOK'
    <2>1. ops' \in 0 .. MaxOps
        BY ViewTablesAssumption DEF TablesTypeOK, Destroy, Issue
    <2> QED BY <1>0, <1>1, <2>1 DEF TablesTypeOK
<1>3. LockInv'
    BY <1>0 DEF LockInv
<1>4. ListInv'
    BY <1>0, <1>1 DEF ListInv, Live
<1>5. AnchorInv' /\ CurrentInv'
    BY <1>0, <1>1, LeftBehindKeeps DEF Live
<1> QED BY <1>2, <1>3, <1>4, <1>5

LEMMA DeactivateKeeps ==
    ASSUME TablesInv, Deactivate
    PROVE  TablesInv'
<1> USE DEF TablesInv
<1>0. /\ tool' = [tool EXCEPT !.step = "destroy"] /\ tool.step = "idle"
      /\ ~altp2m_active' /\ altp2m_active' \in BOOLEAN
      /\ UNCHANGED <<p2midx, altp2m_eptp, view, remapped, host, host_lock, view_lock, prop,
                     fault, changes, crashed>>
    BY DEF Deactivate, Issue, tables
<1>1. tool'.step = "destroy"
    BY <1>0 DEF TablesTypeOK
<1>2. TablesTypeOK'
    <2>1. ops' \in 0 .. MaxOps
        BY ViewTablesAssumption DEF TablesTypeOK, Deactivate, Issue
    <2> QED BY <1>0, <2>1 DEF TablesTypeOK
<1>3. LockInv' /\ ListInv'
    BY <1>0, <1>1 DEF LockInv, ListInv, Live
<1>4. AnchorInv' /\ CurrentInv'
    BY <1>0, <1>1 DEF AnchorInv, Anchored, CurrentInv, Live
<1> QED BY <1>2, <1>3, <1>4

LEMMA VcpuDestroyKeeps ==
    ASSUME TablesInv, NEW v \in VCPUs, VcpuDestroy(v)
    PROVE  TablesInv'
<1> USE DEF TablesInv
<1>1. TablesTypeOK' /\ LockInv'
    BY DEF TablesTypeOK, LockInv, VcpuDestroy, tables
<1>2. ListInv'
    BY DEF ListInv, VcpuDestroy, tables, Live, TablesTypeOK
<1>3. AnchorInv' /\ CurrentInv'
    BY DEF AnchorInv, CurrentInv, VcpuDestroy, tables, Anchored, Current, Pending, Live, Reach
<1> QED BY <1>1, <1>2, <1>3

LEMMA FlushAllKeeps ==
    ASSUME TablesInv, FlushAll
    PROVE  TablesInv'
<1> USE DEF TablesInv
<1>0. /\ view' = [i \in Views |-> FlushTable(view[i])]
      /\ altp2m_eptp' = {} /\ tool.step = "destroy" /\ tool' = NoTool /\ tool'.step = "idle"
      /\ \A v \in VCPUs : p2midx[v] = HostView
      /\ UNCHANGED <<altp2m_active, p2midx, remapped, host, host_lock, view_lock, prop,
                     fault, ops, changes, crashed>>
    BY DEF FlushAll, NoTool
<1>1. /\ view' \in [Views -> [Gfns -> Entries]]
      /\ \A j \in Views, g \in Gfns : ~Live(view'[j][g])
    <2>1. \A i \in Views : view[i] \in [Gfns -> Entries]
        BY DEF TablesTypeOK
    <2> QED BY <1>0, <2>1, FlushFacts
<1>2. TablesTypeOK'
    BY <1>0, <1>1, NoToolType DEF TablesTypeOK
<1>3. LockInv'
    BY <1>0 DEF LockInv
<1>4. ListInv'
    BY <1>0, <1>1 DEF ListInv, Live
<1>5. AnchorInv' /\ CurrentInv'
    BY <1>0, <1>1, LeftBehindKeeps DEF Live
<1> QED BY <1>2, <1>3, <1>4, <1>5

-----------------------------------------------------------------------------
(* The invariant *)

LEMMA NextTables == TablesInv /\ [TablesNext]_tvars => TablesInv'
<1> SUFFICES ASSUME TablesInv, [TablesNext]_tvars PROVE TablesInv'
    OBVIOUS
<1>1. CASE PropStep
    BY <1>1, PropStartKeeps, PropViewKeeps, PropAllKeeps, PropDoneKeeps DEF PropStep
<1>2. CASE BeginStep
    BY <1>2, SetAccessKeeps, ChangeGfnKeeps, ActivateKeeps, CreateKeeps, DestroyKeeps,
       DeactivateKeeps DEF BeginStep
<1>3. CASE ToolStep
    BY <1>3, PageWriteKeeps, PageWriteFailsKeeps, VcpuDestroyKeeps, FlushAllKeeps DEF ToolStep
<1>4. CASE UNCHANGED tvars
    BY <1>4 DEF TablesInv, TablesTypeOK, LockInv, ListInv, AnchorInv, CurrentInv, Anchored,
                Current, Pending, Live, Reach, tvars, tables
<1>5. CASE \E g \in Gfns, mfn \in Mfns \cup {None} : HostSet(g, mfn)
    BY <1>5, HostSetKeeps
<1>6. CASE \/ \E v \in VCPUs, i \in Views : Switch(v, i)
           \/ \E v \in VCPUs, g \in Gfns : Fault(v, g)
           \/ \E v \in VCPUs : LazyCopy(v) \/ LazyCopyFails(v)
    BY <1>6, SwitchKeeps, FaultKeeps, LazyCopyKeeps, LazyCopyFailsKeeps
<1> QED BY <1>1, <1>2, <1>3, <1>4, <1>5, <1>6 DEF TablesNext

\* Types, locks, the views in use, and that every live entry is anchored and
\* current: the invariant that carries the theorems below.
THEOREM TablesInvariant == TablesSpec => []TablesInv
<1>1. TablesInit => TablesInv
    BY InitTables
<1>2. TablesInv /\ [TablesNext]_tvars => TablesInv'
    BY NextTables
<1> QED BY <1>1, <1>2, PTL DEF TablesSpec

\* The variables keep their types: in particular no operation writes an entry
\* without a page, and the range of remapped gfns stays one of gfns.
THEOREM TablesTypeCorrect == TablesSpec => []TablesTypeOK
<1>1. TablesInv => TablesTypeOK
    BY DEF TablesInv
<1> QED BY <1>1, TablesInvariant, PTL

\* Between changes of the host p2m what the views map follows it: nothing that
\* p2m_altp2m_lazy_copy, p2m_set_altp2m_mem_access or p2m_change_altp2m_gfn
\* writes slips past p2m_altp2m_propagate_change.
THEOREM FollowsHost == TablesSpec => []ViewsFollowHost
<1>1. TablesInv => ViewsFollowHost
    <2> SUFFICES ASSUME TablesInv, altp2m_active, prop.step = "idle",
                        NEW i \in altp2m_eptp, NEW g \in Gfns,
                        view[i][g] # NoEntry, ~view[i][g].left
                 PROVE  LET e == view[i][g]
                        IN  /\ host[e.src] # None
                            /\ (~e.remap => e.src = g /\ e.mfn = host[g])
        BY DEF ViewsFollowHost
    <2>1. i \in Views
        BY DEF TablesInv, TablesTypeOK
    <2>2. Current(i, g, view[i][g]) /\ Anchored(remapped[i], g, view[i][g])
        BY <2>1 DEF TablesInv, CurrentInv, AnchorInv
    <2> QED BY <2>2 DEF Current, Anchored, Pending, Live
<1> QED BY <1>1, TablesInvariant, PTL

=============================================================================
