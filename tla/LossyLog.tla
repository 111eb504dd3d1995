------------------------------ MODULE LossyLog ------------------------------
(***************************************************************************)
(* What the trace buffers promise to a reader, per CPU: a log of events in *)
(* the order they were traced, which may lose events but says so.  As long *)
(* as tracing stays on, a record with the exact number of events lost      *)
(* stands between the last event before a loss and the first one after it. *)
(* When tracing is switched off the losses so far may be forgotten, and a  *)
(* call still under way may add to the next count.  Padding may stand      *)
(* anywhere.  Buffer sizes, positions, locks and interrupts do not appear. *)
(***************************************************************************)
EXTENDS Integers, Sequences

CONSTANTS Cpus, Events, NoEvent

VARIABLES on,      \* tracing is on
          log,     \* per CPU: items written and not yet read
          owed,    \* per CPU: losses the log must announce before it goes on
          missed   \* per CPU: losses it may announce, those owed among them

Items == [kind : {"event", "wrap", "lost"}, ev : Events \cup {NoEvent}, n : Nat]

Init == /\ on = FALSE
        /\ log = [c \in Cpus |-> <<>>]
        /\ owed = [c \in Cpus |-> 0]
        /\ missed = [c \in Cpus |-> 0]

Write(c, item) == log' = [log EXCEPT ![c] = Append(@, item)]

\* An event can be written only when every loss it is behind is announced.
Emit(c, e) ==
    /\ owed[c] = 0
    /\ Write(c, [kind |-> "event", ev |-> e, n |-> 0])
    /\ UNCHANGED <<on, owed, missed>>

Drop(c) ==
    /\ owed' = [owed EXCEPT ![c] = IF on THEN @ + 1 ELSE @]
    /\ missed' = [missed EXCEPT ![c] = @ + 1]
    /\ UNCHANGED <<on, log>>

\* Nothing owed is left out and nothing is announced twice.
Announce(c, n) ==
    /\ n > 0
    /\ owed[c] <= n /\ n <= missed[c]
    /\ Write(c, [kind |-> "lost", ev |-> NoEvent, n |-> n])
    /\ owed' = [owed EXCEPT ![c] = 0]
    /\ missed' = [missed EXCEPT ![c] = 0]
    /\ UNCHANGED on

Pad(c) ==
    /\ Write(c, [kind |-> "wrap", ev |-> NoEvent, n |-> 0])
    /\ UNCHANGED <<on, owed, missed>>

Deliver(c) ==
    /\ \E k \in 1 .. Len(log[c]) :
          log' = [log EXCEPT ![c] = SubSeq(@, k + 1, Len(@))]
    /\ UNCHANGED <<on, owed, missed>>

SwitchOn ==
    /\ on' = TRUE
    /\ UNCHANGED <<log, owed, missed>>

SwitchOff ==
    /\ on' = FALSE
    /\ owed' = [c \in Cpus |-> 0]
    /\ UNCHANGED <<log, missed>>

\* Losses are forgotten only while tracing is off.
Forget(c) ==
    /\ ~on
    /\ missed' = [missed EXCEPT ![c] = 0]
    /\ UNCHANGED <<on, log, owed>>

Next == \/ SwitchOn
        \/ SwitchOff
        \/ \E c \in Cpus :
              \/ \E e \in Events : Emit(c, e)
              \/ Drop(c)
              \/ \E n \in 1 .. missed[c] : Announce(c, n)
              \/ Pad(c)
              \/ Deliver(c)
              \/ Forget(c)

Spec == Init /\ [][Next]_<<on, log, owed, missed>>
=============================================================================
