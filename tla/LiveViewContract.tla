--------------------------- MODULE LiveViewContract ---------------------------
(***************************************************************************)
(* What the live view of the factory promises to the operator              *)
(* (docs/changes/improve-ux-cp4-pause-live-updates.md): a page shows what  *)
(* the backend had at some time, and nothing of it changes while the       *)
(* operator has paused the updates.  No sockets, snapshots or buffers: a   *)
(* step may show any past values.                                          *)
(***************************************************************************)
EXTENDS Naturals, Sequences

CONSTANTS
    Keys,           \* robots, tasks, KPI figures and alerts of the factory
    Reset           \* an event that replaces the value of every key

VARIABLES
    log,            \* every change of the factory, in order
    view,           \* view[k]: the change whose value of k the page shows
    frozen          \* the operator sees the data and has paused it

vars == <<log, view, frozen>>

(* The changes that gave k a value; 0 is "no value yet".                   *)
Past(k) == {0} \cup {i \in 1..Len(log) : log[i] \in {k, Reset}}

Init ==
    /\ log = <<>>
    /\ view = [k \in Keys |-> 0]
    /\ frozen = FALSE

Change(k) ==
    /\ log' = Append(log, k)
    /\ UNCHANGED <<view, frozen>>

(* Older values are allowed: a snapshot may be ahead of the events.        *)
Show ==
    /\ view' \in [Keys -> 0..Len(log)]
    /\ \A k \in Keys : view'[k] \in Past(k)
    /\ frozen' \in BOOLEAN
    /\ frozen /\ frozen' => view' = view
    /\ UNCHANGED log

Next == Show \/ \E k \in Keys \cup {Reset} : Change(k)

Spec == Init /\ [][Next]_vars
=============================================================================
