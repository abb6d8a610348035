------------------------------- MODULE PageView -------------------------------
(***************************************************************************)
(* What the event stream promises to the pages, whatever the snapshots,    *)
(* the channel, its lag and the reconnects do: every part of what a page   *)
(* shows is a state that part of the daemon really had, none is ever       *)
(* ahead of the daemon, and none goes back.  Nothing more is promised: not *)
(* that the parts belong to one moment, and not that a part that was       *)
(* missed is made good.  Module EventStream implements it.                 *)
(***************************************************************************)
EXTENDS Naturals

CONSTANTS
  Topics,   \* the parts of the state a page shows
  Pages     \* browser pages

VARIABLES
  value,    \* the daemon's state, topic by topic, as the number of its changes
  view      \* what each page shows of it, nothing at first

vars == <<value, view>>

Init ==
  /\ value \in [Topics -> Nat]
  /\ view = [p \in Pages |-> [t \in Topics |-> 0]]

\* The daemon changes a part of its state.
Change(t) ==
  /\ value' = [value EXCEPT ![t] = @ + 1]
  /\ UNCHANGED view

\* A page shows some parts as they were later than it showed them, or now.
Advance(p) ==
  /\ view' \in [Pages -> [Topics -> Nat]]
  /\ \A t \in Topics : view'[p][t] \in view[p][t] .. value[t]
  /\ \A q \in Pages \ {p} : view'[q] = view[q]
  /\ UNCHANGED value

Next == (\E t \in Topics : Change(t)) \/ (\E p \in Pages : Advance(p))

Spec == Init /\ [][Next]_vars
=============================================================================
