------------------------------ MODULE Delivery ------------------------------
(***************************************************************************)
(* What the tables and the BBMDs make of a broadcast, whatever datagrams   *)
(* carry it and in whatever order they arrive: it is sent once, with a set *)
(* of nodes it is owed to; a node hears it only while it is under way,     *)
(* never its own, and, unless it is Noisy, no more often than Most allows; *)
(* it is not over before all it is owed to have heard it, and is never     *)
(* under way again.                                                        *)
(* Only a fault releases a debt.  Module BipNetwork implements it.         *)
(***************************************************************************)
EXTENDS Naturals

CONSTANTS
  Nodes, Ids,
  Once,        \* the nodes that hear a broadcast once at most
  Noisy,       \* the nodes that may hear it any number of times
  Nobody,      \* no sender yet
  MaxFaults,
  MaxCount     \* bound: how far it is counted what a node hears

VARIABLES
  sender,      \* who sent each broadcast
  heard,       \* how often each node heard each broadcast
  owed,        \* who has yet to hear it
  open,        \* the broadcasts under way
  faults

vars == <<sender, heard, owed, open, faults>>

Most(n) == IF n \in Once THEN 1 ELSE 2

Init ==
  /\ sender = [i \in Ids |-> Nobody]
  /\ heard = [n \in Nodes |-> [i \in Ids |-> 0]]
  /\ owed = [i \in Ids |-> {}]
  /\ open = {}
  /\ faults = 0

\* A broadcast that reaches nobody is owed to nobody.
Send(n, i) ==
  /\ sender[i] = Nobody
  /\ sender' = [sender EXCEPT ![i] = n]
  /\ owed' \in [Ids -> SUBSET Nodes] /\ n \notin owed'[i]
  /\ \A j \in Ids \ {i} : owed'[j] = owed[j]
  /\ open' = open \cup {i} \/ (owed'[i] = {} /\ UNCHANGED open)
  /\ UNCHANGED <<heard, faults>>

\* Broadcast i is over, and was heard by all it is owed to.
MayClose(i) == open' = open \/ (owed'[i] = {} /\ open' = open \ {i})

Hear(n, i) ==
  /\ i \in open /\ n # sender[i] /\ (n \in Noisy \/ heard[n][i] < Most(n))
  /\ heard' = [heard EXCEPT ![n][i] = IF @ < MaxCount THEN @ + 1 ELSE @]
  /\ owed' = [owed EXCEPT ![i] = @ \ {n}]
  /\ MayClose(i)
  /\ UNCHANGED <<sender, faults>>

\* The last that was under way of a broadcast is of no use to its receiver.
Close(i) ==
  /\ MayClose(i)
  /\ UNCHANGED <<sender, heard, owed, faults>>

\* A fault releases the debts of broadcasts under way; of these some may end.
Disturb(I) ==
  /\ faults < MaxFaults /\ faults' = faults + 1
  /\ owed' = [i \in Ids |-> IF i \in I THEN {} ELSE owed[i]]
  /\ open \ I \subseteq open' /\ open' \subseteq open
  /\ UNCHANGED <<sender, heard>>

Next ==
  \/ \E n \in Nodes, i \in Ids : Send(n, i) \/ Hear(n, i)
  \/ \E i \in open : Close(i)
  \/ \E I \in SUBSET open : Disturb(I)

Spec == Init /\ [][Next]_vars
=============================================================================
