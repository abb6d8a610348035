----------------------------- MODULE BipNetwork -----------------------------
(***************************************************************************)
(* Broadcasts over several IP subnets: BACnet/IP nodes (bip/mod.rs), the   *)
(* BBMDs among them with their two tables (bbmd.rs), and the foreign       *)
(* devices registered with one, connected by UDP.  Every datagram that     *)
(* arrives is handled to its end by the node's receive task (bip/io.rs),   *)
(* which is alone in changing the tables, so a handler is one step.        *)
(*                                                                         *)
(* Abstractions: a broadcast is a number; a broadcast on a subnet is a     *)
(* datagram for each node there; datagrams may be lost and overtake each   *)
(* other; time is only that an entry of a foreign-device table may expire; *)
(* results sent back to the asker change nothing here (only the slot of a  *)
(* management request, which is not of this module).  `heard' counts what  *)
(* is offered to the network layer, which drops what its channel has no    *)
(* room for.                                                               *)
(***************************************************************************)
EXTENDS Naturals, FiniteSets

CONSTANTS
  Nodes, Subnets,
  Home,        \* the subnet of each node
  Bbmds,       \* the nodes that enable_bbmd
  InitialBdt,  \* the table each BBMD is configured with
  Tables,      \* the tables an operator may write
  Foreign,     \* the nodes that register_as_foreign_device
  Registrar,   \* where each registers
  Echoing,     \* the nodes whose socket receives their own broadcasts
  Nobody,      \* no sender yet
  MaxBdt,      \* MAX_BDT_ENTRIES
  MaxFdt,      \* MAX_FDT_ENTRIES
  MaxSends,    \* bound: broadcasts of applications
  MaxFaults,   \* bound: lost datagrams, restarts and interventions
  MaxCount     \* bound: how far copies and hops are counted

(* An entry of a broadcast distribution table: a BBMD, and whether its mask *)
(* makes the target the directed broadcast address of its subnet.          *)
Entries == [node : Bbmds, wide : BOOLEAN]

\* One entry for each BBMD at most.
IsTable(T) == T \subseteq Entries /\ \A e, f \in T : e.node = f.node => e = f

ASSUME NetworkAssumption ==
  /\ IsFiniteSet(Nodes)
  /\ Bbmds \subseteq Nodes /\ Foreign \subseteq Nodes \ Bbmds /\ Echoing \subseteq Nodes
  /\ Home \in [Nodes -> Subnets]
  /\ \A b, c \in Bbmds : Home[b] = Home[c] => b = c
  /\ \A f \in Foreign, b \in Bbmds : Home[f] # Home[b]
  /\ Registrar \in [Foreign -> Bbmds]
  /\ \A b \in Bbmds : IsTable(InitialBdt[b]) /\ Cardinality(InitialBdt[b]) <= MaxBdt
  /\ \A T \in Tables : IsTable(T)
  /\ Nobody \notin Nodes
  /\ MaxBdt \in Nat /\ MaxFdt \in Nat /\ MaxSends \in Nat /\ MaxFaults \in Nat
  /\ MaxCount \in Nat /\ MaxCount >= 3

Ids == 1..MaxSends

VARIABLES
  bdt,      \* the broadcast distribution table of each BBMD
  file,     \* the table on disk, as a set of one, or {} if there is none
  fdt,      \* the nodes in the foreign-device table of each BBMD
  stale,    \* those of them whose time to live and grace period are over
  net,      \* datagrams in flight
  sender,   \* who sent each broadcast
  heard,    \* how often each node was handed each broadcast
  due,      \* history: who must hear each broadcast, unless disturbed
  faults    \* faults so far

vars == <<bdt, file, fdt, stale, net, sender, heard, due, faults>>

tables == <<bdt, file, fdt, stale>>

-----------------------------------------------------------------------------
(* The tables.                                                             *)

\* ensure_self_in_bdt.
WithSelf(b, T) ==
  IF \E e \in T : e.node = b THEN T ELSE T \cup {[node |-> b, wide |-> FALSE]}

\* start: a table on disk that decodes replaces the configured one.
Loaded(b) ==
  IF \E T \in file[b] : Cardinality(T) <= MaxBdt
  THEN WithSelf(b, UNION file[b]) ELSE WithSelf(b, InitialBdt[b])

\* is_bdt_peer: the BBMD's own entry counts.
IsPeer(b, n) == \E e \in bdt[b] : e.node = n

\* What is left of the foreign-device table after purge_expired.
Live(b) == fdt[b] \ stale[b]

SubnetOf(n) == {m \in Nodes : Home[m] = Home[n]}

\* Whom a broadcast of n on its subnet reaches.
LocalTo(n) == SubnetOf(n) \ (IF n \in Echoing THEN {} ELSE {n})

Whom(e) == IF e.wide THEN SubnetOf(e.node) ELSE {e.node}

\* The first half of forwarding_targets.
Peers(b, source) ==
  UNION {Whom(e) : e \in {x \in bdt[b] : x.node \notin {b, source}}}

\* The second half, and all that a Forwarded-NPDU is forwarded to.
ForeignTargets(b, source) == Live(b) \ {source}

\* The BBMD through which a node hears what comes from other subnets.
Serves(b, n) == b \in Bbmds /\ IF n \in Foreign THEN b = Registrar[n] ELSE Home[b] = Home[n]

-----------------------------------------------------------------------------
(* Datagrams.  `hops' counts the BBMDs a broadcast has passed; the wire    *)
(* does not carry it.                                                      *)

Datagrams ==
  [fn : {"OriginalBroadcast", "Forwarded", "Distribute", "Register"},
   to : Nodes, from : Nodes, origin : Nodes, id : Ids \cup {0}, hops : Nat]

\* One more, as far as is counted.
Count(k) == IF k < MaxCount THEN k + 1 ELSE k

Original(n, id, receivers) ==
  {[fn |-> "OriginalBroadcast", to |-> m, from |-> n, origin |-> n, id |-> id, hops |-> 0]
     : m \in receivers}

\* Forwarded-NPDUs of BBMD b for what it received as d.
Forwarded(b, d, receivers) ==
  {[fn |-> "Forwarded", to |-> m, from |-> b, origin |-> d.origin, id |-> d.id,
    hops |-> Count(d.hops)] : m \in receivers}

Init ==
  /\ file = [b \in Bbmds |-> {}]
  /\ bdt = [b \in Bbmds |-> WithSelf(b, InitialBdt[b])]
  /\ fdt = [b \in Bbmds |-> {}] /\ stale = [b \in Bbmds |-> {}]
  /\ net = {}
  /\ sender = [i \in Ids |-> Nobody]
  /\ heard = [n \in Nodes |-> [i \in Ids |-> 0]]
  /\ due = [i \in Ids |-> {}]
  /\ faults = 0

-----------------------------------------------------------------------------
(* Sending.                                                                *)

\* The BBMD that takes a broadcast of n to the other subnets, if there is
\* one: where n is registered, or on its subnet.  A BBMD is not its own.
Relays(n) ==
  {b \in Bbmds \ {n} : IF n \in Foreign THEN b = Registrar[n] /\ n \in Live(b)
                       ELSE Home[b] = Home[n]}

\* Those who hear what BBMD b forwards for entry e: the subnet of the peer
\* and its foreign devices if it lists b in turn, otherwise those whom the
\* directed broadcast reaches without its help.
ServedFrom(b, e) ==
  IF IsPeer(e.node, b) THEN SubnetOf(e.node) \cup Live(e.node) ELSE Whom(e) \ {e.node}

\* Those the tables promise a broadcast of n to; a BBMD's own broadcast, which
\* send_broadcast puts on its subnet and nowhere else, its subnet only.
Promised(n) ==
  ((IF n \in Foreign THEN {} ELSE SubnetOf(n))
   \cup UNION {SubnetOf(b) \cup Live(b)
               \cup UNION {ServedFrom(b, e) : e \in {x \in bdt[b] : x.node # b}}
                 : b \in Relays(n)}) \ {n}

\* send_broadcast: a foreign device asks its BBMD to distribute, any other
\* node broadcasts on its subnet.
SendBroadcast(n) ==
  \E i \in Ids :
    /\ sender[i] = Nobody /\ \A k \in Ids : k < i => sender[k] # Nobody
    /\ sender' = [sender EXCEPT ![i] = n]
    /\ net' = net \cup
         IF n \in Foreign
         THEN {[fn |-> "Distribute", to |-> Registrar[n], from |-> n, origin |-> n,
                id |-> i, hops |-> 0]}
         ELSE Original(n, i, LocalTo(n))
    /\ due' = [due EXCEPT ![i] = Promised(n)]
    /\ UNCHANGED <<tables, heard, faults>>

\* The registration task, at the start and at every tick.
SendRegister(n) ==
  /\ net' = net \cup {[fn |-> "Register", to |-> Registrar[n], from |-> n, origin |-> n,
                       id |-> 0, hops |-> 0]}
  /\ net' # net
  /\ UNCHANGED <<tables, sender, heard, due, faults>>

-----------------------------------------------------------------------------
(* Receiving: handle_bvll_message, function by function.                   *)

Hand(d) == heard' = [heard EXCEPT ![d.to][d.id] = Count(@)]

Drop(d) == net' = net \ {d} /\ UNCHANGED <<fdt, stale, heard>>

Purge(b) ==
  /\ fdt' = [fdt EXCEPT ![b] = Live(b)]
  /\ stale' = [stale EXCEPT ![b] = {}]

\* Faulty: nothing is broadcast on the BBMD's own subnet.
RelayNotLocally(b, d, receivers) ==
  /\ Hand(d)
  /\ Purge(b)
  /\ net' = (net \ {d}) \cup Forwarded(b, d, receivers)

\* A BBMD hands a broadcast up, forwards it and broadcasts it on its own
\* subnet, as Forwarded-NPDU.
Relay(b, d, receivers) ==
  /\ Hand(d)
  /\ Purge(b)
  /\ net' = (net \ {d}) \cup Forwarded(b, d, receivers \cup LocalTo(b))

\* A node that is no BBMD hands the broadcast up.
HandUp(d) ==
  /\ Hand(d)
  /\ net' = net \ {d}
  /\ UNCHANGED <<fdt, stale>>

\* Faulty: what a neighbour sends is not taken to the peers.
ReceiveOriginalHere(d) ==
  /\ d.fn = "OriginalBroadcast"
  /\ IF d.from = d.to THEN Drop(d)
     ELSE IF d.to \in Bbmds THEN Relay(d.to, d, ForeignTargets(d.to, d.from))
     ELSE HandUp(d)

ReceiveOriginal(d) ==
  /\ d.fn = "OriginalBroadcast"
  /\ IF d.from = d.to THEN Drop(d)
     ELSE IF d.to \in Bbmds
     THEN Relay(d.to, d, Peers(d.to, d.from) \cup ForeignTargets(d.to, d.from))
     ELSE HandUp(d)

\* Faulty: what was forwarded is forwarded to the peers again.
ReceiveForwardedAndPassOn(d) ==
  /\ d.fn = "Forwarded"
  /\ IF d.origin = d.to THEN Drop(d)
     ELSE IF d.to \in Bbmds
     THEN IF IsPeer(d.to, d.from)
          THEN Relay(d.to, d, Peers(d.to, d.from) \cup ForeignTargets(d.to, d.origin))
          ELSE Drop(d)
     ELSE HandUp(d)

\* Faulty: the originator of the broadcast is not recognised.
ReceiveForwardedOwn(d) ==
  /\ d.fn = "Forwarded"
  /\ IF d.to \in Bbmds
     THEN IF IsPeer(d.to, d.from)
          THEN Relay(d.to, d, ForeignTargets(d.to, d.origin)) ELSE Drop(d)
     ELSE HandUp(d)

\* A BBMD takes it from its peers only, and does not forward it to them; from
\* itself, too, if it hears its own broadcasts, since it is its own peer.
ReceiveForwarded(d) ==
  /\ d.fn = "Forwarded"
  /\ IF d.origin = d.to THEN Drop(d)
     ELSE IF d.to \in Bbmds
     THEN IF IsPeer(d.to, d.from)
          THEN Relay(d.to, d, ForeignTargets(d.to, d.origin)) ELSE Drop(d)
     ELSE HandUp(d)

\* From a registered foreign device only.
ReceiveDistribute(d) ==
  /\ d.fn = "Distribute"
  /\ IF d.from \in Live(d.to)
     THEN Relay(d.to, d, Peers(d.to, d.from) \cup ForeignTargets(d.to, d.from))
     ELSE Purge(d.to) /\ net' = net \ {d} /\ UNCHANGED heard

\* Faulty: the table takes one entry too many.
ReceiveRegisterLate(d) ==
  /\ d.fn = "Register"
  /\ net' = net \ {d}
  /\ IF d.from \in fdt[d.to] \/ Cardinality(fdt[d.to]) <= MaxFdt
     THEN /\ fdt' = [fdt EXCEPT ![d.to] = @ \cup {d.from}]
          /\ stale' = [stale EXCEPT ![d.to] = @ \ {d.from}]
     ELSE UNCHANGED <<fdt, stale>>
  /\ UNCHANGED heard

\* register_foreign_device: nothing is purged to make room.
ReceiveRegister(d) ==
  /\ d.fn = "Register"
  /\ net' = net \ {d}
  /\ IF d.from \in fdt[d.to] \/ Cardinality(fdt[d.to]) < MaxFdt
     THEN /\ fdt' = [fdt EXCEPT ![d.to] = @ \cup {d.from}]
          /\ stale' = [stale EXCEPT ![d.to] = @ \ {d.from}]
     ELSE UNCHANGED <<fdt, stale>>
  /\ UNCHANGED heard

Receive(d) ==
  /\ ReceiveOriginal(d) \/ ReceiveForwarded(d) \/ ReceiveDistribute(d) \/ ReceiveRegister(d)
  /\ UNCHANGED <<bdt, file, sender, due, faults>>

-----------------------------------------------------------------------------
(* What may go wrong, and what an operator may do.  No promise is kept for *)
(* a broadcast that is under way.                                          *)

InFlight(i) == \E d \in net : d.id = i

Disturbed == due' = [i \in Ids |-> IF InFlight(i) THEN {} ELSE due[i]]

Fault == faults < MaxFaults /\ faults' = faults + 1

Lose(d) ==
  /\ Fault
  /\ net' = net \ {d}
  /\ due' = [due EXCEPT ![d.id] = {}]
  /\ UNCHANGED <<tables, sender, heard>>

\* is_expired becomes true of an entry: no registration came for its time
\* to live and the grace period.
Expire(b, n) ==
  /\ Fault
  /\ n \in Live(b)
  /\ stale' = [stale EXCEPT ![b] = @ \cup {n}]
  /\ Disturbed
  /\ UNCHANGED <<bdt, file, fdt, net, sender, heard>>

\* Delete-Foreign-Device-Table-Entry, and Read-Foreign-Device-Table, which
\* purges.
DeleteEntry(b, n) ==
  /\ Fault
  /\ n \in fdt[b]
  /\ fdt' = [fdt EXCEPT ![b] = @ \ {n}] /\ stale' = [stale EXCEPT ![b] = @ \ {n}]
  /\ Disturbed
  /\ UNCHANGED <<bdt, file, net, sender, heard>>

ReadFdt(b) ==
  /\ stale[b] # {}
  /\ Purge(b)
  /\ UNCHANGED <<bdt, file, net, sender, heard, due, faults>>

\* Write-Broadcast-Distribution-Table by one whom the access list allows:
\* too long a table is refused.  A failure to persist it is only logged, and
\* leaves the old file or, truncated and not written, an empty one, which
\* decodes to a table of no entries.
WriteBdt(b, T) ==
  /\ Fault
  /\ Cardinality(T) <= MaxBdt
  /\ bdt' = [bdt EXCEPT ![b] = WithSelf(b, T)]
  /\ \E written \in {file[b], {{}}, {bdt'[b]}} : file' = [file EXCEPT ![b] = written]
  /\ Disturbed
  /\ UNCHANGED <<fdt, stale, net, sender, heard>>

\* Faulty: the table on disk is not looked at.
RestartConfigured(b) ==
  /\ Fault
  /\ bdt' = [bdt EXCEPT ![b] = WithSelf(b, InitialBdt[b])]
  /\ fdt' = [fdt EXCEPT ![b] = {}] /\ stale' = [stale EXCEPT ![b] = {}]
  /\ net' = {d \in net : d.to # b}
  /\ Disturbed
  /\ UNCHANGED <<file, sender, heard>>

\* The process of a BBMD stops, losing what it was sent, and starts again.
Restart(b) ==
  /\ Fault
  /\ bdt' = [bdt EXCEPT ![b] = Loaded(b)]
  /\ fdt' = [fdt EXCEPT ![b] = {}] /\ stale' = [stale EXCEPT ![b] = {}]
  /\ net' = {d \in net : d.to # b}
  /\ Disturbed
  /\ UNCHANGED <<file, sender, heard>>

\* stop and start of the same transport: what arrives meanwhile is lost, the
\* tables are kept, since `bbmd_config' is taken only once.
Reopen(b) ==
  /\ Fault
  /\ net' = {d \in net : d.to # b}
  /\ Disturbed
  /\ UNCHANGED <<tables, sender, heard>>

-----------------------------------------------------------------------------

Next ==
  \/ \E n \in Nodes : SendBroadcast(n)
  \/ \E n \in Foreign : SendRegister(n)
  \/ \E d \in net : Receive(d) \/ (d.id # 0 /\ Lose(d))
  \/ \E b \in Bbmds : \/ \E n \in Foreign : Expire(b, n) \/ DeleteEntry(b, n)
                      \/ ReadFdt(b)
                      \/ \E T \in Tables : WriteBdt(b, T)
                      \/ Restart(b) \/ Reopen(b)

Spec == Init /\ [][Next]_vars

-----------------------------------------------------------------------------
(* Properties.                                                             *)

\* The type invariant, with the limits of the tables.
TypeOK ==
  /\ bdt \in [Bbmds -> SUBSET Entries]
  /\ \A b \in Bbmds : file[b] \subseteq SUBSET Entries /\ Cardinality(file[b]) <= 1
  /\ fdt \in [Bbmds -> SUBSET Foreign] /\ stale \in [Bbmds -> SUBSET Foreign]
  /\ \A b \in Bbmds : /\ Cardinality(bdt[b]) <= MaxBdt + 1
                      /\ stale[b] \subseteq fdt[b] /\ Cardinality(fdt[b]) <= MaxFdt
  /\ net \subseteq Datagrams
  /\ sender \in [Ids -> Nodes \cup {Nobody}]
  /\ heard \in [Nodes -> [Ids -> Nat]]
  /\ due \in [Ids -> SUBSET Nodes]
  /\ faults \in 0..MaxFaults

\* A datagram of broadcast i is on its way from one node to another.
Spreading(i) == \E d \in net : d.id = i /\ d.to # d.from

\* When no datagram of a broadcast is on its way to another node, everyone to
\* whom the tables promised it has heard it.  The broadcast of a node that is
\* no BBMD is promised to its own subnet, to the subnet of the BBMD that takes
\* it further, to every subnet whose BBMD lists that one and is listed by it,
\* and to the foreign devices registered with these; a BBMD's own, to its own
\* subnet only.
AllHear ==
  \A i \in Ids : ~Spreading(i) => \A n \in due[i] : heard[n][i] > 0

\* The nodes served by a BBMD that hears its own broadcasts, itself included:
\* it takes each for one of a peer and repeats it to them, without end.
Noisy == {n \in Nodes : \E b \in Bbmds \cap Echoing : Serves(b, n)}

\* Nobody hears its own broadcast.  BBMDs and foreign devices hear one once at
\* most, other nodes twice at most (from a neighbour, or by directed broadcast,
\* and from their BBMD), unless the BBMD that serves them hears itself.
CopiesBounded ==
  \A n \in Nodes, i \in Ids :
    IF n = sender[i] THEN heard[n][i] = 0
    ELSE n \in Noisy \/ heard[n][i] <= IF n \in Bbmds \cup Foreign THEN 1 ELSE 2

\* Who must hear each broadcast and has not, and the broadcasts under way.
Owed == [i \in Ids |-> {n \in due[i] : heard[n][i] = 0}]

Open == {i \in Ids : InFlight(i)}

Abs == INSTANCE Delivery WITH
         Nodes <- Nodes, Ids <- Ids, Once <- Bbmds \cup Foreign, Noisy <- Noisy,
         Nobody <- Nobody, MaxFaults <- MaxFaults, MaxCount <- MaxCount,
         sender <- sender, heard <- heard, owed <- Owed, open <- Open, faults <- faults

\* The tables and the datagrams unseen, a broadcast is heard only while it is
\* under way, and is over only when all it is owed to have heard it.
ImplementsDelivery == Abs!Spec

\* A broadcast passes two BBMDs at most, except that one that hears its own
\* broadcasts repeats it; what it repeats goes to those it serves, so to no
\* other BBMD, and to no subnet but its own.
EchoesStayHome ==
  \A d \in net : d.hops <= 2 \/ (d.from \in Echoing /\ Serves(d.from, d.to))

\* The intent of handle_bvll_message: what was forwarded comes from another
\* BBMD and is not forwarded to BBMDs again, so a broadcast passes two at most.
ForwardingEnds == \A d \in net : d.hops <= 2

\* A restarted BBMD has the table that was in force, unless persisting it
\* failed or adding its own entry made it too long to be read back.
RestartKeepsTable ==
  [][ \A b \in Bbmds : Restart(b) =>
        \/ bdt'[b] = bdt[b]
        \/ file[b] # {bdt[b]} \/ Cardinality(bdt[b]) > MaxBdt ]_vars
=============================================================================
