-------------------------- MODULE BipNetworkProofs --------------------------
(***************************************************************************)
(* Proofs about module BipNetwork, for every internetwork that             *)
(* NetworkAssumption allows, whichever sockets hear their own broadcasts,  *)
(* every table written into it and any number of broadcasts and faults:    *)
(* what a BBMD that hears itself repeats stays among those it serves, a    *)
(* broadcast passes two BBMDs otherwise and nobody else hears it too       *)
(* often; everyone to whom it is promised hears it before it is over; the  *)
(* tables keep their limits and survive a restart.  The network implements *)
(* Delivery.                                                               *)
(***************************************************************************)
EXTENDS BipNetwork, FiniteSetTheorems, TLAPS

\* The variables that decide where datagrams go, typed.
NetType ==
  /\ bdt \in [Bbmds -> SUBSET Entries]
  /\ fdt \in [Bbmds -> SUBSET Foreign]
  /\ net \subseteq Datagrams

-----------------------------------------------------------------------------

\* A subnet is a set of nodes.
LEMMA SubnetType == \A n \in Nodes : SubnetOf(n) \subseteq Nodes /\ LocalTo(n) \subseteq Nodes
BY DEF SubnetOf, LocalTo

\* An entry names a BBMD.
LEMMA EntryType == \A e \in Entries : e.node \in Bbmds /\ e.wide \in BOOLEAN
BY DEF Entries

\* ensure_self_in_bdt makes a table of a table.
LEMMA SelfType ==
  ASSUME NEW b \in Bbmds, NEW T \in SUBSET Entries
  PROVE  WithSelf(b, T) \subseteq Entries
<1>1. [node |-> b, wide |-> FALSE] \in Entries
  BY DEF Entries
<1> QED BY <1>1 DEF WithSelf

\* What is forwarded goes to nodes and to foreign devices.
LEMMA TargetsType ==
  ASSUME NetType, NEW b \in Bbmds, NEW source \in Nodes
  PROVE  /\ Peers(b, source) \subseteq Nodes
         /\ ForeignTargets(b, source) \subseteq Foreign
<1>1. ForeignTargets(b, source) \subseteq Foreign
  BY DEF NetType, ForeignTargets, Live
<1>2. ASSUME NEW e \in Entries PROVE Whom(e) \subseteq Nodes
  BY EntryType, SubnetType, NetworkAssumption DEF Whom
<1>3. bdt[b] \subseteq Entries
  BY DEF NetType
<1>4. Peers(b, source) \subseteq Nodes
  BY <1>2, <1>3 DEF Peers
<1> QED BY <1>1, <1>4

\* Counting goes up, and is exact where it matters.
LEMMA CountFacts ==
  ASSUME NEW k \in Nat
  PROVE  /\ Count(k) \in Nat /\ Count(k) >= k /\ Count(k) > 0
         /\ k <= 2 => Count(k) = k + 1
         /\ Count(k) <= 2 => Count(k) = k + 1
BY NetworkAssumption DEF Count

-----------------------------------------------------------------------------
(* The type invariant, and the table after a restart.                      *)

\* What a BBMD reads back when it starts is a table.
FileInv == file \in [Bbmds -> SUBSET SUBSET Entries]

\* Tables are sets of entries in which the BBMD itself is listed, no longer
\* than one written and its own entry; there is one file at most.
TablesInv ==
  /\ FileInv
  /\ \A b \in Bbmds : file[b] = {} \/ \E T \in SUBSET Entries : file[b] = {T}
  /\ bdt \in [Bbmds -> SUBSET Entries]
  /\ \A b \in Bbmds : Cardinality(bdt[b]) <= MaxBdt + 1 /\ \E e \in bdt[b] : e.node = b

\* Foreign-device tables, of which some entries are stale, within their limit.
FdtInv ==
  /\ fdt \in [Bbmds -> SUBSET Foreign] /\ stale \in [Bbmds -> SUBSET Foreign]
  /\ \A b \in Bbmds : stale[b] \subseteq fdt[b] /\ Cardinality(fdt[b]) <= MaxFdt

\* Only foreign devices ask, and they ask BBMDs.
AskedInv ==
  /\ net \subseteq Datagrams
  /\ \A d \in net : d.fn \in {"Distribute", "Register"} => d.to \in Bbmds /\ d.from \in Foreign

HistoryInv ==
  /\ sender \in [Ids -> Nodes \cup {Nobody}]
  /\ heard \in [Nodes -> [Ids -> Nat]]
  /\ due \in [Ids -> SUBSET Nodes]
  /\ faults \in 0..MaxFaults

TypeInv == TablesInv /\ FdtInv /\ AskedInv /\ HistoryInv

\* There are finitely many entries, so tables can be counted.
LEMMA EntriesFinite == IsFiniteSet(Entries)
<1> DEFINE f == [p \in Bbmds \X BOOLEAN |-> [node |-> p[1], wide |-> p[2]]]
<1>1. IsFiniteSet(BOOLEAN)
  <2>1. BOOLEAN = {TRUE} \cup {FALSE}
    OBVIOUS
  <2>2. IsFiniteSet({TRUE})
    BY FS_Singleton
  <2>3. IsFiniteSet({TRUE} \cup {FALSE})
    BY <2>2, FS_AddElement
  <2> QED BY <2>1, <2>3, Zenon
<1>2. IsFiniteSet(Bbmds)
  BY FS_Subset, NetworkAssumption
<1>3. IsFiniteSet(Bbmds \X BOOLEAN)
  BY <1>1, <1>2, FS_Product
<1>4. f \in [Bbmds \X BOOLEAN -> Entries]
  BY DEF Entries
<1>5. ASSUME NEW e \in Entries PROVE \E p \in Bbmds \X BOOLEAN : f[p] = e
  <2>1. e.node \in Bbmds /\ e.wide \in BOOLEAN /\ e = [node |-> e.node, wide |-> e.wide]
    BY DEF Entries
  <2>2. <<e.node, e.wide>> \in Bbmds \X BOOLEAN
    BY <2>1
  <2>3. f[<<e.node, e.wide>>] = [node |-> e.node, wide |-> e.wide]
    BY <2>2
  <2> QED BY <2>1, <2>2, <2>3
<1>6. f \in Surjection(Bbmds \X BOOLEAN, Entries)
  BY <1>4, <1>5 DEF Surjection
<1> QED BY <1>3, <1>6, FS_Surjection

\* ensure_self_in_bdt adds one entry at most, and none to a table that has it.
LEMMA SelfAdded ==
  ASSUME NEW b \in Bbmds, NEW T \in SUBSET Entries
  PROVE  /\ Cardinality(T) <= MaxBdt => Cardinality(WithSelf(b, T)) <= MaxBdt + 1
         /\ \E e \in WithSelf(b, T) : e.node = b
         /\ (\E e \in T : e.node = b) => WithSelf(b, T) = T
<1>1. IsFiniteSet(T) /\ Cardinality(T) \in Nat
  BY EntriesFinite, FS_Subset, FS_CardinalityType
<1>2. /\ Cardinality(T \cup {[node |-> b, wide |-> FALSE]}) \in {Cardinality(T), Cardinality(T) + 1}
  BY <1>1, FS_AddElement
<1>3. MaxBdt \in Nat
  BY NetworkAssumption
<1>4. WithSelf(b, T) \in {T, T \cup {[node |-> b, wide |-> FALSE]}}
  BY DEF WithSelf
<1>5. Cardinality(WithSelf(b, T)) \in {Cardinality(T), Cardinality(T) + 1}
  BY <1>2, <1>4, Zenon
<1>6. Cardinality(T) <= MaxBdt => Cardinality(WithSelf(b, T)) <= MaxBdt + 1
  BY <1>1, <1>3, <1>5
<1>7. \E e \in WithSelf(b, T) : e.node = b
  <2>1. CASE \E e \in T : e.node = b
    BY <2>1 DEF WithSelf
  <2>2. CASE ~ \E e \in T : e.node = b
    <3>1. [node |-> b, wide |-> FALSE] \in WithSelf(b, T)
      BY <2>2 DEF WithSelf
    <3>2. [node |-> b, wide |-> FALSE].node = b
      OBVIOUS
    <3> QED BY <3>1, <3>2, Zenon
  <2> QED BY <2>1, <2>2
<1>8. (\E e \in T : e.node = b) => WithSelf(b, T) = T
  BY DEF WithSelf
<1> QED BY <1>6, <1>7, <1>8

\* A BBMD starts with the table on disk if there is one that fits, otherwise
\* with the one it is configured with.
LEMMA LoadedType ==
  ASSUME TablesInv, NEW b \in Bbmds
  PROVE  /\ Loaded(b) \subseteq Entries
         /\ Cardinality(Loaded(b)) <= MaxBdt + 1
         /\ \E e \in Loaded(b) : e.node = b
         /\ file[b] = {bdt[b]} /\ Cardinality(bdt[b]) <= MaxBdt => Loaded(b) = bdt[b]
<1>1. InitialBdt[b] \in SUBSET Entries /\ Cardinality(InitialBdt[b]) <= MaxBdt
  BY NetworkAssumption DEF IsTable
<1>2. CASE \E T \in file[b] : Cardinality(T) <= MaxBdt
  <2>1. PICK T \in SUBSET Entries : file[b] = {T} /\ Cardinality(T) <= MaxBdt
    BY <1>2 DEF TablesInv
  <2>2. Loaded(b) = WithSelf(b, T)
    BY <1>2, <2>1 DEF Loaded
  <2>3. file[b] = {bdt[b]} => T = bdt[b]
    BY <2>1
  <2>4. \E e \in bdt[b] : e.node = b
    BY DEF TablesInv
  <2> QED BY <2>1, <2>2, <2>3, <2>4, SelfAdded, SelfType
<1>3. CASE ~ \E T \in file[b] : Cardinality(T) <= MaxBdt
  <2>1. Loaded(b) = WithSelf(b, InitialBdt[b])
    BY <1>3 DEF Loaded
  <2>2. ~(file[b] = {bdt[b]} /\ Cardinality(bdt[b]) <= MaxBdt)
    BY <1>3
  <2> QED BY <1>1, <2>1, <2>2, SelfAdded, SelfType
<1> QED BY <1>2, <1>3

\* Tables and files change when a table is written and when a BBMD restarts.
LEMMA TablesStep ==
  ASSUME TablesInv, [Next]_vars
  PROVE  TablesInv'
<1>0. bdt \in [Bbmds -> SUBSET Entries] /\ file \in [Bbmds -> SUBSET SUBSET Entries]
  BY DEF TablesInv, FileInv
<1>1. CASE UNCHANGED <<bdt, file>>
  BY <1>1 DEF TablesInv, FileInv
<1>2. CASE \E b \in Bbmds, T \in Tables : WriteBdt(b, T)
  <2>1. PICK b \in Bbmds, T \in Tables : WriteBdt(b, T)
    BY <1>2
  <2>2. T \in SUBSET Entries /\ Cardinality(T) <= MaxBdt
    BY <2>1, NetworkAssumption DEF IsTable, WriteBdt
  <2>3. PICK S \in SUBSET Entries : S = WithSelf(b, T)
    BY <2>2, SelfType
  <2>4. Cardinality(S) <= MaxBdt + 1 /\ \E e \in S : e.node = b
    BY <2>2, <2>3, SelfAdded
  <2>5. bdt' = [bdt EXCEPT ![b] = S]
    BY <2>1, <2>3 DEF WriteBdt
  <2>6. PICK W \in {file[b], {{}}, {S}} : file' = [file EXCEPT ![b] = W]
    BY <1>0, <2>1, <2>5 DEF WriteBdt
  <2>7. W \subseteq SUBSET Entries /\ (W = {} \/ \E X \in SUBSET Entries : W = {X})
    BY <1>0 DEF TablesInv
  <2>8. /\ bdt' \in [Bbmds -> SUBSET Entries]
        /\ \A c \in Bbmds : bdt'[c] = IF c = b THEN S ELSE bdt[c]
    BY <1>0, <2>5
  <2>9. /\ file' \in [Bbmds -> SUBSET SUBSET Entries]
        /\ \A c \in Bbmds : file'[c] = IF c = b THEN W ELSE file[c]
    BY <1>0, <2>6, <2>7
  <2>10. \A c \in Bbmds : file'[c] = {} \/ \E X \in SUBSET Entries : file'[c] = {X}
    BY <2>7, <2>9 DEF TablesInv
  <2>11. \A c \in Bbmds : Cardinality(bdt'[c]) <= MaxBdt + 1 /\ \E e \in bdt'[c] : e.node = c
    BY <2>4, <2>8 DEF TablesInv
  <2> QED BY <2>8, <2>9, <2>10, <2>11 DEF TablesInv, FileInv
<1>3. CASE \E b \in Bbmds : Restart(b)
  <2>1. PICK b \in Bbmds : Restart(b)
    BY <1>3
  <2>2. PICK S \in SUBSET Entries : S = Loaded(b)
    BY LoadedType
  <2>3. Cardinality(S) <= MaxBdt + 1 /\ \E e \in S : e.node = b
    BY <2>2, LoadedType
  <2>4. bdt' = [bdt EXCEPT ![b] = S] /\ file' = file
    BY <2>1, <2>2 DEF Restart
  <2>5. /\ bdt' \in [Bbmds -> SUBSET Entries]
        /\ \A c \in Bbmds : bdt'[c] = IF c = b THEN S ELSE bdt[c]
    BY <1>0, <2>4
  <2> QED BY <2>3, <2>4, <2>5 DEF TablesInv, FileInv
<1>4. \/ UNCHANGED <<bdt, file>>
      \/ \E b \in Bbmds, T \in Tables : WriteBdt(b, T)
      \/ \E b \in Bbmds : Restart(b)
  BY DEF Next, vars, SendBroadcast, SendRegister, Receive, Lose, Expire, DeleteEntry,
         ReadFdt, Reopen, tables
<1> QED BY <1>1, <1>2, <1>3, <1>4

\* Taking entries out of a table, or stale ones in, keeps its limit.
LEMMA SmallerTable ==
  ASSUME FdtInv, NEW b \in Bbmds, NEW X \in SUBSET fdt[b], NEW Y \in SUBSET fdt[b], Y \subseteq X,
         fdt' = [fdt EXCEPT ![b] = X], stale' = [stale EXCEPT ![b] = Y]
  PROVE  FdtInv'
<1>1. /\ fdt \in [Bbmds -> SUBSET Foreign] /\ stale \in [Bbmds -> SUBSET Foreign]
      /\ X \subseteq Foreign /\ Y \subseteq Foreign
  BY DEF FdtInv
<1>2. IsFiniteSet(fdt[b])
  BY <1>1, FS_Subset, NetworkAssumption
<1>3. Cardinality(X) <= Cardinality(fdt[b]) /\ Cardinality(X) \in Nat /\ Cardinality(fdt[b]) \in Nat
  BY <1>2, FS_Subset, FS_CardinalityType
<1>4. Cardinality(X) <= MaxFdt
  BY <1>3, NetworkAssumption DEF FdtInv
<1>5. /\ fdt' \in [Bbmds -> SUBSET Foreign] /\ stale' \in [Bbmds -> SUBSET Foreign]
      /\ \A c \in Bbmds : /\ fdt'[c] = IF c = b THEN X ELSE fdt[c]
                          /\ stale'[c] = IF c = b THEN Y ELSE stale[c]
  BY <1>1
<1> QED BY <1>4, <1>5 DEF FdtInv

\* Foreign-device tables grow by one registration, below the limit, and shrink otherwise.
LEMMA FdtStep ==
  ASSUME FdtInv, AskedInv, [Next]_vars
  PROVE  FdtInv'
<1>0. fdt \in [Bbmds -> SUBSET Foreign] /\ stale \in [Bbmds -> SUBSET Foreign]
  BY DEF FdtInv
<1>1. ASSUME UNCHANGED <<fdt, stale>> PROVE FdtInv'
  BY <1>1 DEF FdtInv
<1>2. ASSUME NEW b \in Bbmds, Purge(b) PROVE FdtInv'
  <2>1. PICK X : X = Live(b)
    OBVIOUS
  <2>2. PICK Y : Y = {}
    OBVIOUS
  <2>3. X \in SUBSET fdt[b] /\ Y \in SUBSET fdt[b] /\ Y \subseteq X
    BY <2>1, <2>2 DEF Live
  <2>4. fdt' = [fdt EXCEPT ![b] = X] /\ stale' = [stale EXCEPT ![b] = Y]
    BY <1>2, <2>1, <2>2 DEF Purge
  <2> QED BY <2>3, <2>4, SmallerTable
<1>3. ASSUME NEW d \in net, Receive(d) PROVE FdtInv'
  <2>1. CASE d.to \in Bbmds /\ Purge(d.to)
    BY <1>2, <2>1
  <2>2. CASE ReceiveRegister(d) /\ UNCHANGED <<fdt, stale>>
    BY <1>1, <2>2
  <2>3. CASE ReceiveRegister(d) /\ ~UNCHANGED <<fdt, stale>>
    <3> DEFINE b == d.to
               X == fdt[b] \cup {d.from}
               Y == stale[b] \ {d.from}
    <3>1. /\ b \in Bbmds /\ d.from \in Foreign
          /\ d.from \in fdt[b] \/ Cardinality(fdt[b]) < MaxFdt
          /\ fdt' = [fdt EXCEPT ![b] = X] /\ stale' = [stale EXCEPT ![b] = Y]
      BY <1>0, <2>3 DEF ReceiveRegister, AskedInv
    <3>2. IsFiniteSet(fdt[b]) /\ Cardinality(fdt[b]) \in Nat /\ Cardinality(fdt[b]) <= MaxFdt
      BY <1>0, <3>1, FS_Subset, FS_CardinalityType, NetworkAssumption DEF FdtInv
    <3>3. Cardinality(X) = IF d.from \in fdt[b] THEN Cardinality(fdt[b])
                           ELSE Cardinality(fdt[b]) + 1
      BY <3>2, FS_AddElement
    <3>4. Cardinality(X) <= MaxFdt
      BY <3>1, <3>2, <3>3, NetworkAssumption
    <3>5. X \subseteq Foreign /\ Y \subseteq X /\ Y \subseteq Foreign
      BY <1>0, <3>1 DEF FdtInv
    <3> HIDE DEF X, Y
    <3>6. /\ fdt' \in [Bbmds -> SUBSET Foreign] /\ stale' \in [Bbmds -> SUBSET Foreign]
          /\ \A c \in Bbmds : /\ fdt'[c] = IF c = b THEN X ELSE fdt[c]
                              /\ stale'[c] = IF c = b THEN Y ELSE stale[c]
      BY <1>0, <3>1, <3>5
    <3> QED BY <3>4, <3>5, <3>6 DEF FdtInv
  <2>4. \/ d.to \in Bbmds /\ Purge(d.to)
        \/ UNCHANGED <<fdt, stale>>
        \/ ReceiveRegister(d)
    BY <1>3 DEF Receive, ReceiveOriginal, ReceiveForwarded, ReceiveDistribute, Relay, Drop,
                HandUp, AskedInv
  <2> QED BY <1>1, <2>1, <2>2, <2>3, <2>4
<1>4. ASSUME NEW b \in Bbmds, NEW n \in Foreign, Expire(b, n) PROVE FdtInv'
  <2>1. /\ fdt' = [fdt EXCEPT ![b] = fdt[b]] /\ stale' = [stale EXCEPT ![b] = stale[b] \cup {n}]
        /\ n \in fdt[b]
    BY <1>0, <1>4 DEF Expire, Live
  <2>2. stale[b] \cup {n} \subseteq fdt[b]
    BY <2>1 DEF FdtInv
  <2> QED BY <2>1, <2>2, SmallerTable
<1>5. ASSUME NEW b \in Bbmds, NEW n \in Foreign, DeleteEntry(b, n) PROVE FdtInv'
  <2>1. /\ fdt' = [fdt EXCEPT ![b] = fdt[b] \ {n}] /\ stale' = [stale EXCEPT ![b] = stale[b] \ {n}]
    BY <1>5 DEF DeleteEntry
  <2>2. stale[b] \ {n} \subseteq fdt[b] \ {n}
    BY DEF FdtInv
  <2> QED BY <2>1, <2>2, SmallerTable
<1>6. ASSUME NEW b \in Bbmds, Restart(b) PROVE FdtInv'
  <2>1. PICK X : X = {}
    OBVIOUS
  <2>2. PICK Y : Y = {}
    OBVIOUS
  <2>3. X \in SUBSET fdt[b] /\ Y \in SUBSET fdt[b] /\ Y \subseteq X
    BY <2>1, <2>2
  <2>4. fdt' = [fdt EXCEPT ![b] = X] /\ stale' = [stale EXCEPT ![b] = Y]
    BY <1>6, <2>1, <2>2 DEF Restart
  <2> QED BY <2>3, <2>4, SmallerTable
<1>7. \/ UNCHANGED <<fdt, stale>>
      \/ \E d \in net : Receive(d)
      \/ \E b \in Bbmds : \/ \E n \in Foreign : Expire(b, n) \/ DeleteEntry(b, n)
                          \/ Purge(b)
                          \/ Restart(b)
  BY DEF Next, vars, SendBroadcast, SendRegister, Lose, ReadFdt, WriteBdt, Reopen, tables
<1> QED BY <1>1, <1>2, <1>3, <1>4, <1>5, <1>6, <1>7

\* What a BBMD sends when it takes part in the forwarding of a broadcast.
LEMMA RelayAsked ==
  ASSUME AskedInv, NEW d \in net, NEW R \in SUBSET Nodes, Relay(d.to, d, R)
  PROVE  AskedInv'
<1>1. d \in Datagrams /\ d.to \in Nodes /\ d.hops \in Nat
  BY DEF AskedInv, Datagrams
<1>2. PICK S \in SUBSET Nodes : S = R \cup LocalTo(d.to)
  BY <1>1, SubnetType
<1>3. net' = (net \ {d}) \cup Forwarded(d.to, d, S)
  BY <1>2 DEF Relay
<1>4. ASSUME NEW f \in Forwarded(d.to, d, S) PROVE f \in Datagrams /\ f.fn = "Forwarded"
  <2>1. PICK m \in S : f = [fn |-> "Forwarded", to |-> m, from |-> d.to, origin |-> d.origin,
                            id |-> d.id, hops |-> Count(d.hops)]
    BY <1>4 DEF Forwarded
  <2>2. m \in Nodes /\ d.origin \in Nodes /\ d.id \in Ids \cup {0} /\ Count(d.hops) \in Nat
    BY <1>1, CountFacts DEF Datagrams
  <2> QED BY <1>1, <2>1, <2>2 DEF Datagrams
<1> HIDE DEF Forwarded
<1> QED BY <1>3, <1>4 DEF AskedInv

\* Whatever is received, only foreign devices ask, and they ask BBMDs.
LEMMA AskedStep ==
  ASSUME TypeInv, [Next]_vars
  PROVE  AskedInv'
<1>0. NetType /\ AskedInv
  BY DEF NetType, TypeInv, TablesInv, FdtInv, AskedInv
<1>1. ASSUME net' \subseteq net PROVE AskedInv'
  BY <1>0, <1>1 DEF AskedInv
<1>2. ASSUME NEW X, net' = net \cup X,
             \A d \in X : /\ d \in Datagrams
                          /\ d.fn = "OriginalBroadcast" \/ (d.to \in Bbmds /\ d.from \in Foreign)
      PROVE  AskedInv'
  BY <1>0, <1>2 DEF AskedInv
<1>3. ASSUME NEW n \in Foreign, NEW f \in {"Distribute", "Register"}, NEW i \in Ids \cup {0},
             net' = net \cup {[fn |-> f, to |-> Registrar[n], from |-> n, origin |-> n,
                               id |-> i, hops |-> 0]}
      PROVE  AskedInv'
  <2> DEFINE e == [fn |-> f, to |-> Registrar[n], from |-> n, origin |-> n, id |-> i, hops |-> 0]
  <2>1. Registrar[n] \in Bbmds /\ Registrar[n] \in Nodes /\ n \in Nodes
    BY NetworkAssumption
  <2>2. e \in Datagrams /\ e.to \in Bbmds /\ e.from \in Foreign
    BY <2>1 DEF Datagrams
  <2>3. net' = net \cup {e}
    BY <1>3
  <2> HIDE DEF e
  <2> QED BY <1>2, <2>2, <2>3
<1>4. ASSUME NEW n \in Nodes, SendBroadcast(n) PROVE AskedInv'
  <2>1. PICK i \in Ids :
          net' = net \cup
            IF n \in Foreign
            THEN {[fn |-> "Distribute", to |-> Registrar[n], from |-> n, origin |-> n,
                   id |-> i, hops |-> 0]}
            ELSE Original(n, i, LocalTo(n))
    BY <1>4 DEF SendBroadcast
  <2>2. CASE n \in Foreign
    BY <1>3, <2>1, <2>2
  <2>3. CASE n \notin Foreign
    <3>1. LocalTo(n) \subseteq Nodes
      BY SubnetType
    <3>2. \A d \in Original(n, i, LocalTo(n)) : d \in Datagrams /\ d.fn = "OriginalBroadcast"
      BY <3>1 DEF Original, Datagrams
    <3>3. net' = net \cup Original(n, i, LocalTo(n))
      BY <2>1, <2>3
    <3> QED BY <1>2, <3>2, <3>3
  <2> QED BY <2>2, <2>3
<1>5. ASSUME NEW n \in Foreign, SendRegister(n) PROVE AskedInv'
  BY <1>3, <1>5 DEF SendRegister
<1>6. ASSUME NEW d \in net, Receive(d) PROVE AskedInv'
  <2>1. /\ d.to \in Nodes /\ d.from \in Nodes /\ d.origin \in Nodes
        /\ d.fn = "Distribute" => d.to \in Bbmds
    BY <1>0 DEF AskedInv, Datagrams
  <2>2. ASSUME NEW R \in SUBSET Nodes, Relay(d.to, d, R) PROVE AskedInv'
    BY <1>0, <2>2, RelayAsked
  <2>3. ASSUME d.to \in Bbmds
        PROVE  /\ ForeignTargets(d.to, d.from) \subseteq Nodes
               /\ ForeignTargets(d.to, d.origin) \subseteq Nodes
               /\ Peers(d.to, d.from) \subseteq Nodes
    BY <1>0, <2>1, <2>3, TargetsType, NetworkAssumption
  <2>4. CASE ReceiveOriginal(d)
    <3>1. CASE d.to \in Bbmds /\ d.from # d.to
      <4>1. PICK R \in SUBSET Nodes : R = Peers(d.to, d.from) \cup ForeignTargets(d.to, d.from)
        BY <2>3, <3>1
      <4> QED BY <2>2, <2>4, <3>1, <4>1 DEF ReceiveOriginal
    <3> QED BY <1>1, <2>4, <3>1 DEF ReceiveOriginal, Drop, HandUp
  <2>5. CASE ReceiveForwarded(d)
    <3>1. CASE d.to \in Bbmds /\ d.origin # d.to /\ IsPeer(d.to, d.from)
      BY <2>2, <2>3, <2>5, <3>1 DEF ReceiveForwarded
    <3> QED BY <1>1, <2>5, <3>1 DEF ReceiveForwarded, Drop, HandUp
  <2>6. CASE ReceiveDistribute(d)
    <3>1. CASE d.from \in Live(d.to)
      <4>1. PICK R \in SUBSET Nodes : R = Peers(d.to, d.from) \cup ForeignTargets(d.to, d.from)
        BY <2>1, <2>3, <2>6 DEF ReceiveDistribute
      <4> QED BY <2>2, <2>6, <3>1, <4>1 DEF ReceiveDistribute
    <3> QED BY <1>1, <2>6, <3>1 DEF ReceiveDistribute
  <2>7. CASE ReceiveRegister(d)
    BY <1>1, <2>7 DEF ReceiveRegister
  <2> QED BY <1>6, <2>4, <2>5, <2>6, <2>7 DEF Receive
<1>7. \/ net' \subseteq net
      \/ \E n \in Nodes : SendBroadcast(n)
      \/ \E n \in Foreign : SendRegister(n)
      \/ \E d \in net : Receive(d)
  BY DEF Next, vars, Lose, Expire, DeleteEntry, ReadFdt, WriteBdt, Restart, Reopen
<1> QED BY <1>1, <1>4, <1>5, <1>6, <1>7

\* The tables promise a broadcast to nodes.
LEMMA PromisedType ==
  ASSUME NetType, NEW n \in Nodes
  PROVE  Promised(n) \subseteq Nodes
<1>1. ASSUME NEW b \in Bbmds PROVE SubnetOf(b) \subseteq Nodes /\ Live(b) \subseteq Nodes
  BY SubnetType, NetworkAssumption DEF NetType, Live
<1>2. ASSUME NEW b \in Bbmds, NEW e \in bdt[b] PROVE ServedFrom(b, e) \subseteq Nodes
  <2>1. e.node \in Bbmds
    BY EntryType DEF NetType
  <2>2. Whom(e) \subseteq Nodes
    BY <2>1, SubnetType, NetworkAssumption DEF Whom
  <2> QED BY <1>1, <2>1, <2>2 DEF ServedFrom
<1>3. Relays(n) \subseteq Bbmds
  BY DEF Relays
<1>4. SubnetOf(n) \subseteq Nodes
  BY SubnetType
<1> QED BY <1>1, <1>2, <1>3, <1>4 DEF Promised

\* What the properties count keeps its types.
LEMMA HistoryStep ==
  ASSUME TypeInv, [Next]_vars
  PROVE  HistoryInv'
<1>0. NetType /\ AskedInv /\ HistoryInv
  BY DEF NetType, TypeInv, TablesInv, FdtInv, AskedInv
<1>1. sender' \in [Ids -> Nodes \cup {Nobody}]
  <2>1. sender' = sender \/ \E n \in Nodes, i \in Ids : sender' = [sender EXCEPT ![i] = n]
    BY DEF Next, vars, SendBroadcast, SendRegister, Receive, Lose, Expire, DeleteEntry, ReadFdt,
           WriteBdt, Restart, Reopen
  <2> QED BY <1>0, <2>1 DEF HistoryInv
<1>2. heard' \in [Nodes -> [Ids -> Nat]]
  <2>1. heard' = heard \/ \E d \in net : Hand(d)
    BY DEF Next, vars, SendBroadcast, SendRegister, Receive, ReceiveOriginal, ReceiveForwarded,
           ReceiveDistribute, ReceiveRegister, Relay, Drop, HandUp, Lose, Expire, DeleteEntry,
           ReadFdt, WriteBdt, Restart, Reopen
  <2>2. ASSUME NEW d \in net, Hand(d) PROVE heard' \in [Nodes -> [Ids -> Nat]]
    <3>1. d.to \in Nodes
      BY <1>0 DEF AskedInv, Datagrams
    <3>2. heard[d.to] \in [Ids -> Nat]
      BY <1>0, <3>1 DEF HistoryInv
    <3>3. PICK h \in [Ids -> Nat] : h = [heard[d.to] EXCEPT ![d.id] = Count(@)]
      <4>1. PICK g \in [Ids -> Nat] : g = heard[d.to]
        BY <3>2
      <4>2. \A i \in Ids : Count(g[i]) \in Nat
        BY <4>1, CountFacts
      <4>3. [g EXCEPT ![d.id] = Count(g[d.id])] \in [Ids -> Nat]
        BY <4>1, <4>2
      <4> QED BY <4>1, <4>3
    <3>4. heard' = [heard EXCEPT ![d.to] = h]
      BY <2>2, <3>3 DEF Hand
    <3> QED BY <1>0, <3>4 DEF HistoryInv
  <2> QED BY <1>0, <2>1, <2>2 DEF HistoryInv
<1>3. due' \in [Ids -> SUBSET Nodes]
  <2>1. \/ due' = due
        \/ \E n \in Nodes, i \in Ids : due' = [due EXCEPT ![i] = Promised(n)]
        \/ \E d \in net : due' = [due EXCEPT ![d.id] = {}]
        \/ Disturbed
    BY DEF Next, vars, SendBroadcast, SendRegister, Receive, Lose, Expire, DeleteEntry, ReadFdt,
           WriteBdt, Restart, Reopen
  <2> QED BY <1>0, <2>1, PromisedType DEF HistoryInv, Disturbed
<1>4. faults' \in 0..MaxFaults
  <2>1. faults' = faults \/ Fault
    BY DEF Next, vars, SendBroadcast, SendRegister, Receive, Lose, Expire, DeleteEntry, ReadFdt,
           WriteBdt, Restart, Reopen
  <2> QED BY <1>0, <2>1, NetworkAssumption DEF HistoryInv, Fault
<1> QED BY <1>1, <1>2, <1>3, <1>4 DEF HistoryInv

\* In every reachable state the tables are within their limits and all is
\* typed, in any internetwork.
LEMMA TypesAlways == Spec => []TypeInv
<1>1. Init => TypeInv
  <2> SUFFICES ASSUME Init PROVE TypeInv
    OBVIOUS
  <2>1. ASSUME NEW b \in Bbmds
        PROVE  /\ WithSelf(b, InitialBdt[b]) \subseteq Entries
               /\ Cardinality(WithSelf(b, InitialBdt[b])) <= MaxBdt + 1
               /\ \E e \in WithSelf(b, InitialBdt[b]) : e.node = b
    BY SelfAdded, SelfType, NetworkAssumption DEF IsTable
  <2>2. TablesInv
    BY <2>1 DEF Init, TablesInv, FileInv
  <2>3. FdtInv
    BY FS_EmptySet, NetworkAssumption DEF Init, FdtInv
  <2>4. AskedInv
    BY DEF Init, AskedInv
  <2>5. HistoryInv
    BY NetworkAssumption DEF Init, HistoryInv
  <2> QED BY <2>2, <2>3, <2>4, <2>5 DEF TypeInv
<1>2. TypeInv /\ [Next]_vars => TypeInv'
  BY TablesStep, FdtStep, AskedStep, HistoryStep DEF TypeInv
<1> QED BY <1>1, <1>2, PTL DEF Spec

\* The type invariant with the limits of the tables: MAX_BDT_ENTRIES and one
\* for the BBMD itself, MAX_FDT_ENTRIES (BbmdState).
THEOREM TypeCorrect == Spec => []TypeOK
<1>1. TypeInv => TypeOK
  <2> SUFFICES ASSUME TypeInv PROVE TypeOK
    OBVIOUS
  <2>1. ASSUME NEW b \in Bbmds PROVE file[b] \subseteq SUBSET Entries /\ Cardinality(file[b]) <= 1
    <3>1. file[b] = {} \/ \E T \in SUBSET Entries : file[b] = {T}
      BY DEF TypeInv, TablesInv
    <3>2. Cardinality(file[b]) \in {0, 1}
      BY <3>1, FS_EmptySet, FS_Singleton
    <3> QED BY <3>1, <3>2
  <2> QED BY <2>1 DEF TypeInv, TablesInv, FdtInv, AskedInv, HistoryInv, TypeOK
<1> QED BY <1>1, TypesAlways, PTL

\* A restarted BBMD has the table that was in force, unless persisting it
\* failed or it is too long to be read back (start, persist_bdt).
THEOREM RestartKeepsCorrect == Spec => RestartKeepsTable
<1>1. ASSUME TypeInv, [Next]_vars
      PROVE  [ \A b \in Bbmds : Restart(b) =>
                 \/ bdt'[b] = bdt[b]
                 \/ file[b] # {bdt[b]} \/ Cardinality(bdt[b]) > MaxBdt ]_vars
  <2> SUFFICES ASSUME NEW b \in Bbmds, Restart(b), file[b] = {bdt[b]},
                      ~(Cardinality(bdt[b]) > MaxBdt)
               PROVE  bdt'[b] = bdt[b]
    OBVIOUS
  <2>1. bdt[b] \subseteq Entries /\ TablesInv
    BY <1>1 DEF TypeInv, TablesInv
  <2>2. Cardinality(bdt[b]) \in Nat /\ MaxBdt \in Nat
    BY <2>1, EntriesFinite, FS_Subset, FS_CardinalityType, NetworkAssumption
  <2>3. Loaded(b) = bdt[b]
    BY <2>1, <2>2, LoadedType
  <2>4. bdt'[b] = Loaded(b)
    BY <1>1 DEF Restart, TypeInv, TablesInv
  <2> QED BY <2>3, <2>4
<1> QED BY <1>1, TypesAlways, PTL DEF Spec, RestartKeepsTable

-----------------------------------------------------------------------------
(* How often a broadcast is heard.                                         *)

\* The BBMD by which a broadcast of s leaves its subnet.
Entrance(b, s) == b # s /\ Serves(b, s)

\* A Forwarded-NPDU goes from a BBMD to one it serves, itself only if it hears
\* itself, or from the entrance to another subnet.
Near(d) == Serves(d.from, d.to) /\ (d.from = d.to => d.from \in Echoing)

Far(d) ==
  Entrance(d.from, d.origin) /\ d.to \notin Foreign /\ Home[d.to] # Home[d.from]

FirstHand(d) == d.fn \in {"OriginalBroadcast", "Distribute"}

\* Everything in a datagram but its number and its receiver follows from who
\* broadcast it and which node sent it on, unless that one hears itself.
Routed(d) ==
  /\ d.id \in Ids /\ d.origin \in Nodes /\ sender[d.id] = d.origin
  /\ d.fn = "OriginalBroadcast" =>
       /\ d.from = d.origin /\ d.origin \notin Foreign /\ Home[d.to] = Home[d.origin]
       /\ d.hops = 0
  /\ d.fn = "Distribute" =>
       d.from = d.origin /\ d.origin \in Foreign /\ d.to = Registrar[d.origin] /\ d.hops = 0
  /\ d.fn = "Forwarded" =>
       /\ d.from \in Bbmds /\ heard[d.from][d.id] > 0
       /\ \E b \in Bbmds : Entrance(b, d.origin)
       /\ \/ Far(d) /\ d.hops = 1
          \/ /\ Near(d)
             /\ d.from \notin Echoing => d.hops = IF Entrance(d.from, d.origin) THEN 1 ELSE 2

\* Foreign devices ask the BBMD they are registered with; nobody has heard its
\* own broadcast, nor a BBMD one that is on its way to it at first hand.
RouteInv ==
  /\ \A d \in net : IF d.fn = "Register" THEN d.to = Registrar[d.from] /\ d.hops = 0
                     ELSE Routed(d)
  /\ \A d \in net : FirstHand(d) /\ d.to \in Bbmds /\ d.origin # d.to
                     => heard[d.to][d.id] = 0
  /\ \A b \in Bbmds, f \in Foreign : f \in fdt[b] => b = Registrar[f]
  /\ \A i \in Ids, n \in Nodes : sender[i] \in {Nobody, n} => heard[n][i] = 0

\* The three ways on which n may yet hear broadcast i: from its sender, from
\* the BBMD that serves n, and from the entrance by directed broadcast or as
\* its peer.
OpenFirst(n, i) ==
  \E d \in net : FirstHand(d) /\ d.id = i /\ d.to = n /\ d.origin # n

Underway(b, n, i) ==
  heard[b][i] = 0 \/ \E d \in net : d.fn = "Forwarded" /\ d.id = i /\ d.from = b /\ d.to = n

OpenNear(n, i) ==
  /\ n \notin Bbmds /\ n # sender[i]
  /\ \E b \in Bbmds : Entrance(b, sender[i])
  /\ \E b \in Bbmds : Serves(b, n) /\ Underway(b, n, i)

OpenFar(n, i) ==
  /\ n \notin Foreign /\ n # sender[i]
  /\ \E b \in Bbmds : Entrance(b, sender[i]) /\ Home[n] # Home[b] /\ Underway(b, n, i)

One(p) == IF p THEN 1 ELSE 0

\* How often n was and may yet be handed broadcast i, if its BBMD does not hear
\* itself.
Copies(n, i) ==
  heard[n][i] + One(OpenFirst(n, i)) + One(OpenNear(n, i)) + One(OpenFar(n, i))

Limit(n, s) == IF n = s THEN 0 ELSE IF n \in Bbmds \cup Foreign THEN 1 ELSE 2

CopiesInv ==
  \A n \in Nodes \ Noisy, i \in Ids :
    sender[i] # Nobody => Copies(n, i) <= Limit(n, sender[i])

-----------------------------------------------------------------------------
(* Who will hear a broadcast.                                              *)

\* Receiving d, its receiver hears the broadcast; if that is a BBMD, these
\* are sent a copy.
Hears(d) ==
  \/ d.fn = "OriginalBroadcast" /\ d.from # d.to
  \/ d.fn = "Forwarded" /\ d.origin # d.to /\ (d.to \in Bbmds => IsPeer(d.to, d.from))
  \/ d.fn = "Distribute" /\ d.from \in Live(d.to)

Onward(d) ==
  (IF d.fn = "Forwarded" THEN ForeignTargets(d.to, d.origin)
   ELSE Peers(d.to, d.from) \cup ForeignTargets(d.to, d.from)) \cup LocalTo(d.to)

Copy(d, m) ==
  [fn |-> "Forwarded", to |-> m, from |-> d.to, origin |-> d.origin, id |-> d.id,
   hops |-> Count(d.hops)]

\* With the tables as they are, n hears what d carries when d is received,
\* when a copy of d for another node is, or when a copy of a copy is.
Reaches(d, n) == Hears(d) /\ d.to = n

ReachesByOne(d, n) ==
  \/ Reaches(d, n)
  \/ Hears(d) /\ d.to \in Bbmds /\ \E m \in Onward(d) \ {d.to} : Reaches(Copy(d, m), n)

ReachesByTwo(d, n) ==
  \/ Reaches(d, n)
  \/ Hears(d) /\ d.to \in Bbmds /\ \E m \in Onward(d) \ {d.to} : ReachesByOne(Copy(d, m), n)

\* Whoever is promised a broadcast has heard it or is on the way of a
\* datagram under way from one node to another.
DueInv ==
  \A i \in Ids : \A n \in due[i] :
    heard[n][i] > 0 \/ \E d \in net : d.id = i /\ d.to # d.from /\ ReachesByTwo(d, n)

-----------------------------------------------------------------------------
(* Where datagrams come from and go to.                                    *)

\* One BBMD serves a node at most, and one takes its broadcasts out.
LEMMA OneServer ==
  ASSUME NEW n \in Nodes, NEW b, NEW c, Serves(b, n), Serves(c, n)
  PROVE  b = c
BY NetworkAssumption DEF Serves

\* What a BBMD that hears itself sends to those it serves reaches noisy nodes;
\* a BBMD that does not hear itself is a quiet node.
LEMMA NoisyServer ==
  ASSUME NEW n \in Nodes, n \notin Noisy, NEW b \in Bbmds, Serves(b, n)
  PROVE  b \notin Echoing /\ b \in Nodes \ Noisy /\ (n \in Bbmds => b = n)
<1>1. b \notin Echoing
  BY DEF Noisy
<1>2. b \in Nodes \ Noisy
  BY <1>1, NetworkAssumption DEF Noisy, Serves
<1>3. n \in Bbmds => b = n
  BY NetworkAssumption DEF Serves
<1> QED BY <1>1, <1>2, <1>3

\* A datagram at first hand, or to a quiet node, is known by its number, its
\* receiver and who sent it on.
LEMMA SameDatagram ==
  ASSUME NEW d \in Datagrams, NEW e \in Datagrams, Routed(d), Routed(e),
         d.fn # "Register", e.fn # "Register", d.id = e.id, d.to = e.to, d.from = e.from,
         d.fn = "Forwarded" <=> e.fn = "Forwarded",
         d.fn # "Forwarded" \/ d.to \notin Noisy
  PROVE  d = e
<1>1. d.origin = e.origin
  BY DEF Routed
<1>2. d.fn = e.fn
  BY <1>1 DEF Routed, Datagrams
<1>3. d.hops = e.hops
  <2>1. CASE d.fn # "Forwarded"
    BY <1>1, <1>2, <2>1 DEF Routed, Datagrams
  <2>2. CASE d.fn = "Forwarded"
    <3>1. d.to \in Nodes /\ d.from \in Bbmds
      BY <2>2 DEF Routed, Datagrams
    <3>2. Serves(d.from, d.to) => d.from \notin Echoing
      BY <2>2, <3>1, NoisyServer
    <3> QED BY <1>1, <1>2, <2>2, <3>2 DEF Routed, Near, Far
  <2> QED BY <2>1, <2>2
<1> QED BY <1>1, <1>2, <1>3 DEF Datagrams

\* What goes to a BBMD: from the sender to the entrance, from the entrance to a
\* BBMD that is none, or from itself.
LEMMA ToBbmd ==
  ASSUME NEW d \in Datagrams, Routed(d), d.fn # "Register", d.to \in Bbmds, d.origin # d.to
  PROVE  /\ d.fn # "Forwarded" => Entrance(d.to, d.origin) /\ d.hops = 0 /\ d.from = d.origin
         /\ d.fn = "Forwarded" =>
              \/ Far(d) /\ ~Entrance(d.to, d.origin) /\ d.hops = 1 /\ d.from # d.to
              \/ d.from = d.to /\ d.from \in Echoing
<1>1. CASE d.fn = "OriginalBroadcast"
  BY <1>1, NetworkAssumption DEF Routed, Entrance, Serves
<1>2. CASE d.fn = "Distribute"
  BY <1>2, NetworkAssumption DEF Routed, Entrance, Serves
<1>3. CASE d.fn = "Forwarded"
  <2>1. CASE Far(d) /\ d.hops = 1
    <3>1. d.origin \in Nodes
      BY DEF Routed
    <3>2. ~Entrance(d.to, d.origin) /\ d.from # d.to
      BY <2>1, <3>1, OneServer DEF Far, Entrance
    <3> QED BY <1>3, <2>1, <3>2
  <2>2. CASE Near(d)
    <3>1. d.from \in Bbmds
      BY <1>3 DEF Routed
    <3>2. d.from = d.to
      BY <2>2, <3>1, NetworkAssumption DEF Near, Serves
    <3> QED BY <1>3, <2>2, <3>2 DEF Near
  <2> QED BY <1>3, <2>1, <2>2 DEF Routed
<1> QED BY <1>1, <1>2, <1>3 DEF Datagrams

\* The devices in the table of a BBMD are registered with it, its peers are on
\* other subnets, and it serves its own.
LEMMA OnwardWays ==
  ASSUME TypeInv, RouteInv, NEW b \in Bbmds, NEW x
  PROVE  /\ \A m \in ForeignTargets(b, x) : m \in Nodes /\ m \notin Bbmds /\ Serves(b, m)
         /\ \A m \in Peers(b, x) : m \in Nodes /\ m \notin Foreign /\ Home[m] # Home[b]
         /\ \A m \in LocalTo(b) : m \in Nodes /\ (m = b => b \in Echoing) /\ Serves(b, m)
<1>1. ASSUME NEW m \in ForeignTargets(b, x) PROVE m \in Nodes /\ m \notin Bbmds /\ Serves(b, m)
  <2>1. m \in fdt[b] /\ m \in Foreign
    BY DEF ForeignTargets, Live, TypeInv, FdtInv
  <2> QED BY <2>1, NetworkAssumption DEF RouteInv, Serves
<1>2. ASSUME NEW m \in Peers(b, x) PROVE m \in Nodes /\ m \notin Foreign /\ Home[m] # Home[b]
  <2>1. PICK e \in bdt[b] : e.node # b /\ m \in Whom(e)
    BY DEF Peers
  <2>2. e.node \in Bbmds
    BY EntryType DEF TypeInv, TablesInv
  <2>3. m \in Nodes /\ Home[m] = Home[e.node]
    BY <2>1, <2>2, NetworkAssumption DEF Whom, SubnetOf
  <2> QED BY <2>1, <2>2, <2>3, NetworkAssumption
<1>3. ASSUME NEW m \in LocalTo(b)
      PROVE  m \in Nodes /\ (m = b => b \in Echoing) /\ Serves(b, m)
  BY NetworkAssumption DEF LocalTo, SubnetOf, Serves
<1> QED BY <1>1, <1>2, <1>3

\* What receiving a datagram comes to.
LEMMA ReceiveDoes ==
  ASSUME TypeInv, NEW d \in net, Receive(d)
  PROVE  /\ UNCHANGED <<bdt, sender, due>>
         /\ \A b \in Bbmds : Live(b) \subseteq Live(b)'
         /\ \A b \in Bbmds : \A f \in fdt'[b] :
              f \in fdt[b] \/ (d.fn = "Register" /\ f = d.from /\ b = d.to)
         /\ ~Hears(d) => UNCHANGED heard /\ net' = net \ {d}
         /\ Hears(d) =>
              /\ d.fn # "Register" /\ Hand(d)
              /\ net' = (net \ {d})
                        \cup (IF d.to \in Bbmds THEN {Copy(d, m) : m \in Onward(d)} ELSE {})
<1>1. /\ UNCHANGED <<bdt, file, sender, due>> /\ d \in Datagrams
      /\ d.fn \in {"Distribute", "Register"} => d.to \in Bbmds
      /\ fdt \in [Bbmds -> SUBSET Foreign] /\ stale \in [Bbmds -> SUBSET Foreign]
  BY DEF Receive, TypeInv, AskedInv, FdtInv
<1>2. ASSUME UNCHANGED <<fdt, stale>>
      PROVE  /\ \A b \in Bbmds : Live(b) \subseteq Live(b)'
             /\ \A b \in Bbmds : fdt'[b] \subseteq fdt[b]
  BY <1>2 DEF Live
<1>3. ASSUME d.to \in Bbmds, Purge(d.to)
      PROVE  /\ \A b \in Bbmds : Live(b) \subseteq Live(b)'
             /\ \A b \in Bbmds : fdt'[b] \subseteq fdt[b]
  BY <1>1, <1>3 DEF Purge, Live
<1>4. \A R : Forwarded(d.to, d, R) = {Copy(d, m) : m \in R}
  BY DEF Forwarded, Copy
<1>5. CASE ReceiveOriginal(d)
  <2>1. d.fn = "OriginalBroadcast" /\ (Hears(d) <=> d.from # d.to)
    BY <1>5 DEF ReceiveOriginal, Hears
  <2>2. CASE ~Hears(d)
    <3>1. Drop(d)
      BY <1>5, <2>1, <2>2 DEF ReceiveOriginal
    <3> QED BY <1>1, <1>2, <2>2, <3>1 DEF Drop
  <2>3. CASE Hears(d) /\ d.to \in Bbmds
    <3>1. Relay(d.to, d, Peers(d.to, d.from) \cup ForeignTargets(d.to, d.from))
      BY <1>5, <2>1, <2>3 DEF ReceiveOriginal
    <3>2. net' = (net \ {d}) \cup {Copy(d, m) : m \in Onward(d)}
      BY <1>4, <2>1, <3>1 DEF Relay, Onward
    <3> QED BY <1>1, <1>3, <2>1, <2>3, <3>1, <3>2 DEF Relay
  <2>4. CASE Hears(d) /\ d.to \notin Bbmds
    <3>1. HandUp(d)
      BY <1>5, <2>1, <2>4 DEF ReceiveOriginal
    <3> QED BY <1>1, <1>2, <2>1, <2>4, <3>1 DEF HandUp
  <2> QED BY <2>2, <2>3, <2>4
<1>6. CASE ReceiveForwarded(d)
  <2>1. /\ d.fn = "Forwarded"
        /\ Hears(d) <=> d.origin # d.to /\ (d.to \in Bbmds => IsPeer(d.to, d.from))
    BY <1>6 DEF ReceiveForwarded, Hears
  <2>2. CASE ~Hears(d)
    <3>1. Drop(d)
      BY <1>6, <2>1, <2>2 DEF ReceiveForwarded
    <3> QED BY <1>1, <1>2, <2>2, <3>1 DEF Drop
  <2>3. CASE Hears(d) /\ d.to \in Bbmds
    <3>1. Relay(d.to, d, ForeignTargets(d.to, d.origin))
      BY <1>6, <2>1, <2>3 DEF ReceiveForwarded
    <3>2. net' = (net \ {d}) \cup {Copy(d, m) : m \in Onward(d)}
      BY <1>4, <2>1, <3>1 DEF Relay, Onward
    <3> QED BY <1>1, <1>3, <2>1, <2>3, <3>1, <3>2 DEF Relay
  <2>4. CASE Hears(d) /\ d.to \notin Bbmds
    <3>1. HandUp(d)
      BY <1>6, <2>1, <2>4 DEF ReceiveForwarded
    <3> QED BY <1>1, <1>2, <2>1, <2>4, <3>1 DEF HandUp
  <2> QED BY <2>2, <2>3, <2>4
<1>7. CASE ReceiveDistribute(d)
  <2>1. d.fn = "Distribute" /\ d.to \in Bbmds /\ (Hears(d) <=> d.from \in Live(d.to))
    BY <1>1, <1>7 DEF ReceiveDistribute, Hears
  <2>2. CASE ~Hears(d)
    <3>1. Purge(d.to) /\ net' = net \ {d} /\ UNCHANGED heard
      BY <1>7, <2>1, <2>2 DEF ReceiveDistribute
    <3> QED BY <1>1, <1>3, <2>1, <2>2, <3>1
  <2>3. CASE Hears(d)
    <3>1. Relay(d.to, d, Peers(d.to, d.from) \cup ForeignTargets(d.to, d.from))
      BY <1>7, <2>1, <2>3 DEF ReceiveDistribute
    <3>2. net' = (net \ {d}) \cup {Copy(d, m) : m \in Onward(d)}
      BY <1>4, <2>1, <3>1 DEF Relay, Onward
    <3> QED BY <1>1, <1>3, <2>1, <2>3, <3>1, <3>2 DEF Relay
  <2> QED BY <2>2, <2>3
<1>8. CASE ReceiveRegister(d)
  <2>1. d.fn = "Register" /\ ~Hears(d) /\ net' = net \ {d} /\ UNCHANGED heard /\ d.to \in Bbmds
    BY <1>1, <1>8 DEF ReceiveRegister, Hears
  <2>2. CASE UNCHANGED <<fdt, stale>>
    BY <1>1, <1>2, <2>1, <2>2
  <2>3. CASE /\ fdt' = [fdt EXCEPT ![d.to] = @ \cup {d.from}]
             /\ stale' = [stale EXCEPT ![d.to] = @ \ {d.from}]
    <3>1. \A b \in Bbmds : /\ fdt'[b] = IF b = d.to THEN fdt[b] \cup {d.from} ELSE fdt[b]
                           /\ stale'[b] = IF b = d.to THEN stale[b] \ {d.from} ELSE stale[b]
      BY <1>1, <2>1, <2>3
    <3>2. \A b \in Bbmds : Live(b) \subseteq Live(b)'
      BY <3>1 DEF Live
    <3> QED BY <1>1, <2>1, <3>1, <3>2
  <2> QED BY <1>8, <2>2, <2>3 DEF ReceiveRegister
<1> QED BY <1>5, <1>6, <1>7, <1>8 DEF Receive

\* As long as nothing is heard and only registrations are sent, no way opens.
LEMMA QuietCopies ==
  ASSUME TypeInv, RouteInv, CopiesInv, UNCHANGED <<heard, sender>>,
         \A d \in net' : \/ d \in net
                         \/ d.fn = "Register" /\ d.to = Registrar[d.from] /\ d.hops = 0,
         \A b \in Bbmds, f \in Foreign : f \in fdt'[b] => b = Registrar[f]
  PROVE  RouteInv' /\ CopiesInv'
<1>1. RouteInv'
  <2>1. \A d \in net : Routed(d) => Routed(d)'
    BY DEF Routed
  <2> QED BY <2>1 DEF RouteInv, FirstHand
<1>2. ASSUME NEW n \in Nodes, NEW i \in Ids
      PROVE  /\ OpenFirst(n, i)' => OpenFirst(n, i)
             /\ \A b \in Bbmds : Underway(b, n, i)' => Underway(b, n, i)
  BY DEF OpenFirst, Underway, FirstHand
<1>3. ASSUME NEW n \in Nodes \ Noisy, NEW i \in Ids, sender[i] # Nobody
      PROVE  Copies(n, i)' <= Limit(n, sender[i])
  <2>1. heard[n][i] \in Nat /\ heard'[n][i] = heard[n][i]
    BY DEF TypeInv, HistoryInv
  <2>2. OpenFirst(n, i)' => OpenFirst(n, i)
    BY <1>2
  <2>3. OpenNear(n, i)' => OpenNear(n, i)
    BY <1>2 DEF OpenNear
  <2>4. OpenFar(n, i)' => OpenFar(n, i)
    BY <1>2 DEF OpenFar
  <2>5. Copies(n, i) <= Limit(n, sender[i])
    BY <1>3 DEF CopiesInv
  <2>6. Limit(n, sender[i]) \in Nat
    BY DEF Limit
  <2>7. Copies(n, i)' = heard'[n][i] + One(OpenFirst(n, i)') + One(OpenNear(n, i)')
                                     + One(OpenFar(n, i)')
    BY DEF Copies
  <2> QED BY <2>1, <2>2, <2>3, <2>4, <2>5, <2>6, <2>7 DEF Copies, One
<1>4. CopiesInv'
  BY <1>3 DEF CopiesInv
<1> QED BY <1>1, <1>4

\* Nobody hears its own broadcast; what a quiet node hears, another sent on.
LEMMA NotItsOwn ==
  ASSUME NEW d \in Datagrams, Routed(d), d.fn # "Register", Hears(d)
  PROVE  /\ d.origin # d.to /\ sender[d.id] = d.origin /\ d.origin \in Nodes
         /\ d.from = d.to => d.fn = "Forwarded" /\ d.to \in Noisy
<1>1. CASE d.fn = "OriginalBroadcast"
  BY <1>1 DEF Routed, Hears
<1>2. CASE d.fn = "Distribute"
  BY <1>2, NetworkAssumption DEF Routed, Hears
<1>3. CASE d.fn = "Forwarded"
  <2>1. d.to \in Nodes
    BY DEF Datagrams
  <2>2. d.from = d.to => d.to \in Noisy
    BY <1>3, <2>1 DEF Routed, Near, Far, Noisy
  <2> QED BY <1>3, <2>2 DEF Routed, Hears
<1> QED BY <1>1, <1>2, <1>3 DEF Datagrams

\* A first-hand datagram to a BBMD, or any to a quiet node, is the only one of
\* its kind under way.
LEMMA OnlyOne ==
  ASSUME TypeInv, RouteInv, NEW d \in net, NEW e \in net, e # d, d.fn # "Register",
         e.fn # "Register", e.id = d.id, e.to = d.to, e.from = d.from,
         e.fn = "Forwarded" <=> d.fn = "Forwarded", d.fn # "Forwarded" \/ d.to \notin Noisy
  PROVE  FALSE
<1>1. d \in Datagrams /\ e \in Datagrams /\ Routed(d) /\ Routed(e)
  BY DEF TypeInv, AskedInv, RouteInv
<1> QED BY <1>1, SameDatagram

\* A quiet node that hears a broadcast had a way open to it; once it has heard
\* it, that way is closed.
LEMMA WayCloses ==
  ASSUME TypeInv, RouteInv, NEW d \in net, Hears(d), d.fn # "Register", Hand(d),
         d.to \notin Noisy, UNCHANGED sender,
         \A e \in net' : (e \in net /\ e # d) \/ (e.fn = "Forwarded" /\ e.from = d.to)
  PROVE  \/ OpenFirst(d.to, d.id) /\ ~OpenFirst(d.to, d.id)'
         \/ OpenNear(d.to, d.id) /\ ~OpenNear(d.to, d.id)'
         \/ OpenFar(d.to, d.id) /\ ~OpenFar(d.to, d.id)'
<1>1. net \subseteq Datagrams /\ d \in Datagrams /\ Routed(d) /\ d.to \in Nodes /\ d.id \in Ids
  BY DEF TypeInv, AskedInv, RouteInv, Routed, Datagrams
<1>2. d.from # d.to /\ d.origin # d.to /\ sender[d.id] = d.origin /\ d.origin \in Nodes
  BY <1>1, NotItsOwn
<1>3. ASSUME NEW e \in net, e # d, e.fn # "Register", e.id = d.id, e.to = d.to, e.from = d.from,
             e.fn = "Forwarded" <=> d.fn = "Forwarded"
      PROVE  FALSE
  BY <1>3, OnlyOne
<1>4. CASE d.fn # "Forwarded"
  <2>1. d.fn \in {"OriginalBroadcast", "Distribute"} /\ d.from = d.origin
    BY <1>1, <1>4 DEF Routed, Datagrams
  <2>2. OpenFirst(d.to, d.id)
    BY <1>2, <2>1 DEF OpenFirst, FirstHand
  <2>3. ASSUME NEW e \in net', FirstHand(e), e.id = d.id, e.to = d.to
        PROVE  FALSE
    <3>1. e \in net /\ e # d /\ e.fn # "Register" /\ e.fn # "Forwarded"
      BY <2>3 DEF FirstHand
    <3>2. Routed(e)
      BY <3>1 DEF RouteInv
    <3>3. e.from = d.from
      BY <1>2, <2>1, <2>3, <3>2 DEF Routed, FirstHand
    <3> QED BY <1>3, <1>4, <2>3, <3>1, <3>3
  <2> QED BY <2>2, <2>3 DEF OpenFirst
<1>5. CASE d.fn = "Forwarded"
  <2>1. /\ d.from \in Bbmds /\ heard[d.from][d.id] > 0 /\ (Near(d) \/ Far(d))
        /\ \E b \in Bbmds : Entrance(b, sender[d.id])
    BY <1>1, <1>2, <1>5 DEF Routed
  <2>2. Underway(d.from, d.to, d.id)
    BY <1>5 DEF Underway
  <2>3. ~Underway(d.from, d.to, d.id)'
    <3>1. heard'[d.from][d.id] = heard[d.from][d.id]
      BY <1>1, <1>2, <2>1, NetworkAssumption DEF Hand, TypeInv, HistoryInv
    <3>2. heard[d.from][d.id] \in Nat
      BY <1>1, <2>1, NetworkAssumption DEF TypeInv, HistoryInv
    <3>3. ASSUME NEW e \in net', e.fn = "Forwarded", e.id = d.id, e.from = d.from, e.to = d.to
          PROVE  FALSE
      BY <1>2, <1>3, <1>5, <3>3
    <3> QED BY <2>1, <3>1, <3>2, <3>3 DEF Underway
  <2>4. CASE Near(d)
    <3>0. d.to \notin Bbmds
      BY <1>1, <1>2, <2>1, <2>4, NoisyServer DEF Near
    <3>1. OpenNear(d.to, d.id)
      BY <1>2, <2>1, <2>2, <2>4, <3>0 DEF OpenNear, Near
    <3>2. ~OpenNear(d.to, d.id)'
      <4>1. \A c \in Bbmds : Serves(c, d.to) => c = d.from
        BY <1>1, <2>4, OneServer DEF Near
      <4> QED BY <2>3, <4>1 DEF OpenNear
    <3> QED BY <3>1, <3>2
  <2>5. CASE Far(d)
    <3>1. OpenFar(d.to, d.id)
      BY <1>2, <2>1, <2>2, <2>5 DEF OpenFar, Far
    <3>2. ~OpenFar(d.to, d.id)'
      <4>1. \A c \in Bbmds : Entrance(c, sender[d.id]) => c = d.from
        BY <1>2, <2>5, OneServer DEF Far, Entrance
      <4> QED BY <2>3, <4>1 DEF OpenFar
    <3> QED BY <3>1, <3>2
  <2> QED BY <2>1, <2>4, <2>5
<1> QED BY <1>4, <1>5

\* A quiet node with a way open to it has not heard all it may.
LEMMA Credit ==
  ASSUME TypeInv, CopiesInv, NEW n \in Nodes \ Noisy, NEW i \in Ids, sender[i] # Nobody,
         OpenFirst(n, i) \/ OpenNear(n, i) \/ OpenFar(n, i)
  PROVE  heard[n][i] \in {0, 1} /\ (n \in Bbmds => heard[n][i] = 0)
<1>1. heard[n][i] \in Nat /\ Copies(n, i) <= Limit(n, sender[i])
  BY DEF TypeInv, HistoryInv, CopiesInv
<1>2. Limit(n, sender[i]) \in 0..2 /\ (n \in Bbmds => Limit(n, sender[i]) <= 1)
  BY DEF Limit
<1> QED BY <1>1, <1>2 DEF Copies, One

\* A BBMD opens ways to quiet nodes only when it hears a broadcast first: they
\* were counted before.
LEMMA HeardCopies ==
  ASSUME TypeInv, RouteInv, CopiesInv, NEW d \in net, Hears(d), d.fn # "Register", Hand(d),
         UNCHANGED sender,
         net' = (net \ {d})
                \cup (IF d.to \in Bbmds THEN {Copy(d, m) : m \in Onward(d)} ELSE {})
  PROVE  CopiesInv'
<1>1. net \subseteq Datagrams /\ d \in Datagrams /\ Routed(d) /\ d.to \in Nodes /\ d.id \in Ids
  BY DEF TypeInv, AskedInv, RouteInv, Routed, Datagrams
<1>2. d.origin # d.to /\ sender[d.id] = d.origin /\ d.origin \in Nodes
  BY <1>1, NotItsOwn
<1>3. sender[d.id] # Nobody
  BY <1>2, NetworkAssumption
<1>4. \A e \in net' : \/ e \in net /\ e # d
                      \/ e.fn = "Forwarded" /\ e.from = d.to /\ e.id = d.id /\ d.to \in Bbmds
  BY DEF Copy
<1>5. d.to \notin Noisy =>
        \/ OpenFirst(d.to, d.id) /\ ~OpenFirst(d.to, d.id)'
        \/ OpenNear(d.to, d.id) /\ ~OpenNear(d.to, d.id)'
        \/ OpenFar(d.to, d.id) /\ ~OpenFar(d.to, d.id)'
  <2>1. \A e \in net' : (e \in net /\ e # d) \/ (e.fn = "Forwarded" /\ e.from = d.to)
    BY <1>4
  <2> QED BY <2>1, WayCloses
<1>6. d.to \notin Noisy => /\ heard[d.to][d.id] \in {0, 1}
                           /\ d.to \in Bbmds => heard[d.to][d.id] = 0
  BY <1>1, <1>3, <1>5, Credit
<1>7. ASSUME NEW n \in Nodes, NEW i \in Ids
      PROVE  /\ heard[n][i] \in Nat
             /\ heard'[n][i] = IF n = d.to /\ i = d.id THEN Count(heard[n][i]) ELSE heard[n][i]
             /\ heard'[n][i] = 0 => heard[n][i] = 0
  <2>1. heard[n][i] \in Nat
    BY DEF TypeInv, HistoryInv
  <2>2. heard'[n][i] = IF n = d.to /\ i = d.id THEN Count(heard[n][i]) ELSE heard[n][i]
    BY <1>1 DEF Hand, TypeInv, HistoryInv
  <2> QED BY <2>1, <2>2, CountFacts
<1>8. ASSUME NEW n \in Nodes \ Noisy, NEW i \in Ids
      PROVE  /\ OpenFirst(n, i)' => OpenFirst(n, i)
             /\ OpenNear(n, i)' => OpenNear(n, i)
             /\ OpenFar(n, i)' => OpenFar(n, i)
  <2>1. OpenFirst(n, i)' => OpenFirst(n, i)
    BY <1>4 DEF OpenFirst, FirstHand
  <2>2. ASSUME NEW b \in Bbmds, Underway(b, n, i)', ~Underway(b, n, i)
        PROVE  /\ b = d.to /\ i = d.id /\ heard[b][i] # 0
               /\ \E m \in Onward(d) : m = n
    <3>1. heard[b][i] # 0 /\ heard'[b][i] # 0
      BY <1>7, <2>2, NetworkAssumption DEF Underway
    <3>2. PICK e \in net' : e.fn = "Forwarded" /\ e.id = i /\ e.from = b /\ e.to = n
      BY <2>2, <3>1 DEF Underway
    <3>3. e \notin net
      BY <2>2, <3>2 DEF Underway
    <3>4. PICK m \in Onward(d) : e = Copy(d, m)
      BY <3>3
    <3>5. e.to = m /\ e.from = d.to /\ e.id = d.id
      BY <3>4 DEF Copy
    <3> QED BY <3>1, <3>2, <3>5
  <2>3. ASSUME NEW b \in Bbmds, Serves(b, n), Underway(b, n, i)' PROVE Underway(b, n, i)
    <3> SUFFICES ASSUME ~Underway(b, n, i) PROVE FALSE
      OBVIOUS
    <3>1. b \notin Noisy
      BY <2>3, NoisyServer
    <3>2. b = d.to /\ i = d.id /\ heard[b][i] # 0
      BY <2>2, <2>3
    <3> QED BY <1>6, <3>1, <3>2
  <2>4. OpenNear(n, i)' => OpenNear(n, i)
    BY <2>3 DEF OpenNear
  <2>5. ASSUME NEW b \in Bbmds, n \notin Foreign, Entrance(b, sender[i]), Home[n] # Home[b],
               Underway(b, n, i)', ~Underway(b, n, i)
        PROVE  FALSE
    <3>1. b = d.to /\ i = d.id /\ heard[b][i] # 0 /\ n \in Onward(d)
      BY <2>2, <2>5
    <3>2. \/ d.fn # "Forwarded" \/ d.from = d.to
      BY <1>1, <1>2, <2>5, <3>1, ToBbmd
    <3>3. CASE d.fn # "Forwarded"
      <4>1. FirstHand(d)
        BY <1>1, <3>3 DEF FirstHand, Datagrams
      <4> QED BY <1>2, <3>1, <4>1 DEF RouteInv
    <3>4. CASE d.fn = "Forwarded"
      <4>1. n \in ForeignTargets(b, d.origin) \/ n \in LocalTo(b)
        BY <3>1, <3>4 DEF Onward
      <4>2. Serves(b, n)
        BY <4>1, OnwardWays
      <4> QED BY <2>5, <4>2 DEF Serves
    <3> QED BY <3>3, <3>4
  <2>6. OpenFar(n, i)' => OpenFar(n, i)
    BY <2>5 DEF OpenFar
  <2> QED BY <2>1, <2>4, <2>6
<1>9. ASSUME NEW n \in Nodes \ Noisy, NEW i \in Ids, sender[i] # Nobody
      PROVE  Copies(n, i)' <= Limit(n, sender[i])
  <2>1. Copies(n, i) <= Limit(n, sender[i])
    BY <1>9 DEF CopiesInv
  <2>2. Limit(n, sender[i]) \in Nat
    BY DEF Limit
  <2>3. Copies(n, i)' = heard'[n][i] + One(OpenFirst(n, i)') + One(OpenNear(n, i)')
                                     + One(OpenFar(n, i)')
    BY DEF Copies
  <2>4. CASE n = d.to /\ i = d.id
    <3>0. heard[n][i] \in {0, 1} /\ heard'[n][i] = Count(heard[n][i])
      BY <1>6, <1>7, <1>9, <2>4
    <3>1. heard'[n][i] = heard[n][i] + 1 /\ heard[n][i] \in Nat
      BY <3>0, CountFacts
    <3> QED BY <1>5, <1>8, <1>9, <2>1, <2>2, <2>3, <2>4, <3>1 DEF Copies, One
  <2>5. CASE ~(n = d.to /\ i = d.id)
    BY <1>7, <1>8, <1>9, <2>1, <2>2, <2>3, <2>5 DEF Copies, One
  <2> QED BY <2>4, <2>5
<1> QED BY <1>9 DEF CopiesInv

\* What a BBMD forwards is on its way to its own nodes and, if it is the
\* entrance and hears it first, to other subnets.
LEMMA HeardRoute ==
  ASSUME TypeInv, RouteInv, NEW d \in net, Hears(d),
         d.fn # "Register", Hand(d), UNCHANGED sender,
         net' = (net \ {d})
                \cup (IF d.to \in Bbmds THEN {Copy(d, m) : m \in Onward(d)} ELSE {}),
         \A b \in Bbmds : fdt'[b] \subseteq fdt[b]
  PROVE  RouteInv'
<1>1. net \subseteq Datagrams /\ d \in Datagrams /\ Routed(d) /\ d.to \in Nodes /\ d.id \in Ids
      /\ d.hops \in Nat /\ d.from \in Nodes
  BY DEF TypeInv, AskedInv, RouteInv, Routed, Datagrams
<1>2. d.origin # d.to /\ sender[d.id] = d.origin /\ d.origin \in Nodes
  BY <1>1, NotItsOwn
<1>3. ASSUME NEW n \in Nodes, NEW i \in Ids
      PROVE  /\ heard[n][i] \in Nat
             /\ heard'[n][i] = IF n = d.to /\ i = d.id THEN Count(heard[n][i]) ELSE heard[n][i]
             /\ heard'[n][i] >= heard[n][i]
  <2>1. heard[n][i] \in Nat
    BY DEF TypeInv, HistoryInv
  <2>2. heard'[n][i] = IF n = d.to /\ i = d.id THEN Count(heard[n][i]) ELSE heard[n][i]
    BY <1>1 DEF Hand, TypeInv, HistoryInv
  <2> QED BY <2>1, <2>2, CountFacts
<1>4. ASSUME NEW e \in net, Routed(e), e.fn # "Register" PROVE Routed(e)'
  <2>1. e.id \in Ids /\ (e.fn = "Forwarded" => e.from \in Bbmds /\ heard[e.from][e.id] > 0)
    BY <1>4 DEF Routed
  <2>2. ASSUME e.fn = "Forwarded" PROVE heard'[e.from][e.id] > 0
    <3>1. e.from \in Nodes
      BY <2>1, <2>2, NetworkAssumption
    <3>2. heard'[e.from][e.id] >= heard[e.from][e.id] /\ heard[e.from][e.id] > 0
      BY <1>3, <2>1, <2>2, <3>1
    <3>3. heard[e.from][e.id] \in Nat /\ heard'[e.from][e.id] \in Nat
      BY <1>3, <2>1, <3>1, CountFacts
    <3> QED BY <3>2, <3>3
  <2> QED BY <1>4, <2>2 DEF Routed
<1>5. ASSUME d.to \in Bbmds, NEW m \in Onward(d), NEW e, e = Copy(d, m)
      PROVE  e.fn = "Forwarded" /\ Routed(e)'
  <2>1. /\ e.fn = "Forwarded" /\ e.to = m /\ e.from = d.to /\ e.origin = d.origin
        /\ e.id = d.id /\ e.hops = Count(d.hops)
    BY <1>5 DEF Copy
  <2>2. heard'[e.from][e.id] > 0
    BY <1>1, <1>3, <2>1, CountFacts
  <2>3. \E b \in Bbmds : Entrance(b, e.origin)
    BY <1>1, <1>2, <1>5, <2>1, ToBbmd DEF Routed
  <2>4. m \in ForeignTargets(d.to, d.origin) \cup ForeignTargets(d.to, d.from) \cup LocalTo(d.to)
          => Near(e)
    BY <1>5, <2>1, OnwardWays DEF Near
  <2>5. \/ Far(e) /\ e.hops = 1
        \/ /\ Near(e)
           /\ e.from \notin Echoing => e.hops = IF Entrance(e.from, e.origin) THEN 1 ELSE 2
    <3>1. CASE d.fn # "Forwarded"
      <4>1. Entrance(e.from, e.origin) /\ e.hops = 1
        BY <1>1, <1>2, <1>5, <2>1, <3>1, ToBbmd, CountFacts
      <4>2. Near(e) \/ m \in Peers(d.to, d.from)
        BY <1>5, <2>4, <3>1 DEF Onward
      <4>3. m \in Peers(d.to, d.from) => Far(e)
        BY <1>5, <2>1, <4>1, OnwardWays DEF Far
      <4> QED BY <4>1, <4>2, <4>3
    <3>2. CASE d.fn = "Forwarded"
      <4>1. Near(e)
        BY <1>5, <2>4, <3>2 DEF Onward
      <4>2. \/ ~Entrance(e.from, e.origin) /\ e.hops = 2
            \/ e.from \in Echoing
        BY <1>1, <1>2, <1>5, <2>1, <3>2, ToBbmd, CountFacts
      <4> QED BY <4>1, <4>2
    <3> QED BY <3>1, <3>2
  <2>6. Routed(e)'
    BY <1>1, <1>2, <1>5, <2>1, <2>2, <2>3, <2>5 DEF Routed, Near, Far
  <2> QED BY <2>1, <2>6
<1>6. \A e \in net' : IF e.fn = "Register" THEN e.to = Registrar[e.from] /\ e.hops = 0
                       ELSE Routed(e)'
  <2>1. ASSUME NEW e \in net', e \notin net PROVE e.fn = "Forwarded" /\ Routed(e)'
    BY <1>5, <2>1
  <2> QED BY <1>4, <2>1 DEF RouteInv
<1>7. \A i \in Ids, n \in Nodes : sender'[i] \in {Nobody, n} => heard'[n][i] = 0
  BY <1>2, <1>3, NetworkAssumption DEF RouteInv
<1>8. ASSUME NEW e \in net', FirstHand(e), e.to \in Bbmds, e.origin # e.to
      PROVE  heard'[e.to][e.id] = 0
  <2>1. e \in net /\ e # d /\ e.fn # "Forwarded" /\ e.fn # "Register"
    BY <1>5, <1>8 DEF FirstHand
  <2>2. e \in Datagrams /\ Routed(e) /\ e.id \in Ids /\ e.to \in Nodes
    BY <1>1, <2>1 DEF RouteInv, Routed, Datagrams
  <2>3. heard[e.to][e.id] = 0
    BY <1>8, <2>1 DEF RouteInv
  <2>4. Entrance(e.to, e.origin) /\ e.from = e.origin /\ sender[e.id] = e.origin
    BY <1>8, <2>1, <2>2, ToBbmd DEF Routed
  <2>5. ASSUME e.to = d.to, e.id = d.id PROVE FALSE
    <3>1. e.origin = d.origin /\ d.to \in Bbmds
      BY <1>2, <1>8, <2>4, <2>5
    <3>2. CASE d.fn # "Forwarded"
      <4>1. d.from = d.origin
        BY <1>1, <1>2, <3>1, <3>2, ToBbmd
      <4> QED BY <2>1, <2>4, <2>5, <3>1, <3>2, <4>1, OnlyOne
    <3>3. CASE d.fn = "Forwarded"
      <4>1. d.from = d.to
        BY <1>1, <1>2, <2>4, <2>5, <3>1, <3>3, ToBbmd
      <4>2. heard[d.to][d.id] > 0
        BY <1>1, <3>3, <4>1 DEF Routed
      <4> QED BY <2>3, <2>5, <4>2
    <3> QED BY <3>2, <3>3
  <2> QED BY <1>3, <2>2, <2>3, <2>5
<1> QED BY <1>6, <1>7, <1>8 DEF RouteInv

\* The ways to a node are as many as it may hear copies: a BBMD is either the
\* entrance or a peer, a foreign device shares no subnet with a BBMD.
LEMMA WaysFit ==
  ASSUME NEW n \in Nodes, NEW s \in Nodes, NEW first \in BOOLEAN, NEW near \in BOOLEAN,
         NEW far \in BOOLEAN,
         first => /\ n # s
                  /\ IF s \in Foreign THEN n = Registrar[s] ELSE Home[n] = Home[s],
         near => n \notin Bbmds /\ n # s /\ \E b \in Bbmds : Entrance(b, s),
         far => /\ n \notin Foreign /\ n # s
                /\ \E b \in Bbmds : Entrance(b, s) /\ Home[n] # Home[b]
  PROVE  One(first) + One(near) + One(far) <= Limit(n, s)
<1>1. CASE n = s
  BY <1>1 DEF One, Limit
<1>2. CASE n # s /\ n \in Bbmds
  <2>1. first => Entrance(n, s)
    BY <1>2, NetworkAssumption DEF Entrance, Serves
  <2>2. first => ~far
    BY <2>1, OneServer DEF Entrance
  <2> QED BY <1>2, <2>2 DEF One, Limit
<1>3. CASE n # s /\ n \in Foreign
  <2>1. first => s \notin Foreign /\ Home[n] = Home[s]
    BY <1>3, NetworkAssumption
  <2>2. first => ~near
    BY <1>3, <2>1, NetworkAssumption DEF Entrance, Serves
  <2> QED BY <1>3, <2>2 DEF One, Limit
<1>4. CASE n # s /\ n \notin Bbmds \cup Foreign
  <2>1. first => s \notin Foreign /\ Home[n] = Home[s]
    BY <1>4, NetworkAssumption
  <2>2. first => ~far
    BY <1>4, <2>1, NetworkAssumption DEF Entrance, Serves
  <2> QED BY <1>4, <2>2 DEF One, Limit
<1> QED BY <1>1, <1>2, <1>3, <1>4

\* What an application broadcasts has a new number.
LEMMA SendCopies ==
  ASSUME TypeInv, RouteInv, CopiesInv, NEW s \in Nodes, SendBroadcast(s)
  PROVE  RouteInv' /\ CopiesInv'
<1>1. PICK i \in Ids :
        /\ sender[i] = Nobody
        /\ sender' = [sender EXCEPT ![i] = s]
        /\ net' = net \cup
             IF s \in Foreign
             THEN {[fn |-> "Distribute", to |-> Registrar[s], from |-> s, origin |-> s,
                    id |-> i, hops |-> 0]}
             ELSE Original(s, i, LocalTo(s))
  BY DEF SendBroadcast
<1>2. UNCHANGED <<fdt, heard>>
  BY DEF SendBroadcast, tables
<1>3. \A j \in Ids : sender'[j] = IF j = i THEN s ELSE sender[j]
  BY <1>1 DEF TypeInv, HistoryInv
<1>4. \A n \in Nodes : heard[n][i] = 0 /\ heard'[n][i] = 0
  BY <1>1, <1>2 DEF RouteInv
<1>5. \A d \in net : d.fn # "Register" => d.id # i
  BY <1>1, NetworkAssumption DEF RouteInv, Routed
<1>6. \A d \in net' : d \in net \/ (FirstHand(d) /\ d.id = i)
  BY <1>1 DEF Original, FirstHand
<1>7. RouteInv'
  <2>1. ASSUME NEW d \in net, d.fn # "Register" PROVE Routed(d)'
    <3>1. Routed(d) /\ d.id # i
      BY <1>5, <2>1 DEF RouteInv
    <3> QED BY <1>2, <1>3, <3>1 DEF Routed
  <2>2. ASSUME NEW d \in net', d \notin net PROVE d.fn # "Register" /\ Routed(d)'
    <3>1. CASE s \in Foreign
      <4>1. d = [fn |-> "Distribute", to |-> Registrar[s], from |-> s, origin |-> s,
                 id |-> i, hops |-> 0]
        BY <1>1, <2>2, <3>1
      <4>2. /\ d.fn = "Distribute" /\ d.to = Registrar[s] /\ d.from = s /\ d.origin = s
            /\ d.id = i /\ d.hops = 0
        BY <4>1
      <4> QED BY <1>3, <3>1, <4>2 DEF Routed
    <3>2. CASE s \notin Foreign
      <4>1. PICK m \in LocalTo(s) :
              d = [fn |-> "OriginalBroadcast", to |-> m, from |-> s, origin |-> s,
                   id |-> i, hops |-> 0]
        BY <1>1, <2>2, <3>2 DEF Original
      <4>2. /\ d.fn = "OriginalBroadcast" /\ d.to = m /\ d.from = s /\ d.origin = s
            /\ d.id = i /\ d.hops = 0
        BY <4>1
      <4>3. Home[m] = Home[s]
        BY DEF LocalTo, SubnetOf
      <4> QED BY <1>3, <3>2, <4>2, <4>3 DEF Routed
    <3> QED BY <3>1, <3>2
  <2>3. \A j \in Ids, n \in Nodes : sender'[j] \in {Nobody, n} => heard'[n][j] = 0
    BY <1>2, <1>3, <1>4, NetworkAssumption DEF RouteInv
  <2>4. \A b \in Bbmds, f \in Foreign : f \in fdt'[b] => b = Registrar[f]
    BY <1>2 DEF RouteInv
  <2>5. \A d \in net' : IF d.fn = "Register" THEN d.to = Registrar[d.from] /\ d.hops = 0
                       ELSE Routed(d)'
    BY <2>1, <2>2 DEF RouteInv
  <2>6. ASSUME NEW d \in net', FirstHand(d), d.to \in Bbmds, d.origin # d.to
        PROVE  heard'[d.to][d.id] = 0
    BY <1>2, <1>4, <1>6, <2>6, NetworkAssumption DEF RouteInv
  <2> QED BY <2>3, <2>4, <2>5, <2>6 DEF RouteInv
<1>8. ASSUME NEW n \in Nodes \ Noisy PROVE Copies(n, i)' <= Limit(n, s)
  <2>1. OpenFirst(n, i)' => /\ n # s
                            /\ IF s \in Foreign THEN n = Registrar[s] ELSE Home[n] = Home[s]
    <3>1. ASSUME NEW d \in net', FirstHand(d), d.id = i, d.to = n, d.origin # n
          PROVE  n # s /\ IF s \in Foreign THEN n = Registrar[s] ELSE Home[n] = Home[s]
      <4>1. Routed(d)'
        BY <1>7, <3>1 DEF RouteInv, FirstHand
      <4>2. d.origin = s
        BY <1>3, <3>1, <4>1 DEF Routed
      <4> QED BY <3>1, <4>1, <4>2 DEF Routed, FirstHand
    <3> QED BY <3>1 DEF OpenFirst
  <2>2. OpenNear(n, i)' => n \notin Bbmds /\ n # s /\ \E b \in Bbmds : Entrance(b, s)
    BY <1>3 DEF OpenNear
  <2>3. OpenFar(n, i)' => /\ n \notin Foreign /\ n # s
                          /\ \E b \in Bbmds : Entrance(b, s) /\ Home[n] # Home[b]
    BY <1>3 DEF OpenFar
  <2>4. PICK first \in BOOLEAN : first = OpenFirst(n, i)'
    BY DEF OpenFirst
  <2>5. PICK near \in BOOLEAN : near = OpenNear(n, i)'
    BY DEF OpenNear
  <2>6. PICK far \in BOOLEAN : far = OpenFar(n, i)'
    BY DEF OpenFar
  <2>7. One(first) + One(near) + One(far) <= Limit(n, s)
    BY <2>1, <2>2, <2>3, <2>4, <2>5, <2>6, WaysFit
  <2>8. Copies(n, i)' = heard'[n][i] + One(first) + One(near) + One(far)
    BY <2>4, <2>5, <2>6 DEF Copies
  <2> QED BY <1>4, <2>7, <2>8 DEF One
<1>9. ASSUME NEW n \in Nodes \ Noisy, NEW j \in Ids, j # i, sender[j] # Nobody
      PROVE  Copies(n, j)' <= Limit(n, sender[j])
  <2>1. heard[n][j] \in Nat /\ heard'[n][j] = heard[n][j] /\ sender'[j] = sender[j]
    BY <1>2, <1>3, <1>9 DEF TypeInv, HistoryInv
  <2>2. OpenFirst(n, j)' => OpenFirst(n, j)
    BY <1>6, <1>9 DEF OpenFirst
  <2>3. ASSUME NEW b \in Bbmds, Underway(b, n, j)' PROVE Underway(b, n, j)
    BY <1>2, <1>6, <2>3 DEF Underway, FirstHand
  <2>4. OpenNear(n, j)' => OpenNear(n, j)
    BY <2>1, <2>3 DEF OpenNear
  <2>5. OpenFar(n, j)' => OpenFar(n, j)
    BY <2>1, <2>3 DEF OpenFar
  <2>6. Copies(n, j) <= Limit(n, sender[j]) /\ Limit(n, sender[j]) \in Nat
    BY <1>9 DEF CopiesInv, Limit
  <2>7. Copies(n, j)' = heard'[n][j] + One(OpenFirst(n, j)') + One(OpenNear(n, j)')
                                     + One(OpenFar(n, j)')
    BY DEF Copies
  <2> QED BY <2>1, <2>2, <2>4, <2>5, <2>6, <2>7 DEF Copies, One
<1>10. CopiesInv'
  <2>1. ASSUME NEW n \in Nodes \ Noisy, NEW j \in Ids, sender'[j] # Nobody
        PROVE  Copies(n, j)' <= Limit(n, sender'[j])
    BY <1>3, <1>8, <1>9, <2>1
  <2> QED BY <2>1 DEF CopiesInv
<1> QED BY <1>7, <1>10

\* Every step keeps the credits.
LEMMA CopiesStep ==
  ASSUME TypeInv, RouteInv, CopiesInv, [Next]_vars
  PROVE  RouteInv' /\ CopiesInv'
<1>1. ASSUME NEW s \in Nodes, SendBroadcast(s) PROVE RouteInv' /\ CopiesInv'
  BY <1>1, SendCopies
<1>2. ASSUME NEW f \in Foreign, SendRegister(f) PROVE RouteInv' /\ CopiesInv'
  <2>1. UNCHANGED <<heard, sender, fdt>>
    BY <1>2 DEF SendRegister, tables
  <2>2. \A d \in net' : \/ d \in net
                        \/ d.fn = "Register" /\ d.to = Registrar[d.from] /\ d.hops = 0
    BY <1>2 DEF SendRegister
  <2>3. \A b \in Bbmds, g \in Foreign : g \in fdt'[b] => b = Registrar[g]
    BY <2>1 DEF RouteInv
  <2> QED BY <2>1, <2>2, <2>3, QuietCopies
<1>3. ASSUME NEW d \in net, Receive(d), Hears(d) PROVE RouteInv' /\ CopiesInv'
  <2>1. /\ UNCHANGED sender /\ d.fn # "Register" /\ Hand(d)
        /\ net' = (net \ {d})
                  \cup (IF d.to \in Bbmds THEN {Copy(d, m) : m \in Onward(d)} ELSE {})
        /\ \A b \in Bbmds : fdt'[b] \subseteq fdt[b]
    BY <1>3, ReceiveDoes
  <2>2. CopiesInv'
    BY <1>3, <2>1, HeardCopies
  <2>3. RouteInv'
    BY <1>3, <2>1, HeardRoute
  <2> QED BY <2>2, <2>3
<1>4. ASSUME NEW d \in net, Receive(d), ~Hears(d) PROVE RouteInv' /\ CopiesInv'
  <2>1. /\ UNCHANGED <<heard, sender>> /\ net' = net \ {d}
        /\ \A b \in Bbmds : \A f \in fdt'[b] :
             f \in fdt[b] \/ (d.fn = "Register" /\ f = d.from /\ b = d.to)
    BY <1>4, ReceiveDoes
  <2>2. d.fn = "Register" => d.to = Registrar[d.from]
    BY DEF RouteInv
  <2>3. \A b \in Bbmds, f \in Foreign : f \in fdt'[b] => b = Registrar[f]
    BY <2>1, <2>2 DEF RouteInv
  <2> QED BY <2>1, <2>3, QuietCopies
<1>5. ASSUME UNCHANGED <<heard, sender>>, net' \subseteq net,
             \A b \in Bbmds : fdt'[b] \subseteq fdt[b]
      PROVE  RouteInv' /\ CopiesInv'
  <2>1. \A b \in Bbmds, f \in Foreign : f \in fdt'[b] => b = Registrar[f]
    BY <1>5 DEF RouteInv
  <2> QED BY <1>5, <2>1, QuietCopies
<1>6. \/ \E s \in Nodes : SendBroadcast(s)
      \/ \E f \in Foreign : SendRegister(f)
      \/ \E d \in net : Receive(d)
      \/ /\ UNCHANGED <<heard, sender>> /\ net' \subseteq net
         /\ \A b \in Bbmds : fdt'[b] \subseteq fdt[b]
  <2>1. fdt \in [Bbmds -> SUBSET Foreign]
    BY DEF TypeInv, FdtInv
  <2>2. ASSUME \/ \E d \in net : Lose(d)
               \/ \E b \in Bbmds : \/ \E n \in Foreign : Expire(b, n)
                                   \/ \E T \in Tables : WriteBdt(b, T)
                                   \/ Reopen(b)
               \/ UNCHANGED vars
        PROVE  UNCHANGED <<heard, sender, fdt>> /\ net' \subseteq net
    BY <2>2 DEF Lose, Expire, WriteBdt, Reopen, vars, tables
  <2>3. ASSUME NEW b \in Bbmds,
               (\E n \in Foreign : DeleteEntry(b, n)) \/ ReadFdt(b) \/ Restart(b)
        PROVE  /\ UNCHANGED <<heard, sender>> /\ net' \subseteq net
               /\ \E X \in SUBSET fdt[b] : fdt' = [fdt EXCEPT ![b] = X]
    BY <2>3 DEF DeleteEntry, ReadFdt, Purge, Live, Restart
  <2>4. ASSUME NEW b \in Bbmds, NEW X \in SUBSET fdt[b], fdt' = [fdt EXCEPT ![b] = X]
        PROVE  \A c \in Bbmds : fdt'[c] \subseteq fdt[c]
    BY <2>1, <2>4
  <2> QED BY <2>2, <2>3, <2>4 DEF Next
<1> QED BY <1>1, <1>2, <1>3, <1>4, <1>5, <1>6

\* The credits last, whatever happens.
LEMMA CopiesAlways == Spec => []RouteInv /\ []CopiesInv
<1>1. Init => RouteInv /\ CopiesInv
  <2> SUFFICES ASSUME Init PROVE RouteInv /\ CopiesInv
    OBVIOUS
  <2>1. \A i \in Ids : sender[i] = Nobody /\ \A n \in Nodes : heard[n][i] = 0
    BY DEF Init
  <2>2. net = {} /\ \A b \in Bbmds : fdt[b] = {}
    BY DEF Init
  <2> QED BY <2>1, <2>2 DEF RouteInv, CopiesInv
<1>2. TypeInv /\ (RouteInv /\ CopiesInv) /\ [Next]_vars => (RouteInv /\ CopiesInv)'
  BY CopiesStep
<1> QED BY <1>1, <1>2, TypesAlways, PTL DEF Spec

\* In every internetwork, whichever sockets hear their own broadcasts, however
\* the tables are written, whatever is lost and whoever restarts, a broadcast
\* passes two BBMDs at most, and what a BBMD that hears itself repeats goes to
\* those it serves (handle_bvll_message, is_bdt_peer).
THEOREM EchoesStayHomeCorrect == Spec => []EchoesStayHome
<1>1. TypeInv /\ RouteInv => EchoesStayHome
  <2> SUFFICES ASSUME TypeInv, RouteInv, NEW d \in net
               PROVE  d.hops <= 2 \/ (d.from \in Echoing /\ Serves(d.from, d.to))
    BY DEF EchoesStayHome
  <2>1. CASE d.fn # "Forwarded"
    <3>1. d.hops = 0
      BY <2>1 DEF TypeInv, AskedInv, RouteInv, Routed, Datagrams
    <3> QED BY <3>1
  <2>2. CASE d.fn = "Forwarded"
    <3>1. \/ d.hops = 1
          \/ /\ Near(d)
             /\ d.from \notin Echoing => d.hops = IF Entrance(d.from, d.origin) THEN 1 ELSE 2
      BY <2>2 DEF RouteInv, Routed
    <3>2. d.hops \in {1, 2} \/ (d.from \in Echoing /\ Near(d))
      BY <3>1
    <3> QED BY <3>2 DEF Near
  <2> QED BY <2>1, <2>2
<1> QED BY <1>1, CopiesAlways, TypesAlways, PTL

\* In every internetwork, BBMDs and foreign devices hear a broadcast once at
\* most and other nodes twice, unless the BBMD that serves them hears itself,
\* and nobody its own, whatever is written, lost or restarted
\* (handle_bvll_message).
THEOREM CopiesBoundedCorrect == Spec => []CopiesBounded
<1>1. TypeInv /\ RouteInv /\ CopiesInv => CopiesBounded
  <2> SUFFICES ASSUME TypeInv, RouteInv, CopiesInv, NEW n \in Nodes, NEW i \in Ids
               PROVE  IF n = sender[i] THEN heard[n][i] = 0
                      ELSE n \in Noisy \/ heard[n][i] <= Limit(n, sender[i])
    BY DEF CopiesBounded, Limit
  <2>1. heard[n][i] \in Nat /\ Limit(n, sender[i]) \in Nat
    BY DEF TypeInv, HistoryInv, Limit
  <2>2. CASE sender[i] \in {Nobody, n}
    BY <2>1, <2>2 DEF RouteInv
  <2>3. CASE sender[i] \notin {Nobody, n}
    BY <2>1, <2>3 DEF CopiesInv, Copies, One
  <2> QED BY <2>2, <2>3
<1> QED BY <1>1, CopiesAlways, TypesAlways, PTL

-----------------------------------------------------------------------------
(* Everyone who is promised a broadcast hears it.                          *)

\* A copy carries the same broadcast, from the BBMD to another node.
LEMMA CopyFields ==
  \A d, m : /\ Copy(d, m).fn = "Forwarded" /\ Copy(d, m).to = m /\ Copy(d, m).from = d.to
            /\ Copy(d, m).origin = d.origin /\ Copy(d, m).id = d.id
BY DEF Copy

\* A copy to a node that is no BBMD is heard, unless by the sender.
LEMMA CopyHeard ==
  ASSUME NEW d, NEW m, m # d.origin, m \in Bbmds => IsPeer(m, d.to)
  PROVE  Reaches(Copy(d, m), m)
BY CopyFields DEF Reaches, Hears

\* A shorter way is a way.
LEMMA ShorterWay ==
  ASSUME NEW d, NEW n
  PROVE  Reaches(d, n) => ReachesByOne(d, n) /\ (ReachesByOne(d, n) => ReachesByTwo(d, n))
BY DEF ReachesByOne, ReachesByTwo

\* The ways a copy may go on, of what the BBMD hears.
LEMMA WayOn ==
  ASSUME NEW d, NEW n, NEW m, Hears(d), d.to \in Bbmds, m \in Onward(d), m # d.to
  PROVE  /\ Reaches(Copy(d, m), n) => ReachesByOne(d, n) /\ ReachesByTwo(d, n)
         /\ ReachesByOne(Copy(d, m), n) => ReachesByTwo(d, n)
<1>1. Reaches(Copy(d, m), n) => ReachesByOne(Copy(d, m), n)
  BY DEF ReachesByOne
<1> QED BY <1>1 DEF ReachesByOne, ReachesByTwo

\* What a node sends reaches everyone to whom the tables promise it.
LEMMA PromiseWays ==
  ASSUME TypeInv, NEW n \in Nodes, NEW i \in Ids, NEW m \in Promised(n), NEW X,
         X = IF n \in Foreign
             THEN {[fn |-> "Distribute", to |-> Registrar[n], from |-> n, origin |-> n,
                    id |-> i, hops |-> 0]}
             ELSE Original(n, i, LocalTo(n))
  PROVE  \E d \in X : d.id = i /\ d.to # d.from /\ ReachesByTwo(d, m)
<1>1. m # n
  BY DEF Promised
<1>2. ASSUME n \notin Foreign, NEW x \in SubnetOf(n), x # n
      PROVE  \E d \in X : /\ d.fn = "OriginalBroadcast" /\ d.from = n /\ d.origin = n
                          /\ d.id = i /\ d.to = x
  <2>1. x \in LocalTo(n)
    BY <1>2 DEF LocalTo
  <2>2. [fn |-> "OriginalBroadcast", to |-> x, from |-> n, origin |-> n, id |-> i, hops |-> 0] \in X
    BY <1>2, <2>1 DEF Original
  <2> QED BY <2>2
<1>3. CASE n \notin Foreign /\ m \in SubnetOf(n)
  <2>1. PICK d \in X : d.fn = "OriginalBroadcast" /\ d.from = n /\ d.id = i /\ d.to = m
    BY <1>1, <1>2, <1>3
  <2>2. Reaches(d, m)
    BY <1>1, <2>1 DEF Reaches, Hears
  <2> QED BY <1>1, <2>1, <2>2 DEF ReachesByTwo
<1>4. ASSUME NEW b \in Relays(n),
             \/ m \in SubnetOf(b) \cup Live(b)
             \/ \E e \in bdt[b] : e.node # b /\ m \in ServedFrom(b, e)
      PROVE  \E d \in X : d.id = i /\ d.to # d.from /\ ReachesByTwo(d, m)
  <2>1. /\ b \in Bbmds /\ b # n
        /\ IF n \in Foreign THEN b = Registrar[n] /\ n \in Live(b) ELSE Home[b] = Home[n]
    BY DEF Relays
  <2>2. PICK d \in X : /\ d.fn # "Forwarded" /\ d.from = n /\ d.origin = n /\ d.id = i
                       /\ d.to = b /\ Hears(d)
    <3>1. CASE n \in Foreign
      <4>1. PICK d \in X : /\ d.fn = "Distribute" /\ d.from = n /\ d.origin = n /\ d.id = i
                           /\ d.to = b
        BY <2>1, <3>1
      <4>2. Hears(d)
        BY <2>1, <3>1, <4>1 DEF Hears
      <4> QED BY <4>1, <4>2
    <3>2. CASE n \notin Foreign
      <4>1. b \in SubnetOf(n)
        BY <2>1, <3>2, NetworkAssumption DEF SubnetOf
      <4>2. PICK d \in X : /\ d.fn = "OriginalBroadcast" /\ d.from = n /\ d.origin = n
                           /\ d.id = i /\ d.to = b
        BY <1>2, <2>1, <3>2, <4>1
      <4>3. Hears(d)
        BY <2>1, <4>2 DEF Hears
      <4> QED BY <4>2, <4>3
    <3> QED BY <3>1, <3>2
  <2>3. Onward(d) = Peers(b, n) \cup ForeignTargets(b, n) \cup LocalTo(b)
    BY <2>2 DEF Onward
  <2>4. \A c \in Bbmds : \A x \in SubnetOf(c) : x # c => x \notin Bbmds /\ x \in LocalTo(c)
    BY NetworkAssumption DEF SubnetOf, LocalTo
  <2>5. \A c \in Bbmds : \A x \in Live(c) : x \notin Bbmds /\ (x # n => x \in ForeignTargets(c, n))
    BY NetworkAssumption DEF TypeInv, FdtInv, Live, ForeignTargets
  <2>6. ASSUME NEW x \in Onward(d), x = m, x # b, x \in Bbmds => IsPeer(x, b)
        PROVE  ReachesByTwo(d, m)
    <3>1. Reaches(Copy(d, x), m)
      BY <1>1, <2>2, <2>6, CopyHeard
    <3> QED BY <2>1, <2>2, <2>6, <3>1, WayOn
  <2>7. CASE m \in SubnetOf(b)
    <3>1. CASE m = b
      BY <2>1, <2>2, <3>1 DEF Reaches, ReachesByTwo
    <3>2. CASE m # b
      <4>1. m \in Onward(d) /\ m \notin Bbmds
        BY <2>1, <2>3, <2>4, <2>7, <3>2
      <4> QED BY <2>1, <2>2, <2>6, <3>2, <4>1
    <3> QED BY <3>1, <3>2
  <2>8. CASE m \in Live(b)
    <3>1. m \in Onward(d) /\ m \notin Bbmds /\ m # b
      BY <1>1, <2>1, <2>3, <2>5, <2>8
    <3> QED BY <2>1, <2>2, <2>6, <3>1
  <2>9. ASSUME NEW e \in bdt[b], e.node # b, m \in ServedFrom(b, e) PROVE ReachesByTwo(d, m)
    <3>1. e.node \in Bbmds /\ e.node \in Nodes
      BY <2>1, EntryType, NetworkAssumption DEF TypeInv, TablesInv
    <3>2. e.node # n
      BY <2>1, <2>9, <3>1, NetworkAssumption
    <3>3. \A x \in Whom(e) : x \in Peers(b, n)
      BY <2>9, <3>2 DEF Peers
    <3>4. CASE IsPeer(e.node, b)
      <4>1. e.node \in Onward(d)
        BY <2>3, <3>1, <3>3 DEF Whom, SubnetOf
      <4>2. PICK c : c = Copy(d, e.node)
        OBVIOUS
      <4>3. /\ c.fn = "Forwarded" /\ c.to = e.node /\ c.from = b /\ c.origin = n
        BY <2>2, <4>2, CopyFields
      <4>4. Hears(c)
        BY <3>2, <3>4, <4>3 DEF Hears
      <4>5. CASE m = e.node
        BY <2>1, <2>2, <2>6, <2>9, <3>4, <4>1, <4>5
      <4>6. CASE m # e.node
        <5>1. m \in SubnetOf(e.node) \/ m \in Live(e.node)
          BY <2>9, <3>4 DEF ServedFrom
        <5>2. m \notin Bbmds /\ (m \in LocalTo(e.node) \/ m \in ForeignTargets(e.node, n))
          BY <1>1, <2>4, <2>5, <3>1, <4>6, <5>1
        <5>3. m \in Onward(c)
          BY <4>3, <5>2 DEF Onward
        <5>4. Reaches(Copy(c, m), m)
          BY <1>1, <4>3, <5>2, CopyHeard
        <5>5. ReachesByOne(c, m)
          BY <3>1, <4>3, <4>4, <4>6, <5>3, <5>4, WayOn
        <5> QED BY <2>1, <2>2, <2>9, <4>1, <4>2, <5>5, WayOn
      <4> QED BY <4>5, <4>6
    <3>5. CASE ~IsPeer(e.node, b)
      <4>1. m \in Whom(e) /\ m # e.node
        BY <2>9, <3>5 DEF ServedFrom
      <4>2. m \notin Bbmds /\ m # b
        BY <2>1, <2>4, <3>1, <4>1 DEF Whom
      <4>3. m \in Onward(d)
        BY <2>3, <3>3, <4>1
      <4> QED BY <2>6, <4>2, <4>3
    <3> QED BY <3>4, <3>5
  <2> QED BY <1>4, <2>1, <2>2, <2>7, <2>8, <2>9
<1>5. \/ n \notin Foreign /\ m \in SubnetOf(n)
      \/ \E b \in Relays(n) : \/ m \in SubnetOf(b) \cup Live(b)
                              \/ \E e \in bdt[b] : e.node # b /\ m \in ServedFrom(b, e)
  BY DEF Promised
<1> QED BY <1>3, <1>4, <1>5

\* As long as no table loses an entry, a way stays one.
LEMMA WayStays ==
  ASSUME UNCHANGED bdt, \A b \in Bbmds : Live(b) \subseteq Live(b)',
         NEW d, d.fn = "Distribute" => d.to \in Bbmds, NEW n
  PROVE  ReachesByTwo(d, n) => ReachesByTwo(d, n)'
<1>1. ASSUME NEW e, e.fn = "Distribute" => e.to \in Bbmds
      PROVE  /\ Hears(e) => Hears(e)'
             /\ e.to \in Bbmds => Onward(e) \subseteq Onward(e)'
             /\ Reaches(e, n) => Reaches(e, n)'
  <2>1. Hears(e) => Hears(e)'
    BY <1>1 DEF Hears, IsPeer
  <2>2. e.to \in Bbmds => Onward(e) \subseteq Onward(e)'
    BY DEF Onward, ForeignTargets, Peers
  <2>3. Reaches(e, n) => Reaches(e, n)'
    BY <2>1 DEF Reaches
  <2> QED BY <2>1, <2>2, <2>3
<1>2. ASSUME NEW e, e.fn = "Distribute" => e.to \in Bbmds, ReachesByOne(e, n)
      PROVE  ReachesByOne(e, n)'
  <2>1. CASE Reaches(e, n)
    BY <1>1, <1>2, <2>1 DEF ReachesByOne
  <2>2. CASE Hears(e) /\ e.to \in Bbmds /\ \E m \in Onward(e) \ {e.to} : Reaches(Copy(e, m), n)
    <3>1. PICK m \in Onward(e) \ {e.to} : Reaches(Copy(e, m), n)
      BY <2>2
    <3>2. PICK c : c = Copy(e, m)
      OBVIOUS
    <3>3. c.fn = "Forwarded" /\ Reaches(c, n)
      BY <3>1, <3>2, CopyFields
    <3>4. Reaches(c, n)'
      BY <1>1, <3>3
    <3>5. Hears(e)' /\ m \in Onward(e)'
      BY <1>1, <1>2, <2>2
    <3> QED BY <2>2, <3>2, <3>4, <3>5 DEF ReachesByOne, Copy
  <2> QED BY <1>2, <2>1, <2>2 DEF ReachesByOne
<1> SUFFICES ASSUME ReachesByTwo(d, n) PROVE ReachesByTwo(d, n)'
  OBVIOUS
<1>3. CASE Reaches(d, n)
  BY <1>1, <1>3 DEF ReachesByTwo
<1>4. CASE Hears(d) /\ d.to \in Bbmds /\ \E m \in Onward(d) \ {d.to} : ReachesByOne(Copy(d, m), n)
  <2>1. PICK m \in Onward(d) \ {d.to} : ReachesByOne(Copy(d, m), n)
    BY <1>4
  <2>2. PICK c : c = Copy(d, m)
    OBVIOUS
  <2>3. c.fn = "Forwarded" /\ ReachesByOne(c, n)
    BY <2>1, <2>2, CopyFields
  <2>4. ReachesByOne(c, n)'
    BY <1>2, <2>3
  <2>5. Hears(d)' /\ m \in Onward(d)'
    BY <1>1, <1>4
  <2> QED BY <1>4, <2>2, <2>4, <2>5 DEF ReachesByTwo, Copy
<1> QED BY <1>3, <1>4 DEF ReachesByTwo

\* Receiving a datagram takes everyone on its way one step nearer.
LEMMA ReceiveDue ==
  ASSUME TypeInv, DueInv, NEW d \in net, Receive(d)
  PROVE  DueInv'
<1>1. /\ UNCHANGED <<bdt, due>> /\ \A b \in Bbmds : Live(b) \subseteq Live(b)'
      /\ net \ {d} \subseteq net'
  BY ReceiveDoes
<1>2. ASSUME NEW e \in net PROVE e.fn = "Distribute" => e.to \in Bbmds
  BY DEF TypeInv, AskedInv
<1>3. ASSUME NEW n \in Nodes, NEW i \in Ids
      PROVE  heard'[n][i] \in {heard[n][i], Count(heard[n][i])} /\ heard[n][i] \in Nat
             /\ Count(heard[n][i]) > 0
  <2>0. heard \in [Nodes -> [Ids -> Nat]]
    BY DEF TypeInv, HistoryInv
  <2>1. heard[n][i] \in Nat /\ Count(heard[n][i]) > 0
    BY <2>0, CountFacts
  <2>2. CASE UNCHANGED heard
    BY <2>1, <2>2
  <2>3. CASE Hand(d)
    BY <2>0, <2>1, <2>3 DEF Hand
  <2> QED BY <2>2, <2>3, ReceiveDoes
<1>4. ASSUME NEW i \in Ids, NEW n \in due[i]
      PROVE  heard'[n][i] > 0 \/ \E e \in net' : e.id = i /\ e.to # e.from /\ ReachesByTwo(e, n)'
  <2>1. n \in Nodes
    BY DEF TypeInv, HistoryInv
  <2>2. CASE heard[n][i] > 0
    BY <1>3, <2>1, <2>2
  <2>3. CASE \E e \in net : e.id = i /\ e # d /\ e.to # e.from /\ ReachesByTwo(e, n)
    <3>1. PICK e \in net : e.id = i /\ e # d /\ e.to # e.from /\ ReachesByTwo(e, n)
      BY <2>3
    <3>2. ReachesByTwo(e, n)'
      BY <1>1, <1>2, <3>1, WayStays
    <3> QED BY <1>1, <3>1, <3>2
  <2>4. CASE d.id = i /\ ReachesByTwo(d, n)
    <3>1. Hears(d)
      BY <2>4 DEF ReachesByTwo, Reaches
    <3>2. /\ Hand(d)
          /\ net' = (net \ {d})
                    \cup (IF d.to \in Bbmds THEN {Copy(d, m) : m \in Onward(d)} ELSE {})
      BY <3>1, ReceiveDoes
    <3>3. CASE Reaches(d, n)
      <4>1. heard'[n][i] = Count(heard[n][i])
        BY <2>1, <2>4, <3>2, <3>3 DEF Hand, Reaches, TypeInv, HistoryInv
      <4> QED BY <1>3, <2>1, <4>1
    <3>4. CASE d.to \in Bbmds /\ \E m \in Onward(d) \ {d.to} : ReachesByOne(Copy(d, m), n)
      <4>1. PICK m \in Onward(d) \ {d.to} : ReachesByOne(Copy(d, m), n)
        BY <3>4
      <4>2. PICK c : c = Copy(d, m)
        OBVIOUS
      <4>3. c.fn = "Forwarded" /\ c.id = i /\ c.to # c.from /\ ReachesByOne(c, n)
        BY <2>4, <4>1, <4>2, CopyFields
      <4>4. ReachesByTwo(c, n)
        <5>1. CASE Reaches(c, n)
          BY <5>1 DEF ReachesByTwo
        <5>2. CASE /\ Hears(c) /\ c.to \in Bbmds
                   /\ \E x \in Onward(c) \ {c.to} : Reaches(Copy(c, x), n)
          BY <5>2, WayOn
        <5> QED BY <4>3, <5>1, <5>2 DEF ReachesByOne
      <4>5. c \in net'
        BY <3>2, <3>4, <4>2
      <4>6. ReachesByTwo(c, n)'
        BY <1>1, <4>3, <4>4, WayStays
      <4> QED BY <4>3, <4>5, <4>6
    <3> QED BY <2>4, <3>3, <3>4 DEF ReachesByTwo
  <2> QED BY <2>2, <2>3, <2>4 DEF DueInv
<1>5. \A i \in Ids : \A n \in due'[i] :
        heard'[n][i] > 0 \/ \E e \in net' : e.id = i /\ e.to # e.from /\ ReachesByTwo(e, n)'
  BY <1>1, <1>4
<1> QED BY <1>5 DEF DueInv

\* A broadcast starts on its way to everyone to whom it is promised.
LEMMA SendDue ==
  ASSUME TypeInv, DueInv, NEW s \in Nodes, SendBroadcast(s)
  PROVE  DueInv'
<1>0. PICK i \in Ids :
        /\ net' = net \cup
             IF s \in Foreign
             THEN {[fn |-> "Distribute", to |-> Registrar[s], from |-> s, origin |-> s,
                    id |-> i, hops |-> 0]}
             ELSE Original(s, i, LocalTo(s))
        /\ due' = [due EXCEPT ![i] = Promised(s)]
  BY DEF SendBroadcast
<1>1. PICK X :
        /\ X = IF s \in Foreign
               THEN {[fn |-> "Distribute", to |-> Registrar[s], from |-> s, origin |-> s,
                      id |-> i, hops |-> 0]}
               ELSE Original(s, i, LocalTo(s))
        /\ net' = net \cup X
        /\ due' = [due EXCEPT ![i] = Promised(s)]
  BY <1>0, Zenon
<1>2. UNCHANGED <<bdt, fdt, stale, heard>>
  BY DEF SendBroadcast, tables
<1>3. \A b \in Bbmds : Live(b) \subseteq Live(b)'
  BY <1>2 DEF Live
<1>4. ASSUME NEW d \in net' PROVE d.fn = "Distribute" => d.to \in Bbmds
  <2>1. AskedInv'
    BY AskedStep DEF Next
  <2> QED BY <2>1 DEF AskedInv
<1>5. ASSUME NEW j \in Ids, NEW n \in due'[j]
      PROVE  heard'[n][j] > 0 \/ \E d \in net' : d.id = j /\ d.to # d.from /\ ReachesByTwo(d, n)'
  <2>1. due'[j] = IF j = i THEN Promised(s) ELSE due[j]
    BY <1>1 DEF TypeInv, HistoryInv
  <2>2. heard[n][j] > 0 \/ \E d \in net' : d.id = j /\ d.to # d.from /\ ReachesByTwo(d, n)
    <3>1. CASE j = i
      <4>1. n \in Promised(s)
        BY <2>1, <3>1
      <4>2. \A m \in Promised(s) : \E d \in X : d.id = i /\ d.to # d.from /\ ReachesByTwo(d, m)
        BY <1>1, PromiseWays
      <4> QED BY <1>1, <3>1, <4>1, <4>2
    <3>2. CASE j # i
      BY <1>1, <2>1, <3>2 DEF DueInv
    <3> QED BY <3>1, <3>2
  <2>3. ASSUME NEW d \in net', ReachesByTwo(d, n) PROVE ReachesByTwo(d, n)'
    BY <1>2, <1>3, <1>4, <2>3, WayStays
  <2> QED BY <1>2, <2>2, <2>3
<1> QED BY <1>5 DEF DueInv

\* What disturbs the tables ends the promises about what is in flight.
LEMMA DisturbedDue ==
  ASSUME DueInv, Disturbed, UNCHANGED heard
  PROVE  DueInv'
<1>1. ASSUME NEW i \in Ids, NEW n \in due'[i] PROVE heard'[n][i] > 0
  <2>1. ~InFlight(i) /\ n \in due[i]
    BY DEF Disturbed
  <2> QED BY <2>1 DEF DueInv, InFlight
<1> QED BY <1>1 DEF DueInv

\* Every step keeps whoever is owed a broadcast on its way.
LEMMA DueStep ==
  ASSUME TypeInv, DueInv, [Next]_vars
  PROVE  DueInv'
<1>1. ASSUME NEW s \in Nodes, SendBroadcast(s) PROVE DueInv'
  BY <1>1, SendDue
<1>2. ASSUME NEW d \in net, Receive(d) PROVE DueInv'
  BY <1>2, ReceiveDue
<1>3. ASSUME Disturbed, UNCHANGED heard PROVE DueInv'
  BY <1>3, DisturbedDue
<1>4. ASSUME NEW E, UNCHANGED <<bdt, heard>>, \A b \in Bbmds : Live(b) \subseteq Live(b)',
             \A i \in Ids : due'[i] \subseteq due[i] /\ (i \in E => due'[i] = {}),
             \A d \in net : d \in net' \/ d.id \in E
      PROVE  DueInv'
  <2>1. ASSUME NEW i \in Ids, NEW n \in due'[i]
        PROVE  heard'[n][i] > 0 \/ \E d \in net' : d.id = i /\ d.to # d.from /\ ReachesByTwo(d, n)'
    <3>1. heard[n][i] > 0 \/ \E d \in net : d.id = i /\ d.to # d.from /\ ReachesByTwo(d, n)
      BY <1>4 DEF DueInv
    <3>2. ASSUME NEW d \in net, d.id = i, ReachesByTwo(d, n) PROVE d \in net' /\ ReachesByTwo(d, n)'
      <4>1. d \in net'
        BY <1>4, <2>1, <3>2
      <4>2. d.fn = "Distribute" => d.to \in Bbmds
        BY DEF TypeInv, AskedInv
      <4> QED BY <1>4, <3>2, <4>1, <4>2, WayStays
    <3> QED BY <1>4, <3>1, <3>2
  <2> QED BY <2>1 DEF DueInv
<1>5. ASSUME NEW d \in net, d.id # 0, Lose(d) PROVE DueInv'
  <2>1. d.id \in Ids
    BY <1>5 DEF TypeInv, AskedInv, Datagrams
  <2>2. \A i \in Ids : due'[i] = IF i = d.id THEN {} ELSE due[i]
    BY <1>5, <2>1 DEF Lose, TypeInv, HistoryInv
  <2>3. UNCHANGED <<bdt, heard>> /\ \A b \in Bbmds : Live(b) \subseteq Live(b)'
    BY <1>5 DEF Lose, tables, Live
  <2>4. \A e \in net : e \in net' \/ e.id \in {d.id}
    BY <1>5 DEF Lose
  <2>5. \A i \in Ids : due'[i] \subseteq due[i] /\ (i \in {d.id} => due'[i] = {})
    BY <2>2
  <2> QED BY <1>4, <2>3, <2>4, <2>5
<1>6. ASSUME \/ \E f \in Foreign : SendRegister(f)
             \/ \E b \in Bbmds : ReadFdt(b)
             \/ UNCHANGED vars
      PROVE  DueInv'
  <2>1. UNCHANGED <<bdt, heard, due>> /\ net \subseteq net'
    BY <1>6 DEF SendRegister, ReadFdt, tables, vars
  <2>2. \A b \in Bbmds : Live(b) \subseteq Live(b)'
    <3>1. CASE UNCHANGED <<fdt, stale>>
      BY <3>1 DEF Live
    <3>2. CASE \E b \in Bbmds : Purge(b)
      BY <3>2 DEF Purge, Live, TypeInv, FdtInv
    <3> QED BY <1>6, <3>1, <3>2 DEF SendRegister, ReadFdt, tables, vars
  <2>3. PICK E : E = {}
    OBVIOUS
  <2>4. /\ \A i \in Ids : due'[i] \subseteq due[i] /\ (i \in E => due'[i] = {})
        /\ \A d \in net : d \in net' \/ d.id \in E
    BY <2>1, <2>3
  <2> QED BY <1>4, <2>1, <2>2, <2>4
<1>7. \/ \E s \in Nodes : SendBroadcast(s)
      \/ \E d \in net : Receive(d) \/ (d.id # 0 /\ Lose(d))
      \/ Disturbed /\ UNCHANGED heard
      \/ \E f \in Foreign : SendRegister(f)
      \/ \E b \in Bbmds : ReadFdt(b)
      \/ UNCHANGED vars
  BY DEF Next, Expire, DeleteEntry, WriteBdt, Restart, Reopen
<1> QED BY <1>1, <1>2, <1>3, <1>5, <1>6, <1>7

\* In every internetwork, echoing BBMDs or not, everyone to whom the tables
\* promised a broadcast has heard it when no datagram of it is on its way to
\* another node, unless one was lost or a table changed under way (handle_bvll_message,
\* forwarding_targets).
THEOREM AllHearCorrect == Spec => []AllHear
<1>1. Init => DueInv
  BY DEF Init, DueInv
<1>2. TypeInv /\ DueInv /\ [Next]_vars => DueInv'
  BY DueStep
<1>3. DueInv => AllHear
  BY DEF DueInv, AllHear, Spreading
<1> QED BY <1>1, <1>2, <1>3, TypesAlways, PTL DEF Spec

-----------------------------------------------------------------------------
(* The abstract specification.                                             *)

\* A broadcast not under way has been heard by all it is owed to.
LEMMA OverMeansPaid ==
  ASSUME AllHear, TypeInv, NEW i \in Ids, i \notin Open
  PROVE  Owed[i] = {}
<1>1. ~Spreading(i)
  BY DEF Open, InFlight, Spreading
<1>2. \A n \in due[i] : heard[n][i] \in Nat /\ heard[n][i] > 0
  BY <1>1 DEF AllHear, TypeInv, HistoryInv
<1> QED BY <1>2 DEF Owed

\* Sending starts one broadcast, unless it reaches nobody.
LEMMA SendDelivers ==
  ASSUME TypeInv, TypeInv', AllHear', NEW n \in Nodes, SendBroadcast(n)
  PROVE  \E i \in Ids : Abs!Send(n, i)
<1>1. PICK i \in Ids :
        /\ sender[i] = Nobody
        /\ sender' = [sender EXCEPT ![i] = n]
        /\ net' = net \cup
             IF n \in Foreign
             THEN {[fn |-> "Distribute", to |-> Registrar[n], from |-> n, origin |-> n,
                    id |-> i, hops |-> 0]}
             ELSE Original(n, i, LocalTo(n))
        /\ due' = [due EXCEPT ![i] = Promised(n)]
  BY DEF SendBroadcast
<1>2. UNCHANGED <<heard, faults>>
  BY DEF SendBroadcast
<1>3. net \subseteq net' /\ \A d \in net' : d \in net \/ d.id = i
  BY <1>1 DEF Original
<1>4. \A j \in Ids : j # i => Owed'[j] = Owed[j]
  BY <1>1, <1>2 DEF Owed, TypeInv, HistoryInv
<1>5. Owed' \in [Ids -> SUBSET Nodes]
  BY DEF Owed, TypeInv, HistoryInv
<1>6. n \notin Owed'[i]
  <2>1. due'[i] = Promised(n)
    BY <1>1 DEF TypeInv, HistoryInv
  <2> QED BY <2>1 DEF Owed, Promised
<1>7. Open' = Open \cup {i} \/ (Owed'[i] = {} /\ Open' = Open)
  <2>1. \A j \in Ids : j # i => (InFlight(j)' <=> InFlight(j))
    BY <1>3 DEF InFlight
  <2>2. InFlight(i) => InFlight(i)'
    BY <1>3 DEF InFlight
  <2>3. i \notin Open' => Owed'[i] = {}
    <3>1. ASSUME i \notin Open' PROVE \A m \in due'[i] : heard'[m][i] \in Nat /\ heard'[m][i] > 0
      BY <3>1 DEF Open, InFlight, Spreading, AllHear, TypeInv, HistoryInv
    <3> QED BY <3>1 DEF Owed
  <2> QED BY <2>1, <2>2, <2>3 DEF Open
<1>8. Abs!Send(n, i)
  BY <1>1, <1>2, <1>4, <1>5, <1>6, <1>7 DEF Abs!Send
<1> QED BY <1>8

\* A datagram that arrives is heard, or of no use to its receiver.
LEMMA ReceiveDelivers ==
  ASSUME TypeInv, TypeInv', RouteInv, CopiesBounded', AllHear', NEW d \in net, Receive(d)
  PROVE  \/ \E n \in Nodes, i \in Ids : Abs!Hear(n, i)
         \/ \E i \in Open : Abs!Close(i)
         \/ UNCHANGED Abs!vars
<1>1. /\ UNCHANGED <<sender, due, faults>> /\ d \in Datagrams /\ d.to \in Nodes
      /\ \A e \in net' : e \in net \/ e.id = d.id
      /\ net \ {d} \subseteq net'
  <2>1. UNCHANGED <<sender, due, faults>> /\ d \in Datagrams /\ d.to \in Nodes
    BY DEF Receive, TypeInv, AskedInv, Datagrams
  <2>2. \/ net' = net \ {d}
        \/ net' = (net \ {d}) \cup {Copy(d, m) : m \in Onward(d)}
    BY ReceiveDoes
  <2> QED BY <2>1, <2>2 DEF Copy
<1>2. \A j \in Ids : j # d.id => (InFlight(j)' <=> InFlight(j))
  BY <1>1 DEF InFlight
<1>3. ASSUME NEW j \in Ids, ~InFlight(j)' PROVE Owed'[j] = {}
  <2>1. \A m \in due'[j] : heard'[m][j] \in Nat /\ heard'[m][j] > 0
    BY <1>3 DEF InFlight, Spreading, AllHear, TypeInv, HistoryInv
  <2> QED BY <2>1 DEF Owed
<1>4. Abs!MayClose(d.id) \/ d.id \notin Ids
  <2>1. CASE d.id \in Ids /\ InFlight(d.id)'
    <3>1. InFlight(d.id)
      BY DEF InFlight
    <3>2. Open' = Open
      BY <1>2, <2>1, <3>1 DEF Open
    <3> QED BY <3>2 DEF Abs!MayClose
  <2>2. CASE d.id \in Ids /\ ~InFlight(d.id)'
    <3>1. Open' = Open \ {d.id}
      BY <1>2, <2>2 DEF Open
    <3> QED BY <1>3, <2>2, <3>1 DEF Abs!MayClose
  <2> QED BY <2>1, <2>2
<1>5. CASE Hears(d)
  <2>1. d.fn # "Register" /\ Hand(d)
    BY <1>5, ReceiveDoes
  <2>2. d.id \in Ids /\ Routed(d) /\ sender[d.id] \in Nodes
    BY <2>1 DEF RouteInv, Routed
  <2>3. d.id \in Open
    BY <2>2 DEF Open, InFlight
  <2>4. \A m \in Nodes, j \in Ids :
          /\ heard[m][j] \in Nat
          /\ heard'[m][j] = IF m = d.to /\ j = d.id THEN Count(heard[m][j]) ELSE heard[m][j]
    BY <1>1, <2>1 DEF Hand, TypeInv, HistoryInv
  <2>5. d.to # sender[d.id] /\ (d.to \in Noisy \/ heard[d.to][d.id] < Abs!Most(d.to))
    <3>1. heard'[d.to][d.id] = Count(heard[d.to][d.id]) /\ heard[d.to][d.id] \in Nat
      BY <1>1, <2>2, <2>4
    <3>2. d.to # sender[d.id]
      BY <1>1, <1>5, <2>1, <2>2, NotItsOwn
    <3>3. \/ d.to \in Noisy
          \/ heard'[d.to][d.id] <= IF d.to \in Bbmds \cup Foreign THEN 1 ELSE 2
      BY <1>1, <2>2, <3>2 DEF CopiesBounded
    <3>4. \/ d.to \in Noisy
          \/ heard[d.to][d.id] < IF d.to \in Bbmds \cup Foreign THEN 1 ELSE 2
      <4>1. Count(heard[d.to][d.id]) <= 2
              => Count(heard[d.to][d.id]) = heard[d.to][d.id] + 1
        BY <3>1, CountFacts
      <4>2. Count(heard[d.to][d.id]) \in Nat
        BY <3>1, CountFacts
      <4> QED BY <3>1, <3>3, <4>1, <4>2
    <3> QED BY <3>2, <3>4 DEF Abs!Most
  <2>6. Owed' = [Owed EXCEPT ![d.id] = @ \ {d.to}]
    <3>1. ASSUME NEW j \in Ids
          PROVE  Owed'[j] = IF j = d.id THEN Owed[j] \ {d.to} ELSE Owed[j]
      <4>1. due[j] \subseteq Nodes /\ due'[j] = due[j]
        BY <1>1 DEF TypeInv, HistoryInv
      <4>2. \A m \in Nodes : Count(heard[m][j]) > 0
        BY <2>4, CountFacts
      <4> QED BY <2>4, <4>1, <4>2 DEF Owed
    <3>2. Owed = [j \in Ids |-> Owed[j]] /\ Owed' = [j \in Ids |-> Owed'[j]]
      BY DEF Owed
    <3> QED BY <3>1, <3>2
  <2>7. Abs!Hear(d.to, d.id)
    BY <1>1, <1>4, <2>1, <2>2, <2>3, <2>5, <2>6 DEF Abs!Hear, Hand, Count
  <2> QED BY <1>1, <2>2, <2>7
<1>6. CASE ~Hears(d)
  <2>1. UNCHANGED heard
    BY <1>6, ReceiveDoes
  <2>2. Owed' = Owed
    BY <1>1, <2>1 DEF Owed
  <2>3. CASE d.id \in Ids
    <3>1. d.id \in Open
      BY <2>3 DEF Open, InFlight
    <3>2. Abs!Close(d.id)
      BY <1>1, <1>4, <2>1, <2>2, <2>3 DEF Abs!Close
    <3> QED BY <3>1, <3>2
  <2>4. CASE d.id \notin Ids
    <3>1. Open' = Open
      BY <1>2, <2>4 DEF Open
    <3> QED BY <1>1, <2>1, <2>2, <3>1 DEF Abs!vars
  <2> QED BY <2>3, <2>4
<1> QED BY <1>5, <1>6

\* What takes datagrams away or changes a table releases debts.
LEMMA FaultDelivers ==
  ASSUME TypeInv, Fault, UNCHANGED <<sender, heard>>, NEW I \in SUBSET Open,
         \A i \in Ids : due'[i] = IF i \in I THEN {} ELSE due[i],
         net' \subseteq net, \A d \in net : d \in net' \/ d.id \in I \/ d.id \notin Ids
  PROVE  Abs!Disturb(I)
<1>1. Owed' = [i \in Ids |-> IF i \in I THEN {} ELSE Owed[i]]
  BY DEF Owed
<1>2. Open \ I \subseteq Open' /\ Open' \subseteq Open
  BY DEF Open, InFlight
<1> QED BY <1>1, <1>2 DEF Abs!Disturb, Fault

\* Every step is one of the abstract specification, or is not seen there.
LEMMA StepDelivers ==
  ASSUME TypeInv, TypeInv', RouteInv, CopiesBounded', AllHear', [Next]_vars
  PROVE  [Abs!Next]_(Abs!vars)
<1>1. ASSUME NEW n \in Nodes, SendBroadcast(n) PROVE Abs!Next
  BY <1>1, SendDelivers DEF Abs!Next
<1>2. ASSUME NEW d \in net, Receive(d) PROVE [Abs!Next]_(Abs!vars)
  BY <1>2, ReceiveDelivers DEF Abs!Next
<1>3. ASSUME NEW d \in net, d.id # 0, Lose(d) PROVE Abs!Next
  <2>1. d.id \in Ids
    BY <1>3 DEF TypeInv, AskedInv, Datagrams
  <2>2. PICK I : I = {d.id}
    OBVIOUS
  <2>3. I \in SUBSET Open
    BY <2>1, <2>2 DEF Open, InFlight
  <2>4. \A i \in Ids : due'[i] = IF i \in I THEN {} ELSE due[i]
    BY <1>3, <2>1, <2>2 DEF Lose, TypeInv, HistoryInv
  <2>5. /\ Fault /\ UNCHANGED <<sender, heard>> /\ net' \subseteq net
        /\ \A e \in net : e \in net' \/ e.id \in I \/ e.id \notin Ids
    BY <1>3, <2>2 DEF Lose
  <2>6. Abs!Disturb(I)
    BY <2>3, <2>4, <2>5, FaultDelivers
  <2> QED BY <2>3, <2>6 DEF Abs!Next
<1>4. ASSUME Fault, Disturbed, UNCHANGED <<sender, heard>>, net' \subseteq net
      PROVE  Abs!Next
  <2>1. \A i \in Ids : due'[i] = IF i \in Open THEN {} ELSE due[i]
    BY <1>4 DEF Disturbed, Open
  <2>2. \A d \in net : d.id \in Open \/ d.id \notin Ids
    BY DEF Open, InFlight
  <2>3. PICK I \in SUBSET Open : I = Open
    OBVIOUS
  <2>4. Abs!Disturb(I)
    BY <1>4, <2>1, <2>2, <2>3, FaultDelivers
  <2> QED BY <2>3, <2>4 DEF Abs!Next
<1>5. ASSUME UNCHANGED <<sender, heard, due, faults>>,
             \A i \in Ids : InFlight(i)' <=> InFlight(i)
      PROVE  UNCHANGED Abs!vars
  BY <1>5 DEF Abs!vars, Owed, Open
<1>6. ASSUME NEW f \in Foreign, SendRegister(f) PROVE UNCHANGED Abs!vars
  <2>1. /\ UNCHANGED <<sender, heard, due, faults>> /\ net \subseteq net'
        /\ \A d \in net' : d \in net \/ d.id = 0
    BY <1>6 DEF SendRegister
  <2>2. \A i \in Ids : InFlight(i)' <=> InFlight(i)
    BY <2>1 DEF InFlight, Ids
  <2> QED BY <1>5, <2>1, <2>2
<1>7. ASSUME (\E b \in Bbmds : ReadFdt(b)) \/ UNCHANGED vars PROVE UNCHANGED Abs!vars
  <2>1. UNCHANGED <<sender, heard, due, faults, net>>
    BY <1>7 DEF ReadFdt, vars
  <2>2. \A i \in Ids : InFlight(i)' <=> InFlight(i)
    BY <2>1 DEF InFlight
  <2> QED BY <1>5, <2>1, <2>2
<1>8. \/ \E n \in Nodes : SendBroadcast(n)
      \/ \E d \in net : Receive(d) \/ (d.id # 0 /\ Lose(d))
      \/ Fault /\ Disturbed /\ UNCHANGED <<sender, heard>> /\ net' \subseteq net
      \/ \E f \in Foreign : SendRegister(f)
      \/ (\E b \in Bbmds : ReadFdt(b)) \/ UNCHANGED vars
  BY DEF Next, Expire, DeleteEntry, WriteBdt, Restart, Reopen
<1> QED BY <1>1, <1>2, <1>3, <1>4, <1>6, <1>7, <1>8

\* Whatever the tables and the network do, a broadcast is one of the abstract
\* specification: never heard by its sender, too often or when it is over, and
\* not over before all it is owed to have heard it (handle_bvll_message).
THEOREM ImplementsDeliveryCorrect == Spec => ImplementsDelivery
<1>1. Init => Abs!Init
  <2> SUFFICES ASSUME Init PROVE Abs!Init
    OBVIOUS
  <2>1. \A i \in Ids : Owed[i] = {}
    BY DEF Init, Owed
  <2>2. Owed = [i \in Ids |-> {}] /\ Open = {}
    BY <2>1 DEF Init, Owed, Open, InFlight
  <2> QED BY <2>2 DEF Init, Abs!Init
<1>2. Spec => []RouteInv
  BY CopiesAlways
<1>3. Spec => []CopiesBounded /\ []AllHear /\ []TypeInv
  BY CopiesBoundedCorrect, AllHearCorrect, TypesAlways
<1>4. TypeInv /\ TypeInv' /\ RouteInv /\ CopiesBounded' /\ AllHear' /\ [Next]_vars
        => [Abs!Next]_(Abs!vars)
  BY StepDelivers
<1> QED BY <1>1, <1>2, <1>3, <1>4, PTL DEF Spec, ImplementsDelivery, Abs!Spec
=============================================================================
