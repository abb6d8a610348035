-------------------------- MODULE EventStreamProofs --------------------------
(***************************************************************************)
(* Proofs about module EventStream, for every set of pages and topics and  *)
(* every capacity of the log and of the channel: its type invariant, that  *)
(* no page ever goes back to an older value, that the log a page shows is  *)
(* ordered, without repetition and bounded, that a page that has read all  *)
(* its events is wrong only about what it missed and what was never        *)
(* announced, and that the stream implements PageView.                     *)
(***************************************************************************)
EXTENDS EventStream, SequenceTheorems, TLAPS

Event == [topic : Topics \cup {"log"}, value : Nat]

Snapshot == [value : [Topics -> Nat], logs : Seq(Nat)]

\* What page p shows of topic t, what its snapshot holds, what its receiver
\* has still to read and what the daemon holds come in this order.
PageOrder(p, t) ==
  /\ view[p][t] <= value[t]
  /\ conn[p] = "hydrating" =>
       view[p][t] <= snap[p].value[t] /\ snap[p].value[t] <= value[t]
  /\ conn[p] = "live" =>
       \A k \in DOMAIN emitted :
         k >= next[p] /\ emitted[k].topic = t => view[p][t] <= emitted[k].value

\* The events of a topic only grow along the channel, up to its value.
OrderInv ==
  /\ \A k \in DOMAIN emitted, t \in Topics :
       emitted[k].topic = t => emitted[k].value <= value[t]
  /\ \A j, k \in DOMAIN emitted, t \in Topics :
       j < k /\ emitted[j].topic = t /\ emitted[k].topic = t =>
         emitted[j].value <= emitted[k].value
  /\ \A p \in Pages, t \in Topics : PageOrder(p, t)

-----------------------------------------------------------------------------
(* Type correctness.                                                       *)

\* Push keeps a sequence of numbers one, of at most LogCapacity records.
LEMMA PushType ==
  ASSUME NEW s \in Seq(Nat), NEW x \in Nat
  PROVE  /\ Push(s, x) \in Seq(Nat)
         /\ Len(s) <= LogCapacity => Len(Push(s, x)) <= LogCapacity
<1>1. CASE Len(s) >= LogCapacity
  <2>1. Len(s) \in Nat \ {0} /\ s # <<>>
    BY <1>1, StreamAssumption
  <2>2. Tail(s) \in Seq(Nat) /\ Len(Tail(s)) = Len(s) - 1
    BY <2>1
  <2> QED BY <1>1, <2>1, <2>2, StreamAssumption DEF Push
<1>2. CASE ~(Len(s) >= LogCapacity)
  BY <1>2, StreamAssumption DEF Push
<1> QED BY <1>1, <1>2

\* The type invariant holds initially: no page is connected, one record is logged.
LEMMA InitTypeOK == Init => TypeOK
<1> SUFFICES ASSUME Init PROVE TypeOK
  OBVIOUS
<1>1. NoSnapshot \in Snapshot
  BY DEF NoSnapshot, Snapshot
<1>2. view \in [Pages -> [Topics -> Nat]] /\ value \in [Topics -> Nat]
  BY DEF Init
<1>3. logs \in Seq(Nat) /\ emitted \in Seq(Event)
  BY DEF Init
<1> QED BY <1>1, <1>2, <1>3 DEF Init, TypeOK, Event, Snapshot

\* The events of the channel, one by one.
LEMMA EventsTyped ==
  ASSUME TypeOK
  PROVE  /\ Len(emitted) \in Nat
         /\ DOMAIN emitted = 1..Len(emitted)
         /\ \A k \in 1..Len(emitted) : /\ emitted[k] \in Event
                                       /\ emitted[k].topic \in Topics \cup {"log"}
                                       /\ emitted[k].value \in Nat
<1>1. emitted \in Seq(Event)
  BY DEF TypeOK, Event
<1>2. \A k \in 1..Len(emitted) : emitted[k] \in Event
  BY <1>1
<1>3. Len(emitted) \in Nat /\ DOMAIN emitted = 1..Len(emitted)
  BY <1>1
<1> QED BY <1>2, <1>3 DEF Event

\* An emission keeps the types of the channel and of the history.
LEMMA EmitType ==
  ASSUME TypeOK, NEW t \in Topics \cup {"log"}, NEW n \in Nat, Emit(t, n)
  PROVE  /\ emitted' \in Seq(Event)
         /\ missed' \in [Pages -> SUBSET (Topics \cup {"log"})]
         /\ unsaid' \in [Pages -> SUBSET Topics]
<1>1. \A p \in Pages : unsaid[p] \in SUBSET Topics /\ unsaid[p] \ {t} \in SUBSET Topics
  BY DEF TypeOK
<1> QED BY <1>1 DEF TypeOK, Emit, Event

\* Every step of the daemon and of the pages keeps the types.
LEMMA NextTypeOK == TypeOK /\ [Next]_vars => TypeOK'
<1> SUFFICES ASSUME TypeOK, [Next]_vars PROVE TypeOK'
  OBVIOUS
<1> USE DEF Event, Snapshot
<1>1. ASSUME NEW t \in Topics, Change(t) PROVE TypeOK'
  <2>1. value' \in [Topics -> Nat]
    BY <1>1 DEF Change, TypeOK
  <2>2. /\ emitted' \in Seq(Event) /\ missed' \in [Pages -> SUBSET (Topics \cup {"log"})]
        /\ unsaid' \in [Pages -> SUBSET Topics]
    BY <1>1, <2>1, EmitType DEF Change
  <2> QED BY <1>1, <2>1, <2>2 DEF Change, TypeOK
<1>2. CASE Log
  <2>1. logSeq' \in Nat /\ logs' \in Seq(Nat)
    BY <1>2, PushType DEF Log, TypeOK
  <2>2. /\ emitted' \in Seq(Event) /\ missed' \in [Pages -> SUBSET (Topics \cup {"log"})]
        /\ unsaid' \in [Pages -> SUBSET Topics]
    BY <1>2, <2>1, EmitType DEF Log
  <2> QED BY <1>2, <2>1, <2>2 DEF Log, TypeOK
<1>3. ASSUME NEW p \in Pages, TakeSnapshot(p) PROVE TypeOK'
  BY <1>3 DEF TakeSnapshot, TypeOK
<1>4. ASSUME NEW p \in Pages, Subscribe(p) PROVE TypeOK'
  <2>1. NoSnapshot \in Snapshot
    BY DEF NoSnapshot
  <2>2. Len(emitted) + 1 \in Nat \ {0}
    BY DEF TypeOK
  <2> QED BY <1>4, <2>1, <2>2 DEF Subscribe, TypeOK
<1>5. ASSUME NEW p \in Pages, Deliver(p) PROVE TypeOK'
  <2>1. emitted[next[p]] \in Event
    <3>1. next[p] \in 1..Len(emitted)
      BY <1>5 DEF Deliver, TypeOK
    <3> QED BY <3>1, EventsTyped
  <2>2. next' \in [Pages -> Nat \ {0}]
    BY <1>5 DEF Deliver, TypeOK
  <2>3. CASE emitted[next[p]].topic = "log"
    <3>1. Push(viewLogs[p], emitted[next[p]].value) \in Seq(Nat)
      BY <2>1, PushType DEF TypeOK
    <3>2. /\ viewLogs' = [viewLogs EXCEPT ![p] = Push(viewLogs[p], emitted[next[p]].value)]
          /\ UNCHANGED <<view, missed, unsaid, value, logs, logSeq, emitted, conn, snap>>
      BY <1>5, <2>3 DEF Deliver
    <3>3. viewLogs' \in [Pages -> Seq(Nat)]
      BY <3>1, <3>2 DEF TypeOK
    <3> QED BY <2>2, <3>2, <3>3 DEF TypeOK
  <2>4. CASE emitted[next[p]].topic # "log"
    <3> DEFINE t == emitted[next[p]].topic
    <3>1. /\ view' = [view EXCEPT ![p] = [view[p] EXCEPT ![t] = emitted[next[p]].value]]
          /\ missed' = [missed EXCEPT ![p] = missed[p] \ {t}]
      BY <1>5, <2>4 DEF Deliver, TypeOK
    <3>2. emitted[next[p]].value \in Nat /\ t \in Topics
      BY <2>1, <2>4
    <3>3. view' \in [Pages -> [Topics -> Nat]]
      BY <3>1, <3>2 DEF TypeOK
    <3>4. missed' \in [Pages -> SUBSET (Topics \cup {"log"})]
      BY <3>1 DEF TypeOK
    <3> QED BY <1>5, <2>2, <2>4, <3>3, <3>4 DEF Deliver, TypeOK
  <2> QED BY <2>3, <2>4
<1>6. ASSUME NEW p \in Pages, SkipLagged(p) PROVE TypeOK'
  <2>1. Len(emitted) - EventBuffer + 1 \in Nat \ {0} /\ next[p] \in Nat \ {0}
    BY <1>6, StreamAssumption DEF SkipLagged, Lagging, TypeOK
  <2>2. next'[p] = Len(emitted) - EventBuffer + 1 /\ next' \in [Pages -> Nat \ {0}]
    BY <1>6, <2>1 DEF SkipLagged, TypeOK
  <2>3. \A k \in next[p] .. next'[p] - 1 : emitted[k].topic \in Topics \cup {"log"}
    <3>1. \A k \in next[p] .. next'[p] - 1 : k \in 1..Len(emitted)
      BY <2>1, <2>2, StreamAssumption DEF TypeOK
    <3> QED BY <3>1, EventsTyped
  <2>4. missed' \in [Pages -> SUBSET (Topics \cup {"log"})]
    BY <1>6, <2>3 DEF SkipLagged, TypeOK
  <2> QED BY <1>6, <2>2, <2>4 DEF SkipLagged, TypeOK
<1>7. ASSUME NEW p \in Pages, Disconnect(p) PROVE TypeOK'
  <2>1. NoSnapshot \in Snapshot
    BY DEF NoSnapshot
  <2> QED BY <1>7, <2>1 DEF Disconnect, TypeOK
<1>8. ASSUME NEW t \in Topics, ChangeSilently(t) PROVE TypeOK'
  <2>1. value' \in [Topics -> Nat] /\ unsaid' \in [Pages -> SUBSET Topics]
    BY <1>8 DEF ChangeSilently, TypeOK
  <2> QED BY <1>8, <2>1 DEF ChangeSilently, TypeOK
<1>9. CASE UNCHANGED vars
  BY <1>9 DEF vars, TypeOK
<1> QED BY <1>1, <1>2, <1>3, <1>4, <1>5, <1>6, <1>7, <1>8, <1>9 DEF Next

\* Type correctness: in particular a receiver never stands before the first
\* event of the channel.
THEOREM TypeCorrect == Spec => []TypeOK
<1> QED BY InitTypeOK, NextTypeOK, PTL DEF Spec

-----------------------------------------------------------------------------
(* The order of values, step by step.                                      *)

\* A change moves the value and its event together, above everything shown.
LEMMA ChangeOrder ==
  ASSUME TypeOK, OrderInv, NEW t \in Topics, Change(t)
  PROVE  OrderInv'
<1>1. /\ value \in [Topics -> Nat] /\ view \in [Pages -> [Topics -> Nat]]
      /\ \A p \in Pages : snap[p].value \in [Topics -> Nat]
  BY DEF TypeOK
<1>2. /\ value' = [value EXCEPT ![t] = value[t] + 1]
      /\ value'[t] = value[t] + 1 /\ value'[t] \in Nat
      /\ UNCHANGED <<conn, snap, next, view>>
  BY <1>1 DEF Change
<1>3. \A u \in Topics : value[u] <= value'[u] /\ value'[u] \in Nat
  BY <1>1, <1>2
<1>4. /\ DOMAIN emitted' = 1 .. Len(emitted) + 1
      /\ \A k \in 1..Len(emitted) : emitted'[k] = emitted[k]
      /\ emitted'[Len(emitted) + 1].topic = t
      /\ emitted'[Len(emitted) + 1].value = value'[t]
  <2>1. Emit(t, value'[t]) /\ value'[t] \in Nat
    BY <1>2 DEF Change
  <2>2. emitted \in Seq(Event) /\ [topic |-> t, value |-> value'[t]] \in Event
    BY <2>1 DEF TypeOK, Event
  <2>3. emitted' = Append(emitted, [topic |-> t, value |-> value'[t]])
    BY <2>1 DEF Emit
  <2> QED BY <2>2, <2>3
<1>5. ASSUME NEW k \in DOMAIN emitted', NEW u \in Topics, emitted'[k].topic = u
      PROVE  emitted'[k].value <= value'[u]
  <2>1. CASE k \in 1..Len(emitted)
    <3>1. emitted[k].value <= value[u] /\ emitted[k].value \in Nat /\ value[u] \in Nat
      BY <1>1, <1>4, <1>5, <2>1, EventsTyped DEF OrderInv
    <3> QED BY <1>3, <1>4, <2>1, <3>1
  <2>2. CASE k = Len(emitted) + 1
    BY <1>2, <1>4, <1>5, <2>2
  <2> QED BY <1>4, <1>5, <2>1, <2>2, EventsTyped
<1>6. ASSUME NEW j \in DOMAIN emitted', NEW k \in DOMAIN emitted', NEW u \in Topics,
             j < k, emitted'[j].topic = u, emitted'[k].topic = u
      PROVE  emitted'[j].value <= emitted'[k].value
  <2>1. j \in 1..Len(emitted)
    BY <1>4, <1>6, EventsTyped
  <2>2. CASE k \in 1..Len(emitted)
    BY <1>4, <1>6, <2>1, <2>2, EventsTyped DEF OrderInv
  <2>3. CASE k = Len(emitted) + 1
    <3>1. u = t
      BY <1>4, <1>6, <2>3
    <3> QED BY <1>4, <1>5, <1>6, <2>3, <3>1
  <2> QED BY <1>4, <1>6, <2>2, <2>3, EventsTyped
<1>7. ASSUME NEW p \in Pages, NEW u \in Topics
      PROVE  PageOrder(p, u)'
  <2>1. /\ view[p][u] \in Nat /\ value[u] \in Nat /\ snap[p].value[u] \in Nat
        /\ PageOrder(p, u)
    BY <1>1 DEF OrderInv
  <2>2. view'[p][u] <= value'[u]
    BY <1>2, <1>3, <2>1 DEF PageOrder
  <2>3. conn'[p] = "hydrating" =>
          view'[p][u] <= snap'[p].value[u] /\ snap'[p].value[u] <= value'[u]
    BY <1>2, <1>3, <2>1 DEF PageOrder
  <2>4. ASSUME conn'[p] = "live", NEW k \in DOMAIN emitted', k >= next'[p],
               emitted'[k].topic = u
        PROVE  view'[p][u] <= emitted'[k].value
    <3>1. CASE k \in 1..Len(emitted)
      BY <1>2, <1>4, <2>1, <2>4, <3>1, EventsTyped DEF PageOrder
    <3>2. CASE k = Len(emitted) + 1
      BY <1>2, <1>4, <2>2, <2>4, <3>2
    <3> QED BY <1>4, <2>4, <3>1, <3>2, EventsTyped
  <2> QED BY <2>2, <2>3, <2>4 DEF PageOrder
<1> QED BY <1>5, <1>6, <1>7 DEF OrderInv

\* A silent change moves the value alone, further above everything shown.
LEMMA SilentOrder ==
  ASSUME TypeOK, OrderInv, NEW t \in Topics, ChangeSilently(t)
  PROVE  OrderInv'
<1>1. /\ value \in [Topics -> Nat] /\ view \in [Pages -> [Topics -> Nat]]
      /\ \A p \in Pages : snap[p].value \in [Topics -> Nat]
  BY DEF TypeOK
<1>2. /\ value' = [value EXCEPT ![t] = value[t] + 1]
      /\ UNCHANGED <<emitted, conn, snap, next, view>>
  BY DEF ChangeSilently
<1>3. \A u \in Topics : value[u] \in Nat /\ value'[u] \in Nat /\ value[u] <= value'[u]
  BY <1>1, <1>2
<1>4. \A k \in DOMAIN emitted, u \in Topics :
        emitted[k].topic = u => emitted[k].value <= value'[u]
  <2>1. \A k \in DOMAIN emitted : emitted[k].value \in Nat
    BY EventsTyped
  <2> QED BY <1>3, <2>1 DEF OrderInv
<1>5. ASSUME NEW p \in Pages, NEW u \in Topics PROVE PageOrder(p, u)'
  <2>1. PageOrder(p, u) /\ view[p][u] \in Nat /\ snap[p].value[u] \in Nat
    BY <1>1 DEF OrderInv
  <2> QED BY <1>2, <1>3, <2>1 DEF PageOrder
<1>6. \A j, k \in DOMAIN emitted', u \in Topics :
        j < k /\ emitted'[j].topic = u /\ emitted'[k].topic = u =>
          emitted'[j].value <= emitted'[k].value
  BY <1>2 DEF OrderInv
<1> QED BY <1>2, <1>4, <1>5, <1>6 DEF OrderInv

\* A log record concerns no topic.
LEMMA LogOrder ==
  ASSUME TypeOK, OrderInv, Log
  PROVE  OrderInv'
<1>1. logSeq' \in Nat /\ UNCHANGED <<value, conn, snap, next, view>>
  BY DEF Log, TypeOK
<1>2. /\ DOMAIN emitted' = 1 .. Len(emitted) + 1
      /\ \A k \in 1..Len(emitted) : emitted'[k] = emitted[k]
      /\ emitted'[Len(emitted) + 1].topic = "log"
  <2>1. emitted \in Seq(Event) /\ [topic |-> "log", value |-> logSeq'] \in Event
    BY <1>1 DEF TypeOK, Event
  <2>2. emitted' = Append(emitted, [topic |-> "log", value |-> logSeq'])
    BY DEF Log, Emit
  <2> QED BY <2>1, <2>2
<1>3. \A k \in DOMAIN emitted', u \in Topics :
        emitted'[k].topic = u => k \in DOMAIN emitted /\ emitted'[k] = emitted[k]
  BY <1>2, EventsTyped, StreamAssumption
<1>4. \A p \in Pages, u \in Topics : PageOrder(p, u)'
  BY <1>1, <1>3 DEF OrderInv, PageOrder
<1> QED BY <1>1, <1>3, <1>4 DEF OrderInv

\* The steps of the pages change neither the channel nor the values.
LEMMA PageOrderStep ==
  ASSUME TypeOK, OrderInv, UNCHANGED <<value, emitted>>,
         \A p \in Pages, u \in Topics : PageOrder(p, u)'
  PROVE  OrderInv'
BY DEF OrderInv

\* A page that is delivered an event moves to its value, which is no older
\* than what it shows and no newer than what is queued behind it.
LEMMA DeliverOrder ==
  ASSUME TypeOK, OrderInv, NEW p \in Pages, Deliver(p)
  PROVE  /\ OrderInv'
         /\ \A q \in Pages, u \in Topics : view'[q][u] >= view[q][u]
<1>1. /\ conn[p] = "live" /\ next[p] \in 1..Len(emitted)
      /\ next' = [next EXCEPT ![p] = next[p] + 1] /\ next \in [Pages -> Nat \ {0}]
      /\ UNCHANGED <<value, emitted, conn, snap>>
  BY DEF Deliver, TypeOK
<1>2. /\ view \in [Pages -> [Topics -> Nat]] /\ value \in [Topics -> Nat]
      /\ \A q \in Pages : snap[q].value \in [Topics -> Nat]
  BY DEF TypeOK
<1>3. ASSUME NEW q \in Pages, NEW u \in Topics
      PROVE  PageOrder(q, u)' /\ view'[q][u] >= view[q][u]
  <2>1. PageOrder(q, u) /\ view[q][u] \in Nat
    BY <1>2 DEF OrderInv
  <2>2. CASE ~(q = p /\ emitted[next[p]].topic = u)
    <3>1. view'[q][u] = view[q][u]
      BY <1>2, <2>2, EventsTyped, <1>1 DEF Deliver
    <3>2. next'[q] >= next[q] /\ next'[q] \in Nat /\ next[q] \in Nat
      BY <1>1
    <3> QED BY <1>1, <2>1, <3>1, <3>2, EventsTyped DEF PageOrder
  <2>3. CASE q = p /\ emitted[next[p]].topic = u
    <3>1. view'[p][u] = emitted[next[p]].value
      BY <1>2, <2>3, StreamAssumption DEF Deliver
    <3>2. view[p][u] <= emitted[next[p]].value /\ emitted[next[p]].value <= value[u]
      BY <1>1, <2>1, <2>3, EventsTyped DEF PageOrder, OrderInv
    <3>3. \A k \in DOMAIN emitted : k >= next[p] + 1 /\ emitted[k].topic = u =>
                                      emitted[next[p]].value <= emitted[k].value
      BY <1>1, <2>3, EventsTyped DEF OrderInv
    <3>4. conn'[p] = "live" /\ next'[p] = next[p] + 1
      BY <1>1
    <3>5. PageOrder(p, u)'
      BY <1>1, <3>1, <3>2, <3>3, <3>4 DEF PageOrder
    <3> QED BY <1>1, <2>1, <2>3, <3>1, <3>2, <3>5, EventsTyped
  <2> QED BY <2>2, <2>3
<1> QED BY <1>1, <1>3, PageOrderStep

\* Every step keeps the order, and no page goes back.
LEMMA NextOrder ==
  ASSUME TypeOK, OrderInv, [Next]_vars
  PROVE  /\ OrderInv'
         /\ \A q \in Pages, u \in Topics : view'[q][u] >= view[q][u]
<1> DEFINE Forward == \A q \in Pages, u \in Topics : view'[q][u] >= view[q][u]
<1>1. /\ view \in [Pages -> [Topics -> Nat]] /\ value \in [Topics -> Nat]
      /\ \A q \in Pages : snap[q].value \in [Topics -> Nat]
      /\ \A q \in Pages, u \in Topics : PageOrder(q, u)
  BY DEF TypeOK, OrderInv
<1>2. ASSUME view' = view PROVE Forward
  BY <1>1, <1>2
<1>3. ASSUME NEW t \in Topics, Change(t) PROVE OrderInv' /\ Forward
  BY <1>2, <1>3, ChangeOrder DEF Change
<1>4. CASE Log
  BY <1>2, <1>4, LogOrder DEF Log
<1>5. ASSUME NEW p \in Pages, TakeSnapshot(p) PROVE OrderInv' /\ Forward
  <2>1. ASSUME NEW q \in Pages, NEW u \in Topics PROVE PageOrder(q, u)'
    <3>1. /\ conn'[q] = IF q = p THEN "hydrating" ELSE conn[q]
          /\ snap'[q] = IF q = p THEN [value |-> value, logs |-> logs] ELSE snap[q]
          /\ UNCHANGED <<value, emitted, next, view>>
      BY <1>5 DEF TakeSnapshot, TypeOK
    <3>2. CASE q = p
      BY <1>1, <3>1, <3>2 DEF PageOrder
    <3>3. CASE q # p
      BY <1>1, <3>1, <3>3 DEF PageOrder
    <3> QED BY <3>2, <3>3
  <2> QED BY <1>2, <1>5, <2>1, PageOrderStep DEF TakeSnapshot
<1>6. ASSUME NEW p \in Pages, Subscribe(p) PROVE OrderInv' /\ Forward
  <2>1. ASSUME NEW q \in Pages, NEW u \in Topics
        PROVE  PageOrder(q, u)' /\ view'[q][u] >= view[q][u]
    <3>1. CASE q # p
      BY <1>1, <1>6, <3>1 DEF Subscribe, PageOrder, TypeOK
    <3>2. CASE q = p
      <4>1. /\ view'[p][u] = snap[p].value[u] /\ conn'[p] = "live"
            /\ next'[p] = Len(emitted) + 1 /\ emitted' = emitted /\ value' = value
        BY <1>6 DEF Subscribe, TypeOK
      <4>2. view[p][u] <= snap[p].value[u] /\ snap[p].value[u] <= value[u]
        BY <1>1, <1>6 DEF Subscribe, PageOrder
      <4>3. PageOrder(p, u)'
        BY <4>1, <4>2, EventsTyped DEF PageOrder
      <4> QED BY <1>1, <3>2, <4>1, <4>2, <4>3
    <3> QED BY <3>1, <3>2
  <2> QED BY <1>6, <2>1, PageOrderStep DEF Subscribe
<1>7. ASSUME NEW p \in Pages, Deliver(p) PROVE OrderInv' /\ Forward
  BY <1>7, DeliverOrder
<1>8. ASSUME NEW p \in Pages, SkipLagged(p) PROVE OrderInv' /\ Forward
  <2>1. \A q \in Pages : next'[q] >= next[q] /\ next'[q] \in Nat /\ next[q] \in Nat
    BY <1>8, StreamAssumption, EventsTyped DEF SkipLagged, Lagging, TypeOK
  <2>2. UNCHANGED <<value, emitted, conn, snap, view>>
    BY <1>8 DEF SkipLagged
  <2>3. ASSUME NEW q \in Pages, NEW u \in Topics PROVE PageOrder(q, u)'
    <3>1. PageOrder(q, u)
      BY <1>1
    <3>2. \A k \in DOMAIN emitted : k >= next'[q] => k >= next[q]
      BY <2>1, EventsTyped
    <3> QED BY <2>2, <3>1, <3>2 DEF PageOrder
  <2> QED BY <1>2, <2>2, <2>3, PageOrderStep
<1>9. ASSUME NEW p \in Pages, Disconnect(p) PROVE OrderInv' /\ Forward
  <2>1. \A q \in Pages, u \in Topics : PageOrder(q, u)'
    BY <1>1, <1>9 DEF Disconnect, PageOrder, TypeOK
  <2> QED BY <1>2, <1>9, <2>1, PageOrderStep DEF Disconnect
<1>10. ASSUME NEW t \in Topics, ChangeSilently(t) PROVE OrderInv' /\ Forward
  BY <1>2, <1>10, SilentOrder DEF ChangeSilently
<1>11. CASE UNCHANGED vars
  BY <1>1, <1>2, <1>11 DEF vars, OrderInv, PageOrder
<1> QED BY <1>3, <1>4, <1>5, <1>6, <1>7, <1>8, <1>9, <1>10, <1>11 DEF Next

NeverBackwards ==
  [][ \A p \in Pages, t \in Topics : view'[p][t] >= view[p][t] ]_vars

\* No page ever goes back to an older value: not when a snapshot meets the
\* deltas queued behind it, when the page lags, or when it reconnects.
THEOREM NeverBackwardsCorrect == Spec => NeverBackwards
<1>1. Init => OrderInv
  BY DEF Init, OrderInv, PageOrder
<1>2. TypeOK /\ OrderInv /\ [Next]_vars => OrderInv'
  BY NextOrder
<1>3. TypeOK /\ OrderInv /\ [Next]_vars =>
        [\A p \in Pages, t \in Topics : view'[p][t] >= view[p][t]]_vars
  BY NextOrder
<1> QED BY <1>1, <1>2, <1>3, TypeCorrect, PTL DEF Spec, NeverBackwards

-----------------------------------------------------------------------------
(* What a page that missed nothing shows.                                  *)

\* A topic that page p has not missed, and that did not change silently, is in
\* its snapshot, on its screen, or on its way.
Fresh(p, t) ==
  /\ conn[p] = "hydrating" => snap[p].value[t] = value[t]
  /\ conn[p] = "live" =>
       \/ view[p][t] = value[t]
       \/ \E k \in DOMAIN emitted : k >= next[p] /\ emitted[k].topic = t

\* Of what page p has still to read, the last event of a topic that did not
\* change silently carries the topic's value.
LastIsCurrent(p, t) ==
  conn[p] = "live" =>
    \A k \in DOMAIN emitted :
      /\ k >= next[p] /\ emitted[k].topic = t
      /\ \A j \in DOMAIN emitted : j > k => emitted[j].topic # t
      => emitted[k].value = value[t]

FreshInv ==
  /\ \A p \in Pages : next[p] <= Len(emitted) + 1
  /\ \A p \in Pages, t \in Topics : t \notin unsaid[p] => LastIsCurrent(p, t)
  /\ \A p \in Pages, t \in Topics : t \notin missed[p] \cup unsaid[p] => Fresh(p, t)

\* An emission reaches every page that is live and is missed by every page
\* that holds a snapshot.
LEMMA EmitFresh ==
  ASSUME TypeOK, FreshInv, NEW t \in Topics \cup {"log"}, NEW n \in Nat,
         emitted' = Append(emitted, [topic |-> t, value |-> n]),
         missed' = [p \in Pages |-> IF conn[p] = "hydrating" THEN missed[p] \cup {t}
                                    ELSE missed[p]],
         unsaid' = [p \in Pages |-> unsaid[p] \ {t}],
         t \in Topics => value'[t] = n,
         \A u \in Topics \ {t} : value'[u] = value[u],
         UNCHANGED <<conn, snap, next, view>>
  PROVE  FreshInv'
<1>1. emitted \in Seq(Event) /\ [topic |-> t, value |-> n] \in Event
  BY DEF TypeOK, Event
<1>2. /\ DOMAIN emitted' = 1 .. Len(emitted) + 1
      /\ \A k \in 1..Len(emitted) : emitted'[k] = emitted[k]
      /\ emitted'[Len(emitted) + 1] = [topic |-> t, value |-> n]
  BY <1>1
<1>3. ASSUME NEW p \in Pages, NEW u \in Topics, u \notin unsaid'[p]
      PROVE  LastIsCurrent(p, u)'
  <2> SUFFICES ASSUME conn[p] = "live", NEW k \in DOMAIN emitted', k >= next[p],
                      emitted'[k].topic = u,
                      \A j \in DOMAIN emitted' : j > k => emitted'[j].topic # u
               PROVE  emitted'[k].value = value'[u]
    BY DEF LastIsCurrent
  <2>1. CASE k = Len(emitted) + 1
    BY <1>2, <2>1
  <2>2. CASE k \in 1..Len(emitted)
    <3>1. u # t
      BY <1>2, <2>2, EventsTyped
    <3>2. \A j \in DOMAIN emitted : j > k => emitted[j].topic # u
      BY <1>2, EventsTyped
    <3>3. LastIsCurrent(p, u)
      BY <1>3, <3>1 DEF FreshInv
    <3>4. emitted[k].value = value[u]
      BY <1>2, <2>2, <3>2, <3>3, EventsTyped DEF LastIsCurrent
    <3> QED BY <1>2, <2>2, <3>1, <3>4
  <2> QED BY <1>2, <2>1, <2>2, EventsTyped
<1>4. ASSUME NEW p \in Pages, NEW u \in Topics, u \notin missed'[p] \cup unsaid'[p]
      PROVE  Fresh(p, u)'
  <2>1. /\ u \notin missed[p] /\ (conn[p] = "hydrating" => u # t)
        /\ u # t => u \notin unsaid[p]
    BY <1>4
  <2>3. CASE u = t
    <3>1. conn[p] # "hydrating" /\ next[p] <= Len(emitted) + 1
      BY <2>1, <2>3 DEF FreshInv
    <3> QED BY <1>2, <2>3, <3>1, EventsTyped DEF Fresh
  <2>4. CASE u # t
    <3>1. \A k \in DOMAIN emitted : k \in DOMAIN emitted' /\ emitted'[k] = emitted[k]
      BY <1>2, EventsTyped
    <3>2. Fresh(p, u)
      BY <2>1, <2>4 DEF FreshInv
    <3> QED BY <2>4, <3>1, <3>2 DEF Fresh
  <2> QED BY <2>3, <2>4
<1>5. ASSUME NEW p \in Pages PROVE next'[p] <= Len(emitted') + 1
  <2>1. Len(emitted') = Len(emitted) + 1 /\ next[p] \in Nat /\ next[p] <= Len(emitted) + 1
    BY <1>1 DEF TypeOK, FreshInv
  <2> QED BY <2>1, EventsTyped
<1> QED BY <1>3, <1>4, <1>5 DEF FreshInv

\* The steps of one page leave the channel, the values and the other pages
\* alone.
LEMMA PageFreshStep ==
  ASSUME TypeOK, FreshInv, UNCHANGED <<value, emitted>>, NEW p \in Pages,
         \A q \in Pages \ {p} : /\ conn'[q] = conn[q] /\ snap'[q] = snap[q]
                                /\ next'[q] = next[q] /\ view'[q] = view[q]
                                /\ missed'[q] = missed[q] /\ unsaid'[q] = unsaid[q],
         next'[p] <= Len(emitted) + 1,
         \A u \in Topics : u \notin unsaid'[p] => LastIsCurrent(p, u)',
         \A u \in Topics : u \notin missed'[p] \cup unsaid'[p] => Fresh(p, u)'
  PROVE  FreshInv'
<1>1. ASSUME NEW q \in Pages \ {p}, NEW u \in Topics, u \notin unsaid'[q]
      PROVE  LastIsCurrent(q, u)'
  BY <1>1 DEF FreshInv, LastIsCurrent
<1>2. ASSUME NEW q \in Pages \ {p}, NEW u \in Topics, u \notin missed'[q] \cup unsaid'[q]
      PROVE  Fresh(q, u)'
  BY <1>2 DEF FreshInv, Fresh
<1>3. \A q \in Pages : next'[q] <= Len(emitted') + 1
  BY DEF FreshInv
<1> QED BY <1>1, <1>2, <1>3 DEF FreshInv

\* A page that reads on, or stops reading, has fewer events before it.
LEMMA LastIsCurrentStep ==
  ASSUME TypeOK, FreshInv, NEW p \in Pages, UNCHANGED <<value, emitted>>,
         unsaid'[p] = unsaid[p], next'[p] \in Nat, next'[p] >= next[p],
         conn'[p] = "live" => conn[p] = "live"
  PROVE  \A u \in Topics : u \notin unsaid'[p] => LastIsCurrent(p, u)'
<1> SUFFICES ASSUME NEW u \in Topics, u \notin unsaid[p], conn[p] = "live",
                    NEW k \in DOMAIN emitted, k >= next'[p], emitted[k].topic = u,
                    \A j \in DOMAIN emitted : j > k => emitted[j].topic # u
             PROVE  emitted[k].value = value[u]
  BY DEF LastIsCurrent
<1>1. next[p] \in Nat
  BY DEF TypeOK
<1>2. k \in Nat
  BY EventsTyped
<1>3. k >= next[p]
  BY <1>1, <1>2
<1> QED BY <1>3 DEF FreshInv, LastIsCurrent

\* Every step keeps a topic a page has not missed in reach of that page.
LEMMA NextFresh ==
  ASSUME TypeOK, FreshInv, [Next]_vars
  PROVE  FreshInv'
<1>1. ASSUME NEW t \in Topics, Change(t) PROVE FreshInv'
  <2>1. value'[t] \in Nat /\ \A u \in Topics \ {t} : value'[u] = value[u]
    BY <1>1 DEF Change, TypeOK
  <2> QED BY <1>1, <2>1, EmitFresh DEF Change, Emit
<1>2. CASE Log
  <2>1. logSeq' \in Nat /\ value' = value
    BY <1>2 DEF Log, TypeOK
  <2> QED BY <1>2, <2>1, EmitFresh, StreamAssumption DEF Log, Emit
<1>3. ASSUME NEW p \in Pages, TakeSnapshot(p) PROVE FreshInv'
  <2>1. \A u \in Topics : Fresh(p, u)'
    BY <1>3 DEF TakeSnapshot, Fresh, TypeOK
  <2>2. next'[p] <= Len(emitted) + 1
    BY <1>3 DEF TakeSnapshot, FreshInv
  <2>3. \A u \in Topics : LastIsCurrent(p, u)'
    BY <1>3 DEF TakeSnapshot, LastIsCurrent, TypeOK
  <2> QED BY <1>3, <2>1, <2>2, <2>3, PageFreshStep DEF TakeSnapshot, TypeOK
<1>4. ASSUME NEW p \in Pages, Subscribe(p) PROVE FreshInv'
  <2>1. ASSUME NEW u \in Topics, u \notin missed'[p] \cup unsaid'[p] PROVE Fresh(p, u)'
    <3>1. snap[p].value[u] = value[u]
      BY <1>4, <2>1 DEF Subscribe, FreshInv, Fresh
    <3>2. view'[p] = snap[p].value /\ conn'[p] = "live" /\ value' = value
      BY <1>4 DEF Subscribe, TypeOK
    <3> QED BY <3>1, <3>2 DEF Fresh
  <2>2. next'[p] <= Len(emitted) + 1
    BY <1>4, EventsTyped DEF Subscribe, TypeOK
  <2>3. \A u \in Topics : LastIsCurrent(p, u)'
    <3>1. emitted' = emitted /\ \A k \in DOMAIN emitted : ~(k >= next'[p])
      BY <1>4, EventsTyped DEF Subscribe, TypeOK
    <3> QED BY <3>1 DEF LastIsCurrent
  <2> QED BY <1>4, <2>1, <2>2, <2>3, PageFreshStep DEF Subscribe, TypeOK
<1>5. ASSUME NEW p \in Pages, Deliver(p) PROVE FreshInv'
  <2> DEFINE t == emitted[next[p]].topic
  <2>1. /\ conn[p] = "live" /\ conn' = conn /\ next[p] \in 1..Len(emitted)
        /\ next'[p] = next[p] + 1 /\ UNCHANGED <<value, emitted, unsaid>>
    BY <1>5 DEF Deliver, TypeOK
  <2>2. ASSUME NEW u \in Topics, u \notin missed'[p] \cup unsaid'[p] PROVE Fresh(p, u)'
    <3>1. CASE u = t
      <4>1. view'[p][u] = emitted[next[p]].value
        BY <1>5, <3>1, StreamAssumption DEF Deliver, TypeOK
      <4>2. \/ view'[p][u] = value[u]
            \/ \E k \in DOMAIN emitted : k > next[p] /\ emitted[k].topic = u
        <5>1. LastIsCurrent(p, u)
          BY <2>1, <2>2 DEF FreshInv
        <5> QED BY <2>1, <3>1, <4>1, <5>1, EventsTyped DEF LastIsCurrent
      <4> QED BY <2>1, <4>2, EventsTyped DEF Fresh
    <3>2. CASE u # t
      <4>1. view'[p][u] = view[p][u] /\ u \notin missed[p]
        <5>1. CASE t = "log"
          <6>1. view' = view /\ missed' = missed
            BY <1>5, <5>1 DEF Deliver
          <6> QED BY <2>2, <6>1
        <5>2. CASE t # "log"
          <6>1. /\ view' = [view EXCEPT ![p][t] = emitted[next[p]].value]
                /\ missed' = [missed EXCEPT ![p] = @ \ {t}]
            BY <1>5, <5>2 DEF Deliver
          <6>2. view \in [Pages -> [Topics -> Nat]] /\ missed \in [Pages -> SUBSET (Topics \cup {"log"})]
            BY DEF TypeOK
          <6> HIDE DEF t
          <6>3. view'[p][u] = view[p][u]
            BY <3>2, <6>1, <6>2
          <6>4. missed'[p] = missed[p] \ {t}
            BY <6>1, <6>2
          <6> QED BY <2>2, <3>2, <6>3, <6>4
        <5> QED BY <5>1, <5>2
      <4>2. Fresh(p, u)
        BY <2>1, <2>2, <4>1 DEF FreshInv
      <4>3. \A k \in DOMAIN emitted : k >= next[p] /\ emitted[k].topic = u => k >= next[p] + 1
        BY <2>1, <3>2, EventsTyped
      <4> QED BY <2>1, <4>1, <4>2, <4>3 DEF Fresh
    <3> QED BY <3>1, <3>2
  <2>3. \A q \in Pages \ {p} : /\ next'[q] = next[q] /\ view'[q] = view[q]
                               /\ missed'[q] = missed[q]
    BY <1>5 DEF Deliver, TypeOK
  <2>4. next'[p] <= Len(emitted) + 1
    BY <2>1, EventsTyped
  <2>5. \A u \in Topics : u \notin unsaid'[p] => LastIsCurrent(p, u)'
    <3>1. next[p] \in Nat /\ next'[p] \in Nat /\ next'[p] >= next[p]
      BY <2>1 DEF TypeOK
    <3> QED BY <2>1, <3>1, LastIsCurrentStep
  <2> QED BY <1>5, <2>1, <2>2, <2>3, <2>4, <2>5, PageFreshStep DEF Deliver
<1>6. ASSUME NEW p \in Pages, SkipLagged(p) PROVE FreshInv'
  <2>1. /\ next[p] \in Nat \ {0} /\ next'[p] \in Nat
        /\ next'[p] <= Len(emitted) + 1 /\ next'[p] >= next[p]
    <3>1. next[p] \in Nat \ {0} /\ Len(emitted) - next[p] + 1 > EventBuffer
      BY <1>6 DEF SkipLagged, Lagging, TypeOK
    <3>2. next'[p] = Len(emitted) - EventBuffer + 1
      BY <1>6 DEF SkipLagged, TypeOK
    <3> QED BY <3>1, <3>2, StreamAssumption, EventsTyped
  <2>2. /\ UNCHANGED <<value, emitted, conn, snap, view, unsaid>>
        /\ missed'[p] = missed[p] \cup {emitted[k].topic : k \in next[p] .. next'[p] - 1}
    BY <1>6 DEF SkipLagged, TypeOK
  <2>3. ASSUME NEW u \in Topics, u \notin missed'[p] \cup unsaid'[p] PROVE Fresh(p, u)'
    <3>1. Fresh(p, u)
      BY <2>2, <2>3 DEF FreshInv
    <3>2. \A k \in DOMAIN emitted : k >= next[p] /\ emitted[k].topic = u => k >= next'[p]
      BY <2>1, <2>2, <2>3, EventsTyped
    <3> QED BY <2>2, <3>1, <3>2 DEF Fresh
  <2>4. \A u \in Topics : u \notin unsaid'[p] => LastIsCurrent(p, u)'
    BY <2>1, <2>2, LastIsCurrentStep
  <2> QED BY <1>6, <2>1, <2>2, <2>3, <2>4, PageFreshStep DEF SkipLagged, TypeOK
<1>7. ASSUME NEW p \in Pages, Disconnect(p) PROVE FreshInv'
  <2>1. \A u \in Topics : Fresh(p, u)'
    BY <1>7 DEF Disconnect, Fresh, TypeOK
  <2>2. next'[p] <= Len(emitted) + 1
    BY <1>7 DEF Disconnect, FreshInv
  <2>3. \A u \in Topics : LastIsCurrent(p, u)'
    BY <1>7 DEF Disconnect, LastIsCurrent, TypeOK
  <2> QED BY <1>7, <2>1, <2>2, <2>3, PageFreshStep DEF Disconnect, TypeOK
<1>8. ASSUME NEW t \in Topics, ChangeSilently(t) PROVE FreshInv'
  <2>1. /\ \A u \in Topics \ {t} : value'[u] = value[u]
        /\ \A p \in Pages : unsaid'[p] = unsaid[p] \cup {t}
        /\ UNCHANGED <<emitted, conn, snap, next, view, missed>>
    BY <1>8 DEF ChangeSilently, TypeOK
  <2>2. ASSUME NEW p \in Pages, NEW u \in Topics, u \notin unsaid'[p]
        PROVE  LastIsCurrent(p, u)'
    BY <2>1, <2>2 DEF FreshInv, LastIsCurrent
  <2>3. ASSUME NEW p \in Pages, NEW u \in Topics, u \notin missed'[p] \cup unsaid'[p]
        PROVE  Fresh(p, u)'
    BY <2>1, <2>3 DEF FreshInv, Fresh
  <2> QED BY <2>1, <2>2, <2>3 DEF FreshInv
<1>9. CASE UNCHANGED vars
  BY <1>9 DEF vars, FreshInv, Fresh, LastIsCurrent
<1> QED BY <1>1, <1>2, <1>3, <1>4, <1>5, <1>6, <1>7, <1>8, <1>9 DEF Next
-----------------------------------------------------------------------------
(* The log.                                                                *)

\* The ring after n records: the last LogCapacity of them.
RingLen(n) == IF n <= LogCapacity THEN n ELSE LogCapacity

Ring(n) == [i \in 1..RingLen(n) |-> n - RingLen(n) + i]

IsLog(k) == emitted[k].topic = "log"

\* A log of at most LogCapacity records in order, none later than n.
Ordered(s, n) ==
  /\ Len(s) <= LogCapacity
  /\ \A i \in DOMAIN s : s[i] <= n
  /\ \A i, j \in DOMAIN s : i < j => s[i] < s[j]

\* What page p shows of the log, and what its snapshot holds, is in order
\* and older than the records its receiver has still to read.
PageLog(p) ==
  /\ Ordered(viewLogs[p], logSeq)
  /\ conn[p] = "hydrating" => Ordered(snap[p].logs, logSeq)
  /\ conn[p] = "live" =>
       \A i \in DOMAIN viewLogs[p], k \in DOMAIN emitted :
         k >= next[p] /\ IsLog(k) => viewLogs[p][i] < emitted[k].value

\* If page p missed no record, it shows the ring as it was after some record
\* L, and the record after L, if there is one, is on its way.
FreshLog(p) ==
  /\ conn[p] = "hydrating" => snap[p].logs = Ring(logSeq)
  /\ conn[p] = "live" =>
       \E L \in 0..logSeq :
         /\ viewLogs[p] = Ring(L)
         /\ \A k \in DOMAIN emitted : k >= next[p] /\ IsLog(k) => emitted[k].value > L
         /\ L < logSeq => \E k \in DOMAIN emitted :
                            k >= next[p] /\ IsLog(k) /\ emitted[k].value = L + 1

\* The daemon's log is the ring after its last record; the records follow
\* each other along the channel without a gap.
ChannelLog ==
  /\ logs = Ring(logSeq)
  /\ \A k \in DOMAIN emitted : IsLog(k) => emitted[k].value <= logSeq
  /\ \A j, k \in DOMAIN emitted :
       j < k /\ IsLog(j) /\ IsLog(k) => emitted[j].value < emitted[k].value
  /\ \A k \in DOMAIN emitted :
       IsLog(k) /\ emitted[k].value < logSeq =>
         \E j \in DOMAIN emitted : IsLog(j) /\ emitted[j].value = emitted[k].value + 1

LogInv ==
  /\ ChannelLog
  /\ \A p \in Pages : next[p] <= Len(emitted) + 1
  /\ \A p \in Pages : PageLog(p)
  /\ \A p \in Pages : "log" \notin missed[p] => FreshLog(p)

\* Pushing the next record turns the ring into the next ring.
LEMMA PushRing ==
  ASSUME NEW n \in Nat
  PROVE  Push(Ring(n), n + 1) = Ring(n + 1)
<1>1. Ring(n) \in Seq(Nat) /\ Len(Ring(n)) = RingLen(n) /\ RingLen(n) \in Nat
  BY StreamAssumption DEF Ring, RingLen
<1>2. CASE n < LogCapacity
  <2>1. Push(Ring(n), n + 1) = Append(Ring(n), n + 1)
    BY <1>1, <1>2, StreamAssumption DEF Push, RingLen
  <2>2. RingLen(n) = n /\ RingLen(n + 1) = n + 1
    BY <1>2, StreamAssumption DEF RingLen
  <2> QED BY <1>1, <2>1, <2>2 DEF Ring
<1>3. CASE n >= LogCapacity
  <2>1. RingLen(n) = LogCapacity /\ RingLen(n + 1) = LogCapacity
    BY <1>3, StreamAssumption DEF RingLen
  <2>2. /\ Tail(Ring(n)) \in Seq(Nat) /\ Len(Tail(Ring(n))) = LogCapacity - 1
        /\ \A i \in 1 .. LogCapacity - 1 : Tail(Ring(n))[i] = Ring(n)[i + 1]
    BY <1>1, <2>1, StreamAssumption
  <2>3. Push(Ring(n), n + 1) = Append(Tail(Ring(n)), n + 1)
    BY <1>1, <2>1, StreamAssumption DEF Push
  <2>4. /\ Push(Ring(n), n + 1) \in Seq(Nat)
        /\ Len(Push(Ring(n), n + 1)) = LogCapacity
        /\ \A i \in 1 .. LogCapacity - 1 : Push(Ring(n), n + 1)[i] = Ring(n)[i + 1]
        /\ Push(Ring(n), n + 1)[LogCapacity] = n + 1
    <3> DEFINE s == Tail(Ring(n))
    <3>1. s \in Seq(Nat) /\ Len(s) = LogCapacity - 1 /\ n + 1 \in Nat
      BY <2>2
    <3>2. /\ Append(s, n + 1) \in Seq(Nat) /\ Len(Append(s, n + 1)) = Len(s) + 1
          /\ \A i \in 1 .. Len(s) : Append(s, n + 1)[i] = s[i]
          /\ Append(s, n + 1)[Len(s) + 1] = n + 1
      <4> HIDE DEF s
      <4> QED BY <3>1, AppendProperties
    <3>3. Len(s) + 1 = LogCapacity
      BY <3>1, StreamAssumption
    <3> QED BY <2>2, <2>3, <3>1, <3>2, <3>3
  <2>5. /\ Ring(n + 1) \in Seq(Nat) /\ Len(Ring(n + 1)) = LogCapacity
        /\ \A i \in 1 .. LogCapacity : Ring(n + 1)[i] = n + 1 - LogCapacity + i
    BY <1>3, <2>1, StreamAssumption DEF Ring
  <2>6. \A i \in 1 .. LogCapacity - 1 : Ring(n)[i + 1] = n - LogCapacity + (i + 1)
    BY <2>1, StreamAssumption DEF Ring
  <2>7. \A i \in 1 .. LogCapacity : Push(Ring(n), n + 1)[i] = Ring(n + 1)[i]
    <3> SUFFICES ASSUME NEW i \in 1 .. LogCapacity
                 PROVE  Push(Ring(n), n + 1)[i] = Ring(n + 1)[i]
      OBVIOUS
    <3>1. CASE i = LogCapacity
      BY <2>4, <2>5, <3>1, StreamAssumption
    <3>2. CASE i # LogCapacity
      <4>1. i \in 1 .. LogCapacity - 1
        BY <3>2, StreamAssumption
      <4>2. /\ Push(Ring(n), n + 1)[i] = Ring(n)[i + 1]
            /\ Ring(n)[i + 1] = n - LogCapacity + (i + 1)
        BY <2>4, <2>6, <4>1
      <4>3. Ring(n + 1)[i] = n + 1 - LogCapacity + i
        BY <2>5
      <4> QED BY <4>2, <4>3, StreamAssumption
    <3> QED BY <3>1, <3>2
  <2> QED BY <2>4, <2>5, <2>7, SeqEqual
<1> QED BY <1>2, <1>3, StreamAssumption

\* Pushing a later record keeps a log in order.
LEMMA PushOrdered ==
  ASSUME NEW s \in Seq(Nat), NEW n \in Nat, NEW x \in Nat, NEW m \in Nat,
         Ordered(s, n), n <= m, x <= m, \A i \in DOMAIN s : s[i] < x
  PROVE  /\ Ordered(Push(s, x), m)
         /\ \A i \in DOMAIN Push(s, x) : Push(s, x)[i] <= x
<1> DEFINE t == Push(s, x)
<1>1. \A i \in 1 .. Len(s) : s[i] \in Nat /\ s[i] < x
  OBVIOUS
<1>2. \A i, j \in 1 .. Len(s) : i < j => s[i] < s[j]
  BY DEF Ordered
<1>3. CASE Len(s) >= LogCapacity
  <2>1. s # <<>> /\ Len(s) \in Nat \ {0} /\ Len(s) <= LogCapacity
    BY <1>3, StreamAssumption DEF Ordered
  <2>2. /\ Tail(s) \in Seq(Nat) /\ Len(Tail(s)) = Len(s) - 1
        /\ \A i \in 1 .. Len(s) - 1 : Tail(s)[i] = s[i + 1]
    BY <2>1
  <2>3. t = Append(Tail(s), x)
    BY <1>3 DEF Push
  <2>4. /\ DOMAIN t = 1 .. Len(s) /\ Len(t) = Len(s)
        /\ \A i \in 1 .. Len(s) - 1 : t[i] = s[i + 1]
        /\ t[Len(s)] = x
    BY <2>1, <2>2, <2>3
  <2> HIDE DEF t
  <2>5. \A i \in DOMAIN t : t[i] <= x
    BY <1>1, <2>1, <2>4
  <2>6. ASSUME NEW i \in DOMAIN t, NEW j \in DOMAIN t, i < j PROVE t[i] < t[j]
    <3>1. i \in 1 .. Len(s) - 1 /\ i + 1 \in 1 .. Len(s) /\ t[i] = s[i + 1]
      BY <2>1, <2>4, <2>6
    <3>2. CASE j = Len(s)
      BY <1>1, <2>4, <3>1, <3>2
    <3>3. CASE j # Len(s)
      <4>1. j + 1 \in 1 .. Len(s) /\ t[j] = s[j + 1] /\ i + 1 < j + 1
        BY <2>1, <2>4, <2>6, <3>3
      <4> QED BY <1>2, <3>1, <4>1
    <3> QED BY <3>2, <3>3
  <2>7. \A i \in DOMAIN t : t[i] \in Nat
    BY <1>1, <2>1, <2>4
  <2>8. Ordered(t, m)
    BY <2>1, <2>4, <2>5, <2>6, <2>7 DEF Ordered
  <2> QED BY <2>5, <2>8 DEF t
<1>4. CASE ~(Len(s) >= LogCapacity)
  <2>1. t = Append(s, x)
    BY <1>4 DEF Push
  <2>2. /\ DOMAIN t = 1 .. Len(s) + 1 /\ Len(t) = Len(s) + 1 /\ Len(s) \in Nat
        /\ \A i \in 1 .. Len(s) : t[i] = s[i]
        /\ t[Len(s) + 1] = x
    BY <2>1
  <2> HIDE DEF t
  <2>3. \A i \in DOMAIN t : t[i] \in Nat /\ t[i] <= x
    BY <1>1, <2>2
  <2>4. \A i, j \in DOMAIN t : i < j => t[i] < t[j]
    BY <1>1, <1>2, <2>2
  <2>5. Ordered(t, m)
    BY <1>4, <2>2, <2>3, <2>4, StreamAssumption DEF Ordered
  <2> QED BY <2>3, <2>5 DEF t
<1> QED BY <1>3, <1>4

\* A ring is in order.
LEMMA RingOrdered ==
  ASSUME NEW n \in Nat
  PROVE  Ring(n) \in Seq(Nat) /\ Ordered(Ring(n), n)
<1>1. RingLen(n) \in Nat /\ RingLen(n) <= LogCapacity /\ RingLen(n) <= n
  BY StreamAssumption DEF RingLen
<1>2. Ring(n) \in Seq(Nat) /\ Len(Ring(n)) = RingLen(n)
  BY <1>1 DEF Ring
<1> QED BY <1>1, <1>2 DEF Ring, Ordered

\* Another topic's change adds no record.
LEMMA ChangeLog ==
  ASSUME TypeOK, LogInv, NEW t \in Topics, Change(t)
  PROVE  LogInv'
<1>1. /\ value'[t] \in Nat /\ UNCHANGED <<logs, logSeq, conn, snap, next, viewLogs>>
      /\ \A p \in Pages : "log" \notin missed'[p] => "log" \notin missed[p]
      /\ emitted' = Append(emitted, [topic |-> t, value |-> value'[t]])
  BY DEF Change, Emit, TypeOK
<1>2. emitted \in Seq(Event) /\ [topic |-> t, value |-> value'[t]] \in Event
  BY <1>1 DEF TypeOK, Event
<1>3. /\ DOMAIN emitted' = 1 .. Len(emitted) + 1 /\ Len(emitted') = Len(emitted) + 1
      /\ \A k \in 1..Len(emitted) : emitted'[k] = emitted[k]
      /\ emitted'[Len(emitted) + 1].topic = t
  BY <1>1, <1>2
<1>4. /\ \A k \in DOMAIN emitted' : IsLog(k)' => k \in DOMAIN emitted /\ emitted'[k] = emitted[k]
                                                 /\ IsLog(k)
      /\ \A k \in DOMAIN emitted : k \in DOMAIN emitted' /\ emitted'[k] = emitted[k]
                                   /\ (IsLog(k) => IsLog(k)')
  BY <1>3, EventsTyped, StreamAssumption DEF IsLog
<1>5. ChannelLog'
  BY <1>1, <1>4 DEF LogInv, ChannelLog
<1>6. \A p \in Pages : next'[p] <= Len(emitted') + 1
  BY <1>1, <1>3, EventsTyped DEF LogInv, TypeOK
<1>7. \A p \in Pages : PageLog(p)'
  BY <1>1, <1>4 DEF LogInv, PageLog
<1>8. ASSUME NEW p \in Pages, "log" \notin missed'[p] PROVE FreshLog(p)'
  <2>1. FreshLog(p)
    BY <1>1, <1>8 DEF LogInv
  <2> QED BY <1>1, <1>4, <2>1 DEF FreshLog
<1> QED BY <1>5, <1>6, <1>7, <1>8 DEF LogInv

\* A new record enters the daemon's log and the channel together.
LEMMA RecordLog ==
  ASSUME TypeOK, LogInv, Log
  PROVE  LogInv'
<1>0. PICK new \in Nat : new = Len(emitted) + 1
  BY EventsTyped
<1>1. /\ logSeq \in Nat /\ logSeq' = logSeq + 1 /\ UNCHANGED <<conn, snap, next, viewLogs>>
      /\ logs' = Push(logs, logSeq + 1)
      /\ \A p \in Pages : "log" \notin missed'[p] =>
           "log" \notin missed[p] /\ conn[p] # "hydrating"
      /\ emitted' = Append(emitted, [topic |-> "log", value |-> logSeq + 1])
  BY DEF Log, Emit, TypeOK
<1>2. emitted \in Seq(Event) /\ [topic |-> "log", value |-> logSeq + 1] \in Event
  BY <1>1 DEF TypeOK, Event
<1>3. /\ DOMAIN emitted' = 1 .. new /\ Len(emitted') = new
      /\ \A k \in 1..Len(emitted) : emitted'[k] = emitted[k] /\ (IsLog(k)' <=> IsLog(k))
      /\ emitted'[new].topic = "log" /\ emitted'[new].value = logSeq + 1
      /\ new \in DOMAIN emitted' /\ IsLog(new)'
  <2>1. /\ DOMAIN emitted' = 1 .. new /\ Len(emitted') = new
        /\ \A k \in 1..Len(emitted) : emitted'[k] = emitted[k]
        /\ emitted'[new] = [topic |-> "log", value |-> logSeq + 1]
        /\ new \in 1 .. new
    BY <1>0, <1>1, <1>2, EventsTyped
  <2> QED BY <2>1 DEF IsLog
<1>4. \A k \in DOMAIN emitted' : k = new \/ k \in 1..Len(emitted)
  BY <1>0, <1>3, EventsTyped
<1>5. \A k \in 1..Len(emitted) : IsLog(k) => emitted[k].value \in Nat /\ emitted[k].value <= logSeq
  BY EventsTyped DEF LogInv, ChannelLog
<1>6. ChannelLog'
  <2>1. logs' = Ring(logSeq')
    BY <1>1, PushRing DEF LogInv, ChannelLog
  <2>2. \A k \in DOMAIN emitted' : IsLog(k)' => emitted'[k].value <= logSeq'
    BY <1>1, <1>3, <1>4, <1>5
  <2>3. ASSUME NEW j \in DOMAIN emitted', NEW k \in DOMAIN emitted', j < k, IsLog(j)', IsLog(k)'
        PROVE  emitted'[j].value < emitted'[k].value
    <3>1. j \in 1..Len(emitted)
      BY <1>0, <1>3, <1>4, <2>3, EventsTyped
    <3>2. CASE k = new
      BY <1>1, <1>3, <1>5, <2>3, <3>1, <3>2
    <3>3. CASE k \in 1..Len(emitted)
      BY <1>3, <2>3, <3>1, <3>3, EventsTyped DEF LogInv, ChannelLog
    <3> QED BY <1>4, <3>2, <3>3
  <2>4. ASSUME NEW k \in DOMAIN emitted', IsLog(k)', emitted'[k].value < logSeq'
        PROVE  \E j \in DOMAIN emitted' : IsLog(j)' /\ emitted'[j].value = emitted'[k].value + 1
    <3>1. k \in 1..Len(emitted) /\ IsLog(k) /\ emitted'[k] = emitted[k]
      BY <1>1, <1>3, <1>4, <2>4
    <3>2. CASE emitted[k].value = logSeq
      BY <1>3, <3>1, <3>2
    <3>3. CASE emitted[k].value < logSeq
      <4>1. PICK j \in 1..Len(emitted) : IsLog(j) /\ emitted[j].value = emitted[k].value + 1
        BY <3>1, <3>3, EventsTyped DEF LogInv, ChannelLog
      <4> QED BY <1>0, <1>3, <3>1, <4>1, EventsTyped
    <3> QED BY <1>1, <1>5, <3>1, <3>2, <3>3
  <2> QED BY <2>1, <2>2, <2>3, <2>4 DEF ChannelLog
<1>7. \A p \in Pages : next'[p] <= Len(emitted') + 1
  BY <1>0, <1>1, <1>3, EventsTyped DEF LogInv, TypeOK
<1>8. ASSUME NEW p \in Pages PROVE PageLog(p)'
  <2>1. PageLog(p) /\ viewLogs[p] \in Seq(Nat) /\ snap[p].logs \in Seq(Nat)
    BY DEF LogInv, TypeOK
  <2>2. Ordered(viewLogs[p], logSeq')
    BY <1>1, <2>1 DEF PageLog, Ordered
  <2>3. conn[p] = "hydrating" => Ordered(snap[p].logs, logSeq')
    BY <1>1, <2>1 DEF PageLog, Ordered
  <2>4. ASSUME conn[p] = "live", NEW i \in DOMAIN viewLogs[p], NEW k \in DOMAIN emitted',
               k >= next[p], IsLog(k)'
        PROVE  viewLogs[p][i] < emitted'[k].value
    <3>1. CASE k = new
      BY <1>1, <1>3, <2>1, <3>1 DEF PageLog, Ordered
    <3>2. CASE k \in 1..Len(emitted)
      BY <1>3, <2>1, <2>4, <3>2, EventsTyped DEF PageLog
    <3> QED BY <1>4, <3>1, <3>2
  <2> QED BY <1>1, <2>2, <2>3, <2>4 DEF PageLog
<1>9. ASSUME NEW p \in Pages, "log" \notin missed'[p] PROVE FreshLog(p)'
  <2> SUFFICES ASSUME conn[p] = "live" PROVE FreshLog(p)'
    BY <1>1, <1>9 DEF FreshLog
  <2>1. FreshLog(p) /\ next[p] <= new
    BY <1>0, <1>1, <1>9 DEF LogInv
  <2>2. PICK L \in 0..logSeq :
          /\ viewLogs[p] = Ring(L)
          /\ \A k \in DOMAIN emitted : k >= next[p] /\ IsLog(k) => emitted[k].value > L
          /\ L < logSeq => \E k \in DOMAIN emitted :
                             k >= next[p] /\ IsLog(k) /\ emitted[k].value = L + 1
    BY <2>1 DEF FreshLog
  <2>3. L \in 0..logSeq' /\ viewLogs'[p] = Ring(L)
    BY <1>1, <2>2
  <2>4. \A k \in DOMAIN emitted' : k >= next'[p] /\ IsLog(k)' => emitted'[k].value > L
    BY <1>1, <1>3, <1>4, <2>2, EventsTyped
  <2>5. \E k \in DOMAIN emitted' : k >= next'[p] /\ IsLog(k)' /\ emitted'[k].value = L + 1
    <3>1. CASE L = logSeq
      <4>1. new >= next'[p]
        BY <1>0, <1>1, <2>1, EventsTyped DEF TypeOK
      <4> QED BY <1>3, <3>1, <4>1
    <3>2. CASE L < logSeq
      <4>1. PICK k \in 1..Len(emitted) : k >= next[p] /\ IsLog(k) /\ emitted[k].value = L + 1
        BY <2>2, <3>2, EventsTyped
      <4> QED BY <1>0, <1>1, <1>3, <4>1, EventsTyped
    <3> QED BY <1>1, <3>1, <3>2
  <2> QED BY <1>1, <2>3, <2>4, <2>5 DEF FreshLog
<1> QED BY <1>6, <1>7, <1>8, <1>9 DEF LogInv

\* The steps of one page leave the records and the other pages alone.
LEMMA PageLogStep ==
  ASSUME TypeOK, LogInv, UNCHANGED <<logs, logSeq, emitted>>, NEW p \in Pages,
         \A q \in Pages \ {p} : /\ conn'[q] = conn[q] /\ snap'[q] = snap[q]
                                /\ next'[q] = next[q] /\ viewLogs'[q] = viewLogs[q]
                                /\ missed'[q] = missed[q],
         next'[p] <= Len(emitted) + 1,
         PageLog(p)',
         "log" \notin missed'[p] => FreshLog(p)'
  PROVE  LogInv'
<1>1. ChannelLog'
  BY DEF LogInv, ChannelLog, IsLog
<1>2. ASSUME NEW q \in Pages \ {p}
      PROVE  PageLog(q)' /\ ("log" \notin missed'[q] => FreshLog(q)')
  <2>1. /\ conn'[q] = conn[q] /\ snap'[q] = snap[q] /\ next'[q] = next[q]
        /\ viewLogs'[q] = viewLogs[q] /\ missed'[q] = missed[q]
    BY <1>2
  <2>2. PageLog(q) /\ ("log" \notin missed[q] => FreshLog(q))
    BY <1>2 DEF LogInv
  <2>3. PageLog(q)'
    BY <2>1, <2>2 DEF PageLog, IsLog
  <2>4. ASSUME FreshLog(q) PROVE FreshLog(q)'
    BY <2>1, <2>4 DEF FreshLog, IsLog
  <2> QED BY <2>1, <2>2, <2>3, <2>4
<1>3. \A q \in Pages : next'[q] <= Len(emitted') + 1
  BY DEF LogInv
<1> QED BY <1>1, <1>2, <1>3 DEF LogInv

\* A record delivered to a page is appended to a log that is older; if the
\* page missed none it is the one that comes next.
LEMMA DeliverLog ==
  ASSUME TypeOK, LogInv, NEW p \in Pages, Deliver(p)
  PROVE  LogInv'
<1>0. PICK n \in Nat, x \in Nat : n = next[p] /\ x = emitted[next[p]].value
  BY EventsTyped DEF Deliver, TypeOK
<1>1. /\ conn[p] = "live" /\ conn' = conn /\ n \in 1..Len(emitted) /\ next'[p] = n + 1
      /\ UNCHANGED <<logs, logSeq, emitted, snap>> /\ logSeq \in Nat
      /\ \A q \in Pages \ {p} : /\ next'[q] = next[q] /\ viewLogs'[q] = viewLogs[q]
                                /\ missed'[q] = missed[q]
  BY <1>0 DEF Deliver, TypeOK
<1>2. n + 1 <= Len(emitted) + 1 /\ n \in DOMAIN emitted /\ x = emitted[n].value
  BY <1>0, <1>1, EventsTyped
<1>3. PageLog(p) /\ viewLogs[p] \in Seq(Nat)
  BY DEF LogInv, TypeOK
<1>4. CASE ~IsLog(n)
  <2>1. viewLogs' = viewLogs /\ ("log" \notin missed'[p] => "log" \notin missed[p])
    BY <1>0, <1>4 DEF Deliver, IsLog, TypeOK
  <2>2. \A k \in DOMAIN emitted : IsLog(k) => (k >= n + 1 <=> k >= n)
    BY <1>0, <1>1, <1>4, EventsTyped
  <2>3. PageLog(p)'
    BY <1>0, <1>1, <1>3, <2>1, <2>2 DEF PageLog, IsLog
  <2>4. ASSUME "log" \notin missed'[p] PROVE FreshLog(p)'
    <3>1. FreshLog(p)
      BY <2>1, <2>4 DEF LogInv
    <3> QED BY <1>0, <1>1, <2>1, <2>2, <3>1 DEF FreshLog, IsLog
  <2> QED BY <1>0, <1>1, <1>2, <2>3, <2>4, PageLogStep
<1>5. CASE IsLog(n)
  <2>1. viewLogs'[p] = Push(viewLogs[p], x) /\ missed' = missed
    BY <1>0, <1>5 DEF Deliver, IsLog, TypeOK
  <2>2. x <= logSeq /\ \A i \in DOMAIN viewLogs[p] : viewLogs[p][i] < x
    <3>1. x <= logSeq
      BY <1>2, <1>5 DEF LogInv, ChannelLog
    <3>2. n >= next[p]
      BY <1>0
    <3> QED BY <1>1, <1>2, <1>3, <1>5, <3>1, <3>2 DEF PageLog
  <2>3. /\ Ordered(viewLogs'[p], logSeq)
        /\ \A i \in DOMAIN viewLogs'[p] : viewLogs'[p][i] <= x
    BY <1>0, <1>1, <1>2, <1>3, <2>1, <2>2, PushOrdered DEF PageLog
  <2>4. \A k \in DOMAIN emitted : k >= n + 1 /\ IsLog(k) => x < emitted[k].value
    <3>1. \A k \in DOMAIN emitted : n < k /\ IsLog(k) => emitted[n].value < emitted[k].value
      BY <1>2, <1>5 DEF LogInv, ChannelLog
    <3>2. \A k \in DOMAIN emitted : k >= n + 1 => n < k
      BY <1>0, EventsTyped
    <3> QED BY <1>2, <3>1, <3>2
  <2>5. viewLogs'[p] \in Seq(Nat)
    BY <1>2, <1>3, <2>1, PushType
  <2>6. PageLog(p)'
    <3>1. ASSUME NEW i \in DOMAIN viewLogs'[p], NEW k \in DOMAIN emitted',
                 k >= next'[p], IsLog(k)'
          PROVE  viewLogs'[p][i] < emitted'[k].value
      <4>1. k \in DOMAIN emitted /\ k >= n + 1 /\ IsLog(k)
        BY <1>1, <3>1 DEF IsLog
      <4>2. x < emitted[k].value /\ emitted[k].value \in Nat
        BY <2>4, <4>1, EventsTyped
      <4>3. viewLogs'[p][i] <= x /\ viewLogs'[p][i] \in Nat
        BY <2>3, <2>5, <3>1
      <4> QED BY <1>0, <1>1, <4>2, <4>3
    <3> QED BY <1>1, <2>3, <3>1 DEF PageLog
  <2>7. ASSUME "log" \notin missed'[p] PROVE FreshLog(p)'
    <3>1. PICK L \in 0..logSeq :
            /\ viewLogs[p] = Ring(L)
            /\ \A k \in DOMAIN emitted : k >= n /\ IsLog(k) => emitted[k].value > L
            /\ L < logSeq => \E k \in DOMAIN emitted :
                               k >= n /\ IsLog(k) /\ emitted[k].value = L + 1
      BY <1>0, <1>1, <2>1, <2>7 DEF LogInv, FreshLog
    <3>2. x > L /\ L < logSeq /\ L \in Nat
      BY <1>0, <1>1, <1>2, <1>5, <2>2, <3>1
    <3>3. x = L + 1
      <4>1. PICK k \in DOMAIN emitted : k >= n /\ IsLog(k) /\ emitted[k].value = L + 1
        BY <3>1, <3>2
      <4> QED BY <1>0, <1>1, <1>2, <2>4, <3>2, <4>1, EventsTyped
    <3>4. viewLogs'[p] = Ring(L + 1) /\ L + 1 \in 0..logSeq
      BY <1>0, <1>1, <2>1, <3>1, <3>2, <3>3, PushRing
    <3>5. ASSUME L + 1 < logSeq
          PROVE  \E k \in DOMAIN emitted : k >= n + 1 /\ IsLog(k) /\ emitted[k].value = L + 2
      <4>1. PICK k \in DOMAIN emitted : IsLog(k) /\ emitted[k].value = x + 1
        BY <1>2, <1>5, <3>3, <3>5 DEF LogInv, ChannelLog
      <4>2. ~(k < n) /\ k # n
        BY <1>0, <1>1, <1>2, <1>5, <4>1, EventsTyped DEF LogInv, ChannelLog
      <4> QED BY <1>0, <1>1, <3>2, <3>3, <4>1, <4>2, EventsTyped
    <3>6. \A k \in DOMAIN emitted : k >= n + 1 /\ IsLog(k) => emitted[k].value > L + 1
      BY <2>4, <3>3
    <3>7. L + 1 < logSeq => \E k \in DOMAIN emitted :
                              k >= n + 1 /\ IsLog(k) /\ emitted[k].value = (L + 1) + 1
      BY <3>2, <3>5
    <3> QED BY <1>0, <1>1, <3>4, <3>6, <3>7 DEF FreshLog, IsLog
  <2> QED BY <1>0, <1>1, <1>2, <2>6, <2>7, PageLogStep
<1> QED BY <1>4, <1>5

\* Every step keeps the log in order, and within reach of a page that missed
\* no record.
LEMMA NextLog ==
  ASSUME TypeOK, LogInv, [Next]_vars
  PROVE  LogInv'
<1>1. CASE \E t \in Topics : Change(t)
  BY <1>1, ChangeLog
<1>2. CASE Log
  BY <1>2, RecordLog
<1>3. ASSUME NEW p \in Pages, TakeSnapshot(p) PROVE LogInv'
  <2>1. /\ conn'[p] = "hydrating" /\ snap'[p].logs = logs /\ next' = next
        /\ UNCHANGED <<logs, logSeq, emitted, viewLogs>>
    BY <1>3 DEF TakeSnapshot, TypeOK
  <2>2. Ordered(logs, logSeq) /\ logs = Ring(logSeq)
    BY RingOrdered DEF LogInv, ChannelLog, TypeOK
  <2>3. PageLog(p)'
    BY <2>1, <2>2 DEF PageLog, LogInv
  <2>4. FreshLog(p)'
    BY <2>1, <2>2 DEF FreshLog
  <2>5. next'[p] <= Len(emitted) + 1
    BY <2>1 DEF LogInv
  <2> QED BY <1>3, <2>1, <2>3, <2>4, <2>5, PageLogStep DEF TakeSnapshot, TypeOK
<1>4. ASSUME NEW p \in Pages, Subscribe(p) PROVE LogInv'
  <2>1. /\ conn[p] = "hydrating" /\ conn'[p] = "live" /\ next'[p] = Len(emitted) + 1
        /\ viewLogs'[p] = snap[p].logs /\ missed' = missed
        /\ UNCHANGED <<logs, logSeq, emitted>> /\ logSeq \in Nat
    BY <1>4 DEF Subscribe, TypeOK
  <2>2. \A k \in DOMAIN emitted : ~(k >= Len(emitted) + 1)
    BY EventsTyped
  <2>3. PageLog(p)'
    BY <2>1, <2>2 DEF PageLog, LogInv
  <2>4. ASSUME "log" \notin missed'[p] PROVE FreshLog(p)'
    <3>1. snap[p].logs = Ring(logSeq) /\ logSeq \in 0..logSeq
      BY <2>1, <2>4 DEF LogInv, FreshLog
    <3> QED BY <2>1, <2>2, <3>1 DEF FreshLog
  <2>5. next'[p] <= Len(emitted) + 1
    BY <2>1, EventsTyped
  <2> QED BY <1>4, <2>1, <2>3, <2>4, <2>5, PageLogStep DEF Subscribe, TypeOK
<1>5. ASSUME NEW p \in Pages, Deliver(p) PROVE LogInv'
  BY <1>5, DeliverLog
<1>6. ASSUME NEW p \in Pages, SkipLagged(p) PROVE LogInv'
  <2>1. /\ next[p] \in Nat \ {0} /\ next'[p] \in Nat
        /\ next'[p] <= Len(emitted) + 1 /\ next[p] <= next'[p]
    <3>1. next[p] \in Nat \ {0} /\ Len(emitted) - next[p] + 1 > EventBuffer
      BY <1>6 DEF SkipLagged, Lagging, TypeOK
    <3>2. next'[p] = Len(emitted) - EventBuffer + 1
      BY <1>6 DEF SkipLagged, TypeOK
    <3> QED BY <3>1, <3>2, StreamAssumption, EventsTyped
  <2>2. /\ UNCHANGED <<logs, logSeq, emitted, conn, snap, viewLogs>>
        /\ missed'[p] = missed[p] \cup {emitted[k].topic : k \in next[p] .. next'[p] - 1}
    BY <1>6 DEF SkipLagged, TypeOK
  <2>3. PageLog(p)'
    BY <2>1, <2>2, EventsTyped DEF PageLog, LogInv, IsLog
  <2>4. ASSUME "log" \notin missed'[p] PROVE FreshLog(p)'
    <3>1. FreshLog(p)
      BY <2>2, <2>4 DEF LogInv
    <3>2. \A k \in DOMAIN emitted : IsLog(k) => (k >= next[p] <=> k >= next'[p])
      BY <2>1, <2>2, <2>4, EventsTyped DEF IsLog
    <3> QED BY <2>2, <3>1, <3>2 DEF FreshLog, IsLog
  <2> QED BY <1>6, <2>1, <2>2, <2>3, <2>4, PageLogStep DEF SkipLagged, TypeOK
<1>7. ASSUME NEW p \in Pages, Disconnect(p) PROVE LogInv'
  <2>1. conn'[p] = "offline" /\ UNCHANGED <<logs, logSeq, emitted, next, viewLogs>>
    BY <1>7 DEF Disconnect, TypeOK
  <2>2. PageLog(p)' /\ FreshLog(p)' /\ next'[p] <= Len(emitted) + 1
    BY <2>1 DEF PageLog, FreshLog, LogInv
  <2> QED BY <1>7, <2>1, <2>2, PageLogStep DEF Disconnect, TypeOK
<1>8. CASE UNCHANGED vars \/ \E t \in Topics : ChangeSilently(t)
  <2>1. UNCHANGED <<logs, logSeq, emitted, conn, snap, next, viewLogs, missed>>
    BY <1>8 DEF vars, ChangeSilently
  <2> QED BY <2>1 DEF LogInv, ChannelLog, PageLog, FreshLog, IsLog
<1> QED BY <1>1, <1>2, <1>3, <1>4, <1>5, <1>6, <1>7, <1>8 DEF Next

-----------------------------------------------------------------------------
(* The invariants the runs check.                                          *)

IInv == TypeOK /\ FreshInv /\ LogInv

\* No page is connected and nothing was emitted, so the invariant holds.
LEMMA InitInv == Init => IInv
<1> SUFFICES ASSUME Init PROVE IInv
  OBVIOUS
<1>1. emitted = <<>> /\ DOMAIN emitted = {} /\ Len(emitted) = 0
  BY DEF Init
<1>2. FreshInv
  BY <1>1 DEF Init, FreshInv, Fresh, LastIsCurrent
<1>3. logs = Ring(logSeq)
  <2>1. RingLen(1) = 1
    BY StreamAssumption DEF RingLen
  <2>2. Ring(1) = <<1>>
    <3>1. Ring(1) \in Seq(Nat) /\ Len(Ring(1)) = 1 /\ Ring(1)[1] = 1
      BY <2>1 DEF Ring
    <3>2. <<1>> \in Seq(Nat) /\ Len(<<1>>) = 1 /\ <<1>>[1] = 1
      OBVIOUS
    <3>3. \A i \in 1..Len(Ring(1)) : Ring(1)[i] = <<1>>[i]
      BY <3>1, <3>2
    <3> QED BY <3>1, <3>2, <3>3, SeqEqual
  <2> QED BY <2>2 DEF Init
<1>4. ChannelLog
  BY <1>1, <1>3 DEF ChannelLog
<1>5. \A p \in Pages : PageLog(p) /\ FreshLog(p)
  <2>1. \A p \in Pages : viewLogs[p] = <<>> /\ conn[p] = "offline"
    BY DEF Init
  <2>2. Ordered(<<>>, logSeq)
    BY StreamAssumption DEF Ordered
  <2> QED BY <2>1, <2>2 DEF PageLog, FreshLog
<1> QED BY <1>1, <1>2, <1>4, <1>5, InitTypeOK DEF IInv, LogInv, Init

\* The invariant from which the two theorems below follow: whatever a page
\* has not missed and was announced is shown or on its way, and logs are in
\* order.
THEOREM Inductive == Spec => []IInv
<1>1. IInv /\ [Next]_vars => IInv'
  BY NextTypeOK, NextFresh, NextLog DEF IInv
<1> QED BY InitInv, <1>1, PTL DEF Spec

\* The log a page shows is in order, without repetition, and no longer than
\* the daemon's, whatever was skipped and however often it reconnected.
THEOREM PageLogCorrect == Spec => []PageLogIsOrdered
<1>1. IInv => PageLogIsOrdered
  BY DEF IInv, LogInv, PageLog, Ordered, PageLogIsOrdered
<1> QED BY <1>1, Inductive, PTL

\* A page that has read all its events shows what the daemon holds, except
\* for what it missed and what changed without a delta since its snapshot,
\* and has not been told since.
THEOREM WrongOnlyWhereMissedCorrect == Spec => []WrongOnlyWhereMissed
<1>1. IInv => WrongOnlyWhereMissed
  <2> SUFFICES ASSUME IInv, NEW p \in Pages, CaughtUp(p)
               PROVE  /\ \A t \in Topics \ (missed[p] \cup unsaid[p]) : view[p][t] = value[t]
                      /\ "log" \notin missed[p] => viewLogs[p] = logs
    BY DEF WrongOnlyWhereMissed
  <2>1. conn[p] = "live" /\ \A k \in DOMAIN emitted : ~(k >= next[p])
    BY EventsTyped DEF CaughtUp, IInv, TypeOK
  <2>2. \A t \in Topics \ (missed[p] \cup unsaid[p]) : view[p][t] = value[t]
    BY <2>1 DEF IInv, FreshInv, Fresh
  <2>3. ASSUME "log" \notin missed[p] PROVE viewLogs[p] = logs
    <3>1. PICK L \in 0..logSeq : viewLogs[p] = Ring(L) /\ ~(L < logSeq)
      BY <2>1, <2>3 DEF IInv, LogInv, FreshLog
    <3>2. L = logSeq
      BY <3>1 DEF IInv, TypeOK
    <3> QED BY <3>1, <3>2 DEF IInv, LogInv, ChannelLog
  <2> QED BY <2>2, <2>3
<1> QED BY <1>1, Inductive, PTL

-----------------------------------------------------------------------------
(* The abstract specification.                                             *)

\* A page that is about to be handed its snapshot shows no later record.
HydrateInv ==
  \A p \in Pages : conn[p] = "hydrating" => LastOf(viewLogs[p]) <= LastOf(snap[p].logs)

\* The last number of a log is one of its numbers.
LEMMA LastType ==
  ASSUME NEW s \in Seq(Nat)
  PROVE  /\ LastOf(s) \in Nat
         /\ LastOf(s) = 0 \/ \E i \in DOMAIN s : LastOf(s) = s[i]
<1>1. CASE s = <<>>
  BY <1>1 DEF LastOf
<1>2. CASE s # <<>>
  <2>1. Len(s) \in 1..Len(s) /\ DOMAIN s = 1..Len(s)
    BY <1>2
  <2> QED BY <1>2, <2>1 DEF LastOf
<1> QED BY <1>1, <1>2

\* A record that is pushed is the last one.
LEMMA PushLast ==
  ASSUME NEW s \in Seq(Nat), NEW x \in Nat
  PROVE  LastOf(Push(s, x)) = x
<1>1. ASSUME NEW r \in Seq(Nat) PROVE LastOf(Append(r, x)) = x
  <2>1. /\ Append(r, x) # <<>> /\ Len(Append(r, x)) = Len(r) + 1
        /\ Append(r, x)[Len(r) + 1] = x
    OBVIOUS
  <2> QED BY <2>1 DEF LastOf
<1>2. Len(s) >= LogCapacity => Tail(s) \in Seq(Nat)
  BY StreamAssumption
<1> QED BY <1>1, <1>2 DEF Push

\* The last record of the daemon's log is the one it counted last.
LEMMA RingLast ==
  ASSUME NEW n \in Nat
  PROVE  LastOf(Ring(n)) = n
<1>1. Ring(n) \in Seq(Nat) /\ Len(Ring(n)) = RingLen(n) /\ RingLen(n) \in Nat
  BY StreamAssumption DEF Ring, RingLen
<1>2. CASE n = 0
  <2>1. RingLen(n) = 0
    BY <1>2, StreamAssumption DEF RingLen
  <2>2. Ring(n) = <<>>
    BY <1>1, <2>1, EmptySeq
  <2> QED BY <1>2, <2>2 DEF LastOf
<1>3. CASE n > 0
  <2>1. RingLen(n) > 0
    BY <1>3, StreamAssumption DEF RingLen
  <2>2. Ring(n) # <<>>
    BY <1>1, <2>1
  <2>3. Ring(n)[RingLen(n)] = n
    BY <1>1, <2>1 DEF Ring
  <2> QED BY <1>1, <2>2, <2>3 DEF LastOf
<1> QED BY <1>2, <1>3

\* Snapshots are taken when they are at least as late as what is shown.
LEMMA NextHydrate ==
  ASSUME TypeOK, LogInv, HydrateInv, [Next]_vars
  PROVE  HydrateInv'
<1>1. ASSUME NEW p \in Pages, UNCHANGED <<conn, snap>>, conn[p] # "hydrating",
             \A q \in Pages \ {p} : viewLogs'[q] = viewLogs[q]
      PROVE  HydrateInv'
  BY <1>1 DEF HydrateInv
<1>2. ASSUME NEW p \in Pages, conn'[p] # "hydrating",
             \A q \in Pages \ {p} : /\ viewLogs'[q] = viewLogs[q] /\ conn'[q] = conn[q]
                                    /\ snap'[q] = snap[q]
      PROVE  HydrateInv'
  BY <1>2 DEF HydrateInv
<1>3. ASSUME UNCHANGED <<conn, snap, viewLogs>> PROVE HydrateInv'
  BY <1>3 DEF HydrateInv
<1>4. ASSUME NEW p \in Pages, TakeSnapshot(p) PROVE HydrateInv'
  <2>1. LastOf(viewLogs[p]) <= LastOf(logs)
    <3>1. logs = Ring(logSeq) /\ logSeq \in Nat /\ viewLogs[p] \in Seq(Nat)
      BY DEF TypeOK, LogInv, ChannelLog
    <3>2. \A i \in DOMAIN viewLogs[p] : viewLogs[p][i] <= logSeq
      BY DEF LogInv, PageLog, Ordered
    <3>3. LastOf(viewLogs[p]) <= logSeq
      BY <3>1, <3>2, LastType
    <3> QED BY <3>1, <3>3, RingLast
  <2>2. /\ viewLogs' = viewLogs /\ snap'[p].logs = logs
        /\ \A q \in Pages \ {p} : conn'[q] = conn[q] /\ snap'[q] = snap[q]
    BY <1>4 DEF TakeSnapshot, TypeOK
  <2> QED BY <2>1, <2>2 DEF HydrateInv
<1>5. ASSUME NEW p \in Pages, Subscribe(p) \/ Disconnect(p) PROVE HydrateInv'
  BY <1>2, <1>5 DEF Subscribe, Disconnect, TypeOK
<1>6. ASSUME NEW p \in Pages, Deliver(p) PROVE HydrateInv'
  <2>1. \A q \in Pages \ {p} : viewLogs'[q] = viewLogs[q]
    BY <1>6 DEF Deliver, TypeOK
  <2>2. conn[p] = "live" /\ UNCHANGED <<conn, snap>>
    BY <1>6 DEF Deliver
  <2> QED BY <1>1, <2>1, <2>2
<1>7. ASSUME \/ \E t \in Topics : Change(t)
             \/ Log
             \/ \E t \in Topics : ChangeSilently(t)
             \/ \E p \in Pages : SkipLagged(p)
             \/ UNCHANGED vars
      PROVE  HydrateInv'
  BY <1>3, <1>7 DEF Change, ChangeSilently, Log, SkipLagged, vars
<1> QED BY <1>4, <1>5, <1>6, <1>7 DEF Next

\* The log of a page never goes back to an older record.
LEMMA LogForward ==
  ASSUME TypeOK, LogInv, HydrateInv, NEW p \in Pages, Subscribe(p) \/ Deliver(p)
  PROVE  LastOf(viewLogs'[p]) >= LastOf(viewLogs[p])
<1>0. viewLogs[p] \in Seq(Nat) /\ LastOf(viewLogs[p]) \in Nat
  BY LastType DEF TypeOK
<1>1. CASE Subscribe(p)
  <2>1. viewLogs'[p] = snap[p].logs /\ conn[p] = "hydrating" /\ snap[p].logs \in Seq(Nat)
    BY <1>1 DEF Subscribe, TypeOK
  <2>2. LastOf(snap[p].logs) \in Nat
    BY <2>1, LastType
  <2> QED BY <1>0, <2>1, <2>2 DEF HydrateInv
<1>2. CASE Deliver(p) /\ emitted[next[p]].topic # "log"
  <2>1. viewLogs' = viewLogs
    BY <1>2 DEF Deliver
  <2> QED BY <1>0, <2>1
<1>3. CASE Deliver(p) /\ emitted[next[p]].topic = "log"
  <2>1. PICK x : x = emitted[next[p]].value
    OBVIOUS
  <2>2. next[p] \in 1..Len(emitted) /\ conn[p] = "live"
    BY <1>3 DEF Deliver, TypeOK
  <2>3. x \in Nat /\ next[p] \in DOMAIN emitted
    BY <2>1, <2>2, EventsTyped
  <2>4. viewLogs'[p] = Push(viewLogs[p], x)
    BY <1>3, <2>1 DEF Deliver, TypeOK
  <2>5. \A i \in DOMAIN viewLogs[p] : viewLogs[p][i] < x
    BY <1>3, <2>1, <2>2, <2>3 DEF LogInv, PageLog, IsLog
  <2>6. LastOf(viewLogs[p]) <= x
    BY <1>0, <2>3, <2>5, LastType
  <2>7. LastOf(viewLogs'[p]) = x
    BY <1>0, <2>3, <2>4, PushLast
  <2> QED BY <2>6, <2>7
<1> QED BY <1>1, <1>2, <1>3

\* The mapped state is a state of the abstract specification.
LEMMA PartsType ==
  ASSUME TypeOK
  PROVE  DaemonParts \in [Parts -> Nat] /\ ShownParts \in [Pages -> [Parts -> Nat]]
<1>1. \A p \in Pages : LastOf(viewLogs[p]) \in Nat
  BY LastType DEF TypeOK
<1>2. \A t \in Parts : t # "log" => t \in Topics
  BY DEF Parts
<1>3. DaemonParts \in [Parts -> Nat]
  BY <1>2 DEF TypeOK, DaemonParts
<1>4. ShownParts \in [Pages -> [Parts -> Nat]]
  BY <1>1, <1>2 DEF TypeOK, ShownParts
<1> QED BY <1>3, <1>4

\* A subscription and a delivery are advances of the page.
LEMMA AdvanceStep ==
  ASSUME TypeOK, TypeOK', OrderInv, OrderInv', LogInv, LogInv', HydrateInv, NEW p \in Pages,
         Subscribe(p) \/ Deliver(p)
  PROVE  Abs!Advance(p)
<1>1. /\ ShownParts' \in [Pages -> [Parts -> Nat]] /\ ShownParts \in [Pages -> [Parts -> Nat]]
      /\ DaemonParts \in [Parts -> Nat]
  <2>1. ASSUME TypeOK' PROVE ShownParts' \in [Pages -> [Parts -> Nat]]
    <3>1. \A q \in Pages : viewLogs'[q] \in Seq(Nat) /\ LastOf(viewLogs'[q]) \in Nat
      BY LastType DEF TypeOK
    <3>2. \A t \in Parts : t # "log" => t \in Topics
      BY DEF Parts
    <3> QED BY <3>1, <3>2 DEF TypeOK, ShownParts
  <2> QED BY <2>1, PartsType
<1>2. /\ UNCHANGED <<value, logSeq>>
      /\ \A q \in Pages \ {p} : view'[q] = view[q] /\ viewLogs'[q] = viewLogs[q]
  <2>1. CASE Subscribe(p)
    BY <2>1 DEF Subscribe, TypeOK
  <2>2. CASE Deliver(p)
    BY <2>2 DEF Deliver, TypeOK
  <2> QED BY <2>1, <2>2
<1>3. DaemonParts' = DaemonParts
  BY <1>2 DEF DaemonParts
<1>4. \A q \in Pages \ {p} : ShownParts'[q] = ShownParts[q]
  BY <1>2 DEF ShownParts
<1>5. ASSUME NEW t \in Parts PROVE ShownParts'[p][t] \in ShownParts[p][t] .. DaemonParts[t]
  <2>1. /\ ShownParts'[p][t] = IF t = "log" THEN LastOf(viewLogs'[p]) ELSE view'[p][t]
        /\ ShownParts[p][t] = IF t = "log" THEN LastOf(viewLogs[p]) ELSE view[p][t]
        /\ DaemonParts[t] = IF t = "log" THEN logSeq ELSE value[t]
    BY DEF ShownParts, DaemonParts
  <2>2. ShownParts'[p][t] \in Nat /\ ShownParts[p][t] \in Nat /\ DaemonParts[t] \in Nat
    BY <1>1
  <2>3. CASE t = "log"
    <3>1. LastOf(viewLogs'[p]) >= LastOf(viewLogs[p])
      BY LogForward
    <3>2. /\ viewLogs'[p] \in Seq(Nat) /\ logSeq \in Nat
          /\ \A i \in DOMAIN viewLogs'[p] : viewLogs'[p][i] <= logSeq
      BY <1>2 DEF TypeOK, LogInv, PageLog, Ordered
    <3>3. LastOf(viewLogs'[p]) <= logSeq
      BY <3>2, LastType
    <3> QED BY <2>1, <2>2, <2>3, <3>1, <3>3
  <2>4. CASE t # "log"
    <3>1. t \in Topics
      BY <2>4 DEF Parts
    <3>2. view'[p][t] >= view[p][t]
      BY <3>1, NextOrder DEF Next
    <3>3. view'[p][t] <= value[t]
      BY <1>2, <3>1 DEF OrderInv, PageOrder
    <3> QED BY <2>1, <2>2, <2>4, <3>2, <3>3
  <2> QED BY <2>3, <2>4
<1> QED BY <1>1, <1>3, <1>4, <1>5 DEF Abs!Advance

\* Every step of the stream is a step of the abstract specification, or leaves
\* the daemon's state and what the pages show as they are.
LEMMA StepSimulates ==
  ASSUME TypeOK, TypeOK', OrderInv, OrderInv', LogInv, LogInv', HydrateInv, [Next]_vars
  PROVE  [Abs!Next]_Abs!vars
<1> SUFFICES Abs!Next \/ UNCHANGED <<DaemonParts, ShownParts>>
  BY DEF Abs!vars
<1>1. value \in [Topics -> Nat] /\ logSeq \in Nat
  BY DEF TypeOK
<1>2. ASSUME NEW t \in Parts, UNCHANGED <<view, viewLogs>>,
             IF t = "log" THEN logSeq' = logSeq + 1 /\ UNCHANGED value
             ELSE value' = [value EXCEPT ![t] = @ + 1] /\ UNCHANGED logSeq
      PROVE  Abs!Next
  <2>1. ShownParts' = ShownParts
    BY <1>2 DEF ShownParts
  <2>2. DaemonParts' \in [Parts -> Nat] /\ DaemonParts \in [Parts -> Nat]
    BY <1>1, <1>2 DEF DaemonParts, Parts
  <2>3. ASSUME NEW u \in Parts
        PROVE  DaemonParts'[u] = IF u = t THEN DaemonParts[u] + 1 ELSE DaemonParts[u]
    BY <1>1, <1>2 DEF DaemonParts, Parts
  <2>4. DaemonParts' = [DaemonParts EXCEPT ![t] = @ + 1]
    BY <2>2, <2>3
  <2> QED BY <2>1, <2>4 DEF Abs!Change, Abs!Next
<1>3. ASSUME NEW t \in Topics, Change(t) \/ ChangeSilently(t) PROVE Abs!Next
  BY <1>2, <1>3, StreamAssumption DEF Change, ChangeSilently, Parts
<1>4. CASE Log
  BY <1>2, <1>4 DEF Log, Parts
<1>5. ASSUME NEW p \in Pages, Subscribe(p) \/ Deliver(p) PROVE Abs!Next
  BY <1>5, AdvanceStep DEF Abs!Next
<1>6. ASSUME \/ \E p \in Pages : TakeSnapshot(p) \/ SkipLagged(p) \/ Disconnect(p)
             \/ UNCHANGED vars
      PROVE  UNCHANGED <<DaemonParts, ShownParts>>
  BY <1>6 DEF TakeSnapshot, SkipLagged, Disconnect, vars, DaemonParts, ShownParts
<1> QED BY <1>3, <1>4, <1>5, <1>6 DEF Next

\* The stream, its buffer, its lag and its reconnects implement the promise,
\* for the log as for every other part of the state.
THEOREM ImplementsPageViewCorrect == Spec => ImplementsPageView
<1>1. Init => Abs!Init
  <2> SUFFICES ASSUME Init PROVE Abs!Init
    OBVIOUS
  <2>1. DaemonParts \in [Parts -> Nat]
    BY InitTypeOK, PartsType
  <2>2. ShownParts = [p \in Pages |-> [t \in Parts |-> 0]]
    BY DEF Init, ShownParts, LastOf, Parts
  <2> QED BY <2>1, <2>2 DEF Abs!Init
<1>2. Init => OrderInv /\ HydrateInv
  BY DEF Init, OrderInv, PageOrder, HydrateInv
<1>3. IInv /\ OrderInv /\ HydrateInv /\ [Next]_vars => (OrderInv /\ HydrateInv)'
  BY NextOrder, NextHydrate DEF IInv
<1>4. IInv /\ IInv' /\ OrderInv /\ OrderInv' /\ HydrateInv /\ [Next]_vars => [Abs!Next]_Abs!vars
  BY StepSimulates DEF IInv
<1> QED BY <1>1, <1>2, <1>3, <1>4, Inductive, PTL DEF Spec, ImplementsPageView, Abs!Spec
=============================================================================
