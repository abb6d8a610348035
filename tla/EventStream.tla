----------------------------- MODULE EventStream -----------------------------
(***************************************************************************)
(* How the pages of the browser follow the daemon: GET /api/events sends a *)
(* snapshot of Shared and then the deltas of a tokio broadcast channel of  *)
(* EVENT_BUFFER slots, from which a subscriber that falls behind loses the *)
(* oldest.                                                                 *)
(*                                                                         *)
(* The snapshot is taken under the lock; the subscription is made after    *)
(* the lock is released.  A delta is emitted under the lock, in the same   *)
(* step as the change; but some changes are made without one.              *)
(*                                                                         *)
(* Abstractions: a topic is a part of the state that a delta replaces as a *)
(* whole (points, devices, browsed, stats, lifecycle, config, the progress *)
(* of a scan); its value is the number of its changes.  The log is kept    *)
(* apart, because a log delta is a single record the page appends to what  *)
(* it has.                                                                 *)
(***************************************************************************)
EXTENDS Naturals, Sequences

CONSTANTS
  Topics,        \* the parts of the state replaced as a whole
  Pages,         \* browser pages
  EventBuffer,   \* EVENT_BUFFER
  LogCapacity,   \* LOG_CAPACITY, and the 500 of app.js
  MaxEvents,     \* bound: events emitted in a behaviour
  MaxSilent      \* bound: a topic changes silently only up to this value

ASSUME StreamAssumption ==
  /\ EventBuffer \in Nat \ {0}
  /\ LogCapacity \in Nat \ {0}
  /\ MaxEvents \in Nat /\ MaxSilent \in Nat
  /\ "log" \notin Topics

VARIABLES
  value,     \* Shared, topic by topic
  logs,      \* Shared.logs, as the sequence numbers of its records
  logSeq,    \* Shared.log_seq
  emitted,   \* all events sent on the broadcast channel so far
  conn,      \* the connection of each page
  snap,      \* the snapshot the handler of each page holds
  next,      \* the position in `emitted' each page's receiver reads next
  view,      \* what each page shows, topic by topic
  viewLogs,  \* the log each page shows
  missed,    \* history: what each page missed and has not been told since
  unsaid     \* history: what changed without a delta since each page's snapshot,
             \* and has not been announced since

vars == <<value, logs, logSeq, emitted, conn, snap, next, view, viewLogs, missed, unsaid>>

-----------------------------------------------------------------------------

NoSnapshot == [value |-> [t \in Topics |-> 0], logs |-> <<>>]

\* Faulty: room is made one record too late.
PushLate(s, x) ==
  IF Len(s) > LogCapacity THEN Append(Tail(s), x) ELSE Append(s, x)

\* Append to a ring of LogCapacity records.
Push(s, x) ==
  IF Len(s) >= LogCapacity THEN Append(Tail(s), x) ELSE Append(s, x)

Init ==
  /\ value = [t \in Topics |-> 0]
  /\ logs = <<1>> /\ logSeq = 1
  /\ emitted = <<>>
  /\ conn = [p \in Pages |-> "offline"]
  /\ snap = [p \in Pages |-> NoSnapshot]
  /\ next = [p \in Pages |-> 1]
  /\ view = [p \in Pages |-> [t \in Topics |-> 0]]
  /\ viewLogs = [p \in Pages |-> <<>>]
  /\ missed = [p \in Pages |-> {}]
  /\ unsaid = [p \in Pages |-> {}]

\* WebState::emit.  A page that holds its snapshot but is not subscribed yet
\* will never be sent this event.  A topic's delta carries all of the topic,
\* also what was changed silently before.
Emit(topic, n) ==
  /\ Len(emitted) < MaxEvents
  /\ emitted' = Append(emitted, [topic |-> topic, value |-> n])
  /\ missed' = [p \in Pages |-> IF conn[p] = "hydrating" THEN missed[p] \cup {topic}
                                ELSE missed[p]]
  /\ unsaid' = [p \in Pages |-> unsaid[p] \ {topic}]

\* Faulty: the delta is built before the change.
ChangeAfterEmit(t) ==
  /\ value' = [value EXCEPT ![t] = @ + 1]
  /\ Emit(t, value[t])
  /\ UNCHANGED <<logs, logSeq, conn, snap, next, view, viewLogs>>

\* A handler or the drain changes a part of the state and announces it.
Change(t) ==
  /\ value' = [value EXCEPT ![t] = @ + 1]
  /\ Emit(t, value'[t])
  /\ UNCHANGED <<logs, logSeq, conn, snap, next, view, viewLogs>>

\* A handler changes a part of the state and sends nothing: a start resets
\* the counters, an edit whose save failed stays in memory, an import ends
\* the progress of its scan.
ChangeSilently(t) ==
  /\ value[t] < MaxSilent
  /\ value' = [value EXCEPT ![t] = @ + 1]
  /\ unsaid' = [p \in Pages |-> unsaid[p] \cup {t}]
  /\ UNCHANGED <<logs, logSeq, emitted, conn, snap, next, view, viewLogs, missed>>

\* set_status and the drain's log records: push_log, then the delta.
Log ==
  /\ logSeq' = logSeq + 1
  /\ logs' = Push(logs, logSeq')
  /\ Emit("log", logSeq')
  /\ UNCHANGED <<value, conn, snap, next, view, viewLogs>>

-----------------------------------------------------------------------------
(* sse_events.                                                             *)

\* The snapshot, under the lock.
TakeSnapshot(p) ==
  /\ conn[p] = "offline"
  /\ conn' = [conn EXCEPT ![p] = "hydrating"]
  /\ snap' = [snap EXCEPT ![p] = [value |-> value, logs |-> logs]]
  /\ missed' = [missed EXCEPT ![p] = {}]
  /\ unsaid' = [unsaid EXCEPT ![p] = {}]
  /\ UNCHANGED <<value, logs, logSeq, emitted, next, view, viewLogs>>

\* Faulty: the receiver starts at the last event instead of behind it.
SubscribeAtLast(p) ==
  /\ conn[p] = "hydrating"
  /\ conn' = [conn EXCEPT ![p] = "live"]
  /\ next' = [next EXCEPT ![p] = Len(emitted)]
  /\ view' = [view EXCEPT ![p] = snap[p].value]
  /\ viewLogs' = [viewLogs EXCEPT ![p] = snap[p].logs]
  /\ snap' = [snap EXCEPT ![p] = NoSnapshot]
  /\ UNCHANGED <<value, logs, logSeq, emitted, missed, unsaid>>

\* Faulty: the receiver is given everything the channel still holds.
SubscribeWithReplay(p) ==
  /\ conn[p] = "hydrating"
  /\ conn' = [conn EXCEPT ![p] = "live"]
  /\ next' = [next EXCEPT ![p] = IF Len(emitted) > EventBuffer
                                 THEN Len(emitted) - EventBuffer + 1 ELSE 1]
  /\ view' = [view EXCEPT ![p] = snap[p].value]
  /\ viewLogs' = [viewLogs EXCEPT ![p] = snap[p].logs]
  /\ snap' = [snap EXCEPT ![p] = NoSnapshot]
  /\ UNCHANGED <<value, logs, logSeq, emitted, missed, unsaid>>

\* events.subscribe(), after the lock was released: the receiver starts
\* behind the last event.  The page is handed the snapshot first.
Subscribe(p) ==
  /\ conn[p] = "hydrating"
  /\ conn' = [conn EXCEPT ![p] = "live"]
  /\ next' = [next EXCEPT ![p] = Len(emitted) + 1]
  /\ view' = [view EXCEPT ![p] = snap[p].value]
  /\ viewLogs' = [viewLogs EXCEPT ![p] = snap[p].logs]
  /\ snap' = [snap EXCEPT ![p] = NoSnapshot]
  /\ UNCHANGED <<value, logs, logSeq, emitted, missed, unsaid>>

\* The channel keeps the last EventBuffer events.
Lagging(p) == Len(emitted) - next[p] + 1 > EventBuffer

\* app.js: a topic's delta replaces what is shown, a log record is appended.
Deliver(p) ==
  /\ conn[p] = "live"
  /\ next[p] <= Len(emitted) /\ ~Lagging(p)
  /\ LET event == emitted[next[p]]
     IN  /\ IF event.topic = "log"
            THEN /\ viewLogs' = [viewLogs EXCEPT ![p] = Push(@, event.value)]
                 /\ UNCHANGED <<view, missed>>
            ELSE /\ view' = [view EXCEPT ![p][event.topic] = event.value]
                 /\ missed' = [missed EXCEPT ![p] = @ \ {event.topic}]
                 /\ UNCHANGED viewLogs
  /\ next' = [next EXCEPT ![p] = @ + 1]
  /\ UNCHANGED <<value, logs, logSeq, emitted, conn, snap, unsaid>>

\* Faulty: the notice is dropped and the receiver left where it was.
SkipLaggedStuck(p) ==
  /\ conn[p] = "live"
  /\ Lagging(p)
  /\ UNCHANGED vars

\* A lagged receiver is told so, moves to the oldest event the channel still
\* holds, and sse_events drops the notice.
SkipLagged(p) ==
  /\ conn[p] = "live"
  /\ Lagging(p)
  /\ next' = [next EXCEPT ![p] = Len(emitted) - EventBuffer + 1]
  /\ missed' = [missed EXCEPT ![p] = @ \cup {emitted[k].topic : k \in next[p] .. next'[p] - 1}]
  /\ UNCHANGED <<value, logs, logSeq, emitted, conn, snap, view, viewLogs, unsaid>>

\* The connection drops, and EventSource will connect again; until then the
\* page keeps showing what it has.
Disconnect(p) ==
  /\ conn[p] # "offline"
  /\ conn' = [conn EXCEPT ![p] = "offline"]
  /\ snap' = [snap EXCEPT ![p] = NoSnapshot]
  /\ UNCHANGED <<value, logs, logSeq, emitted, next, view, viewLogs, missed, unsaid>>

-----------------------------------------------------------------------------

Next ==
  \/ \E t \in Topics : Change(t) \/ ChangeSilently(t)
  \/ Log
  \/ \E p \in Pages :
       TakeSnapshot(p) \/ Subscribe(p) \/ Deliver(p) \/ SkipLagged(p) \/ Disconnect(p)

Spec == Init /\ [][Next]_vars

\* The server answers a page that stays connected and the page reads on.
Fairness ==
  \A p \in Pages : WF_vars(TakeSnapshot(p)) /\ WF_vars(Subscribe(p))
                   /\ WF_vars(Deliver(p) \/ SkipLagged(p))

FairSpec == Spec /\ Fairness

-----------------------------------------------------------------------------
(* Properties.                                                             *)

\* The type invariant.
TypeOK ==
  /\ value \in [Topics -> Nat]
  /\ logs \in Seq(Nat) /\ logSeq \in Nat
  /\ emitted \in Seq([topic : Topics \cup {"log"}, value : Nat])
  /\ conn \in [Pages -> {"offline", "hydrating", "live"}]
  /\ snap \in [Pages -> [value : [Topics -> Nat], logs : Seq(Nat)]]
  /\ next \in [Pages -> Nat \ {0}]
  /\ view \in [Pages -> [Topics -> Nat]]
  /\ viewLogs \in [Pages -> Seq(Nat)]
  /\ missed \in [Pages -> SUBSET (Topics \cup {"log"})]
  /\ unsaid \in [Pages -> SUBSET Topics]

\* The log as one more part of the state: the daemon's is as old as the number
\* of its last record, and so is the log a page shows.
Parts == Topics \cup {"log"}

LastOf(s) == IF s = <<>> THEN 0 ELSE s[Len(s)]

DaemonParts == [t \in Parts |-> IF t = "log" THEN logSeq ELSE value[t]]

ShownParts ==
  [p \in Pages |-> [t \in Parts |-> IF t = "log" THEN LastOf(viewLogs[p]) ELSE view[p][t]]]

\* What the stream promises: each part of a page's view is a state the daemon
\* had, moves forward only and is never ahead of the daemon.  The channel, the
\* snapshots and the receivers are not seen.
Abs == INSTANCE PageView WITH
         Topics <- Parts, Pages <- Pages, value <- DaemonParts, view <- ShownParts

ImplementsPageView == Abs!Spec

\* A page never shows a log record twice or out of order, and never more of
\* them than the daemon keeps.
PageLogIsOrdered ==
  \A p \in Pages :
    /\ \A i, j \in DOMAIN viewLogs[p] : i < j => viewLogs[p][i] < viewLogs[p][j]
    /\ Len(viewLogs[p]) <= LogCapacity

CaughtUp(p) == conn[p] = "live" /\ next[p] > Len(emitted)

\* A page that has read all its events is wrong only about what it missed,
\* between its snapshot and its subscription or by lagging, and about what was
\* changed without a delta since its snapshot; about a topic only until the
\* next delta of that topic.  A page that snapshots later is right about both.
WrongOnlyWhereMissed ==
  \A p \in Pages : CaughtUp(p) =>
    /\ \A t \in Topics \ (missed[p] \cup unsaid[p]) : view[p][t] = value[t]
    /\ "log" \notin missed[p] => viewLogs[p] = logs

\* The k-th event of the channel is still ahead of a page that is connected.
Ahead(p, k) == conn[p] = "live" /\ next[p] <= k /\ k <= Len(emitted)

\* A page gets past every event: the event is delivered or skipped by the lag,
\* however fast further events come, unless the connection drops.  Nothing is
\* assumed of the events that follow, in particular not that they end.
PagesCatchUp ==
  \A p \in Pages, k \in 1..MaxEvents :
    Ahead(p, k) ~> (next[p] > k \/ conn[p] # "live")
=============================================================================
