# Verification of netix-republisher

TLA+ models of `republisherd` (the daemon under `src/src/` with its page
`src/web/app.js`) and of the vendored BACnet transport
(`src/vendor/bacnet-transport/`), the TLC runs that check them on small
instances, and proofs of the properties that hold whatever the sizes are.
`PROJECT.json` maps every definition to the lines it models and lists the runs,
the hazards, the findings and the theorems.

    tlc -workers 2 -config Republisher.cfg Republisher     # a run
    tlapm RepublisherProofs.tla                            # a proof

## The system

### Components

| Component | State | Operations | Where |
|---|---|---|---|
| Configuration store | `Shared.config`, `devices`, `browsed`, `scan_progress`; the file on `/data` | every editing handler of `web/api.rs`; discover, browse, scan; `apply_event` for their answers; `save_config`; boot with environment overrides | `ConfigStore` |
| Republisher run control | `Shared.lifecycle`, `stop_flag`, `published_total`, `acked_total`, `last_error` | start, stop, autostart, shutdown, exit; the worker's reports | `Republisher` |
| Event stream | broadcast ring of 256 events, log ring of 500 records, each page's view | snapshot, subscribe, deliver, lag, reconnect | `EventStream`, which implements `PageView` |
| Point statuses, samples, read failures | `Shared.statuses`, `recent_samples`; the page's `points` and `statuses` | `Samples`, `Failures`, `PointPublish` against edits, deletions, clears and imports | `PointStatus`, without the ring of samples |
| Login sessions and throttle | `Auth.sessions`, `Auth.failures`, the mode the daemon started in | start, login in three critical sections, check, expire, logout | `Auth` |
| MS/TP master node | node state machine, transmit queue, reply channel | every frame, every timeout, send, start, stop | `MstpNode`, `MstpMaster` |
| MS/TP framing | receive buffer | resynchronisation | not yet |
| BACnet/IP and BBMD | broadcast and foreign-device tables, BVLC request slot | forward, register, expire, manage, persist | `BipNetwork`, which implements `Delivery`; `ForeignDevice`; the slot not yet |
| BACnet/IPv6 | VMAC, address table | resolve, detect a collision | not yet |
| BACnet/SC node and hub | connection state; the hub's client table | handshake, heartbeat, failover; relay, sweep | not yet |
| Command line, DTOs | the address to serve on; the status chip | start; what is sent of a point | `Auth`, `PointStatus`; the rest is data |
| Health check, config writer, registry, assets, TLS, Ethernet, loopback | none worth a model | straight-line code, data, I/O | not modelled |

`republish-core` (drivers, the poll and publish worker, `AppConfig::validate`,
loading and saving, `merge_imported_points`) is a git dependency whose source is
not in the repository. What the daemon relies on is modelled from its use here
and marked external in the map.

### How they interact

* **One lock.** `WebState` holds `Shared` under one mutex. A handler takes it
  once and keeps it over the edit, the save and the `emit`; the drain thread
  takes it once for each event. Each handler and each drained event is one
  atomic action.
* **Worker threads.** `discover`, `browse_device`, `scan_all` and
  `start_republisher` spawn a thread with a copy of what it needs and return.
  The threads answer through one FIFO channel (`WorkerEvent`), which a drain
  thread empties. Everything between the copy and the drained answer is a
  window in which the state may change.
* **Locks of their own.** `Auth` keeps sessions and failures under two mutexes
  apart from `Shared`'s; a login takes them one after the other and compares the
  password between them without a lock.
* **Pages.** `emit` puts a delta on a tokio broadcast ring; `sse_events` sends a
  snapshot and then reads the ring at the page's own pace. The page applies the
  deltas.
* **Transports.** A driver of `republish-core` uses a transport through the
  `TransportPort` trait. Each transport runs a task with a receive loop; `send_*`
  reach the task through a mutex or a socket, received NPDUs leave through a
  channel.

### What is hard here

* A start does not change the lifecycle field that guards the next start; the
  worker's first report does, when the drain applies it.
* A scan's import carries a list computed from the points at its start.
* The save can fail after memory has changed; a protocol switch is not saved.
* The snapshot and the subscription are two steps; a slow page loses events.
* Some changes of what a page shows are announced by no event.
* Statuses belong to identities, edits to places in a list, and an open editor
  keeps a place; workers report about a list that has changed since.
* The throttle reads and counts failures in different critical sections.
* MS/TP nodes act on timeouts while others may be talking; a token is passed,
  retried, claimed and given up by counters that one frame can reset.
* BACnet/IP broadcasts are forwarded by BBMDs that list themselves; foreign
  devices race their expiry; one slot serves all management requests.
* SC clients reconnect, fail over and change addresses while a hub's sweep and
  its relay use copies of the client table.

### What makes each component correct

* **Configuration store**: an edit reaches the file or its caller is told; points
  go only when somebody removed them; a page that misses no event sees every
  change, or the change is of a kind known to be announced by nothing; only valid
  configurations reach the file; a scan ends.
* **Run control**: runs do not overlap, or only where the guard has its window;
  counters and the error shown are those of the current run; a stop at any
  moment works; when all is quiet the daemon says so.
* **Event stream**: a page is not set back, its log is in order and bounded, and
  it is wrong only about what it missed or what was changed without a delta.
* **Point statuses**: once a page has read its deltas, an index means the point it
  shows there (in its editor, too, if no list came under it), and each point has
  the status the daemon holds for it, whatever was deleted, renamed or cleared
  meanwhile.
* **Login**: failures overrun their budget by no more than the logins that
  overlap; a request is admitted on a session within its life and on no other; no
  other login ends a session early; a refused address is let try again.
* **MS/TP**: a node speaks of its own accord only when the token is its to use,
  within its frame limit; it answers whom it was asked by; its queue is a FIFO.
  A ring of nodes always gets back to one token, and finds every master.
* **BACnet/IP**: a broadcast of a node that is no BBMD reaches everyone in the
  tables, BBMDs and foreign devices once, and dies out, or is repeated only to
  those served by a BBMD that hears itself; a foreign device that keeps
  registering stays registered; a table survives a restart.
* **SC and IPv6**: a VMAC denotes one node; a client that lost its hub is not
  taken for connected; relays go to the connection that has the address now.

## The modules

### ConfigStore (`MCConfigStore`)

The handlers of `web/api.rs` that touch the configuration, the three jobs, the
drain, saves that fail, crashes and boots. `config`, `devices`, `browsed` and
`scanning` are fields of `Shared`; `disk` is the file; `job` the worker threads
with what they were given; `chan` the channel; `ui` the page of a subscriber
that misses nothing. `outcome` is a history variable, the last operation and its
answer, from which the properties tell *edited and saved* from *edited, refused
to save and said so*.

A point is an identity (its addressing) and a body (all the rest); the MQTT and UI
settings are one value, of which some do not validate. A row of the page's list is
a point with its topic (`ShownPoints`), which `telemetry_topic` derives from the
point and the settings in force; of it the constant `TopicOf` keeps what the
settings contribute. `EditAndSave` is the common tail of the editing handlers, in
their order: change memory, try to save, announce only on success. A failed
validation and a failed write end alike. A boot loads the file, or the defaults
when it is missing *or unreadable* (`BootConfigs`), then applies the environment,
and then gives a configuration without a protocol the first of the registry
(`WithProtocol`); it writes nothing. `EnvConn` is what the merge of the connection
override makes of a protocol's fields. A boot that aborts (`BootAborts`: a
connection override without a protocol) leaves nothing running and has no step; an
override that cannot be parsed aborts every boot, and is left out for that. A
worker may find anything and its import is any list `IsMerge` allows. A scan
thread is assumed to end with its import, since the code that could end it
otherwise is not in the repository. An `existing` field in the import, which the
code does not have, records what the list was computed from.

Three kinds of change are announced by no event, and `Untold` names them: an edit
whose save failed, which stays in memory; the topics of the points when
`put_settings` changes them, since it sends the configuration and not the points;
and the end of a scan. `ChangesAreAnnounced` says that there are no others, and
that no event shows what the daemon does not hold.

### Republisher

Runs are numbered in the order of their starts; a stop flag (`Arc<AtomicBool>`)
is membership in `flagged`, and `latest` is the run whose flag `Shared.stop_flag`
holds. `Accept` and `Refuse` are the two ends of `start_republisher`: `Refuse`
covers the guard, a configuration that does not validate and an unregistered
protocol, so any start may be refused. The worker's phases and reports follow
`RepublisherLifecycle`. `Serve`, `Shutdown` and `Exit` are the three points of
`web::serve` at which something changes; requests are still served while it
closes. `asked` and `raced` are history variables.

### EventStream

A topic is a part of the state a delta replaces as a whole; its value is the
number of its changes. The log is apart, since its delta is one record the page
appends. Each page's `conn` goes through *hydrating* (it holds its snapshot, is
not subscribed) to *live*. The ring is the last `EventBuffer` events of
`emitted`; tokio rounds a ring up to a power of two, and the code's 256 is one.
Within a connection events arrive in order; a broken connection is `Disconnect`,
after which the page keeps what it shows. `Change` is a change with its delta,
`ChangeSilently` one without: the counters a start resets, what a failed save
leaves in memory, the end of a scan. A delta carries its topic as a whole, hence
also what was changed silently before. `missed` and `unsaid` are history
variables, what a page was not sent and what nobody was.

### PageView

The abstract specification of the stream: the daemon changes parts of its state,
and a page may at any time show some of them as they were at some moment not
before the one it shows and not after now. `EventStream` instantiates it with a
mapping: the abstract parts are the topics and the log, the log standing as the
number of its last record (`DaemonParts`, `ShownParts`), and the channel, the
rings, the snapshots and the receivers are hidden. Taking a snapshot, subscribing,
lagging and losing the connection are stutters; applying a snapshot or an event is
an `Advance`. That a part was true at some moment, and never runs ahead or back,
is all a page may rely on; what it may rely on about *now* is
`WrongOnlyWhereMissed`.

### PointStatus (`MCPointStatus`)

The list of points and `Shared.statuses`, a map by identity, on the daemon; the
same two on the page (`state.points`, `state.statuses` of `app.js`); the page's
editor with the place it was opened on (`state.pe.editing`), the point that was
shown there and, as history, whether a list came since; and the deltas between
daemon and page. The four operators that edit the list by index (`AddPoint`,
`EditPoint`, `DeletePoint`, `ClearPoints`) end as the handlers do: memory first,
and the page is told only when the save succeeded. `Import` tells it either way.
The page resets its editor after its own edits, on a snapshot and on a switch of
protocol, but a `points` delta leaves it open (`Deliver`). An index that arrives
at the daemon may be anyone's, of a row or of an editor, so `EditPoint` takes any.
`Spawn` is the copy of the list a poll or a run takes (a run with no point enabled
may discover points of its own), and `Reads` and `Publishes` are `Samples`,
`Failures` and `PointPublish`, which look at the worker's copy and never at the
list: a report about a point that is gone leaves a status behind, which a point
listed later under the same identity shows, on the daemon and on the page alike.
`untold` is a history variable: what changed without a delta, an edit whose save
failed or the statuses a clear dropped, until a delta of it goes out.

Two points that differ in name only share an identity, and the list may hold one
twice. A status is whether its last read and its last publish failed; the age of
a reading (`stale`) is the worker's. The page has no lag here: `EventStream` says
what lag costs. The page's ring of recent samples orders a batch otherwise than
the daemon's (`app.js` puts a batch in front as it came, `apply_event` puts each
of its samples in front), so that a reload turns it round; the ring is left out.

### Auth

`Start` is `republisherd`'s way to a served process: the address is the command
line's or the environment's (`EffectiveBind`), and authentication may be off only
on a loopback address. A login is `LoginAdmitted` or `LoginRefused`, then, in a
later step of the same thread, `WrongPassword` or `RightPassword`: the handler
does not await, so a thread of the runtime carries it from the first critical
section to the last, and `Threads` logins overlap. `failures` holds for each
address the attempts the code's vector holds; `age` and `left` are the instants,
kept as what the code compares. Whether a request passes is the operator
`Admits`, for a path that is asked for a session; those of `is_public` never
are. A check changes something only when it meets an expired session. `life`
is a history variable: what the holder of a token was promised and nobody ended.
The end of the process forgets sessions and failures, the throttle's too. An
event stream that was admitted is not checked again, and outlives the session it
was opened with.

### MstpNode, MstpMaster

`MstpNode` is the state machine of `mstp/mod.rs` as functions from a node and a
frame, or a node and an expired timer, to the next node and the frames it
writes. The two branches of the receive loop in `mstp/port.rs` hold the node's
mutex throughout, so a branch is one step: `Receive` includes the use of the
token after *every* frame (`GoOn`), as the loop does. The module is written to be
instantiated more than once.

`MstpMaster` puts one node among stations that may send it any frame at any
moment, with a timer that may expire in any state. `handle` tells the node that
`send_*` fills from the node that the task runs: a second `start` puts a fresh
node behind the senders before it finds the serial port gone. An NPDU channel
that is full is an NPDU nobody answers. A failed write goes unnoticed by the code
and is, to the others, a frame lost on the bus, so it is left out; so are NPDUs
too long to encode, and the durations of the timeouts. `sole_master` and
`event_count` are written and never read. `taken`, `sentNow`, `requests` and
`entitled` are history variables.

### BipNetwork (`MCBipNetwork`)

The nodes of several subnets, some of them BBMDs, some registered as foreign
devices. `Receive` is `handle_bvll_message`, one operator for each branch that
changes something or sends on; a node's receive loop is one task that handles a
datagram to its end and is alone in using the tables, so a branch is one step.
`bdt` and `fdt` are the two tables of `BbmdState`, `file` the persisted one.
`stale` are the entries for which `is_expired` holds but which
`purge_expired` has not removed. `Purge` is part of exactly those handlers that
call it: a registration does not, which is how a full table of expired entries
refuses a newcomer.

`net` is a set: a node sends a datagram of one broadcast to one receiver once,
unless it is a BBMD that repeats what it heard of itself, whose equal copies under
way at once are one. `hops` is carried by the model only; it and `heard` are
counted up to `MaxCount`. `due` is a history variable: whom the tables, at the
moment of sending, promise the broadcast to (`Promised`); a loss, an expiry, a
rewritten table or a restart releases the promises for what is in flight, and for
nothing sent later. What a BBMD sends of its own accord is promised to its subnet
only: `send_broadcast` puts an Original-Broadcast on the wire and forwards nothing
(`bip/mod.rs:481`), and the BBMD drops it if it hears it (`io.rs:75`), as
`port.rs:68` says, "Broadcast NPDU bytes on the local network"; so the application
of a BBMD is not heard on other subnets. The constant `Echoing` says which sockets
receive their own broadcasts, BBMDs' among them: the code filters such datagrams
in two of three places, and in the third, `ReceiveForwarded`, a BBMD takes its own
Forwarded-NPDU for a peer's. `Restart` is a new process; `Reopen` is `stop` and
`start` of one transport, which keeps its tables, since the configuration is taken
once. One BBMD for each subnet, and foreign devices on subnets without one, are
assumed, as BACnet requires; each device registers with one BBMD
(`ForeignDeviceConfig`). `Entries` keeps of the mask only whether the target is a
directed broadcast. BBMDs themselves may be in each other's tables or not, in
either direction.

### Delivery

The abstract specification of a broadcast: who sent it, how often each node has
heard it, to whom it is still owed, and whether it is under way. It is sent once;
it is heard while under way, by nobody who sent it and by nobody too often but the
nodes of `Noisy`, who are served by a BBMD that hears itself; hearing it settles
the debt; only a fault releases one; it ends when nothing is owed, and never comes
back. `BipNetwork` instantiates it with `Owed` (who is due and has not heard) and
`Open` (the broadcasts of which a datagram is in flight): tables, datagrams and
hops are hidden, a datagram that arrives is a `Hear`, a `Close` or a stutter, and
whatever takes datagrams away or changes a table is a `Disturb`.

### ForeignDevice

The registration task against one entry of the table, in seconds, with the
code's numbers: the interval, the grace period and `is_expired`. `BipNetwork`
lets an entry expire at any time; this module says when it does not.
`DeviceAssumption` is what the times must satisfy for one lost registration to
do no harm: with 30 s for both constants, a time to live of 30 s and the delay
of a datagram. A shorter one (the code accepts any) leaves a gap after one
loss, since the interval does not go below 30 s.

## The runs

| Run | Question | Result |
|---|---|---|
| `config_store` | Do edits, jobs and imports, interleaved, with failed saves and restarts under environment overrides, save or report, remove only what was removed, announce what changed, but for the kinds named in `Untold`? Are only valid configurations written, nothing by a boot, and does a scan end? | holds |
| `republisher` | With a lagging drain: where may runs overlap, do counters belong to their run, does a stop always work? | holds |
| `republisher_double_start` | Is at most one run live? | violated |
| `event_stream` | Does the stream implement `PageView`; is a page ever set back, out of order, or wrong about what it neither missed nor was left untold; does it get past every event, while more come? | holds |
| `point_status` | With edits by index, reports about older lists, clears, imports and failed saves: does the page show each point with its own status, and does an index, of a row or of an open editor under which no list came, mean the point shown? | holds |
| `point_editor` | Does saving an open editor edit the point it was opened on? | violated |
| `auth` | By how much do overlapping logins overrun the throttle and does it end; who is let in, and for how long? | holds |
| `mstp_master` | Does a master keep to the token, the frame limit, its queue and its askers? | holds |
| `mstp_sole_master` | Does a master alone on its bus send its queue? | violated |
| `bip_network` | Does everyone to whom the tables promise a broadcast hear it, through loss, expiry, full and rewritten tables; does a table survive a restart? With a BBMD that hears its own broadcasts: who hears one too often, where do the repetitions go, and does the network implement `Delivery`? | holds |
| `bip_forwarding` | Does every broadcast end after two BBMDs? | violated |
| `foreign_device` | Does a device that loses every other registration stay registered, and come back after a restart of its BBMD? | holds |

The violated properties are sentences of the repository, quoted in the findings:

* Two starts before the first report is applied give two workers, of which only
  the second can be stopped. `OverlapOnlyInWindow` is the guarantee that remains.
* A master that claims the token because nobody else exists is in `UseToken`, but
  the loop uses a token only after a frame; the next timeout passes it.
* The point editor keeps the index it was opened with when a `points` delta
  replaces the list under it. After a deletion in another window its save
  replaces the point that moved up. Rows are drawn anew and have no such window
  on a page that is up to date, and an editor under which no list came is right
  (`IndexMeansShownPoint`, in `point_status`).
* A BBMD checks a Forwarded-NPDU's originator against its own address, not its
  sender, and its own entry is in its table: if its socket receives its own
  broadcasts, as one bound to any address does on common systems, it takes them
  for a peer's, and forwards and broadcasts them again, without end.
  `EchoesStayHomeCorrect` says that this is the only way a broadcast circulates,
  and that no other BBMD is drawn in; `CopiesBoundedCorrect` that only those it
  serves hear it too often; `AllHearCorrect` that nobody misses it for that.

Six more weak points are in the modules as the code has them, and no property
claims otherwise:

* `set_protocol` answers ok and does not save (`api.rs:168`), so the choice is
  gone after a restart unless a later edit saves it, although the repository's
  README says that edits persist. `EditsPersistOrReport` names the exception.
* An import assigns a list computed when its scan began (`state.rs:301`): a point
  saved meanwhile is dropped, an edit reverted, although the message it logs
  speaks of added and updated points only. `OnlyRemovalsRemove` says that this
  overlap is the only way an import loses a point.
* The import of a scan clears its progress (`state.rs:302`) and sends the log
  record and the points, but nothing with the progress, which every page goes on
  showing (`Untold`). The daemon's own state is right (`ScanEnds`).
* New settings change the topics of all points, and a page that misses nothing
  shows the old ones until the next list (`Untold`).
* The process may exit while a worker is live (`Exit`).
* A change between a page's snapshot and its subscription, or skipped by lagging,
  is not sent again before the next delta of its topic (`WrongOnlyWhereMissed` is
  what remains).

### Bounds

* `config_store`: two identities, one of them there from the environment, with the
  body the boot gives it or another; two protocols and one the registry does not
  know, with which the daemon boots; settings of which one changes the topics and
  one does not validate; two jobs, five calls. Every property speaks of one step
  and of at most two pieces of data. The first call picks a protocol, three more
  reach the longest scenario known to matter (start a scan, edit, import), the
  fifth puts a failed save, a restart or a second scan into it. A list of three
  leaves room for a duplicate beside an import. No symmetry, since the run checks
  liveness. 255,472 states.
* `republisher`: two runs, one publication each, four reports waiting. A third
  run adds no relation that two do not have, since a start replaces one flag and
  the guard reads one field; four slots hold all the reports of a short run
  behind one of its predecessor. `MaxPending` blocks a worker that reports faster
  than the drain; the real channel does not, and a longer queue only widens the
  distance that is there already.
* `event_stream`: a ring and a log of two, four events, one page (pages share
  nothing they write), two topics: the ring wraps, the log overflows, and one page
  can lag, read, reconnect and lag again. `MaxSilent` lets each topic change twice
  without a delta, before, between and after two with one. Four events is the
  bound of time, not of data; `PagesCatchUp` speaks of each event by itself and of
  none after it, so that it does not hold because events end.
* `point_status`: two identities in a list of two, so that a list can hold both in
  either order, one twice, or one in place of the other; two deltas under way, so
  that one of the list and one of statuses are read in turn; one worker, since
  reports of several are applied one after the other and a worker may stand for
  all of them with its choice of identities and outcomes. While the editor is
  open no report is made or under way (`EditorApart`): reports touch no list and
  no editor. The worker's copy, while it has one, is of every identity
  (`WholeCopies`): it may then report what one with a smaller copy may. The
  proofs are without these constraints. Identities are symmetric;
  the run checks safety only. 1,567,498 states.
* `point_editor`: three places, so that a deletion moves a point into the place of
  another with one more behind, one list under way, no worker. Of the actions it
  takes only additions and deletions, so that what it finds overwritten was
  neither renamed nor listed anew.
* `auth`: two threads and two addresses, so that two logins of one address overlap
  and a failure of one purges those of the other; a budget of two in a window of
  two ticks, four names for attempts, one more than may count at once; two
  tokens, so that one session is purged, checked or ended beside another. Ages
  and lives are bounded by what the code compares, and time is not bounded.
  176,574 states.
* `mstp_master`: three addresses, so a poll can find, skip and wrap; one frame a
  token, polls at every other token, counters that wrap at two; two NPDUs and
  requests. With the code's constants (50, 255, 256) the same branches are taken
  after longer waits.

* `bip_network`: three BBMDs, so that something forwarded could be forwarded again
  and a listing can be one-sided; a neighbour, reached by directed broadcast; two
  foreign devices that compete for one entry of the BBMD that hears itself, so
  that there is somebody to repeat to and somebody reached from elsewhere; tables
  written that cut a BBMD off, omit one, or are too long. One broadcast:
  broadcasts share only the tables and do not change them. Two faults: one to get
  into a state (a table written and not persisted, an entry expired), one to meet
  it (a restart, a loss). `MaxCount` is three, one above every limit a property
  names: a fourth copy or a third BBMD looks like a third. 564,256 states.
* `bip_forwarding`: one foreign device and no fault: nothing is amiss but that a
  BBMD hears itself.
* `foreign_device`: the code's 30 s and 30 s, the shortest time to live for
  which `DeviceAssumption` holds with a delay of 2 s. Time to live enters only
  through the interval and the expiry, and the proof covers the others.

### Fairness

* `config_store`: a spawned thread reaches its answer and the drain thread never
  stops (it loops on `recv` for the life of the process). The operator owes
  nothing.
* `republisher`: a worker that may start, resolve its connection one way or the
  other, see its stop flag, or end, does; the drain goes on. A run that nobody
  stops need not end, and no request need come.
* `event_stream`: the server answers and the page reads on while connected.
  Changes and disconnections are not fair. Nothing says that events cease:
  `PagesCatchUp` promises of each event that a page which stays connected gets
  past it, and not that a page ever has nothing left to read.
* `auth`: time passes (`Tick`). Nobody has to log in or out, no login under way has
  to end, and the process may end: `ThrottleEnds` needs none of it.
* `mstp_sole_master`: the task's timer expires and the task runs; the bus is
  silent from some moment.

## The proofs

`tlapm` proves for every value of the constants allowed by the assumptions:

* `RepublisherProofs` (from `RunAssumption`): `TypeCorrect`, `QuiescentCorrect`
  (`QuiescentMeansStopped`), `OverlapCorrect` (`OverlapOnlyInWindow`),
  `CountersCorrect` (`CountersBelongToRun`) and `DeliveredCorrect`
  (`DeliveredWithinQueued`). No property is inductive: whether the field is right
  at rest depends on the last report still in the channel. The invariant `IInv`
  adds two parts. `EndsLast`: if nothing is live, the last report in the channel
  is final, or the channel is empty and the field is. `WindowInv`, as long as no
  start came inside the window: one worker is live at most; the end of a run waits
  only as the last report; and a run whose end has not been seen is either
  unannounced or shown as active. `CountersInv` is about the distance between
  worker and daemon: what is shown and the publications still in the channel add
  up to what the current run has sent, and each waiting report confirms no more
  than will be shown when its turn comes (`Handed`, the publications ahead of it).
  `WorkersInv` is what the workers contribute: none confirms more than it has
  sent.
* `ConfigStoreProofs` (from `ConfigAssumption`): `TypeCorrect`, `EditsSaved`
  (`EditsPersistOrReport`), `SavesValid` (`DiskHoldsValidSaves`),
  `ChangesAnnounced` (`ChangesAreAnnounced`) and `RemovalsOnly`
  (`OnlyRemovalsRemove`), for any identities, protocols, jobs and environment, and
  any merge that keeps what `IsMerge` says. The three about saving and announcing
  come from one lemma each on `EditAndSave`, which every editing handler ends
  with, and from a classification of the other steps (`StepKinds`).
  `ChangesAnnounced` is about the rows of the page with their topics, whatever
  part of a topic the settings decide. `OnlyRemovalsRemove` is about an import
  whose scan began any number of steps ago: `ImportsKeep` says that an import in
  the channel has every identity of the list its scan was started with.
* `EventStreamProofs` (from `StreamAssumption`): `TypeCorrect`,
  `NeverBackwardsCorrect`, `PageLogCorrect`, `WrongOnlyWhereMissedCorrect` and
  `ImplementsPageViewCorrect`, the refinement, which the run checks; that no page
  goes back is a part of it that has a proof of its own. `OrderInv` says that
  along each topic what a page shows, its snapshot, the events it has yet to read
  and the state form a non-decreasing chain. `FreshInv` says that for a topic it
  has not missed and that nobody changed silently since its snapshot, the last
  unread event, or else the page, holds the current value. `LogInv` describes the
  daemon's log as the ring of the last numbers and each page's log as ordered
  below what it has yet to read; the ring's equation (`PushRing`) is what makes a
  page that missed nothing equal to it. For the refinement, `StepSimulates` maps
  each action to a change of one part, an advance of one page or a stutter. The
  chain of `OrderInv` keeps an advance from going back or ahead; for the log the
  same follows from the ring's last number (`RingLast`), from what a page has yet
  to read, and from `HydrateInv`: a page about to be handed its snapshot shows no
  later record.
* `PointStatusProofs` (from `PointAssumption`): `TypeCorrect`,
  `IndexMeansShownPointCorrect`, `StatusesAgreeCorrect`. With deltas under way the
  page is wrong, so the invariant `ViewInv` speaks of the last delta that tells
  the list and of the last that tells a status: if one is under way it carries
  what the daemon has, and if none is, the page has it already (`ListInv`,
  `StatusInv`). `ListsTellStatus` adds that a delta with a list carries the status
  of every point in it, and `EditorInv` that an editor under which no list came
  holds a place of the list shown and the point in it.
* `AuthProofs` (from `AuthAssumption`): `TypeCorrect`,
  `AttemptsWithinBudgetCorrect`, `AdmittedOnlyInLifeCorrect`,
  `KeptForLifeCorrect`. `Remembered` says that every failure that still counts is
  held, which makes what the throttle counts the number of failures of the
  window; then a login under way was admitted below the budget and at most all
  threads run one. `SessionInv` ties what is left of a stored session to what was
  promised.
* `MstpMasterProofs` (from `NodeAssumption` and `MasterAssumption`): `TypeCorrect`,
  `FrameLimitKept` (`FrameLimit`), `QueueInOrder` (`NoneLostNoneRepeated`),
  `AnswersGoBack` (`AnswersLastRequest`), `OnlyHoldersInitiate`
  (`OnlyHolderInitiates`) and `OnlyTheAskedBelieved` (`OnlyAskedIsBelieved`), for
  every station address and limit, any number of stations and any traffic. The
  node is a function, so most of the work is in lemmas on what a frame
  (`ReceiveWorks`) or an expired timer (`TimeoutWorks`) makes of any well-typed
  node: a front part of its queue is gone, as many frames are counted, and
  nothing of its own is written unless it acts on the token. The invariants tie
  the node to what the others saw: `FramesInv` (it counts every frame it sent
  with this token), `QueueInv`, `WaitInv` (it waits for whom it sent to last),
  `HoldInv` (it acts on the token only while it may) and `AskInv` (it owes the
  last asker).
* `BipNetworkProofs` (from `NetworkAssumption` alone, whoever hears its own
  broadcasts): `TypeCorrect`, with the limits of the tables, `RestartKeepsCorrect`
  (`RestartKeepsTable`), for which the invariant keeps that a BBMD lists itself
  and that one table is on disk at most; `EchoesStayHomeCorrect`,
  `CopiesBoundedCorrect`, `AllHearCorrect` and `ImplementsDeliveryCorrect`.
  `RouteInv` says by which BBMDs a datagram can have come, whatever the tables
  were when it was sent: from its sender, from the *entrance* by which the
  broadcast left its subnet, or from the BBMD that serves its receiver; and that
  it has passed one BBMD or two, unless the one it comes from hears itself.
  `EchoesStayHome` follows: what a BBMD gets from a BBMD, itself included, it
  sends to its foreign devices and its subnet, where there is no other.
  `CopiesBoundedCorrect` counts credits for the nodes that no BBMD which hears
  itself serves: such a node may hear a broadcast from its sender, from the BBMD
  that serves it, and from the entrance; `CopiesInv` says that the copies heard
  and the ways still open stay within the limit. A BBMD opens ways for others only
  when it hears a broadcast first, and until then they are counted as open
  (`Underway`), so no forwarding adds one. In `AllHearCorrect`, by `DueInv`
  whoever is promised a broadcast has heard it, or a datagram on its way to
  another node reaches it within two more copies, and a step that takes the
  datagram away without passing it on (a loss, an expiry, a table written, a
  restart) is one that releases the promise; what a BBMD repeats to itself is
  never needed. `ImplementsDeliveryCorrect` is the refinement; a step that hands a
  broadcast up may do so because the state after it is still within
  `CopiesBounded`, and one that ends it because that state satisfies `AllHear`.
* `ForeignDeviceProofs` (from `DeviceAssumption`): `Inductive`, `TypeCorrect`,
  `NeverExpiresCorrect`, `BackInTimeCorrect`. The invariant bounds the age of an
  entry by the time since the last registration was sent, one interval more if
  that one was lost, plus the delay; `IntervalFits` is the arithmetic of the two
  branches of the interval.

The assumptions on the constants are types, bounds that are not negative, and what
the code or its use needs: `MaxPushed` not above `MaxPoints` (a list that handlers
fill to the one limit is a list within the other), finitely many nodes and
a count that reaches three in `NetworkAssumption` (tables are counted, and
copies against a limit of two), and the times of `DeviceAssumption`.

Every invariant, action property and refinement of the passing runs is proved.
Only model-checked: liveness (`ScanEnds`, `StopSettles`, `PagesCatchUp`,
`ThrottleEnds`), which the prover does not reach, and the four properties that
a run shows violated.

## Not modelled

Formatting, logging, wording; field-by-field mapping of DTOs and environment
values; rendering of the page and its forms, but for the index of the point
editor; password hashing and cookies; the ring of recent samples; the health check
and the config writer; CRC and BVLL, SC and MS/TP encodings; TLS, WebSocket,
sockets and serial ports.

## Plan

In this order; each module comes with its run and its mutants.

1. `MstpRing`: several `MstpNode`s on one bus with lost frames, crashes and
   timers ordered as their durations are: one token except after a loss, a lost
   token comes back, every master is found (the poll starts at `ns + 1` and only
   when the queue runs empty). Abstract specification: mutual exclusion.
2. `BvlcRequest`: the one slot of management requests against timeouts, late
   answers, answers to registrations, and failed sends.
3. `ScHub`: the client table against connection tasks, the heartbeat sweep and
   relays. `ScClient`: handshake, heartbeat, failover, reconnection. Their
   composition implements an abstract *connection* that is up on one side only
   while the other knows.
4. `Bip6Vmac`: address resolution and collisions when two nodes start together.
5. `MstpFramer`: the resynchronisation of frames that arrive in pieces.
