----------------------------- MODULE ConfigStore -----------------------------
(***************************************************************************)
(* The configuration side of the republisherd daemon: the settings and the *)
(* point list of web::state::Shared, the copy on the /data volume, the     *)
(* discovery, browse and scan jobs that run on worker threads, the channel *)
(* on which they answer, the thread that drains it, and what the browser   *)
(* page shows.                                                             *)
(*                                                                         *)
(* Every API handler and every drained event runs under the one lock of    *)
(* WebState, so each is one atomic action.  The jobs run outside the lock: *)
(* they start from a copy of the state and answer later, through a FIFO    *)
(* channel.  The events a handler emits leave under the same lock, so `ui' *)
(* (the page of a subscriber that misses nothing) follows in the same      *)
(* step; lost and late deliveries are the subject of module EventStream.   *)
(*                                                                         *)
(* Abstractions: a point is its identity (its addressing) and a body that  *)
(* stands for device key, tag path, poll interval and enabled flag; all of *)
(* the MQTT and UI settings are one value; of the topic the page shows for *)
(* a point only the part that comes from the settings is kept; log lines   *)
(* are left out; point statuses, samples and the publishing run are in     *)
(* modules PointStatus and Republisher.                                    *)
(***************************************************************************)
EXTENDS Naturals, Sequences

CONSTANTS
  Ids,            \* point identities
  Bodies,         \* everything else a PointConfig holds
  Protocols,      \* protocol names a config may carry
  Known,          \* those in the registry of this build
  Conns,          \* values of a protocol's connection fields
  Settings,       \* values of the MQTT, UI and discover_on_start settings
  BadSettings,    \* those AppConfig::validate refuses
  TopicOf,        \* what the settings contribute to the topic of a point
  DeviceKeys,     \* devices a network may answer with
  NoProtocol,     \* the empty protocol name
  FirstProtocol,  \* the first of the registry, if there is one
  DefaultConfig,  \* AppConfig::default()
  NoFile,         \* no config file on the volume
  EnvProtocol,    \* REPUBLISHER_PROTOCOL, or NoOverride
  EnvSettings,    \* REPUBLISHER_MQTT_* and the like, or NoOverride
  EnvConn,        \* what the merge of REPUBLISHER_CONNECTION_JSON makes of a
                  \* protocol's connection fields, or NoOverride
  EnvPoints,      \* the points of REPUBLISHER_POINTS_JSON
  NoOverride,
  Jobs,           \* bound: worker jobs one daemon process may spawn
  NoJob,
  MaxOps,         \* bound: API calls and restarts in a behaviour
  MaxPushed,      \* bound: points an operator adds by hand
  MaxPoints       \* bound: length of a point list

Points == [id : Ids, body : Bodies]

PointLists == UNION {[1..n -> Points] : n \in 0..MaxPoints}

Configs == [protocol : Protocols, conn : [Protocols -> Conns],
            settings : Settings, points : PointLists]

ASSUME ConfigAssumption ==
  /\ Known \subseteq Protocols
  /\ BadSettings \subseteq Settings
  /\ NoProtocol \in Protocols \ Known
  /\ FirstProtocol \in Known \cup {NoProtocol}
  /\ DefaultConfig \in Configs
  /\ NoFile \notin Configs
  /\ NoOverride \notin [Conns -> Conns]
  /\ EnvProtocol \in Protocols \cup {NoOverride}
  /\ EnvSettings \in Settings \cup {NoOverride}
  /\ EnvConn \in [Conns -> Conns] \cup {NoOverride}
  /\ EnvPoints \subseteq Points
  /\ MaxOps \in Nat /\ MaxPoints \in Nat /\ MaxPushed \in 0..MaxPoints

VARIABLES
  config,    \* Shared.config
  devices,   \* Shared.devices: the devices of the last discovery
  browsed,   \* Shared.browsed: the points of the last browse
  scanning,  \* Shared.scan_progress is Some
  disk,      \* the file at config_path
  job,       \* the worker threads: what each was given, until it has answered
  chan,      \* the WorkerEvent channel, oldest first
  ui,        \* what app.js shows a subscriber that misses no event
  outcome,   \* the last operation and the answer it gave
  ops        \* API calls and restarts so far

vars == <<config, devices, browsed, scanning, disk, job, chan, ui, outcome, ops>>

-----------------------------------------------------------------------------
(* Devices, browsed points, jobs and the events they send.                 *)

Devices == [key : DeviceKeys, proto : Protocols]

DeviceLists == {<<>>} \cup {<<d>> : d \in Devices}

BrowsedLists == {<<>>} \cup {<<p>> : p \in Points}

\* A set of found points, at most one of each identity.
Findings == {F \in SUBSET Points : \A p, q \in F : p.id = q.id => p = q}

JobRecords ==
       [kind : {"discover"}, proto : Protocols]
  \cup [kind : {"browse"}, proto : Protocols, device : Devices]
  \cup [kind : {"scan"}, existing : PointLists, told : BOOLEAN]

Events ==
       [kind : {"Devices"}, devices : DeviceLists]
  \cup [kind : {"Points"}, points : BrowsedLists]
  \cup [kind : {"ScanProgress"}]
  \cup [kind : {"BulkTagImport"}, points : PointLists, existing : PointLists]

ShownConfig(c) == [protocol |-> c.protocol, conn |-> c.conn, settings |-> c.settings]

\* point_dto: a row of the point list, with the topic the settings in force
\* at this moment give the point.
ShownPoints(c) ==
  [i \in DOMAIN c.points |-> [point |-> c.points[i], topic |-> TopicOf[c.settings]]]

\* The fields of the daemon's state the page renders, as one record.
Shown(c, ds, bs, sc) ==
  [cfg |-> ShownConfig(c), points |-> ShownPoints(c),
   devices |-> ds, browsed |-> bs, scanning |-> sc]

IdsOf(s) == {s[i].id : i \in DOMAIN s}

-----------------------------------------------------------------------------
(* Loading, validating and saving a configuration.                         *)

\* AppConfig::validate, as far as the handlers can tell.
Valid(c) == c.settings \notin BadSettings

\* Faulty: what does not validate is written all the same.
SaveConfigUnchecked(c, status) ==
  \/ status = "ok" /\ disk' = c
  \/ status = "error" /\ disk' = disk

\* save_config: validate, then write; an invalid config and a failed write
\* both leave the file alone and report an error.
SaveConfig(c, status) ==
  \/ status = "ok" /\ Valid(c) /\ disk' = c
  \/ status = "error" /\ disk' = disk

\* merge_imported_points: a found point replaces the entry of its identity
\* where it stands, or is appended; no entry of the old list disappears.
IsMerge(old, found, new) ==
  /\ Len(new) >= Len(old)
  /\ \A i \in DOMAIN old : new[i].id = old[i].id /\ new[i] \in found \cup {old[i]}
  /\ \A p \in found : \E i \in DOMAIN new : new[i] = p
  /\ \A i \in Len(old) + 1 .. Len(new) :
       new[i] \in found /\ \A j \in 1 .. i - 1 : new[j].id # new[i].id

EnvironmentProtocol(c) == IF EnvProtocol = NoOverride THEN c.protocol ELSE EnvProtocol

\* A connection override for a config that has no protocol aborts the boot.
\* So does an override that cannot be parsed, whatever the file holds.
BootAborts(c) == EnvConn # NoOverride /\ EnvironmentProtocol(c) = NoProtocol

\* apply_env_overrides: the environment wins over the loaded configuration;
\* the connection override is merged, key by key, into the fields of the
\* protocol in force after the override.
ApplyEnv(c, merged) ==
  LET protocol == EnvironmentProtocol(c)
  IN  [protocol |-> protocol,
       conn |-> IF EnvConn = NoOverride THEN c.conn
                ELSE [c.conn EXCEPT ![protocol] = EnvConn[@]],
       settings |-> IF EnvSettings = NoOverride THEN c.settings ELSE EnvSettings,
       points |-> merged]

\* serve, after the overrides: a config without a protocol gets the first of
\* the registry.
WithProtocol(c) ==
  IF c.protocol = NoProtocol THEN [c EXCEPT !.protocol = FirstProtocol] ELSE c

\* boot_config: a missing or unreadable file gives the defaults, then the
\* environment is applied; nothing is written.
BootConfigs(file) ==
  LET loaded == {DefaultConfig} \cup (IF file = NoFile THEN {} ELSE {file})
  IN  {WithProtocol(ApplyEnv(lm[1], lm[2])) :
        lm \in {x \in loaded \X PointLists :
                 ~BootAborts(x[1]) /\ IsMerge(x[1].points, EnvPoints, x[2])}}

\* serve and WebState::new: nothing but the configuration survives a start.
\* A page that was connected reconnects and is hydrated by the snapshot.
Boot(file) ==
  /\ config' \in BootConfigs(file)
  /\ devices' = <<>> /\ browsed' = <<>> /\ scanning' = FALSE
  /\ job' = [j \in Jobs |-> NoJob]
  /\ chan' = <<>>
  /\ ui' = Shown(config', <<>>, <<>>, FALSE)

Init ==
  /\ disk = NoFile
  /\ config \in BootConfigs(NoFile)
  /\ devices = <<>> /\ browsed = <<>> /\ scanning = FALSE
  /\ job = [j \in Jobs |-> NoJob]
  /\ chan = <<>>
  /\ ui = Shown(config, <<>>, <<>>, FALSE)
  /\ outcome = [op |-> "boot", status |-> "ok"]
  /\ ops = 0

-----------------------------------------------------------------------------
(* API handlers.  Each holds the lock from its first to its last step.     *)

\* An API call: counted against the bound.
Call == ops < MaxOps /\ ops' = ops + 1

\* The tail of every handler that edits the configuration: the edit is in
\* memory, save_config tries to persist it, and only if that worked is the
\* event sent; otherwise the handler returns the error and nothing else.
EditAndSave(op, c, shown) ==
  /\ Call
  /\ config' = c
  /\ \E status \in {"ok", "error"} :
       /\ SaveConfig(c, status)
       /\ ui' = IF status = "ok" THEN shown ELSE ui
       /\ outcome' = [op |-> op, status |-> status]
  /\ UNCHANGED <<devices, browsed, scanning, job, chan>>

\* The same, for the handlers that edit the point list; emit_points sends all
\* of it, with its topics.
EditPoints(op, points) ==
  LET c == [config EXCEPT !.points = points]
  IN  EditAndSave(op, c, [ui EXCEPT !.points = ShownPoints(c)])

SetProtocol(p) ==
  /\ Call
  /\ p \in Known
  /\ config' = [config EXCEPT !.protocol = p]
  /\ devices' = <<>> /\ browsed' = <<>>
  /\ ui' = [ui EXCEPT !.cfg = ShownConfig(config'), !.devices = <<>>, !.browsed = <<>>]
  /\ outcome' = [op |-> "set_protocol", status |-> "ok"]
  /\ UNCHANGED <<scanning, disk, job, chan>>

SetConnection(v) ==
  /\ config.protocol \in Known
  /\ LET c == [config EXCEPT !.conn[config.protocol] = v]
     IN  EditAndSave("set_connection", c, [ui EXCEPT !.cfg = ShownConfig(c)])

\* Faulty: the new settings are announced and not saved.
PutSettingsUnsaved(v) ==
  /\ Call
  /\ config' = [config EXCEPT !.settings = v]
  /\ ui' = [ui EXCEPT !.cfg = ShownConfig(config')]
  /\ outcome' = [op |-> "put_settings", status |-> "ok"]
  /\ UNCHANGED <<devices, browsed, scanning, disk, job, chan>>

\* Only the configuration is announced: the rows of the point list keep the
\* topics the page has for them.
PutSettings(v) ==
  LET c == [config EXCEPT !.settings = v]
  IN  EditAndSave("put_settings", c, [ui EXCEPT !.cfg = ShownConfig(c)])

\* save_point without an index: push.
AddPoint(p) ==
  /\ config.protocol \in Known
  /\ Len(config.points) < MaxPushed
  /\ EditPoints("save_point", Append(config.points, p))

\* save_point with an index: replace whatever stands there now.
EditPoint(i, p) ==
  /\ config.protocol \in Known
  /\ i \in DOMAIN config.points
  /\ EditPoints("save_point", [config.points EXCEPT ![i] = p])

TogglePoint(i, body) ==
  /\ i \in DOMAIN config.points
  /\ EditPoints("toggle_point", [config.points EXCEPT ![i].body = body])

\* Faulty: the remaining entries keep the position they are sent with.
WithoutFromZero(s, i) ==
  [k \in 0 .. Len(s) - 2 |-> IF k < i THEN s[k + 1] ELSE s[k + 2]]

\* Vec::remove.
Without(s, i) ==
  [k \in 1 .. Len(s) - 1 |-> IF k < i THEN s[k] ELSE s[k + 1]]

DeletePoint(i) ==
  /\ i \in DOMAIN config.points
  /\ EditPoints("delete_point", Without(config.points, i))

\* Faulty: the cleared list is saved and not announced.
ClearPointsSilent == EditAndSave("clear_points", [config EXCEPT !.points = <<>>], ui)

ClearPoints == EditPoints("clear_points", <<>>)

\* Faulty: the entry replaced is the first of the list.
UpsertAtHead(s, p) ==
  IF p.id \in IdsOf(s) THEN [s EXCEPT ![1] = p] ELSE Append(s, p)

\* The first entry of the found point's identity is replaced; if there is
\* none the point is pushed.
UpsertFirst(s, p) ==
  IF p.id \in IdsOf(s)
  THEN [i \in DOMAIN s |->
          IF s[i].id = p.id /\ \A k \in 1 .. i - 1 : s[k].id # p.id THEN p ELSE s[i]]
  ELSE Append(s, p)

AddBrowsedPoint(i) ==
  /\ i \in DOMAIN browsed
  /\ \/ browsed[i].id \in IdsOf(config.points)
     \/ Len(config.points) < MaxPushed
  /\ EditPoints("add_browsed_point", UpsertFirst(config.points, browsed[i]))

\* A worker thread is spawned with a copy of what it needs.
Spawn(record) ==
  \E j \in Jobs : job[j] = NoJob /\ job' = [job EXCEPT ![j] = record]

Discover ==
  /\ Call
  /\ config.protocol \in Known
  /\ devices' = <<>>
  /\ ui' = [ui EXCEPT !.devices = <<>>]
  /\ Spawn([kind |-> "discover", proto |-> config.protocol])
  /\ outcome' = [op |-> "discover", status |-> "ok"]
  /\ UNCHANGED <<config, browsed, scanning, disk, chan>>

BrowseDevice(i) ==
  /\ Call
  /\ i \in DOMAIN devices
  /\ config.protocol \in Known
  /\ browsed' = <<>>
  /\ ui' = [ui EXCEPT !.browsed = <<>>]
  /\ Spawn([kind |-> "browse", proto |-> config.protocol, device |-> devices[i]])
  /\ outcome' = [op |-> "browse_device", status |-> "ok"]
  /\ UNCHANGED <<config, devices, scanning, disk, chan>>

ScanAll ==
  /\ Call
  /\ devices # <<>>
  /\ config.protocol \in Known
  /\ scanning' = TRUE
  /\ ui' = [ui EXCEPT !.scanning = TRUE]
  /\ Spawn([kind |-> "scan", existing |-> config.points, told |-> FALSE])
  /\ outcome' = [op |-> "scan_all", status |-> "ok"]
  /\ UNCHANGED <<config, devices, browsed, disk, chan>>

\* The early returns: an index out of range, an unknown protocol, nothing
\* to scan.  Only the log and the answer change.
Refuses(op) ==
  \/ op = "set_protocol" /\ Protocols # Known
  \/ op \in {"set_connection", "save_point", "discover"} /\ config.protocol \notin Known
  \/ op = "scan_all" /\ (devices = <<>> \/ config.protocol \notin Known)
  \/ op \in {"browse_device", "save_point", "toggle_point", "delete_point", "add_browsed_point"}

RefusedCall(op) ==
  /\ Call
  /\ Refuses(op)
  /\ outcome' = [op |-> op, status |-> "refused"]
  /\ UNCHANGED <<config, devices, browsed, scanning, disk, job, chan, ui>>

-----------------------------------------------------------------------------
(* The worker threads.  Their code is republish-core's; what they send is  *)
(* what apply_event expects of them.                                       *)

Send(event) == chan' = Append(chan, event)

Finish(j) == job' = [job EXCEPT ![j] = NoJob]

DiscoverAnswers(j) ==
  /\ job[j] # NoJob /\ job[j].kind = "discover"
  /\ Finish(j)
  /\ \E ds \in DeviceLists :
       /\ \A i \in DOMAIN ds : ds[i].proto = job[j].proto
       /\ Send([kind |-> "Devices", devices |-> ds])
  /\ UNCHANGED <<config, devices, browsed, scanning, disk, ui, outcome, ops>>

BrowseAnswers(j) ==
  /\ job[j] # NoJob /\ job[j].kind = "browse"
  /\ Finish(j)
  /\ \E ps \in BrowsedLists : Send([kind |-> "Points", points |-> ps])
  /\ UNCHANGED <<config, devices, browsed, scanning, disk, ui, outcome, ops>>

ScanProgresses(j) ==
  /\ job[j] # NoJob /\ job[j].kind = "scan" /\ ~job[j].told
  /\ Send([kind |-> "ScanProgress"])
  /\ job' = [job EXCEPT ![j].told = TRUE]
  /\ UNCHANGED <<config, devices, browsed, scanning, disk, ui, outcome, ops>>

ScanAnswers(j) ==
  /\ job[j] # NoJob /\ job[j].kind = "scan"
  /\ Finish(j)
  /\ \E found \in Findings, merged \in PointLists :
       /\ IsMerge(job[j].existing, found, merged)
       /\ Send([kind |-> "BulkTagImport", points |-> merged, existing |-> job[j].existing])
  /\ UNCHANGED <<config, devices, browsed, scanning, disk, ui, outcome, ops>>

JobAnswers(j) == DiscoverAnswers(j) \/ BrowseAnswers(j) \/ ScanAnswers(j)

-----------------------------------------------------------------------------
(* The drain thread: apply_event, one event at a time, under the lock.     *)

NextEvent(kind) == chan # <<>> /\ Head(chan).kind = kind /\ chan' = Tail(chan)

ApplyDevices ==
  /\ NextEvent("Devices")
  /\ devices' = Head(chan).devices
  /\ ui' = [ui EXCEPT !.devices = devices']
  /\ outcome' = [op |-> "Devices", status |-> "ok"]
  /\ UNCHANGED <<config, browsed, scanning, disk, job, ops>>

ApplyPoints ==
  /\ NextEvent("Points")
  /\ browsed' = Head(chan).points
  /\ ui' = [ui EXCEPT !.browsed = browsed']
  /\ outcome' = [op |-> "Points", status |-> "ok"]
  /\ UNCHANGED <<config, devices, scanning, disk, job, ops>>

ApplyScanProgress ==
  /\ NextEvent("ScanProgress")
  /\ scanning' = TRUE
  /\ ui' = [ui EXCEPT !.scanning = TRUE]
  /\ outcome' = [op |-> "ScanProgress", status |-> "ok"]
  /\ UNCHANGED <<config, devices, browsed, disk, job, ops>>

\* Faulty: the progress of the scan is not reset.
ApplyImportKeepsProgress ==
  /\ NextEvent("BulkTagImport")
  /\ config' = [config EXCEPT !.points = Head(chan).points]
  /\ \E status \in {"ok", "error"} :
       SaveConfig(config', status) /\ outcome' = [op |-> "BulkTagImport", status |-> status]
  /\ ui' = [ui EXCEPT !.points = ShownPoints(config')]
  /\ UNCHANGED <<devices, browsed, scanning, job, ops>>

\* The imported list replaces the current one; the result of save_config is
\* ignored, and the points (but not the end of the scan) are announced.
ApplyBulkTagImport ==
  /\ NextEvent("BulkTagImport")
  /\ config' = [config EXCEPT !.points = Head(chan).points]
  /\ scanning' = FALSE
  /\ \E status \in {"ok", "error"} :
       SaveConfig(config', status) /\ outcome' = [op |-> "BulkTagImport", status |-> status]
  /\ ui' = [ui EXCEPT !.points = ShownPoints(config')]
  /\ UNCHANGED <<devices, browsed, job, ops>>

Drain == ApplyDevices \/ ApplyPoints \/ ApplyScanProgress \/ ApplyBulkTagImport

-----------------------------------------------------------------------------
\* The process dies at any point, or the container is restarted.
Restart ==
  /\ Call
  /\ Boot(disk)
  /\ outcome' = [op |-> "boot", status |-> "ok"]
  /\ UNCHANGED disk

Operator ==
  \/ \E p \in Protocols : SetProtocol(p)
  \/ \E v \in Conns : SetConnection(v)
  \/ \E v \in Settings : PutSettings(v)
  \/ \E p \in Points : AddPoint(p)
  \/ \E i \in 1..MaxPoints, p \in Points : EditPoint(i, p)
  \/ \E i \in 1..MaxPoints, b \in Bodies : TogglePoint(i, b)
  \/ \E i \in 1..MaxPoints : DeletePoint(i)
  \/ ClearPoints
  \/ \E i \in {1} : AddBrowsedPoint(i)
  \/ Discover
  \/ \E i \in {1} : BrowseDevice(i)
  \/ ScanAll
  \/ \E op \in {"set_protocol", "set_connection", "save_point", "toggle_point", "delete_point",
                "add_browsed_point", "discover", "browse_device", "scan_all"} : RefusedCall(op)

Next ==
  \/ Operator
  \/ \E j \in Jobs : JobAnswers(j) \/ ScanProgresses(j)
  \/ Drain
  \/ Restart

\* A worker thread runs to its answer and the drain thread never stops; the
\* operator owes nothing.
Fairness == (\A j \in Jobs : WF_vars(JobAnswers(j))) /\ WF_vars(Drain)

Spec == Init /\ [][Next]_vars

FairSpec == Spec /\ Fairness

-----------------------------------------------------------------------------
(* Properties.                                                             *)

Operations ==
  {"boot", "set_protocol", "set_connection", "put_settings", "save_point", "toggle_point",
   "delete_point", "clear_points", "add_browsed_point", "discover", "browse_device",
   "scan_all", "Devices", "Points", "ScanProgress", "BulkTagImport"}

ShownRows == [point : Points, topic : {TopicOf[v] : v \in Settings}]

ShownLists == UNION {[1..n -> ShownRows] : n \in 0..MaxPoints}

\* The type invariant.
TypeOK ==
  /\ config \in Configs
  /\ devices \in DeviceLists
  /\ browsed \in BrowsedLists
  /\ scanning \in BOOLEAN
  /\ disk \in Configs \cup {NoFile}
  /\ job \in [Jobs -> JobRecords \cup {NoJob}]
  /\ chan \in Seq(Events)
  /\ ui \in [cfg : [protocol : Protocols, conn : [Protocols -> Conns], settings : Settings],
             points : ShownLists, devices : DeviceLists, browsed : BrowsedLists,
             scanning : BOOLEAN]
  /\ outcome \in [op : Operations, status : {"ok", "error", "refused"}]
  /\ ops \in 0..MaxOps

\* What the page shows and what the daemon holds, when they are in step.
Mirror == Shown(config, devices, browsed, scanning)

\* An edit of the configuration is on disk when its step ends, or its answer
\* (for an import: the log) says that saving failed; the one edit that is
\* neither saved nor reported is the switch of protocol.  State and file may
\* differ after a boot because the environment overrides the file.
EditsPersistOrReport ==
  [][ config' # config =>
        \/ disk' = config'
        \/ outcome'.status = "error" /\ disk' = disk
        \/ outcome'.op \in {"set_protocol", "boot"} /\ disk' = disk ]_vars

\* What reaches the disk passed validation, and a daemon that booted on the
\* defaults because it could not read the file leaves the file alone until
\* an edit or an import is saved.
DiskHoldsValidSaves ==
  [][ disk' # disk =>
        /\ Valid(disk')
        /\ disk' = config'
        /\ outcome'.op \notin {"boot", "set_protocol", "discover", "browse_device", "scan_all"} ]_vars

\* A point identity leaves the list only because the operator deleted,
\* cleared or replaced it, at a restart, or because an import was computed
\* from a list that had changed meanwhile: an import over an unchanged list
\* and adding a browsed point lose nothing.
OnlyRemovalsRemove ==
  [][ IdsOf(config.points) \ IdsOf(config'.points) # {} =>
        \/ outcome'.op \in {"delete_point", "clear_points", "save_point", "boot"}
        \/ /\ outcome'.op = "BulkTagImport"
           /\ Head(chan).existing # config.points ]_vars

\* The changes of field f of the page that no event announces: those of an
\* edit whose save failed (its answer says so), those that new settings make
\* to the topics of the points, and the end of a scan.
Untold(f) ==
  \/ outcome'.status = "error"
  \/ f = "points" /\ outcome'.op = "put_settings" /\ config'.points = config.points
  \/ f = "scanning" /\ outcome'.op = "BulkTagImport"

\* Every other change of what the page shows is announced in the step that
\* makes it, by an event that replaces the field as a whole; and no step, not
\* even one that announces nothing, makes the page show what the daemon does
\* not hold.
ChangesAreAnnounced ==
  [][ \A f \in {"cfg", "points", "devices", "browsed", "scanning"} :
        /\ Mirror'[f] # Mirror[f] => \/ ui'[f] = Mirror'[f]
                                     \/ Untold(f) /\ ui'[f] = ui[f]
        /\ ui'[f] # ui[f] => ui'[f] = Mirror'[f] ]_vars

\* A scan does not stay in progress for ever: its worker answers, and its
\* import clears the progress after every progress report of its own.
ScanEnds == scanning ~> ~scanning
=============================================================================
