-------------------------- MODULE ConfigStoreProofs --------------------------
(***************************************************************************)
(* Proofs about module ConfigStore, for any identities, protocols, jobs    *)
(* and environment: its type invariant; that an edit is saved or reported  *)
(* and nothing else reaches the file; that what the page shows follows     *)
(* every change but those of three named kinds; and that only a removal,   *)
(* a restart or an import computed from an older list takes a point away.  *)
(*                                                                         *)
(* The last one is not about one action: an import is the end of a scan    *)
(* that began any number of steps earlier.  The invariant says what an     *)
(* import in the channel keeps of the list it was computed from.           *)
(***************************************************************************)
EXTENDS ConfigStore, SequenceTheorems, TLAPS

\* What the page can show.
Views ==
  [cfg : [protocol : Protocols, conn : [Protocols -> Conns], settings : Settings],
   points : ShownLists, devices : DeviceLists, browsed : BrowsedLists, scanning : BOOLEAN]

-----------------------------------------------------------------------------
(* The data.                                                               *)

\* The point lists are the sequences of at most MaxPoints points.
LEMMA ListIsSequence ==
  ASSUME NEW s \in PointLists
  PROVE  s \in Seq(Points) /\ Len(s) <= MaxPoints /\ DOMAIN s = 1..Len(s)
<1>1. PICK n \in 0..MaxPoints : s \in [1..n -> Points]
  BY DEF PointLists
<1>2. n \in Nat /\ n <= MaxPoints
  BY <1>1, ConfigAssumption
<1>3. s \in Seq(Points)
  BY <1>1, <1>2, SeqDef
<1>4. Len(s) = n
  BY <1>1, <1>2, <1>3
<1> QED BY <1>1, <1>2, <1>3, <1>4

\* And a sequence of so many points is a point list.
LEMMA FunctionIsList ==
  ASSUME NEW n \in 0..MaxPoints, NEW s \in [1..n -> Points]
  PROVE  s \in PointLists
BY DEF PointLists

\* The empty list is one.
LEMMA EmptyList == <<>> \in PointLists
<1>1. <<>> \in Seq(Points) /\ Len(<<>>) = 0
  BY EmptySeq
<1>2. <<>> \in [1..Len(<<>>) -> Points]
  BY <1>1, LenProperties
<1>3. 0 \in 0..MaxPoints
  BY ConfigAssumption
<1> QED BY <1>1, <1>2, <1>3 DEF PointLists

\* What the editing handlers make of a list is a list.
LEMMA EditedLists ==
  ASSUME NEW s \in PointLists, NEW p \in Points
  PROVE  /\ Len(s) < MaxPushed => Append(s, p) \in PointLists
         /\ \A i \in DOMAIN s : [s EXCEPT ![i] = p] \in PointLists
         /\ \A i \in DOMAIN s, b \in Bodies : [s EXCEPT ![i].body = b] \in PointLists
         /\ \A i \in DOMAIN s : Without(s, i) \in PointLists
<1>1. /\ s \in Seq(Points) /\ Len(s) \in 0..MaxPoints /\ DOMAIN s = 1..Len(s)
      /\ MaxPoints \in Nat /\ MaxPushed \in Nat /\ MaxPushed <= MaxPoints
      /\ s \in [1..Len(s) -> Points]
  BY ListIsSequence, ConfigAssumption
<1>2. ASSUME Len(s) < MaxPushed PROVE Append(s, p) \in PointLists
  <2>1. Append(s, p) \in Seq(Points) /\ Len(Append(s, p)) = Len(s) + 1
    BY <1>1
  <2>2. Append(s, p) \in [1..Len(s) + 1 -> Points]
    BY <2>1, LenProperties
  <2>3. Len(s) + 1 \in 0..MaxPoints
    BY <1>1, <1>2
  <2> QED BY <2>2, <2>3, FunctionIsList
<1>3. ASSUME NEW i \in DOMAIN s PROVE [s EXCEPT ![i] = p] \in PointLists
  BY <1>1, FunctionIsList
<1>4. ASSUME NEW i \in DOMAIN s, NEW b \in Bodies PROVE [s EXCEPT ![i].body = b] \in PointLists
  <2>1. s[i] \in Points
    BY <1>1
  <2>2. [s[i] EXCEPT !.body = b] \in Points
    BY <2>1 DEF Points
  <2>3. [s EXCEPT ![i] = [s[i] EXCEPT !.body = b]] \in PointLists
    BY <1>1, <2>2, FunctionIsList
  <2> QED BY <2>3
<1>5. ASSUME NEW i \in DOMAIN s PROVE Without(s, i) \in PointLists
  <2>1. Len(s) - 1 \in 0..MaxPoints
    BY <1>1
  <2>2. Without(s, i) \in [1..Len(s) - 1 -> Points]
    BY <1>1 DEF Without
  <2> QED BY <2>1, <2>2, FunctionIsList
<1> QED BY <1>2, <1>3, <1>4, <1>5

\* Adding a browsed point gives a list, in which every identity stays.
LEMMA Upserted ==
  ASSUME NEW s \in PointLists, NEW p \in Points,
         p.id \in IdsOf(s) \/ Len(s) < MaxPushed
  PROVE  UpsertFirst(s, p) \in PointLists /\ IdsOf(s) \subseteq IdsOf(UpsertFirst(s, p))
<1>1. /\ s \in Seq(Points) /\ Len(s) \in 0..MaxPoints /\ DOMAIN s = 1..Len(s)
      /\ s \in [1..Len(s) -> Points]
  BY ListIsSequence, ConfigAssumption
<1>2. CASE p.id \in IdsOf(s)
  <2> DEFINE t == UpsertFirst(s, p)
  <2>1. /\ t \in [1..Len(s) -> Points] /\ DOMAIN t = DOMAIN s
        /\ \A i \in DOMAIN s : t[i].id = s[i].id
    BY <1>1, <1>2 DEF UpsertFirst
  <2>2. t \in PointLists
    BY <1>1, <2>1, FunctionIsList
  <2>3. IdsOf(s) \subseteq IdsOf(t)
    BY <2>1 DEF IdsOf
  <2> QED BY <2>2, <2>3
<1>3. CASE p.id \notin IdsOf(s)
  <2>1. UpsertFirst(s, p) = Append(s, p)
    BY <1>3 DEF UpsertFirst
  <2>2. \A i \in DOMAIN s : i \in DOMAIN Append(s, p) /\ Append(s, p)[i] = s[i]
    BY <1>1
  <2> QED BY <1>3, <2>1, <2>2, EditedLists DEF IdsOf
<1> QED BY <1>2, <1>3

\* The rows of the point list.
LEMMA ShownPointsType ==
  ASSUME NEW c \in Configs
  PROVE  ShownPoints(c) \in ShownLists
<1>1. c.points \in PointLists /\ c.settings \in Settings
  BY DEF Configs
<1>2. PICK n \in 0..MaxPoints : c.points \in [1..n -> Points]
  BY <1>1 DEF PointLists
<1>3. ShownPoints(c) \in [1..n -> ShownRows]
  BY <1>1, <1>2 DEF ShownPoints, ShownRows
<1> QED BY <1>3 DEF ShownLists

\* A configuration with another list, and what a configuration shows.
LEMMA ConfigWith ==
  ASSUME NEW c \in Configs
  PROVE  /\ c.points \in PointLists
         /\ \A pl \in PointLists : [c EXCEPT !.points = pl] \in Configs
         /\ \A p \in Protocols : [c EXCEPT !.protocol = p] \in Configs
         /\ \A v \in Settings : [c EXCEPT !.settings = v] \in Configs
         /\ \A v \in Conns : [c EXCEPT !.conn[c.protocol] = v] \in Configs
         /\ ShownConfig(c) \in [protocol : Protocols, conn : [Protocols -> Conns], settings : Settings]
         /\ \A ds \in DeviceLists, bs \in BrowsedLists, sc \in BOOLEAN : Shown(c, ds, bs, sc) \in Views
BY ShownPointsType DEF Configs, ShownConfig, Shown, Views

\* A view with another list, configuration or progress.
LEMMA ViewWith ==
  ASSUME NEW u \in Views
  PROVE  /\ \A pl \in ShownLists : [u EXCEPT !.points = pl] \in Views
         /\ \A ds \in DeviceLists : [u EXCEPT !.devices = ds] \in Views
         /\ \A bs \in BrowsedLists : [u EXCEPT !.browsed = bs] \in Views
         /\ [u EXCEPT !.scanning = TRUE] \in Views
         /\ \A cf \in [protocol : Protocols, conn : [Protocols -> Conns], settings : Settings] :
              [u EXCEPT !.cfg = cf] \in Views
BY DEF Views

\* A boot gives a configuration, whatever the file holds.
LEMMA BootConfigsType ==
  ASSUME NEW file \in Configs \cup {NoFile}
  PROVE  BootConfigs(file) \subseteq Configs
<1> SUFFICES ASSUME NEW c \in BootConfigs(file) PROVE c \in Configs
  OBVIOUS
<1>1. PICK base \in {DefaultConfig} \cup (IF file = NoFile THEN {} ELSE {file}),
           merged \in PointLists :
        c = WithProtocol(ApplyEnv(base, merged))
  BY DEF BootConfigs
<1>2. base \in Configs
  BY <1>1, ConfigAssumption
<1>3. EnvironmentProtocol(base) \in Protocols
  BY <1>2, ConfigAssumption DEF EnvironmentProtocol, Configs
<1>4. ASSUME EnvConn # NoOverride, NEW p \in Protocols
      PROVE  [base.conn EXCEPT ![p] = EnvConn[@]] \in [Protocols -> Conns]
  BY <1>2, <1>4, ConfigAssumption DEF Configs
<1>5. ApplyEnv(base, merged) \in Configs
  BY <1>2, <1>3, <1>4, ConfigAssumption DEF ApplyEnv, Configs
<1>6. FirstProtocol \in Protocols
  BY ConfigAssumption
<1> QED BY <1>1, <1>5, <1>6 DEF WithProtocol, Configs

-----------------------------------------------------------------------------
(* Type correctness.                                                       *)

\* The initial state is well typed.
LEMMA InitTypeOK == Init => TypeOK
<1> SUFFICES ASSUME Init PROVE TypeOK
  OBVIOUS
<1>1. config \in Configs
  BY BootConfigsType DEF Init
<1>2. devices \in DeviceLists /\ browsed \in BrowsedLists /\ scanning \in BOOLEAN
  BY DEF Init, DeviceLists, BrowsedLists
<1>3. disk \in Configs \cup {NoFile} /\ job \in [Jobs -> JobRecords \cup {NoJob}] /\ chan \in Seq(Events)
  BY DEF Init
<1>4. ui \in Views
  BY <1>1, <1>2, ConfigWith DEF Init
<1>5. outcome \in [op : Operations, status : {"ok", "error", "refused"}]
  BY DEF Init, Operations
<1>6. ops \in 0..MaxOps
  BY ConfigAssumption DEF Init
<1> QED BY <1>1, <1>2, <1>3, <1>4, <1>5, <1>6 DEF TypeOK, Views

\* What TypeOK says of the configuration and the page, under short names.
LEMMA Typed ==
  ASSUME TypeOK
  PROVE  /\ config \in Configs /\ ui \in Views /\ config.points \in PointLists
         /\ config.protocol \in Protocols
BY DEF TypeOK, Views, Configs

\* The bound on the calls keeps its type.
LEMMA CallType ==
  ASSUME TypeOK, Call
  PROVE  ops' \in 0..MaxOps
BY ConfigAssumption DEF TypeOK, Call

\* What an edit leaves is well typed, saved or not.
LEMMA EditType ==
  ASSUME TypeOK, NEW op \in Operations, NEW c \in Configs, NEW shown \in Views,
         EditAndSave(op, c, shown)
  PROVE  TypeOK'
<1>1. PICK status \in {"ok", "error"} :
        /\ SaveConfig(c, status)
        /\ ui' = IF status = "ok" THEN shown ELSE ui
        /\ outcome' = [op |-> op, status |-> status]
  BY DEF EditAndSave
<1>2. config' \in Configs /\ disk' \in Configs \cup {NoFile}
  BY <1>1 DEF EditAndSave, SaveConfig, TypeOK
<1>3. ui' \in Views
  BY <1>1, Typed
<1>4. outcome' \in [op : Operations, status : {"ok", "error", "refused"}]
  BY <1>1
<1>5. ops' \in 0..MaxOps
  BY CallType DEF EditAndSave
<1> QED BY <1>2, <1>3, <1>4, <1>5 DEF EditAndSave, TypeOK, Views

\* And an edit of the point list.
LEMMA EditPointsType ==
  ASSUME TypeOK, NEW op \in Operations, NEW points \in PointLists, EditPoints(op, points)
  PROVE  TypeOK'
<1> DEFINE c == [config EXCEPT !.points = points]
<1>1. c \in Configs
  BY Typed, ConfigWith
<1>2. [ui EXCEPT !.points = ShownPoints(c)] \in Views
  BY <1>1, Typed, ShownPointsType, ViewWith
<1> QED BY <1>1, <1>2, EditType DEF EditPoints

\* The handlers that edit the configuration.
LEMMA ConfigHandlersType ==
  ASSUME TypeOK,
         \/ \E p \in Protocols : SetProtocol(p)
         \/ \E v \in Conns : SetConnection(v)
         \/ \E v \in Settings : PutSettings(v)
  PROVE  TypeOK'
<1>1. ASSUME NEW p \in Protocols, SetProtocol(p) PROVE TypeOK'
  <2>1. config' \in Configs
    BY <1>1, Typed, ConfigWith DEF SetProtocol
  <2>2. ShownConfig(config') \in [protocol : Protocols, conn : [Protocols -> Conns], settings : Settings]
    BY <2>1, ConfigWith
  <2>3. devices' \in DeviceLists /\ browsed' \in BrowsedLists
    BY <1>1 DEF SetProtocol, DeviceLists, BrowsedLists
  <2>4. ui' \in Views
    BY <1>1, <2>2, <2>3, Typed DEF SetProtocol, Views
  <2>5. outcome' \in [op : Operations, status : {"ok", "error", "refused"}] /\ ops' \in 0..MaxOps
    BY <1>1, CallType DEF SetProtocol, Operations
  <2> QED BY <1>1, <2>1, <2>3, <2>4, <2>5 DEF SetProtocol, TypeOK, Views
<1>2. ASSUME NEW v \in Conns, SetConnection(v) PROVE TypeOK'
  <2> DEFINE c == [config EXCEPT !.conn[config.protocol] = v]
  <2>1. c \in Configs
    BY Typed, ConfigWith
  <2>2. [ui EXCEPT !.cfg = ShownConfig(c)] \in Views
    BY <2>1, Typed, ConfigWith, ViewWith
  <2> QED BY <1>2, <2>1, <2>2, EditType DEF SetConnection, Operations
<1>3. ASSUME NEW v \in Settings, PutSettings(v) PROVE TypeOK'
  <2> DEFINE c == [config EXCEPT !.settings = v]
  <2>1. c \in Configs
    BY Typed, ConfigWith
  <2>2. [ui EXCEPT !.cfg = ShownConfig(c)] \in Views
    BY <2>1, Typed, ConfigWith, ViewWith
  <2> QED BY <1>3, <2>1, <2>2, EditType DEF PutSettings, Operations
<1> QED BY <1>1, <1>2, <1>3

\* A browsed point is a point.
LEMMA BrowsedIsPoint ==
  ASSUME TypeOK, NEW i \in DOMAIN browsed
  PROVE  browsed[i] \in Points
<1>1. CASE browsed = <<>>
  BY <1>1
<1>2. ASSUME NEW p \in Points, browsed = <<p>> PROVE browsed[i] \in Points
  BY <1>2
<1> QED BY <1>1, <1>2 DEF TypeOK, BrowsedLists

\* The handlers that edit the point list.
LEMMA PointHandlersType ==
  ASSUME TypeOK,
         \/ \E p \in Points : AddPoint(p)
         \/ \E i \in 1..MaxPoints, p \in Points : EditPoint(i, p)
         \/ \E i \in 1..MaxPoints, b \in Bodies : TogglePoint(i, b)
         \/ \E i \in 1..MaxPoints : DeletePoint(i)
         \/ ClearPoints
         \/ \E i \in {1} : AddBrowsedPoint(i)
  PROVE  TypeOK'
<1> DEFINE s == config.points
<1>0. s \in PointLists
  BY Typed
<1>1. ASSUME NEW p \in Points, AddPoint(p) PROVE TypeOK'
  <2>1. Append(s, p) \in PointLists /\ EditPoints("save_point", Append(s, p))
    BY <1>0, <1>1, EditedLists DEF AddPoint
  <2> QED BY <2>1, EditPointsType DEF Operations
<1>2. ASSUME NEW i \in 1..MaxPoints, NEW p \in Points, EditPoint(i, p) PROVE TypeOK'
  <2>1. [s EXCEPT ![i] = p] \in PointLists /\ EditPoints("save_point", [s EXCEPT ![i] = p])
    BY <1>0, <1>2, EditedLists DEF EditPoint
  <2> QED BY <2>1, EditPointsType DEF Operations
<1>3. ASSUME NEW i \in 1..MaxPoints, NEW b \in Bodies, TogglePoint(i, b) PROVE TypeOK'
  <2>1. s[i] \in Points /\ i \in DOMAIN s
    BY <1>0, <1>3, ListIsSequence DEF TogglePoint
  <2>2. [s EXCEPT ![i].body = b] \in PointLists /\ EditPoints("toggle_point", [s EXCEPT ![i].body = b])
    BY <1>0, <1>3, <2>1, EditedLists DEF TogglePoint
  <2> QED BY <2>2, EditPointsType DEF Operations
<1>4. ASSUME NEW i \in 1..MaxPoints, DeletePoint(i) PROVE TypeOK'
  <2>1. s[i] \in Points /\ i \in DOMAIN s
    BY <1>0, <1>4, ListIsSequence DEF DeletePoint
  <2>2. Without(s, i) \in PointLists /\ EditPoints("delete_point", Without(s, i))
    BY <1>0, <1>4, <2>1, EditedLists DEF DeletePoint
  <2> QED BY <2>2, EditPointsType DEF Operations
<1>5. ASSUME ClearPoints PROVE TypeOK'
  BY <1>5, EmptyList, EditPointsType DEF ClearPoints, Operations
<1>6. ASSUME AddBrowsedPoint(1) PROVE TypeOK'
  <2>1. browsed[1] \in Points
    BY <1>6, BrowsedIsPoint DEF AddBrowsedPoint
  <2>2. /\ browsed[1].id \in IdsOf(s) \/ Len(s) < MaxPushed
        /\ EditPoints("add_browsed_point", UpsertFirst(s, browsed[1]))
    BY <1>6 DEF AddBrowsedPoint
  <2>3. UpsertFirst(s, browsed[1]) \in PointLists
    BY <1>0, <2>1, <2>2, Upserted
  <2> QED BY <2>2, <2>3, EditPointsType DEF Operations
<1> QED BY <1>1, <1>2, <1>3, <1>4, <1>5, <1>6

\* A worker thread keeps the table of the jobs well typed.
LEMMA SpawnType ==
  ASSUME TypeOK, NEW record \in JobRecords, Spawn(record)
  PROVE  job' \in [Jobs -> JobRecords \cup {NoJob}]
BY DEF Spawn, TypeOK

\* The handlers that start a job.
LEMMA JobHandlersType ==
  ASSUME TypeOK, Discover \/ (\E i \in {1} : BrowseDevice(i)) \/ ScanAll
  PROVE  TypeOK'
<1>1. CASE Discover
  <2>1. devices' \in DeviceLists
    BY <1>1 DEF Discover, DeviceLists
  <2>2. ui' \in Views
    BY <1>1, <2>1, Typed, ViewWith DEF Discover
  <2>3. [kind |-> "discover", proto |-> config.protocol] \in JobRecords
    BY Typed DEF JobRecords
  <2>4. job' \in [Jobs -> JobRecords \cup {NoJob}]
    BY <1>1, <2>3, SpawnType DEF Discover
  <2>5. outcome' \in [op : Operations, status : {"ok", "error", "refused"}] /\ ops' \in 0..MaxOps
    BY <1>1, CallType DEF Discover, Operations
  <2> QED BY <1>1, <2>1, <2>2, <2>4, <2>5 DEF Discover, TypeOK, Views
<1>2. CASE BrowseDevice(1)
  <2>1. browsed' \in BrowsedLists
    BY <1>2 DEF BrowseDevice, BrowsedLists
  <2>2. ui' \in Views
    BY <1>2, <2>1, Typed, ViewWith DEF BrowseDevice
  <2>3. devices[1] \in Devices
    <3>1. CASE devices = <<>>
      BY <1>2, <3>1 DEF BrowseDevice
    <3>2. ASSUME NEW d \in Devices, devices = <<d>> PROVE devices[1] \in Devices
      BY <3>2
    <3> QED BY <3>1, <3>2 DEF TypeOK, DeviceLists
  <2>4. [kind |-> "browse", proto |-> config.protocol, device |-> devices[1]] \in JobRecords
    BY <2>3, Typed DEF JobRecords
  <2>5. job' \in [Jobs -> JobRecords \cup {NoJob}]
    BY <1>2, <2>4, SpawnType DEF BrowseDevice
  <2>6. outcome' \in [op : Operations, status : {"ok", "error", "refused"}] /\ ops' \in 0..MaxOps
    BY <1>2, CallType DEF BrowseDevice, Operations
  <2> QED BY <1>2, <2>1, <2>2, <2>5, <2>6 DEF BrowseDevice, TypeOK, Views
<1>3. CASE ScanAll
  <2>1. ui' \in Views
    BY <1>3, Typed, ViewWith DEF ScanAll
  <2>2. [kind |-> "scan", existing |-> config.points, told |-> FALSE] \in JobRecords
    BY Typed DEF JobRecords
  <2>3. job' \in [Jobs -> JobRecords \cup {NoJob}]
    BY <1>3, <2>2, SpawnType DEF ScanAll
  <2>4. outcome' \in [op : Operations, status : {"ok", "error", "refused"}] /\ ops' \in 0..MaxOps
    BY <1>3, CallType DEF ScanAll, Operations
  <2> QED BY <1>3, <2>1, <2>3, <2>4 DEF ScanAll, TypeOK, Views
<1> QED BY <1>1, <1>2, <1>3

\* A refused call changes its answer alone.
LEMMA RefusedType ==
  ASSUME TypeOK, NEW op \in Operations, RefusedCall(op)
  PROVE  TypeOK'
BY CallType DEF RefusedCall, TypeOK

\* A step of a worker thread: an event more, and the job moved or over.
LEMMA JobStepsType ==
  ASSUME TypeOK, NEW j \in Jobs, JobAnswers(j) \/ ScanProgresses(j)
  PROVE  TypeOK'
<1>1. /\ UNCHANGED <<config, devices, browsed, scanning, disk, ui, outcome, ops>>
      /\ job' \in [Jobs -> JobRecords \cup {NoJob}]
      /\ \E e \in Events : chan' = Append(chan, e)
  <2>1. CASE DiscoverAnswers(j)
    BY <2>1 DEF DiscoverAnswers, Send, Finish, Events, TypeOK
  <2>2. CASE BrowseAnswers(j)
    BY <2>2 DEF BrowseAnswers, Send, Finish, Events, TypeOK
  <2>3. CASE ScanAnswers(j)
    <3>1. job[j] \in JobRecords /\ job[j].kind = "scan"
      BY <2>3 DEF ScanAnswers, TypeOK
    <3>2. job[j].existing \in PointLists
      BY <3>1 DEF JobRecords
    <3>3. \A merged \in PointLists :
            [kind |-> "BulkTagImport", points |-> merged, existing |-> job[j].existing] \in Events
      BY <3>2 DEF Events
    <3> QED BY <2>3, <3>3 DEF ScanAnswers, Send, Finish, TypeOK
  <2>4. CASE ScanProgresses(j)
    <3>1. job[j] \in JobRecords /\ job[j].kind = "scan"
      BY <2>4 DEF ScanProgresses, TypeOK
    <3>2. [job[j] EXCEPT !.told = TRUE] \in JobRecords
      BY <3>1 DEF JobRecords
    <3>3. [kind |-> "ScanProgress"] \in Events
      BY DEF Events
    <3> QED BY <2>4, <3>2, <3>3 DEF ScanProgresses, Send, TypeOK
  <2> QED BY <2>1, <2>2, <2>3, <2>4 DEF JobAnswers
<1>2. chan' \in Seq(Events)
  BY <1>1 DEF TypeOK
<1> QED BY <1>1, <1>2 DEF TypeOK

\* The event the drain thread takes.
LEMMA HeadType ==
  ASSUME TypeOK, NEW kind, NextEvent(kind)
  PROVE  /\ chan' \in Seq(Events) /\ Head(chan) \in Events
         /\ 1 \in DOMAIN chan /\ Head(chan) = chan[1]
BY DEF NextEvent, TypeOK

\* A drained event keeps the types.
LEMMA DrainType ==
  ASSUME TypeOK, Drain
  PROVE  TypeOK'
<1>1. CASE ApplyDevices
  <2>1. devices' \in DeviceLists /\ chan' \in Seq(Events)
    BY <1>1, HeadType DEF ApplyDevices, NextEvent, Events
  <2>2. ui' \in Views
    BY <1>1, <2>1, Typed, ViewWith DEF ApplyDevices
  <2> QED BY <1>1, <2>1, <2>2 DEF ApplyDevices, TypeOK, Views, Operations
<1>2. CASE ApplyPoints
  <2>1. browsed' \in BrowsedLists /\ chan' \in Seq(Events)
    BY <1>2, HeadType DEF ApplyPoints, NextEvent, Events
  <2>2. ui' \in Views
    BY <1>2, <2>1, Typed, ViewWith DEF ApplyPoints
  <2> QED BY <1>2, <2>1, <2>2 DEF ApplyPoints, TypeOK, Views, Operations
<1>3. CASE ApplyScanProgress
  <2>1. chan' \in Seq(Events)
    BY <1>3, HeadType DEF ApplyScanProgress
  <2>2. ui' \in Views
    BY <1>3, Typed, ViewWith DEF ApplyScanProgress
  <2> QED BY <1>3, <2>1, <2>2 DEF ApplyScanProgress, TypeOK, Views, Operations
<1>4. CASE ApplyBulkTagImport
  <2>1. Head(chan).points \in PointLists /\ chan' \in Seq(Events)
    BY <1>4, HeadType DEF ApplyBulkTagImport, NextEvent, Events
  <2>2. config' \in Configs
    BY <1>4, <2>1, Typed, ConfigWith DEF ApplyBulkTagImport
  <2>3. ui' \in Views
    <3>1. ShownPoints(config') \in ShownLists
      BY <2>2, ShownPointsType
    <3> QED BY <1>4, <3>1, Typed, ViewWith DEF ApplyBulkTagImport
  <2>4. /\ disk' \in Configs \cup {NoFile}
        /\ outcome' \in [op : Operations, status : {"ok", "error", "refused"}]
    <3>1. PICK status \in {"ok", "error"} :
            SaveConfig(config', status) /\ outcome' = [op |-> "BulkTagImport", status |-> status]
      BY <1>4 DEF ApplyBulkTagImport
    <3>2. disk' = config' \/ disk' = disk
      BY <3>1 DEF SaveConfig
    <3>3. disk \in Configs \cup {NoFile}
      BY DEF TypeOK
    <3> QED BY <2>2, <3>1, <3>2, <3>3 DEF Operations
  <2> QED BY <1>4, <2>1, <2>2, <2>3, <2>4 DEF ApplyBulkTagImport, TypeOK, Views
<1> QED BY <1>1, <1>2, <1>3, <1>4 DEF Drain

\* A start gives a well-typed state.
LEMMA RestartType ==
  ASSUME TypeOK, Restart
  PROVE  TypeOK'
<1>1. config' \in Configs
  BY BootConfigsType DEF Restart, Boot, TypeOK
<1>2. /\ devices' \in DeviceLists /\ browsed' \in BrowsedLists /\ scanning' \in BOOLEAN
      /\ job' \in [Jobs -> JobRecords \cup {NoJob}] /\ chan' \in Seq(Events)
  <2>1. /\ devices' = <<>> /\ browsed' = <<>> /\ scanning' = FALSE /\ chan' = <<>>
        /\ job' = [j \in Jobs |-> NoJob]
    BY DEF Restart, Boot
  <2>2. <<>> \in Seq(Events)
    BY EmptySeq
  <2> QED BY <2>1, <2>2 DEF DeviceLists, BrowsedLists
<1>3. ui' \in Views
  <2>1. \A c \in Configs : Shown(c, <<>>, <<>>, FALSE) \in Views
    BY ConfigWith DEF DeviceLists, BrowsedLists
  <2> QED BY <1>1, <2>1 DEF Restart, Boot
<1>4. /\ outcome' \in [op : Operations, status : {"ok", "error", "refused"}]
      /\ disk' \in Configs \cup {NoFile}
  BY DEF Restart, Operations, TypeOK
<1> QED BY <1>1, <1>2, <1>3, <1>4, CallType DEF Restart, TypeOK, Views

\* Every step keeps the types.
LEMMA NextTypeOK ==
  ASSUME TypeOK, [Next]_vars
  PROVE  TypeOK'
<1>1. CASE UNCHANGED vars
  BY <1>1 DEF vars, TypeOK
<1>2. CASE Operator
  <2>1. ASSUME NEW op \in {"set_protocol", "set_connection", "save_point", "toggle_point",
                           "delete_point", "add_browsed_point", "discover", "browse_device",
                           "scan_all"},
               RefusedCall(op)
        PROVE  TypeOK'
    BY <2>1, RefusedType DEF Operations
  <2> QED BY <1>2, <2>1, ConfigHandlersType, PointHandlersType, JobHandlersType DEF Operator
<1>3. CASE \E j \in Jobs : JobAnswers(j) \/ ScanProgresses(j)
  BY <1>3, JobStepsType
<1>4. CASE Drain \/ Restart
  BY <1>4, DrainType, RestartType
<1> QED BY <1>1, <1>2, <1>3, <1>4 DEF Next

\* The state is always well typed: the configuration, the file, the jobs,
\* the channel and the page hold what the handlers expect of them.
THEOREM TypeCorrect == Spec => []TypeOK
<1>1. Init => TypeOK
  BY InitTypeOK
<1>2. TypeOK /\ [Next]_vars => TypeOK'
  BY NextTypeOK
<1> QED BY <1>1, <1>2, PTL DEF Spec

-----------------------------------------------------------------------------
(* What is saved, and what is shown.  These hold of every step from a      *)
(* well-typed state.                                                       *)

\* An edit is saved, or reported and not saved.
LEMMA EditIsSaved ==
  ASSUME NEW op, NEW c, NEW shown, EditAndSave(op, c, shown)
  PROVE  /\ config' = c /\ outcome'.op = op
         /\ UNCHANGED <<devices, browsed, scanning, job, chan>>
         /\ \/ outcome'.status = "ok" /\ Valid(c) /\ disk' = c /\ ui' = shown
            \/ outcome'.status = "error" /\ disk' = disk /\ ui' = ui
BY DEF EditAndSave, SaveConfig

\* And so is an import, whose points are shown either way.
LEMMA ImportIsSaved ==
  ASSUME ApplyBulkTagImport
  PROVE  /\ outcome'.op = "BulkTagImport"
         /\ config' = [config EXCEPT !.points = Head(chan).points]
         /\ ui' = [ui EXCEPT !.points = ShownPoints(config')]
         /\ \/ outcome'.status = "ok" /\ Valid(config') /\ disk' = config'
            \/ outcome'.status = "error" /\ disk' = disk
<1>1. PICK status \in {"ok", "error"} :
        SaveConfig(config', status) /\ outcome' = [op |-> "BulkTagImport", status |-> status]
  BY DEF ApplyBulkTagImport
<1>2. outcome'.op = "BulkTagImport" /\ outcome'.status = status
  BY <1>1
<1> QED BY <1>1, <1>2 DEF SaveConfig, ApplyBulkTagImport

\* The handlers that end in EditAndSave.
Editing ==
  \/ \E v \in Conns : SetConnection(v)
  \/ \E v \in Settings : PutSettings(v)
  \/ \E p \in Points : AddPoint(p)
  \/ \E i \in 1..MaxPoints, p \in Points : EditPoint(i, p)
  \/ \E i \in 1..MaxPoints, b \in Bodies : TogglePoint(i, b)
  \/ \E i \in 1..MaxPoints : DeletePoint(i)
  \/ ClearPoints
  \/ \E i \in {1} : AddBrowsedPoint(i)

\* Each of them saves what it made, or reports that it did not.
LEMMA EditingSaves ==
  ASSUME Editing
  PROVE  /\ outcome'.op \in {"set_connection", "put_settings", "save_point", "toggle_point",
                             "delete_point", "clear_points", "add_browsed_point"}
         /\ UNCHANGED <<devices, browsed, scanning, job, chan>>
         /\ \/ outcome'.status = "ok" /\ Valid(config') /\ disk' = config'
            \/ outcome'.status = "error" /\ disk' = disk
BY EditIsSaved DEF Editing, SetConnection, PutSettings, AddPoint, EditPoint, TogglePoint,
   DeletePoint, ClearPoints, AddBrowsedPoint, EditPoints

\* The steps that neither edit the configuration nor write the file.
Keeping ==
  \/ Discover
  \/ \E i \in {1} : BrowseDevice(i)
  \/ ScanAll
  \/ \E op \in {"set_protocol", "set_connection", "save_point", "toggle_point", "delete_point",
                "add_browsed_point", "discover", "browse_device", "scan_all"} : RefusedCall(op)
  \/ \E j \in Jobs : JobAnswers(j) \/ ScanProgresses(j)
  \/ ApplyDevices \/ ApplyPoints \/ ApplyScanProgress
  \/ UNCHANGED vars

\* A step of that kind leaves memory and file as they are.
LEMMA KeepingKeeps ==
  ASSUME Keeping
  PROVE  config' = config /\ disk' = disk
BY DEF Keeping, Discover, BrowseDevice, ScanAll, RefusedCall, JobAnswers, DiscoverAnswers,
   BrowseAnswers, ScanAnswers, ScanProgresses, ApplyDevices, ApplyPoints, ApplyScanProgress, vars

\* Every step is one of these, an import, a switch of protocol or a start.
LEMMA StepKinds ==
  ASSUME [Next]_vars
  PROVE  \/ Editing
         \/ Keeping
         \/ \E p \in Protocols : SetProtocol(p)
         \/ ApplyBulkTagImport
         \/ Restart
BY DEF Next, Operator, Drain, Editing, Keeping

\* An edit is on disk when its step ends or reported as not saved; a switch
\* of protocol and a start leave the file as it was.
THEOREM EditsSaved == Spec => EditsPersistOrReport
<1>1. ASSUME [Next]_vars
      PROVE  [ config' # config =>
                 \/ disk' = config'
                 \/ outcome'.status = "error" /\ disk' = disk
                 \/ outcome'.op \in {"set_protocol", "boot"} /\ disk' = disk ]_vars
  <2>1. CASE Editing
    BY <2>1, EditingSaves
  <2>2. CASE Keeping
    BY <2>2, KeepingKeeps
  <2>3. CASE \E p \in Protocols : SetProtocol(p)
    BY <2>3 DEF SetProtocol
  <2>4. CASE ApplyBulkTagImport
    BY <2>4, ImportIsSaved
  <2>5. CASE Restart
    BY <2>5 DEF Restart
  <2> QED BY <1>1, <2>1, <2>2, <2>3, <2>4, <2>5, StepKinds
<1> QED BY <1>1, PTL DEF Spec, EditsPersistOrReport

\* What reaches the file is the configuration in force and passed
\* validation; no start, switch of protocol or job writes it.
THEOREM SavesValid == Spec => DiskHoldsValidSaves
<1>1. ASSUME [Next]_vars
      PROVE  [ disk' # disk =>
                 /\ Valid(disk')
                 /\ disk' = config'
                 /\ outcome'.op \notin {"boot", "set_protocol", "discover", "browse_device",
                                        "scan_all"} ]_vars
  <2>1. CASE Editing
    BY <2>1, EditingSaves
  <2>2. CASE Keeping
    BY <2>2, KeepingKeeps
  <2>3. CASE \E p \in Protocols : SetProtocol(p)
    BY <2>3 DEF SetProtocol
  <2>4. CASE ApplyBulkTagImport
    BY <2>4, ImportIsSaved
  <2>5. CASE Restart
    BY <2>5 DEF Restart
  <2> QED BY <1>1, <2>1, <2>2, <2>3, <2>4, <2>5, StepKinds
<1> QED BY <1>1, PTL DEF Spec, DiskHoldsValidSaves

\* One field of the page: a change of what it mirrors is shown, or the step is
\* one of those that tell nothing of it; and it shows nothing else.
Told(f, held, holds, shows, willShow) ==
  /\ holds # held => willShow = holds \/ (Untold(f) /\ willShow = shows)
  /\ willShow # shows => willShow = holds

\* The five fields at once.
AllTold ==
  /\ Told("cfg", ShownConfig(config), ShownConfig(config'), ui.cfg, ui'.cfg)
  /\ Told("points", ShownPoints(config), ShownPoints(config'), ui.points, ui'.points)
  /\ Told("devices", devices, devices', ui.devices, ui'.devices)
  /\ Told("browsed", browsed, browsed', ui.browsed, ui'.browsed)
  /\ Told("scanning", scanning, scanning', ui.scanning, ui'.scanning)

\* Which, field by field, is what ChangesAreAnnounced asks of a step.
LEMMA AllToldSuffices ==
  ASSUME AllTold
  PROVE  \A f \in {"cfg", "points", "devices", "browsed", "scanning"} :
           /\ Mirror'[f] # Mirror[f] => \/ ui'[f] = Mirror'[f]
                                        \/ Untold(f) /\ ui'[f] = ui[f]
           /\ ui'[f] # ui[f] => ui'[f] = Mirror'[f]
<1>1. /\ Mirror.cfg = ShownConfig(config) /\ Mirror.points = ShownPoints(config)
      /\ Mirror.devices = devices /\ Mirror.browsed = browsed /\ Mirror.scanning = scanning
  BY DEF Mirror, Shown
<1>2. /\ Mirror'.cfg = ShownConfig(config') /\ Mirror'.points = ShownPoints(config')
      /\ Mirror'.devices = devices' /\ Mirror'.browsed = browsed' /\ Mirror'.scanning = scanning'
  BY DEF Mirror, Shown
<1> QED BY <1>1, <1>2 DEF AllTold, Told

\* An edit of the point list tells of the list and leaves the rest.
LEMMA EditPointsTells ==
  ASSUME TypeOK, NEW op, NEW points, EditPoints(op, points)
  PROVE  AllTold
<1> DEFINE c == [config EXCEPT !.points = points]
           shown == [ui EXCEPT !.points = ShownPoints(c)]
<1>1. EditAndSave(op, c, shown)
  BY DEF EditPoints
<1>2. ShownConfig(c) = ShownConfig(config)
  BY Typed DEF ShownConfig, Configs
<1>3. /\ shown.points = ShownPoints(c) /\ shown.cfg = ui.cfg /\ shown.devices = ui.devices
      /\ shown.browsed = ui.browsed /\ shown.scanning = ui.scanning
  BY Typed DEF Views
<1> HIDE DEF c, shown
<1> QED BY <1>1, <1>2, <1>3, EditIsSaved DEF AllTold, Told, Untold

\* An edit of the other settings tells of those; the topics of the points may
\* change with the settings and are left as they are shown.
LEMMA EditSettingsTells ==
  ASSUME TypeOK, NEW op, NEW c \in Configs, c.points = config.points,
         op = "put_settings" \/ c.settings = config.settings,
         EditAndSave(op, c, [ui EXCEPT !.cfg = ShownConfig(c)])
  PROVE  AllTold
<1> DEFINE shown == [ui EXCEPT !.cfg = ShownConfig(c)]
<1>1. EditAndSave(op, c, shown)
  OBVIOUS
<1>2. /\ shown.points = ui.points /\ shown.cfg = ShownConfig(c) /\ shown.devices = ui.devices
      /\ shown.browsed = ui.browsed /\ shown.scanning = ui.scanning
  BY Typed DEF Views
<1>3. op = "put_settings" \/ ShownPoints(c) = ShownPoints(config)
  BY DEF ShownPoints
<1> HIDE DEF shown
<1> QED BY <1>1, <1>2, <1>3, EditIsSaved DEF AllTold, Told, Untold

\* The handlers that edit tell what they changed.
LEMMA EditingTells ==
  ASSUME TypeOK, Editing
  PROVE  AllTold
<1>1. ASSUME NEW v \in Conns, SetConnection(v) PROVE AllTold
  <2> DEFINE c == [config EXCEPT !.conn[config.protocol] = v]
  <2>1. c \in Configs /\ c.points = config.points /\ c.settings = config.settings
    BY Typed, ConfigWith DEF Configs
  <2> QED BY <1>1, <2>1, EditSettingsTells DEF SetConnection
<1>2. ASSUME NEW v \in Settings, PutSettings(v) PROVE AllTold
  <2> DEFINE c == [config EXCEPT !.settings = v]
  <2>1. c \in Configs /\ c.points = config.points
    BY Typed, ConfigWith DEF Configs
  <2> QED BY <1>2, <2>1, EditSettingsTells DEF PutSettings
<1>3. ASSUME NEW op, NEW points, EditPoints(op, points) PROVE AllTold
  BY <1>3, EditPointsTells
<1> QED BY <1>1, <1>2, <1>3 DEF Editing, AddPoint, EditPoint, TogglePoint, DeletePoint,
        ClearPoints, AddBrowsedPoint

\* And so do the rest.
LEMMA KeepingTells ==
  ASSUME TypeOK, Keeping
  PROVE  AllTold
<1>1. CASE Discover
  BY <1>1, Typed DEF Discover, AllTold, Told, Views
<1>2. CASE BrowseDevice(1)
  BY <1>2, Typed DEF BrowseDevice, AllTold, Told, Views
<1>3. CASE ScanAll
  BY <1>3, Typed DEF ScanAll, AllTold, Told, Views
<1>4. CASE ApplyDevices
  BY <1>4, Typed DEF ApplyDevices, AllTold, Told, Views
<1>5. CASE ApplyPoints
  BY <1>5, Typed DEF ApplyPoints, AllTold, Told, Views
<1>6. CASE ApplyScanProgress
  BY <1>6, Typed DEF ApplyScanProgress, AllTold, Told, Views
<1>7. CASE UNCHANGED <<config, devices, browsed, scanning, ui>>
  BY <1>7 DEF AllTold, Told
<1>8. \/ Discover \/ BrowseDevice(1) \/ ScanAll
      \/ ApplyDevices \/ ApplyPoints \/ ApplyScanProgress
      \/ UNCHANGED <<config, devices, browsed, scanning, ui>>
  BY DEF Keeping, RefusedCall, JobAnswers, DiscoverAnswers, BrowseAnswers, ScanAnswers,
     ScanProgresses, vars
<1> QED BY <1>1, <1>2, <1>3, <1>4, <1>5, <1>6, <1>7, <1>8

\* Every step tells the page what it changed of what the page shows.
LEMMA StepTells ==
  ASSUME TypeOK, [Next]_vars
  PROVE  AllTold
<1>1. ASSUME NEW p \in Protocols, SetProtocol(p) PROVE AllTold
  <2>1. ShownPoints(config') = ShownPoints(config)
    BY <1>1, Typed DEF SetProtocol, Configs, ShownPoints
  <2>2. /\ ui'.cfg = ShownConfig(config') /\ ui'.points = ui.points
        /\ ui'.devices = <<>> /\ ui'.browsed = <<>> /\ devices' = <<>> /\ browsed' = <<>>
        /\ scanning' = scanning /\ ui'.scanning = ui.scanning
    BY <1>1, Typed DEF SetProtocol, Views
  <2> QED BY <2>1, <2>2 DEF AllTold, Told
<1>2. CASE ApplyBulkTagImport
  <2>1. ShownConfig(config') = ShownConfig(config)
    BY <1>2, ImportIsSaved, Typed DEF ShownConfig, Configs
  <2>2. /\ ui'.cfg = ui.cfg /\ ui'.points = ShownPoints(config')
        /\ ui'.devices = ui.devices /\ ui'.browsed = ui.browsed /\ ui'.scanning = ui.scanning
    BY <1>2, ImportIsSaved, Typed DEF Views
  <2>3. UNCHANGED <<devices, browsed>> /\ Untold("scanning")
    BY <1>2, ImportIsSaved DEF ApplyBulkTagImport, Untold
  <2> QED BY <2>1, <2>2, <2>3 DEF AllTold, Told
<1>3. CASE Restart
  <2>1. /\ ui'.cfg = ShownConfig(config') /\ ui'.points = ShownPoints(config')
        /\ ui'.devices = devices' /\ ui'.browsed = browsed' /\ ui'.scanning = scanning'
    BY <1>3 DEF Restart, Boot, Shown
  <2> QED BY <2>1 DEF AllTold, Told
<1> QED BY <1>1, <1>2, <1>3, StepKinds, EditingTells, KeepingTells

\* What the page shows follows what the daemon holds in the step that
\* changes it, except an edit that answers with an error, the topics of the
\* points after new settings and the end of a scan.
THEOREM ChangesAnnounced == Spec => ChangesAreAnnounced
<1>1. ASSUME TypeOK, [Next]_vars
      PROVE  [ \A f \in {"cfg", "points", "devices", "browsed", "scanning"} :
                 /\ Mirror'[f] # Mirror[f] => \/ ui'[f] = Mirror'[f]
                                              \/ Untold(f) /\ ui'[f] = ui[f]
                 /\ ui'[f] # ui[f] => ui'[f] = Mirror'[f] ]_vars
  BY <1>1, StepTells, AllToldSuffices
<1> QED BY <1>1, TypeCorrect, PTL DEF Spec, ChangesAreAnnounced

-----------------------------------------------------------------------------
(* What an import takes away.                                              *)

\* An import in the channel keeps every identity of the list its scan was
\* started with.
ImportsKeep ==
  \A k \in DOMAIN chan : chan[k].kind = "BulkTagImport" =>
    IdsOf(chan[k].existing) \subseteq IdsOf(chan[k].points)

\* A merge keeps them.
LEMMA MergeKeeps ==
  ASSUME NEW old \in PointLists, NEW new \in PointLists, NEW found, IsMerge(old, found, new)
  PROVE  IdsOf(old) \subseteq IdsOf(new)
<1>1. /\ DOMAIN old = 1..Len(old) /\ DOMAIN new = 1..Len(new)
      /\ Len(old) \in Nat /\ Len(new) \in Nat
  BY ListIsSequence
<1>2. \A i \in DOMAIN old : i \in DOMAIN new /\ new[i].id = old[i].id
  BY <1>1 DEF IsMerge
<1> QED BY <1>2 DEF IdsOf

\* An event sent or taken keeps the invariant.
LEMMA SendKeeps ==
  ASSUME TypeOK, ImportsKeep, NEW e \in Events, chan' = Append(chan, e),
         e.kind = "BulkTagImport" => IdsOf(e.existing) \subseteq IdsOf(e.points)
  PROVE  ImportsKeep'
<1>1. /\ DOMAIN chan = 1..Len(chan) /\ Len(chan) \in Nat /\ DOMAIN chan' = 1 .. Len(chan) + 1
      /\ chan'[Len(chan) + 1] = e
      /\ \A k \in DOMAIN chan : chan'[k] = chan[k]
  BY DEF TypeOK
<1>2. \A k \in DOMAIN chan' : k \in DOMAIN chan \/ chan'[k] = e
  BY <1>1
<1> QED BY <1>1, <1>2 DEF ImportsKeep

\* Taking an event from the channel leaves the imports behind it as they are.
LEMMA TakeKeeps ==
  ASSUME TypeOK, ImportsKeep, NEW kind, NextEvent(kind)
  PROVE  ImportsKeep'
<1>1. \A k \in DOMAIN chan' : k + 1 \in DOMAIN chan /\ chan'[k] = chan[k + 1]
  BY DEF NextEvent, TypeOK
<1> QED BY <1>1 DEF ImportsKeep

\* Every step does.
LEMMA NextImportsKeep ==
  ASSUME TypeOK, ImportsKeep, [Next]_vars
  PROVE  ImportsKeep'
<1>1. CASE UNCHANGED chan
  BY <1>1 DEF ImportsKeep
<1>2. ASSUME NEW j \in Jobs, DiscoverAnswers(j) PROVE ImportsKeep'
  BY <1>2, SendKeeps DEF DiscoverAnswers, Send, Events
<1>3. ASSUME NEW j \in Jobs, BrowseAnswers(j) PROVE ImportsKeep'
  BY <1>3, SendKeeps DEF BrowseAnswers, Send, Events
<1>4. ASSUME NEW j \in Jobs, ScanProgresses(j) PROVE ImportsKeep'
  BY <1>4, SendKeeps DEF ScanProgresses, Send, Events
<1>5. ASSUME NEW j \in Jobs, ScanAnswers(j) PROVE ImportsKeep'
  <2>1. job[j] \in JobRecords /\ job[j].kind = "scan"
    BY <1>5 DEF ScanAnswers, TypeOK
  <2>2. job[j].existing \in PointLists
    BY <2>1 DEF JobRecords
  <2>3. PICK found \in Findings, merged \in PointLists :
          /\ IsMerge(job[j].existing, found, merged)
          /\ Send([kind |-> "BulkTagImport", points |-> merged, existing |-> job[j].existing])
    BY <1>5 DEF ScanAnswers
  <2> DEFINE e == [kind |-> "BulkTagImport", points |-> merged, existing |-> job[j].existing]
  <2>4. e \in Events /\ e.points = merged /\ e.existing = job[j].existing
    BY <2>2 DEF Events
  <2>5. IdsOf(e.existing) \subseteq IdsOf(e.points)
    BY <2>2, <2>3, <2>4, MergeKeeps
  <2>6. chan' = Append(chan, e)
    BY <2>3 DEF Send
  <2> HIDE DEF e
  <2> QED BY <2>4, <2>5, <2>6, SendKeeps
<1>6. CASE Drain
  BY <1>6, TakeKeeps DEF Drain, ApplyDevices, ApplyPoints, ApplyScanProgress, ApplyBulkTagImport
<1>7. CASE Restart
  BY <1>7 DEF Restart, Boot, ImportsKeep
<1>8. CASE Operator
  <2>1. Editing => UNCHANGED chan
    BY EditingSaves
  <2> QED BY <1>1, <1>8, <2>1 DEF Operator, Editing, SetProtocol, Discover, BrowseDevice, ScanAll,
          RefusedCall
<1> QED BY <1>1, <1>2, <1>3, <1>4, <1>5, <1>6, <1>7, <1>8 DEF Next, JobAnswers, vars

\* The invariant, with the types.
LEMMA ImportsAlwaysKeep == Spec => [](TypeOK /\ ImportsKeep)
<1>1. Init => TypeOK /\ ImportsKeep
  BY InitTypeOK DEF Init, ImportsKeep
<1>2. TypeOK /\ ImportsKeep /\ [Next]_vars => TypeOK' /\ ImportsKeep'
  BY NextTypeOK, NextImportsKeep
<1> QED BY <1>1, <1>2, PTL DEF Spec

\* The edits that take no identity away.
LEMMA EditingRemoves ==
  ASSUME TypeOK, Editing
  PROVE  \/ IdsOf(config.points) \subseteq IdsOf(config'.points)
         \/ outcome'.op \in {"delete_point", "clear_points", "save_point"}
<1> DEFINE s == config.points
<1>0. s \in PointLists
  BY Typed
<1>1. ASSUME NEW op, NEW points, EditPoints(op, points) PROVE config'.points = points /\ outcome'.op = op
  BY <1>1, EditIsSaved, Typed DEF EditPoints, Configs
<1>2. ASSUME NEW v \in Conns, SetConnection(v) PROVE config'.points = s
  BY <1>2, EditIsSaved, Typed DEF SetConnection, Configs
<1>3. ASSUME NEW v \in Settings, PutSettings(v) PROVE config'.points = s
  BY <1>3, EditIsSaved, Typed DEF PutSettings, Configs
<1>4. ASSUME NEW i \in 1..MaxPoints, NEW b \in Bodies, TogglePoint(i, b)
      PROVE  IdsOf(s) \subseteq IdsOf(config'.points)
  <2> DEFINE t == [s EXCEPT ![i].body = b]
  <2>1. config'.points = t
    BY <1>1, <1>4 DEF TogglePoint
  <2>2. \A k \in DOMAIN s : s[k] \in Points
    BY <1>0, ListIsSequence
  <2>3. DOMAIN t = DOMAIN s /\ \A k \in DOMAIN s : t[k].id = s[k].id
    BY <2>2 DEF Points
  <2> QED BY <2>1, <2>3 DEF IdsOf
<1>5. ASSUME AddBrowsedPoint(1) PROVE IdsOf(s) \subseteq IdsOf(config'.points)
  <2>1. browsed[1] \in Points
    BY <1>5, BrowsedIsPoint DEF AddBrowsedPoint
  <2>2. /\ browsed[1].id \in IdsOf(s) \/ Len(s) < MaxPushed
        /\ config'.points = UpsertFirst(s, browsed[1])
    BY <1>1, <1>5 DEF AddBrowsedPoint
  <2> QED BY <1>0, <2>1, <2>2, Upserted
<1> QED BY <1>1, <1>2, <1>3, <1>4, <1>5 DEF Editing, AddPoint, EditPoint, DeletePoint, ClearPoints

\* A point leaves the list only by a removal, at a start, or because an
\* import was computed from a list that has changed meanwhile.
THEOREM RemovalsOnly == Spec => OnlyRemovalsRemove
<1>1. ASSUME TypeOK, ImportsKeep, [Next]_vars
      PROVE  [ IdsOf(config.points) \ IdsOf(config'.points) # {} =>
                 \/ outcome'.op \in {"delete_point", "clear_points", "save_point", "boot"}
                 \/ /\ outcome'.op = "BulkTagImport"
                    /\ Head(chan).existing # config.points ]_vars
  <2>1. CASE Editing
    BY <1>1, <2>1, EditingRemoves
  <2>2. CASE Keeping
    BY <2>2, KeepingKeeps
  <2>3. CASE \E p \in Protocols : SetProtocol(p)
    BY <1>1, <2>3, Typed DEF SetProtocol, Configs
  <2>4. CASE ApplyBulkTagImport
    <3>1. config'.points = Head(chan).points /\ outcome'.op = "BulkTagImport"
      BY <1>1, <2>4, ImportIsSaved, Typed DEF Configs
    <3>2. /\ Head(chan).kind = "BulkTagImport" /\ 1 \in DOMAIN chan /\ Head(chan) = chan[1]
      BY <1>1, <2>4, HeadType DEF ApplyBulkTagImport, NextEvent
    <3>3. IdsOf(Head(chan).existing) \subseteq IdsOf(Head(chan).points)
      BY <1>1, <3>2 DEF ImportsKeep
    <3> QED BY <3>1, <3>3
  <2>5. CASE Restart
    BY <2>5 DEF Restart
  <2> QED BY <1>1, <2>1, <2>2, <2>3, <2>4, <2>5, StepKinds
<1> QED BY <1>1, ImportsAlwaysKeep, PTL DEF Spec, OnlyRemovalsRemove
=============================================================================
