-------------------------- MODULE PointStatusProofs --------------------------
(***************************************************************************)
(* Proofs about module PointStatus, for every set of identities and every  *)
(* number of workers, deltas and points: its type invariant, that a page   *)
(* which has handled its deltas shows each point in the place the daemon   *)
(* has it in, and with the status the daemon has for it, and that its      *)
(* editor names the point it was opened on while no list came under it.    *)
(*                                                                         *)
(* Neither holds of a page that has deltas before it.  The strengthening   *)
(* is about the last delta under way that tells the list, and the last     *)
(* that tells of an identity.                                              *)
(***************************************************************************)
EXTENDS PointStatus, SequenceTheorems, TLAPS

TellsList(k) == "list" \in DOMAIN queue[k]

Tells(k, id) == id \in DOMAIN queue[k].status

\* Delta k is the last under way that tells the list.
LastList(k) == TellsList(k) /\ \A j \in DOMAIN queue : j > k => ~TellsList(j)

\* Delta k is the last under way that tells of the identity, and no list
\* without it follows.
LastWord(k, id) ==
  /\ Tells(k, id)
  /\ \A j \in DOMAIN queue : j > k => ~TellsList(j) /\ ~Tells(j, id)

\* A delta that tells the list tells the status of each point in it, and the
\* page has one for each point it shows.
ListsTellStatus ==
  /\ \A k \in DOMAIN queue : TellsList(k) => Range(queue[k].list) \subseteq DOMAIN queue[k].status
  /\ Range(page.list) \subseteq DOMAIN page.status

ListInv ==
  "points" \notin untold =>
    /\ \A k \in DOMAIN queue : LastList(k) => queue[k].list = points
    /\ (\A k \in DOMAIN queue : ~TellsList(k)) => page.list = points

StatusInv ==
  \A id \in Ids \ untold :
    /\ \A k \in DOMAIN queue : LastWord(k, id) => queue[k].status[id] = Chip(id)
    /\ /\ \A k \in DOMAIN queue : ~TellsList(k) /\ ~Tells(k, id)
       /\ id \in Range(page.list)
       => page.status[id] = Chip(id)

\* An editor under which no list came holds a place of the list shown.
EditorInv ==
  editor # NewPoint /\ ~editor.relisted =>
    editor.at \in DOMAIN page.list /\ page.list[editor.at] = editor.point

ViewInv == ListsTellStatus /\ ListInv /\ StatusInv

-----------------------------------------------------------------------------
(* Type correctness.                                                       *)

Delta == [list : Lists, status : Partial(Chips)] \cup [status : Partial(Chips)]

Editor == {NewPoint} \cup [at : Rows, point : Ids, relisted : BOOLEAN]

Status == [readFailed : BOOLEAN, publishFailed : BOOLEAN]

\* The lists are the sequences of at most MaxPoints identities.
LEMMA ListIsSequence ==
  ASSUME NEW s \in Lists
  PROVE  s \in Seq(Ids) /\ Len(s) <= MaxPoints
<1>1. PICK n \in 0..MaxPoints : s \in [1..n -> Ids]
  BY DEF Lists
<1>2. n \in Nat /\ n <= MaxPoints
  BY <1>1, PointAssumption
<1>3. s \in Seq(Ids)
  BY <1>1, <1>2, SeqDef
<1>4. Len(s) = n
  BY <1>1, <1>2, <1>3
<1> QED BY <1>2, <1>3, <1>4

\* A sequence of few enough identities is a list.
LEMMA SequenceIsList ==
  ASSUME NEW s \in Seq(Ids), Len(s) <= MaxPoints
  PROVE  s \in Lists
<1>1. s \in [1..Len(s) -> Ids] /\ Len(s) \in 0..MaxPoints
  BY PointAssumption
<1> QED BY <1>1 DEF Lists

\* The identities of a list.
LEMMA RangeOfList ==
  ASSUME NEW s \in Lists
  PROVE  Range(s) \subseteq Ids
BY ListIsSequence DEF Range

\* A map from some identities, told by its domain and its values.
LEMMA PartialIs ==
  ASSUME NEW S, NEW D, D \subseteq Ids, NEW f, f \in [D -> S]
  PROVE  f \in Partial(S)
BY DEF Partial

\* What a map holds for the identities it knows.
LEMMA PartialHas ==
  ASSUME NEW S, NEW f \in Partial(S)
  PROVE  /\ DOMAIN f \subseteq Ids /\ f \in [DOMAIN f -> S]
         /\ \A id \in DOMAIN f : f[id] \in S
BY DEF Partial

\* Merging maps of one kind gives a map of that kind.
LEMMA MergeType ==
  ASSUME NEW S, NEW f \in Partial(S), NEW g \in Partial(S)
  PROVE  Merge(f, g) \in Partial(S)
<1>1. Merge(f, g) \in [DOMAIN f \cup DOMAIN g -> S]
  BY PartialHas DEF Merge
<1>2. DOMAIN f \cup DOMAIN g \subseteq Ids
  BY PartialHas
<1> QED BY <1>1, <1>2, PartialIs

\* What is sent has the type of what is received, before and after a step.
LEMMA DeltaTypes ==
  ASSUME points \in Lists, statuses \in Partial(Status)
  PROVE  /\ PointsDelta \in [list : Lists, status : Partial(Chips)]
         /\ \A ids \in SUBSET Ids : StatusDelta(ids) \in [status : Partial(Chips)]
<1>1. \A id \in Ids : Chip(id) \in Chips
  BY DEF Chip, Chips
<1>2. [id \in Range(points) |-> Chip(id)] \in Partial(Chips)
  BY <1>1, RangeOfList DEF Partial
<1>3. \A ids \in SUBSET Ids : [id \in ids |-> Chip(id)] \in Partial(Chips)
  BY <1>1 DEF Partial
<1> QED BY <1>1, <1>2, <1>3 DEF PointsDelta, StatusDelta

\* The same of the deltas a step sends.
LEMMA DeltaTypesNext ==
  ASSUME points' \in Lists, statuses' \in Partial(Status)
  PROVE  /\ PointsDelta' \in Delta
         /\ \A ids \in SUBSET Ids : StatusDelta(ids)' \in Delta
<1>1. \A id \in Ids : Chip(id)' \in Chips
  BY DEF Chip, Chips
<1>2. [id \in Range(points') |-> Chip(id)'] \in Partial(Chips)
  BY <1>1, RangeOfList DEF Partial
<1>3. \A ids \in SUBSET Ids : [id \in ids |-> Chip(id)'] \in Partial(Chips)
  BY <1>1 DEF Partial
<1> QED BY <1>1, <1>2, <1>3 DEF PointsDelta, StatusDelta, Delta

\* An emission keeps the queue one of deltas.
LEMMA EmitType ==
  ASSUME TypeOK, NEW delta \in Delta, Emit(delta)
  PROVE  queue' \in Seq(Delta)
BY DEF Emit, TypeOK, Delta

\* An edit of the list, saved or not, keeps the types.
LEMMA EditType ==
  ASSUME TypeOK, NEW list \in Lists, Edit(list)
  PROVE  /\ points' \in Lists /\ queue' \in Seq(Delta)
         /\ editor' \in Editor /\ untold' \subseteq Ids \cup {"points"}
         /\ UNCHANGED <<statuses, copies, page>>
<1>1. points' \in Lists /\ UNCHANGED <<statuses, copies, page>>
  BY DEF Edit
<1>2. PointsDelta' \in Delta
  BY <1>1, DeltaTypesNext DEF TypeOK, Status
<1>3. queue \in Seq(Delta) /\ editor \in Editor /\ untold \subseteq Ids \cup {"points"}
  BY DEF TypeOK, Delta, Editor
<1>4. CASE Emit(PointsDelta') /\ untold' = {} /\ editor' \in {editor, NewPoint}
  BY <1>1, <1>2, <1>3, <1>4 DEF Emit, Editor
<1>5. CASE untold' = untold \cup {"points"} /\ UNCHANGED <<queue, editor>>
  BY <1>1, <1>3, <1>5
<1> QED BY <1>4, <1>5 DEF Edit

\* What the handlers make of the list is a list.
LEMMA EditedLists ==
  ASSUME points \in Lists
  PROVE  /\ \A id \in Ids : Len(points) < MaxPoints => Append(points, id) \in Lists
         /\ \A i \in DOMAIN points, id \in Ids : [points EXCEPT ![i] = id] \in Lists
         /\ \A i \in DOMAIN points :
              SubSeq(points, 1, i - 1) \o SubSeq(points, i + 1, Len(points)) \in Lists
<1>1. points \in Seq(Ids) /\ Len(points) <= MaxPoints /\ Len(points) \in Nat
  BY ListIsSequence
<1>2. ASSUME NEW id \in Ids, Len(points) < MaxPoints PROVE Append(points, id) \in Lists
  <2>1. Append(points, id) \in Seq(Ids) /\ Len(Append(points, id)) = Len(points) + 1
    BY <1>1
  <2>2. Len(Append(points, id)) <= MaxPoints
    BY <1>1, <1>2, <2>1, PointAssumption
  <2> QED BY <2>1, <2>2, SequenceIsList
<1>3. ASSUME NEW i \in DOMAIN points, NEW id \in Ids PROVE [points EXCEPT ![i] = id] \in Lists
  <2>1. /\ [points EXCEPT ![i] = id] \in Seq(Ids)
        /\ Len([points EXCEPT ![i] = id]) = Len(points)
    BY <1>1, ExceptSeq
  <2> QED BY <1>1, <2>1, SequenceIsList
<1>4. ASSUME NEW i \in DOMAIN points
      PROVE  SubSeq(points, 1, i - 1) \o SubSeq(points, i + 1, Len(points)) \in Lists
  <2> DEFINE front == SubSeq(points, 1, i - 1)
             back == SubSeq(points, i + 1, Len(points))
  <2>1. i \in 1..Len(points) /\ \A j \in 1..Len(points) : points[j] \in Ids
    BY <1>1, <1>4
  <2>2. front \in Seq(Ids) /\ Len(front) = i - 1
    <3>1. i - 1 \in Int /\ \A j \in 1 .. i - 1 : points[j] \in Ids
      BY <1>1, <2>1
    <3>2. front \in Seq(Ids) /\ Len(front) = IF 1 <= i - 1 THEN (i - 1) - 1 + 1 ELSE 0
      BY <3>1, SubSeqProperties
    <3> QED BY <2>1, <3>2
  <2>3. back \in Seq(Ids) /\ Len(back) = Len(points) - i
    <3>1. i + 1 \in Int /\ Len(points) \in Int /\ \A j \in i + 1 .. Len(points) : points[j] \in Ids
      BY <1>1, <2>1
    <3>2. back \in Seq(Ids) /\ Len(back) = IF i + 1 <= Len(points)
                                           THEN Len(points) - (i + 1) + 1 ELSE 0
      BY <3>1, SubSeqProperties
    <3> QED BY <1>1, <2>1, <3>2
  <2> HIDE DEF front, back
  <2>4. front \o back \in Seq(Ids) /\ Len(front \o back) = Len(front) + Len(back)
    BY <2>2, <2>3, ConcatProperties
  <2>5. Len(front \o back) <= MaxPoints
    BY <1>1, <2>1, <2>2, <2>3, <2>4, PointAssumption
  <2> QED BY <2>4, <2>5, SequenceIsList DEF front, back
<1> QED BY <1>2, <1>3, <1>4

\* A report about some identities keeps the types.
LEMMA ReportType ==
  ASSUME TypeOK, NEW ids \in SUBSET Ids, NEW new \in [ids -> Status],
         statuses' = Merge(new, statuses), Emit(StatusDelta(ids)'), UNCHANGED points
  PROVE  statuses' \in Partial(Status) /\ queue' \in Seq(Delta)
<1>1. new \in Partial(Status) /\ statuses \in Partial(Status)
  BY PartialIs DEF TypeOK, Status
<1>2. statuses' \in Partial(Status)
  BY <1>1, MergeType
<1>3. StatusDelta(ids)' \in Delta
  BY <1>2, DeltaTypesNext DEF TypeOK
<1> QED BY <1>2, <1>3, EmitType

\* The entry a report starts from.
LEMMA StatusOfType ==
  ASSUME TypeOK, NEW id \in Ids, NEW b \in BOOLEAN
  PROVE  /\ [StatusOf(id) EXCEPT !.readFailed = b] \in Status
         /\ [StatusOf(id) EXCEPT !.publishFailed = b] \in Status
<1>1. StatusOf(id) \in Status
  <2>1. id \in DOMAIN statuses => statuses[id] \in Status
    BY PartialHas DEF TypeOK, Status
  <2> QED BY <2>1 DEF StatusOf, Status
<1> QED BY <1>1 DEF Status

\* The type invariant holds initially: the page has just connected.
LEMMA InitTypeOK == Init => TypeOK
<1> SUFFICES ASSUME Init PROVE TypeOK
  OBVIOUS
<1>1. points \in Lists /\ statuses = NoStatuses
  BY DEF Init
<1>2. statuses \in Partial(Status)
  <2>1. NoStatuses \in [{} -> Status]
    BY DEF NoStatuses
  <2> QED BY <1>1, <2>1, PartialIs
<1>3. page \in [list : Lists, status : Partial(Chips)]
  BY <1>1, <1>2, DeltaTypes DEF Init
<1>4. queue \in Seq(Delta)
  BY DEF Init
<1> QED BY <1>1, <1>2, <1>3, <1>4 DEF Init, TypeOK, Delta, Status, Editor

\* Every step keeps the types.
LEMMA NextTypeOK == TypeOK /\ [Next]_vars => TypeOK'
<1> SUFFICES ASSUME TypeOK, [Next]_vars PROVE TypeOK'
  OBVIOUS
<1>0. /\ points \in Lists /\ statuses \in Partial(Status) /\ queue \in Seq(Delta)
      /\ copies \in [Workers -> SUBSET Ids]
      /\ page \in [list : Lists, status : Partial(Chips)]
      /\ editor \in Editor /\ untold \subseteq Ids \cup {"points"}
  BY DEF TypeOK, Delta, Status, Editor
<1>a. SUFFICES /\ points' \in Lists /\ statuses' \in Partial(Status) /\ queue' \in Seq(Delta)
               /\ copies' \in [Workers -> SUBSET Ids]
               /\ page' \in [list : Lists, status : Partial(Chips)]
               /\ editor' \in Editor /\ untold' \subseteq Ids \cup {"points"}
  BY DEF TypeOK, Delta, Status, Editor
<1> DEFINE Goal == /\ points' \in Lists /\ statuses' \in Partial(Status)
                   /\ queue' \in Seq(Delta)
                   /\ copies' \in [Workers -> SUBSET Ids]
                   /\ page' \in [list : Lists, status : Partial(Chips)]
                   /\ editor' \in Editor /\ untold' \subseteq Ids \cup {"points"}
<1>1. ASSUME NEW list \in Lists, Edit(list) PROVE Goal
  BY <1>0, <1>1, EditType
<1>2. ASSUME NEW id \in Ids, AddPoint(id) PROVE Goal
  BY <1>0, <1>1, <1>2, EditedLists DEF AddPoint
<1>3. ASSUME NEW i \in 1..MaxPoints, NEW id \in Ids, EditPoint(i, id) PROVE Goal
  BY <1>0, <1>1, <1>3, EditedLists DEF EditPoint
<1>4. ASSUME NEW i \in 1..MaxPoints, DeletePoint(i) PROVE Goal
  BY <1>0, <1>1, <1>4, EditedLists DEF DeletePoint
<1>5. CASE ClearPoints
  <2>1. points' \in Lists /\ statuses' \in Partial(Status) /\ UNCHANGED <<copies, page>>
    <3>1. <<>> \in Lists
      <4>1. <<>> \in Seq(Ids) /\ Len(<<>>) <= MaxPoints
        BY PointAssumption
      <4> QED BY <4>1, SequenceIsList
    <3>2. NoStatuses \in Partial(Status)
      <4>1. NoStatuses \in [{} -> Status]
        BY DEF NoStatuses
      <4> QED BY <4>1, PartialIs
    <3> QED BY <1>5, <3>1, <3>2 DEF ClearPoints
  <2>2. PointsDelta' \in Delta
    BY <2>1, DeltaTypesNext
  <2>3. CASE Emit(PointsDelta') /\ untold' = {} /\ editor' \in {editor, NewPoint}
    BY <1>0, <2>1, <2>2, <2>3, EmitType DEF Editor
  <2>4. CASE /\ untold' = untold \cup {"points"} \cup DOMAIN statuses
             /\ UNCHANGED <<queue, editor>>
    BY <1>0, <2>1, <2>4, PartialHas
  <2> QED BY <1>5, <2>3, <2>4 DEF ClearPoints
<1>6. CASE Import
  <2>1. points' \in Lists /\ UNCHANGED <<statuses, copies, page, editor>>
    BY <1>6 DEF Import
  <2>2. PointsDelta' \in Delta
    BY <1>0, <2>1, DeltaTypesNext
  <2> QED BY <1>0, <1>6, <2>1, <2>2, EmitType DEF Import
<1>7. ASSUME NEW w \in Workers, NEW failed \in BOOLEAN, Reads(w, failed) PROVE Goal
  <2>1. PICK ids \in (SUBSET copies[w]) \ {{}} :
          /\ statuses' = Merge([id \in ids |-> [StatusOf(id) EXCEPT !.readFailed = failed]], statuses)
          /\ Emit(StatusDelta(ids)') /\ untold' = untold \ ids
          /\ UNCHANGED <<points, copies, page, editor>>
    BY <1>7 DEF Reads
  <2>2. ids \in SUBSET Ids
    BY <1>0
  <2>3. [id \in ids |-> [StatusOf(id) EXCEPT !.readFailed = failed]] \in [ids -> Status]
    BY <2>2, StatusOfType
  <2> QED BY <1>0, <2>1, <2>2, <2>3, ReportType
<1>8. ASSUME NEW w \in Workers, NEW failed \in BOOLEAN, Publishes(w, failed) PROVE Goal
  <2>1. PICK id \in copies[w] :
          /\ statuses' = Merge([i \in {id} |-> [StatusOf(id) EXCEPT !.publishFailed = failed]], statuses)
          /\ Emit(StatusDelta({id})') /\ untold' = untold \ {id}
          /\ UNCHANGED <<points, copies, page, editor>>
    BY <1>8 DEF Publishes
  <2>2. {id} \in SUBSET Ids /\ id \in Ids
    BY <1>0
  <2>3. [i \in {id} |-> [StatusOf(id) EXCEPT !.publishFailed = failed]] \in [{id} -> Status]
    BY <2>2, StatusOfType
  <2> QED BY <1>0, <2>1, <2>2, <2>3, ReportType
<1>9. ASSUME NEW w \in Workers, Spawn(w) \/ WorkerEnds(w) PROVE Goal
  <2>1. CASE Spawn(w)
    <3>1. PICK enabled \in SUBSET Range(points), discovered \in SUBSET Ids :
            copies' = [copies EXCEPT ![w] = enabled \cup discovered]
      BY <2>1 DEF Spawn
    <3>2. enabled \cup discovered \in SUBSET Ids
      BY <1>0, RangeOfList
    <3> QED BY <1>0, <2>1, <3>1, <3>2 DEF Spawn
  <2>2. CASE WorkerEnds(w)
    BY <1>0, <2>2 DEF WorkerEnds
  <2> QED BY <1>9, <2>1, <2>2
<1>10. CASE Deliver
  <2>1. Head(queue) \in Delta /\ queue' \in Seq(Delta) /\ UNCHANGED <<points, statuses, copies, untold>>
    BY <1>0, <1>10, HeadTailProperties DEF Deliver
  <2>2. Head(queue).status \in Partial(Chips)
    BY <2>1 DEF Delta
  <2>3. "list" \in DOMAIN Head(queue) => Head(queue).list \in Lists
    BY <2>1 DEF Delta
  <2>4. Merge(Head(queue).status, page.status) \in Partial(Chips)
    BY <1>0, <2>2, MergeType
  <2>5. page' = [list |-> IF "list" \in DOMAIN Head(queue) THEN Head(queue).list ELSE page.list,
                 status |-> Merge(Head(queue).status, page.status)]
    BY <1>10 DEF Deliver
  <2>6. editor' \in Editor
    BY <1>0, <1>10 DEF Deliver, Editor
  <2> QED BY <1>0, <2>1, <2>3, <2>4, <2>5, <2>6
<1>11. CASE Reconnect
  BY <1>0, <1>11, DeltaTypes DEF Reconnect, Editor
<1>13. ASSUME NEW i \in Rows, OpenEditor(i) PROVE Goal
  <2>1. page.list[i] \in Ids
    BY <1>0, <1>13, ListIsSequence DEF OpenEditor
  <2> QED BY <1>0, <1>13, <2>1 DEF OpenEditor, Editor
<1>14. CASE ResetEditor
  BY <1>0, <1>14 DEF ResetEditor, Editor
<1>12. CASE UNCHANGED vars
  BY <1>0, <1>12 DEF vars
<1> QED BY <1>2, <1>3, <1>4, <1>5, <1>6, <1>7, <1>8, <1>9, <1>10, <1>11, <1>12,
       <1>13, <1>14 DEF Next

\* The variables keep their types in every behaviour.
THEOREM TypeCorrect == Spec => []TypeOK
<1> QED BY InitTypeOK, NextTypeOK, PTL DEF Spec

-----------------------------------------------------------------------------
(* The page and the deltas before it.                                      *)

\* The queue and the deltas in it, one by one.
LEMMA QueueTyped ==
  ASSUME TypeOK
  PROVE  /\ queue \in Seq(Delta) /\ Len(queue) \in Nat
         /\ DOMAIN queue = 1..Len(queue)
         /\ \A k \in DOMAIN queue : queue[k] \in Delta
<1>1. queue \in Seq(Delta)
  BY DEF TypeOK, Delta
<1> QED BY <1>1

\* The queue after an emission.
LEMMA QueueEmitted ==
  ASSUME TypeOK, NEW delta \in Delta, queue' = Append(queue, delta)
  PROVE  /\ DOMAIN queue' = 1 .. Len(queue) + 1
         /\ \A k \in DOMAIN queue : k \in DOMAIN queue' /\ queue'[k] = queue[k] /\ k < Len(queue) + 1
         /\ \A k \in DOMAIN queue' : k \in DOMAIN queue \/ k = Len(queue) + 1
         /\ queue'[Len(queue) + 1] = delta
<1>1. queue \in Seq(Delta) /\ Len(queue) \in Nat /\ DOMAIN queue = 1..Len(queue)
  BY QueueTyped
<1> QED BY <1>1

\* A delta of the list settles the place and the status of every point in it.
LEMMA ListEmitted ==
  ASSUME TypeOK, ListsTellStatus, PointsDelta' \in Delta,
         queue' = Append(queue, PointsDelta'), UNCHANGED page
  PROVE  ViewInv'
<1> DEFINE last == Len(queue) + 1
<1>1. /\ \A k \in DOMAIN queue : k \in DOMAIN queue' /\ queue'[k] = queue[k] /\ k < last
      /\ \A k \in DOMAIN queue' : k \in DOMAIN queue \/ k = last
      /\ last \in DOMAIN queue' /\ queue'[last] = PointsDelta'
  BY QueueEmitted, QueueTyped
<1> HIDE DEF last
<1>2. /\ "list" \in DOMAIN queue'[last] /\ queue'[last].list = points'
      /\ DOMAIN queue'[last].status = Range(points')
      /\ \A id \in Range(points') : queue'[last].status[id] = Chip(id)'
  BY <1>1 DEF PointsDelta
<1>3. ListsTellStatus'
  BY <1>1, <1>2 DEF ListsTellStatus, TellsList
<1>4. ListInv'
  BY <1>1, <1>2 DEF ListInv, LastList, TellsList
<1>5. StatusInv'
  BY <1>1, <1>2 DEF StatusInv, LastWord, TellsList, Tells
<1> QED BY <1>3, <1>4, <1>5 DEF ViewInv

\* A delta of statuses settles the status of the identities it names, and
\* changes nothing about the others.
LEMMA StatusEmitted ==
  ASSUME TypeOK, ViewInv, NEW ids \in SUBSET Ids, StatusDelta(ids)' \in Delta,
         queue' = Append(queue, StatusDelta(ids)'),
         UNCHANGED <<points, page>>, untold' = untold \ ids,
         \A id \in Ids \ ids : Chip(id)' = Chip(id)
  PROVE  ViewInv'
<1> DEFINE last == Len(queue) + 1
<1>1. /\ \A k \in DOMAIN queue : k \in DOMAIN queue' /\ queue'[k] = queue[k] /\ k < last
      /\ \A k \in DOMAIN queue' : k \in DOMAIN queue \/ k = last
      /\ last \in DOMAIN queue' /\ queue'[last] = StatusDelta(ids)'
  BY QueueEmitted, QueueTyped
<1> HIDE DEF last
<1>2. /\ "list" \notin DOMAIN queue'[last]
      /\ DOMAIN queue'[last].status = ids
      /\ \A id \in ids : queue'[last].status[id] = Chip(id)'
  BY <1>1 DEF StatusDelta
<1>3. ListsTellStatus'
  BY <1>1, <1>2 DEF ViewInv, ListsTellStatus, TellsList
<1>4. ListInv'
  <2> SUFFICES ASSUME "points" \notin untold'
               PROVE  /\ \A k \in DOMAIN queue' : LastList(k)' => queue'[k].list = points'
                      /\ (\A k \in DOMAIN queue' : ~TellsList(k)') => page'.list = points'
    BY DEF ListInv
  <2>1. "points" \notin untold
    BY PointAssumption
  <2>2. \A k \in DOMAIN queue' : LastList(k)' => k \in DOMAIN queue /\ LastList(k)
    BY <1>1, <1>2 DEF LastList, TellsList
  <2>3. (\A k \in DOMAIN queue' : ~TellsList(k)') => \A k \in DOMAIN queue : ~TellsList(k)
    BY <1>1 DEF TellsList
  <2> QED BY <1>1, <2>1, <2>2, <2>3 DEF ViewInv, ListInv
<1>5. StatusInv'
  <2> SUFFICES ASSUME NEW id \in Ids, id \notin untold'
               PROVE  /\ \A k \in DOMAIN queue' : LastWord(k, id)' =>
                           queue'[k].status[id] = Chip(id)'
                      /\ /\ \A k \in DOMAIN queue' : ~TellsList(k)' /\ ~Tells(k, id)'
                         /\ id \in Range(page'.list)
                         => page'.status[id] = Chip(id)'
    BY DEF StatusInv
  <2>1. CASE id \in ids
    <3>1. \A k \in DOMAIN queue' : LastWord(k, id)' => k = last
      BY <1>1, <1>2, <2>1 DEF LastWord, Tells
    <3>2. ~(\A k \in DOMAIN queue' : ~TellsList(k)' /\ ~Tells(k, id)')
      BY <1>1, <1>2, <2>1 DEF Tells
    <3> QED BY <1>2, <2>1, <3>1, <3>2
  <2>2. CASE id \notin ids
    <3>1. id \in Ids \ untold /\ Chip(id)' = Chip(id)
      BY <2>2
    <3>2. \A k \in DOMAIN queue' : LastWord(k, id)' => k \in DOMAIN queue /\ LastWord(k, id)
      BY <1>1, <1>2, <2>2 DEF LastWord, TellsList, Tells
    <3>3. (\A k \in DOMAIN queue' : ~TellsList(k)' /\ ~Tells(k, id)') =>
            \A k \in DOMAIN queue : ~TellsList(k) /\ ~Tells(k, id)
      BY <1>1 DEF TellsList, Tells
    <3> QED BY <1>1, <3>1, <3>2, <3>3 DEF ViewInv, StatusInv
  <2> QED BY <2>1, <2>2
<1> QED BY <1>3, <1>4, <1>5 DEF ViewInv

\* A change the page is not told of is noted.
LEMMA Unsaid ==
  ASSUME ViewInv, UNCHANGED <<queue, page>>, untold \subseteq untold',
         points' = points \/ "points" \in untold',
         \A id \in Ids \ untold' : Chip(id)' = Chip(id)
  PROVE  ViewInv'
BY DEF ViewInv, ListsTellStatus, ListInv, StatusInv, LastList, LastWord, TellsList, Tells

\* The page handles the first delta.
LEMMA Delivered ==
  ASSUME TypeOK, ViewInv, Deliver
  PROVE  ViewInv'
<1>1. /\ queue # <<>> /\ queue' = Tail(queue) /\ 1 \in DOMAIN queue /\ Head(queue) = queue[1]
      /\ UNCHANGED <<points, statuses, untold>>
  BY QueueTyped DEF Deliver
<1>2. /\ \A k \in DOMAIN queue' : k + 1 \in DOMAIN queue /\ queue'[k] = queue[k + 1] /\ k \in Nat
      /\ \A k \in DOMAIN queue : k = 1 \/ (k - 1 \in DOMAIN queue' /\ queue'[k - 1] = queue[k])
      /\ \A k \in DOMAIN queue : k \in Nat \ {0}
  BY <1>1, QueueTyped
<1>3. /\ page'.list = IF TellsList(1) THEN queue[1].list ELSE page.list
      /\ page'.status = Merge(queue[1].status, page.status)
  BY <1>1 DEF Deliver, TellsList
<1>4. ListsTellStatus'
  <2>1. \A k \in DOMAIN queue' : TellsList(k)' => Range(queue'[k].list) \subseteq DOMAIN queue'[k].status
    BY <1>2 DEF ViewInv, ListsTellStatus, TellsList
  <2>2. Range(page'.list) \subseteq DOMAIN queue[1].status \cup DOMAIN page.status
    BY <1>1, <1>3 DEF ViewInv, ListsTellStatus
  <2>3. DOMAIN page'.status = DOMAIN queue[1].status \cup DOMAIN page.status
    BY <1>3 DEF Merge
  <2> QED BY <2>1, <2>2, <2>3 DEF ListsTellStatus
<1>5. ListInv'
  <2> SUFFICES ASSUME "points" \notin untold'
               PROVE  /\ \A k \in DOMAIN queue' : LastList(k)' => queue'[k].list = points'
                      /\ (\A k \in DOMAIN queue' : ~TellsList(k)') => page'.list = points'
    BY DEF ListInv
  <2>1. ASSUME NEW k \in DOMAIN queue', LastList(k)' PROVE queue'[k].list = points'
    <3>1. LastList(k + 1)
      <4>1. ASSUME NEW j \in DOMAIN queue, j > k + 1 PROVE ~TellsList(j)
        BY <1>2, <2>1, <4>1 DEF LastList, TellsList
      <4> QED BY <1>2, <2>1, <4>1 DEF LastList, TellsList
    <3> QED BY <1>1, <1>2, <3>1 DEF ViewInv, ListInv
  <2>2. ASSUME \A k \in DOMAIN queue' : ~TellsList(k)' PROVE page'.list = points'
    <3>1. \A k \in DOMAIN queue : k # 1 => ~TellsList(k)
      BY <1>2, <2>2 DEF TellsList
    <3>2. CASE TellsList(1)
      <4>1. LastList(1)
        BY <1>2, <3>1, <3>2 DEF LastList
      <4> QED BY <1>1, <1>3, <3>2, <4>1 DEF ViewInv, ListInv
    <3>3. CASE ~TellsList(1)
      BY <1>1, <1>3, <3>1, <3>3 DEF ViewInv, ListInv
    <3> QED BY <3>2, <3>3
  <2> QED BY <2>1, <2>2
<1>6. StatusInv'
  <2> SUFFICES ASSUME NEW id \in Ids \ untold'
               PROVE  /\ \A k \in DOMAIN queue' : LastWord(k, id)' =>
                           queue'[k].status[id] = Chip(id)
                      /\ /\ \A k \in DOMAIN queue' : ~TellsList(k)' /\ ~Tells(k, id)'
                         /\ id \in Range(page'.list)
                         => page'.status[id] = Chip(id)
    BY <1>1 DEF StatusInv, Chip
  <2>1. ASSUME NEW k \in DOMAIN queue', LastWord(k, id)' PROVE queue'[k].status[id] = Chip(id)
    <3>1. LastWord(k + 1, id)
      <4>1. ASSUME NEW j \in DOMAIN queue, j > k + 1 PROVE ~TellsList(j) /\ ~Tells(j, id)
        BY <1>2, <2>1, <4>1 DEF LastWord, TellsList, Tells
      <4> QED BY <1>2, <2>1, <4>1 DEF LastWord, Tells
    <3> QED BY <1>1, <1>2, <3>1 DEF ViewInv, StatusInv
  <2>2. ASSUME \A k \in DOMAIN queue' : ~TellsList(k)' /\ ~Tells(k, id)',
               id \in Range(page'.list)
        PROVE  page'.status[id] = Chip(id)
    <3>1. \A k \in DOMAIN queue : k # 1 => ~TellsList(k) /\ ~Tells(k, id)
      BY <1>2, <2>2 DEF TellsList, Tells
    <3>2. CASE Tells(1, id)
      <4>1. LastWord(1, id)
        BY <1>2, <3>1, <3>2 DEF LastWord
      <4>2. queue[1].status[id] = Chip(id)
        BY <1>1, <4>1 DEF ViewInv, StatusInv
      <4> QED BY <1>3, <3>2, <4>2 DEF Merge, Tells
    <3>3. CASE ~Tells(1, id)
      <4>1. ~TellsList(1)
        BY <1>1, <1>3, <2>2, <3>3 DEF ViewInv, ListsTellStatus, Tells
      <4>2. page.status[id] = Chip(id) /\ id \in Range(page.list)
        BY <1>1, <1>3, <2>2, <3>1, <3>3, <4>1 DEF ViewInv, StatusInv
      <4>3. id \in DOMAIN page.status
        BY <4>2 DEF ViewInv, ListsTellStatus
      <4> QED BY <1>3, <3>3, <4>2, <4>3 DEF Merge, Tells
    <3> QED BY <3>2, <3>3
  <2> QED BY <2>1, <2>2
<1> QED BY <1>4, <1>5, <1>6 DEF ViewInv

\* The page has just connected and shows what the daemon holds.
LEMMA Connected ==
  ASSUME queue = <<>>, page = PointsDelta
  PROVE  ViewInv
BY DEF ViewInv, ListsTellStatus, ListInv, StatusInv, PointsDelta

\* A page that has just read a snapshot.
LEMMA Reconnected ==
  ASSUME queue' = <<>>, page' = PointsDelta, UNCHANGED <<points, statuses>>
  PROVE  ViewInv'
BY DEF ViewInv, ListsTellStatus, ListInv, StatusInv, PointsDelta, Chip

\* An edit, saved or not, keeps the page in step.
LEMMA EditView ==
  ASSUME TypeOK, ViewInv, NEW list \in Lists, Edit(list)
  PROVE  ViewInv'
<1>1. points' \in Lists /\ UNCHANGED <<statuses, page>>
  BY DEF Edit
<1>2. PointsDelta' \in Delta
  BY <1>1, DeltaTypesNext DEF TypeOK, Status
<1>3. CASE Emit(PointsDelta')
  BY <1>1, <1>2, <1>3, ListEmitted DEF Emit, ViewInv
<1>4. CASE untold' = untold \cup {"points"} /\ UNCHANGED <<queue, editor>>
  <2>1. \A id \in Ids \ untold' : Chip(id)' = Chip(id)
    BY <1>1 DEF Chip
  <2> QED BY <1>1, <1>4, <2>1, Unsaid
<1> QED BY <1>3, <1>4 DEF Edit

\* A report keeps the page in step about the identities it is not about.
LEMMA ReportView ==
  ASSUME TypeOK, ViewInv, NEW ids \in SUBSET Ids, NEW new \in [ids -> Status],
         statuses' = Merge(new, statuses), Emit(StatusDelta(ids)'),
         UNCHANGED <<points, page>>, untold' = untold \ ids
  PROVE  ViewInv'
<1>1. statuses' \in Partial(Status) /\ points' \in Lists
  BY ReportType DEF TypeOK
<1>2. StatusDelta(ids)' \in Delta
  BY <1>1, DeltaTypesNext
<1>3. ASSUME NEW id \in Ids \ ids PROVE Chip(id)' = Chip(id)
  <2>1. id \in DOMAIN statuses' <=> id \in DOMAIN statuses
    BY DEF Merge
  <2>2. id \in DOMAIN statuses => statuses'[id] = statuses[id]
    BY DEF Merge
  <2> QED BY <2>1, <2>2 DEF Chip
<1> QED BY <1>2, <1>3, StatusEmitted DEF Emit

\* Every step keeps the page in step with what it was told.
LEMMA NextViewInv == TypeOK /\ ViewInv /\ [Next]_vars => ViewInv'
<1> SUFFICES ASSUME TypeOK, ViewInv, [Next]_vars PROVE ViewInv'
  OBVIOUS
<1>0. points \in Lists /\ copies \in [Workers -> SUBSET Ids]
  BY DEF TypeOK
<1>1. ASSUME NEW id \in Ids, AddPoint(id) PROVE ViewInv'
  BY <1>0, <1>1, EditedLists, EditView DEF AddPoint
<1>2. ASSUME NEW i \in 1..MaxPoints, NEW id \in Ids, EditPoint(i, id) PROVE ViewInv'
  BY <1>0, <1>2, EditedLists, EditView DEF EditPoint
<1>3. ASSUME NEW i \in 1..MaxPoints, DeletePoint(i) PROVE ViewInv'
  BY <1>0, <1>3, EditedLists, EditView DEF DeletePoint
<1>4. CASE ClearPoints
  <2>1. UNCHANGED page /\ statuses' = NoStatuses
    BY <1>4 DEF ClearPoints
  <2>2. CASE Emit(PointsDelta')
    <3>1. points' \in Lists /\ statuses' \in Partial(Status)
      BY <1>4, NextTypeOK DEF Next, TypeOK, Status
    <3> QED BY <2>1, <2>2, <3>1, DeltaTypesNext, ListEmitted DEF Emit, ViewInv
  <2>3. CASE /\ untold' = untold \cup {"points"} \cup DOMAIN statuses
             /\ UNCHANGED <<queue, editor>>
    <3>1. \A id \in Ids \ untold' : Chip(id)' = Chip(id)
      BY <2>1, <2>3 DEF Chip, NoStatuses
    <3> QED BY <2>1, <2>3, <3>1, Unsaid
  <2> QED BY <1>4, <2>2, <2>3 DEF ClearPoints
<1>5. CASE Import
  <2>1. points' \in Lists /\ UNCHANGED <<statuses, page>> /\ Emit(PointsDelta')
    BY <1>5 DEF Import
  <2>2. PointsDelta' \in Delta
    BY <2>1, DeltaTypesNext DEF TypeOK, Status
  <2> QED BY <2>1, <2>2, ListEmitted DEF Emit, ViewInv
<1>6. ASSUME NEW w \in Workers, NEW failed \in BOOLEAN, Reads(w, failed) PROVE ViewInv'
  <2>1. PICK ids \in (SUBSET copies[w]) \ {{}} :
          /\ statuses' = Merge([id \in ids |-> [StatusOf(id) EXCEPT !.readFailed = failed]], statuses)
          /\ Emit(StatusDelta(ids)') /\ untold' = untold \ ids
          /\ UNCHANGED <<points, copies, page, editor>>
    BY <1>6 DEF Reads
  <2>2. ids \in SUBSET Ids
    BY <1>0
  <2>3. [id \in ids |-> [StatusOf(id) EXCEPT !.readFailed = failed]] \in [ids -> Status]
    BY <2>2, StatusOfType
  <2> QED BY <2>1, <2>2, <2>3, ReportView
<1>7. ASSUME NEW w \in Workers, NEW failed \in BOOLEAN, Publishes(w, failed) PROVE ViewInv'
  <2>1. PICK id \in copies[w] :
          /\ statuses' = Merge([i \in {id} |-> [StatusOf(id) EXCEPT !.publishFailed = failed]], statuses)
          /\ Emit(StatusDelta({id})') /\ untold' = untold \ {id}
          /\ UNCHANGED <<points, copies, page, editor>>
    BY <1>7 DEF Publishes
  <2>2. {id} \in SUBSET Ids /\ id \in Ids
    BY <1>0
  <2>3. [i \in {id} |-> [StatusOf(id) EXCEPT !.publishFailed = failed]] \in [{id} -> Status]
    BY <2>2, StatusOfType
  <2> QED BY <2>1, <2>2, <2>3, ReportView
<1>8. ASSUME UNCHANGED <<points, statuses, queue, page, untold>> PROVE ViewInv'
  <2>1. \A id \in Ids \ untold' : Chip(id)' = Chip(id)
    BY <1>8 DEF Chip
  <2> QED BY <1>8, <2>1, Unsaid
<1>9. ASSUME NEW w \in Workers, Spawn(w) \/ WorkerEnds(w) PROVE ViewInv'
  BY <1>8, <1>9 DEF Spawn, WorkerEnds
<1>10. CASE Deliver
  BY <1>10, Delivered
<1>11. CASE Reconnect
  BY <1>11, Reconnected DEF Reconnect
<1>12. CASE UNCHANGED vars
  BY <1>8, <1>12 DEF vars
<1>13. ASSUME NEW i \in Rows, OpenEditor(i) PROVE ViewInv'
  BY <1>8, <1>13 DEF OpenEditor
<1>14. CASE ResetEditor
  BY <1>8, <1>14 DEF ResetEditor
<1> QED BY <1>1, <1>2, <1>3, <1>4, <1>5, <1>6, <1>7, <1>9, <1>10, <1>11, <1>12, <1>13,
       <1>14 DEF Next

\* What was told holds in every behaviour.
LEMMA ViewInvHolds == Spec => []ViewInv
<1>1. Init => ViewInv
  BY Connected DEF Init
<1>2. TypeOK /\ ViewInv /\ [Next]_vars => ViewInv'
  BY NextViewInv
<1> QED BY <1>1, <1>2, TypeCorrect, PTL DEF Spec

\* Only a list that comes under an open editor parts it from its place.
LEMMA NextEditorInv == TypeOK /\ EditorInv /\ [Next]_vars => EditorInv'
<1> SUFFICES ASSUME TypeOK, EditorInv, [Next]_vars PROVE EditorInv'
  OBVIOUS
<1>1. ASSUME UNCHANGED page, editor' \in {editor, NewPoint} PROVE EditorInv'
  BY <1>1 DEF EditorInv
<1>2. ASSUME NEW list, Edit(list) PROVE EditorInv'
  BY <1>1, <1>2 DEF Edit
<1>3. ASSUME \/ \E id \in Ids : AddPoint(id)
             \/ \E i \in 1..MaxPoints, id \in Ids : EditPoint(i, id)
             \/ \E i \in 1..MaxPoints : DeletePoint(i)
      PROVE  EditorInv'
  BY <1>2, <1>3 DEF AddPoint, EditPoint, DeletePoint
<1>4. CASE ClearPoints \/ Import
  BY <1>1, <1>4 DEF ClearPoints, Import
<1>5. ASSUME NEW w \in Workers, NEW failed \in BOOLEAN, Reads(w, failed) \/ Publishes(w, failed)
      PROVE  EditorInv'
  BY <1>1, <1>5 DEF Reads, Publishes
<1>6. ASSUME NEW w \in Workers, Spawn(w) \/ WorkerEnds(w) PROVE EditorInv'
  BY <1>1, <1>6 DEF Spawn, WorkerEnds
<1>7. CASE Deliver
  <2>1. CASE "list" \in DOMAIN Head(queue) /\ editor # NewPoint
    <3>1. editor \in [at : Rows, point : Ids, relisted : BOOLEAN]
      BY <2>1 DEF TypeOK
    <3>2. editor' = [editor EXCEPT !.relisted = TRUE]
      BY <1>7, <2>1 DEF Deliver
    <3> QED BY <3>1, <3>2 DEF EditorInv
  <2>2. CASE editor = NewPoint
    BY <1>7, <2>2 DEF Deliver, EditorInv
  <2>3. CASE "list" \notin DOMAIN Head(queue)
    BY <1>7, <2>3 DEF Deliver, EditorInv
  <2> QED BY <2>1, <2>2, <2>3
<1>8. CASE Reconnect
  BY <1>8 DEF Reconnect, EditorInv
<1>9. ASSUME NEW i \in Rows, OpenEditor(i) PROVE EditorInv'
  BY <1>9 DEF OpenEditor, EditorInv
<1>10. CASE ResetEditor
  BY <1>1, <1>10 DEF ResetEditor
<1>11. CASE UNCHANGED vars
  BY <1>1, <1>11 DEF vars
<1> QED BY <1>3, <1>4, <1>5, <1>6, <1>7, <1>8, <1>9, <1>10, <1>11 DEF Next

\* On a page that has handled its deltas a row's place means the point that
\* is shown in it, and the editor's the point it was opened on while no list
\* came under it.
THEOREM IndexMeansShownPointCorrect == Spec => []IndexMeansShownPoint
<1>1. Init => EditorInv
  BY DEF Init, EditorInv
<1>2. ViewInv /\ EditorInv => IndexMeansShownPoint
  BY DEF ViewInv, ListInv, EditorInv, UpToDate, EditorHitsItsPoint, IndexMeansShownPoint
<1> QED BY <1>1, <1>2, NextEditorInv, TypeCorrect, ViewInvHolds, PTL DEF Spec

\* Each point is then shown with the status of its identity.
THEOREM StatusesAgreeCorrect == Spec => []StatusesAgree
<1>1. TypeOK /\ ViewInv => StatusesAgree
  <2> SUFFICES ASSUME TypeOK, ViewInv, queue = <<>>, NEW id \in Range(page.list) \ untold
               PROVE  page.status[id] = Chip(id)
    BY DEF StatusesAgree
  <2>1. id \in Ids
    BY RangeOfList DEF TypeOK
  <2> QED BY <2>1 DEF ViewInv, StatusInv
<1> QED BY <1>1, TypeCorrect, ViewInvHolds, PTL
=============================================================================
