----------------------------- MODULE PointStatus -----------------------------
(***************************************************************************)
(* The list of points with the status of each, kept by the daemon, edited  *)
(* by index, reported on by workers that copied the list when they were    *)
(* spawned, and mirrored by a page that is told of changes by deltas.      *)
(*                                                                         *)
(* A status belongs to an identity, not to a place in the list: a report   *)
(* about a point that was deleted or edited since leaves a status behind,  *)
(* and a point listed later under the same identity shows it.              *)
(*                                                                         *)
(* The page addresses points by place: the rows of its list by the place   *)
(* they were told with, its editor by the place the point had when it was  *)
(* opened, which a newer list does not change.                             *)
(*                                                                         *)
(* Abstractions: a point is its identity (points that differ in name only  *)
(* share one, and the list may hold one twice); of a status, whether the   *)
(* last read and the last publish failed; whether a point is enabled is    *)
(* left out.  The page follows the stream without lag; what lag does is    *)
(* module EventStream's.  The worker's channel is in order, so that a      *)
(* report is applied when it is made, and a page handles the answer to its *)
(* own edit with the edit.  The ring of recent samples is left out.        *)
(***************************************************************************)
EXTENDS Naturals, Sequences, Functions

CONSTANTS
  Ids,        \* identities of points
  Workers,    \* polls and republisher runs
  MaxPoints,  \* bound: length of the list
  Rows,       \* bound: places whose point is opened in the editor
  MaxQueue    \* bound: deltas under way to the page

ASSUME PointAssumption ==
  /\ MaxPoints \in Nat \ {0} /\ MaxQueue \in Nat \ {0}
  /\ Rows \subseteq 1..MaxPoints
  /\ "points" \notin Ids

VARIABLES
  points,    \* Shared.config.points
  statuses,  \* Shared.statuses, a map from the identities reported on
  copies,    \* the identities each worker reports on; none: it has ended
  queue,     \* deltas emitted and not yet handled by the page
  page,      \* app.js: state.points and state.statuses
  editor,    \* app.js: state.pe.editing, and the point it was opened on
  untold     \* history: what changed without a delta since it was last told

vars == <<points, statuses, copies, queue, page, editor, untold>>

Lists == UNION {[1..n -> Ids] : n \in 0..MaxPoints}

\* No identity was reported on.
NoStatuses == [id \in {} |-> "unknown"]

\* A map with the entries of `old' replaced or extended by those of `new'.
Merge(new, old) ==
  [id \in DOMAIN new \cup DOMAIN old |-> IF id \in DOMAIN new THEN new[id] ELSE old[id]]

-----------------------------------------------------------------------------
(* What is sent.                                                           *)

\* Faulty: a point without a status is sent without one.
BlankChip(id) ==
  IF id \notin DOMAIN statuses THEN ""
  ELSE IF statuses[id].publishFailed THEN "publish_error"
  ELSE IF statuses[id].readFailed THEN "read_error"
  ELSE "no_error"

\* status_dto: an error of the last publish hides one of the last read.
Chip(id) ==
  IF id \notin DOMAIN statuses THEN "unknown"
  ELSE IF statuses[id].publishFailed THEN "publish_error"
  ELSE IF statuses[id].readFailed THEN "read_error"
  ELSE "no_error"

\* points_json: the list, each point with the status of its identity.
PointsDelta == [list |-> points, status |-> [id \in Range(points) |-> Chip(id)]]

\* A delta of statuses alone; it names identities, not places in the list.
StatusDelta(ids) == [status |-> [id \in ids |-> Chip(id)]]

\* state.pe.editing is null.
NewPoint == [at |-> 0]

Emit(delta) == Len(queue) < MaxQueue /\ queue' = Append(queue, delta)

Init ==
  /\ points \in Lists
  /\ statuses = NoStatuses
  /\ copies = [w \in Workers |-> {}]
  /\ queue = <<>>
  /\ page = PointsDelta
  /\ editor = NewPoint
  /\ untold = {}

-----------------------------------------------------------------------------
(* Edits of the list.                                                      *)

\* The list is changed in memory first; the page is told when it could be
\* saved, and then resets its editor if the edit was its own.
Edit(list) ==
  /\ points' = list
  /\ UNCHANGED <<statuses, copies, page>>
  /\ \/ Emit(PointsDelta') /\ untold' = {} /\ editor' \in {editor, NewPoint}
     \/ untold' = untold \cup {"points"} /\ UNCHANGED <<queue, editor>>

\* save_point without an index, and add_browsed_point of a new identity.
AddPoint(id) ==
  /\ Len(points) < MaxPoints
  /\ Edit(Append(points, id))

\* save_point with an index, toggle_point and add_browsed_point of a listed
\* identity, which keep the identity; the index is that of a row or that of
\* an editor, of this page or of another.
EditPoint(i, id) ==
  /\ i \in DOMAIN points
  /\ Edit([points EXCEPT ![i] = id])

\* delete_point: the status of the point stays.
DeletePoint(i) ==
  /\ i \in DOMAIN points
  /\ Edit(SubSeq(points, 1, i - 1) \o SubSeq(points, i + 1, Len(points)))

\* clear_points: the statuses go before the save that may fail.
ClearPoints ==
  /\ points' = <<>> /\ statuses' = NoStatuses
  /\ \/ Emit(PointsDelta') /\ untold' = {} /\ editor' \in {editor, NewPoint}
     \/ untold' = untold \cup {"points"} \cup DOMAIN statuses /\ UNCHANGED <<queue, editor>>
  /\ UNCHANGED <<copies, page>>

\* apply_event BulkTagImport: whether the list can be saved or not, the page
\* is told.
Import ==
  /\ \E list \in Lists : points' = list
  /\ UNCHANGED <<statuses, copies, page, editor>>
  /\ Emit(PointsDelta') /\ untold' = {}

-----------------------------------------------------------------------------
(* Reports of the workers.                                                 *)

\* poll_once and start_republisher copy the list, and the worker reports on
\* the points enabled in it; with none enabled, a republisher may discover
\* points of its own.
Spawn(w) ==
  /\ copies[w] = {}
  /\ \E enabled \in SUBSET Range(points), discovered \in SUBSET Ids :
       /\ enabled = {} \/ discovered = {}
       /\ enabled \cup discovered # {}
       /\ copies' = [copies EXCEPT ![w] = enabled \cup discovered]
  /\ UNCHANGED <<points, statuses, queue, page, editor, untold>>

WorkerEnds(w) ==
  /\ copies[w] # {}
  /\ copies' = [copies EXCEPT ![w] = {}]
  /\ UNCHANGED <<points, statuses, queue, page, editor, untold>>

\* entry().or_default()
StatusOf(id) ==
  IF id \in DOMAIN statuses THEN statuses[id]
  ELSE [readFailed |-> FALSE, publishFailed |-> FALSE]

\* apply_event Samples and Failures: a sample clears the error of the last
\* read, a failure records one, and neither looks at the list.
Reads(w, failed) ==
  \E ids \in (SUBSET copies[w]) \ {{}} :
    /\ statuses' = Merge([id \in ids |-> [StatusOf(id) EXCEPT !.readFailed = failed]], statuses)
    /\ Emit(StatusDelta(ids)') /\ untold' = untold \ ids
    /\ UNCHANGED <<points, copies, page, editor>>

\* Faulty: the key differs from the one the page knows the point by.
PublishesUnderOtherKey(w, failed) ==
  \E id \in copies[w] :
    /\ statuses' = Merge([i \in {id} |-> [StatusOf(id) EXCEPT !.publishFailed = failed]], statuses)
    /\ Emit(StatusDelta({})') /\ untold' = untold \ {id}
    /\ UNCHANGED <<points, copies, page, editor>>

\* apply_event PointPublish, under a key built apart from identity_key.
Publishes(w, failed) ==
  \E id \in copies[w] :
    /\ statuses' = Merge([i \in {id} |-> [StatusOf(id) EXCEPT !.publishFailed = failed]], statuses)
    /\ Emit(StatusDelta({id})') /\ untold' = untold \ {id}
    /\ UNCHANGED <<points, copies, page, editor>>

-----------------------------------------------------------------------------
(* The page.                                                               *)

\* handleEvent: the list is replaced, the statuses are merged into those the
\* page has, which are never dropped.  An open editor keeps its place; that a
\* list came under it is history.
Deliver ==
  /\ queue # <<>>
  /\ LET delta == Head(queue) IN
       /\ page' = [list |-> IF "list" \in DOMAIN delta THEN delta.list ELSE page.list,
                   status |-> Merge(delta.status, page.status)]
       /\ editor' = IF "list" \in DOMAIN delta /\ editor # NewPoint
                    THEN [editor EXCEPT !.relisted = TRUE] ELSE editor
  /\ queue' = Tail(queue)
  /\ UNCHANGED <<points, statuses, copies, untold>>

\* Faulty: the editor stays open over a snapshot.
ReconnectKeepsEditor ==
  /\ page' = PointsDelta
  /\ queue' = <<>> /\ untold' = {}
  /\ UNCHANGED <<points, statuses, copies, editor>>

\* A new connection's snapshot replaces both and resets the editor.
Reconnect ==
  /\ page' = PointsDelta /\ editor' = NewPoint
  /\ queue' = <<>> /\ untold' = {}
  /\ UNCHANGED <<points, statuses, copies>>

\* loadPointIntoEditor: the place is captured.
OpenEditor(i) ==
  /\ i \in DOMAIN page.list
  /\ editor' = [at |-> i, point |-> page.list[i], relisted |-> FALSE]
  /\ UNCHANGED <<points, statuses, copies, queue, page, untold>>

\* resetPointEditor, when "New point" is asked for or the protocol switched.
ResetEditor ==
  /\ editor # NewPoint
  /\ editor' = NewPoint
  /\ UNCHANGED <<points, statuses, copies, queue, page, untold>>

Next ==
  \/ \E id \in Ids : AddPoint(id)
  \/ \E i \in 1..MaxPoints, id \in Ids : EditPoint(i, id)
  \/ \E i \in 1..MaxPoints : DeletePoint(i)
  \/ ClearPoints \/ Import
  \/ \E w \in Workers, failed \in BOOLEAN : Reads(w, failed) \/ Publishes(w, failed)
  \/ \E w \in Workers : Spawn(w) \/ WorkerEnds(w)
  \/ Deliver \/ Reconnect
  \/ \E i \in Rows : OpenEditor(i)
  \/ ResetEditor

Spec == Init /\ [][Next]_vars

-----------------------------------------------------------------------------
(* Properties.                                                             *)

\* Maps from some of the identities.
Partial(S) == UNION {[ids -> S] : ids \in SUBSET Ids}

Chips == {"unknown", "publish_error", "read_error", "no_error"}

\* The type invariant.
TypeOK ==
  /\ points \in Lists
  /\ statuses \in Partial([readFailed : BOOLEAN, publishFailed : BOOLEAN])
  /\ copies \in [Workers -> SUBSET Ids]
  /\ queue \in Seq([list : Lists, status : Partial(Chips)] \cup [status : Partial(Chips)])
  /\ page \in [list : Lists, status : Partial(Chips)]
  /\ editor \in {NewPoint} \cup [at : Rows, point : Ids, relisted : BOOLEAN]
  /\ untold \subseteq Ids \cup {"points"}

\* The page has handled its deltas, and no edit whose save failed changed
\* the list since it was last told.
UpToDate == queue = <<>> /\ "points" \notin untold

EditorHitsItsPoint ==
  editor # NewPoint =>
    editor.at \in DOMAIN points /\ points[editor.at] = editor.point

\* A request names a point by its place in the list.  On an up-to-date page a
\* row's place, which toggles and deletions send, is the point the row shows;
\* and the editor's, which a save sends, is the point the editor was opened
\* on, unless the page was told a list while the editor was open.
IndexMeansShownPoint ==
  UpToDate =>
    /\ page.list = points
    /\ editor # NewPoint /\ ~editor.relisted => EditorHitsItsPoint

\* Saving the editor edits the point it was opened on, whatever lists came
\* since: a save the daemon accepts from an up-to-date page does not replace
\* another point while that one is still listed.  The code does not keep to it.
EditHitsOpenedPoint ==
  /\ UpToDate /\ editor # NewPoint
  /\ editor.at \in DOMAIN points /\ editor.point \in Range(points)
  => points[editor.at] = editor.point

\* The page then shows each point with the status the daemon has for its
\* identity, whatever was deleted, renamed, cleared and listed again while
\* reports about it arrived, except for statuses a clear dropped unsaved.
StatusesAgree ==
  queue = <<>> =>
    \A id \in Range(page.list) \ untold : page.status[id] = Chip(id)
=============================================================================
