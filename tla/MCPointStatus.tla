---------------------------- MODULE MCPointStatus ----------------------------
(***************************************************************************)
(* Module PointStatus for TLC: identities are interchangeable, and no      *)
(* property of the runs is a liveness property.                            *)
(***************************************************************************)
EXTENDS PointStatus, TLC

Symmetry == Permutations(Ids)

\* No report touches the list or the editor, and no status depends on the
\* editor: behaviours with an open editor are followed as long as nothing has
\* been reported, those with reports with the editor closed.
EditorApart ==
  editor # NewPoint =>
    /\ \A w \in Workers : copies[w] = {}
    /\ statuses = NoStatuses
    /\ \A id \in DOMAIN page.status : page.status[id] = "unknown"

\* A worker that reports on every identity may do what a worker with fewer
\* may, and can always be spawned: those with fewer are not followed.
WholeCopies == \A w \in Workers : copies[w] \in {{}, Ids}

\* Additions and deletions alone, so that what is found wrong is wrong about a
\* point that was neither renamed nor listed anew.
ListsGrowAndShrink ==
  \/ \E id \in Ids : AddPoint(id)
  \/ \E i \in 1..MaxPoints : DeletePoint(i)
  \/ Deliver \/ Reconnect
  \/ \E i \in Rows : OpenEditor(i)
  \/ ResetEditor

SpecGrowAndShrink == Init /\ [][ListsGrowAndShrink]_vars
=============================================================================
