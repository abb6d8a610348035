-------------------------- MODULE RepublisherProofs --------------------------
(***************************************************************************)
(* Proofs about module Republisher, for every number of runs and every     *)
(* length of the channel: its type invariant, that the lifecycle shown     *)
(* settles when the last worker has ended, that a start is accepted over   *)
(* an unfinished run only in the window before that run's first report is  *)
(* applied, and that without such an overlap the counters are those of the *)
(* current run.                                                            *)
(*                                                                         *)
(* None of them is about one action.  The strengthening says where in the  *)
(* channel the last report of a run can be, and what those waiting count.  *)
(***************************************************************************)
EXTENDS Republisher, FiniteSetTheorems, FunctionTheorems, TLAPS

IsFinal(e) == e.kind = "Lifecycle" /\ e.lifecycle \in Final

\* When no worker is live, the last report waiting is the end of a run; when
\* none is waiting either, the end of a run is what was applied last.
EndsLast ==
  LiveRuns = {} =>
    IF chan = <<>> THEN lifecycle \in Final ELSE IsFinal(chan[Len(chan)])

\* As long as no start came inside the window: one worker is live at most;
\* the end of a run is waiting only as the last report, and then no worker
\* is live; and a run the daemon has not seen the end of is either
\* unannounced or shown as active.
WindowInv ==
  ~raced =>
    /\ \A q, r \in Runs : Live(q) /\ Live(r) => q = r
    /\ \A i \in DOMAIN chan : IsFinal(chan[i]) => i = Len(chan) /\ LiveRuns = {}
    /\ \A r \in OpenRuns : Unannounced(r) \/ lifecycle \in Active

IInv == TypeOK /\ EndsLast /\ WindowInv

-----------------------------------------------------------------------------
(* Type correctness.                                                       *)

\* The type invariant holds initially, and a reboot restores it.
LEMMA InitTypeOK == Init => TypeOK
<1> SUFFICES ASSUME Init PROVE TypeOK
  OBVIOUS
<1>1. 0 \in 0..MaxSent
  BY RunAssumption
<1>2. worker \in [Runs -> LivePhases \cup {"none", "ended"}]
  BY DEF Init
<1>3. sent \in [Runs -> 0..MaxSent] /\ confirmed \in [Runs -> 0..MaxSent]
  BY <1>1 DEF Init
<1>4. chan \in Seq(Events)
  BY DEF Init
<1>5. flagged \subseteq Runs /\ asked \subseteq Runs
  BY DEF Init
<1>6. lifecycle \in Active \cup Final /\ phase \in {"booting", "serving", "closing"}
  BY DEF Init, Final
<1>7. /\ published \in Nat /\ acked \in Nat /\ raced \in BOOLEAN
      /\ latest \in Runs \cup {NoRun} /\ lastError \in Runs \cup {NoRun}
  BY DEF Init
<1> QED BY <1>2, <1>3, <1>4, <1>5, <1>6, <1>7 DEF TypeOK

\* A process that is started again starts from well-typed state.
LEMMA RebootTypeOK == Reboot => TypeOK'
<1> SUFFICES ASSUME Reboot PROVE TypeOK'
  OBVIOUS
<1>1. 0 \in 0..MaxSent
  BY RunAssumption
<1>2. worker' \in [Runs -> LivePhases \cup {"none", "ended"}]
  BY DEF Reboot
<1>3. sent' \in [Runs -> 0..MaxSent] /\ confirmed' \in [Runs -> 0..MaxSent]
  BY <1>1 DEF Reboot
<1>4. chan' \in Seq(Events)
  BY DEF Reboot
<1>5. flagged' \subseteq Runs /\ asked' \subseteq Runs
  BY DEF Reboot
<1>6. lifecycle' \in Active \cup Final /\ phase' \in {"booting", "serving", "closing"}
  BY DEF Reboot, Final
<1>7. /\ published' \in Nat /\ acked' \in Nat /\ raced' \in BOOLEAN
      /\ latest' \in Runs \cup {NoRun} /\ lastError' \in Runs \cup {NoRun}
  BY DEF Reboot
<1> QED BY <1>2, <1>3, <1>4, <1>5, <1>6, <1>7 DEF TypeOK

\* Every report a worker appends is one of Events.
LEMMA ReportType ==
  ASSUME TypeOK, NEW e \in Events, Report(e)
  PROVE  chan' \in Seq(Events)
BY DEF TypeOK, Report

\* Accepting or refusing a start keeps the types.
LEMMA StartTypeOK ==
  ASSUME TypeOK, StartRepublisher, phase' \in {"booting", "serving", "closing"}
  PROVE  TypeOK'
<1>1. CASE Accept
  BY <1>1 DEF Accept, TypeOK, NoRun, LivePhases
<1>2. CASE Refuse
  BY <1>2 DEF Refuse, shared, workers, TypeOK
<1> QED BY <1>1, <1>2 DEF StartRepublisher

\* Every step keeps the types.
LEMMA NextTypeOK == TypeOK /\ [Next]_vars => TypeOK'
<1> SUFFICES ASSUME TypeOK, [Next]_vars PROVE TypeOK'
  OBVIOUS
<1>1. CASE Serve
  BY <1>1, StartTypeOK DEF Serve, Refuse, StartRepublisher
<1>2. CASE Start
  BY <1>2, StartTypeOK DEF Start, TypeOK
<1>3. CASE Stop \/ Shutdown
  <2>1. /\ latest = NoRun \/ latest \in Runs
        /\ phase' \in {"booting", "serving", "closing"}
    BY <1>3 DEF TypeOK, Stop, Shutdown
  <2>2. flagged' \subseteq Runs /\ asked' \subseteq Runs
    BY <1>3, <2>1 DEF Stop, Shutdown, SetStopFlag, TypeOK
  <2> QED BY <1>3, <2>1, <2>2 DEF Stop, Shutdown, SetStopFlag, shared, workers, TypeOK
<1>4. CASE Exit \/ Crash
  BY <1>4, RebootTypeOK DEF Exit, Crash
<1>5. ASSUME NEW r \in Runs, Worker(r) PROVE TypeOK'
  <2>1. ASSUME NEW from \in SUBSET LivePhases, NEW to \in LivePhases \cup {"ended"},
               NEW l \in Active \cup Final, WorkerMoves(r, from, to, l)
        PROVE  TypeOK'
    <3>1. [kind |-> "Lifecycle", run |-> r, lifecycle |-> l] \in Events
      BY DEF Events, LifecycleEvents
    <3>2. chan' \in Seq(Events)
      BY <2>1, <3>1, ReportType DEF WorkerMoves
    <3> QED BY <2>1, <3>2 DEF WorkerMoves, TypeOK, shared
  <2>2. CASE WorkerPublishes(r)
    <3>1. PICK n \in {0, 1}, a \in 0..MaxSent, error \in BOOLEAN :
            /\ sent[r] + n <= MaxSent
            /\ sent' = [sent EXCEPT ![r] = @ + n]
            /\ confirmed' = [confirmed EXCEPT ![r] = a]
            /\ Report([kind |-> "PublishStatus", run |-> r, published |-> n,
                       acked |-> a, error |-> error])
      BY <2>2 DEF WorkerPublishes
    <3>2. [kind |-> "PublishStatus", run |-> r, published |-> n,
           acked |-> a, error |-> error] \in Events
      BY DEF Events, StatusEvents
    <3>3. chan' \in Seq(Events)
      BY <3>1, <3>2, ReportType
    <3>4. sent' \in [Runs -> 0..MaxSent] /\ confirmed' \in [Runs -> 0..MaxSent]
      BY <3>1, RunAssumption DEF TypeOK
    <3> QED BY <2>2, <3>3, <3>4 DEF WorkerPublishes, TypeOK, shared
  <2>3. CASE WorkerStarts(r)
    BY <2>1, <2>3 DEF WorkerStarts, LivePhases, Active
  <2>4. CASE WorkerConnects(r)
    BY <2>1, <2>4 DEF WorkerConnects, LivePhases, Active
  <2>5. CASE WorkerFails(r)
    BY <2>1, <2>5 DEF WorkerFails, LivePhases, Final
  <2>6. CASE WorkerSeesStop(r)
    BY <2>1, <2>6 DEF WorkerSeesStop, LivePhases, Active
  <2>7. CASE WorkerEnds(r)
    BY <2>1, <2>7 DEF WorkerEnds, LivePhases, Final
  <2> QED BY <1>5, <2>2, <2>3, <2>4, <2>5, <2>6, <2>7 DEF Worker
<1>6. CASE Drain
  <2>1. chan # <<>> /\ chan' = Tail(chan)
    BY <1>6 DEF Drain, ApplyLifecycle, ApplyPublishStatus
  <2>2. Head(chan) \in Events /\ chan' \in Seq(Events)
    BY <2>1 DEF TypeOK
  <2>3. CASE ApplyLifecycle
    <3>1. Head(chan).lifecycle \in Active \cup Final
      BY <2>2, <2>3 DEF ApplyLifecycle, Events, LifecycleEvents, StatusEvents
    <3> QED BY <2>2, <2>3, <3>1 DEF ApplyLifecycle, TypeOK, workers
  <2>4. CASE ApplyPublishStatus
    <3>1. /\ Head(chan).published \in Nat /\ Head(chan).acked \in Nat
          /\ Head(chan).run \in Runs
      BY <2>2, <2>4, RunAssumption DEF ApplyPublishStatus, Events, LifecycleEvents, StatusEvents
    <3>2. /\ published' \in Nat /\ acked' \in Nat /\ lastError' \in Runs \cup {NoRun}
      BY <2>4, <3>1 DEF ApplyPublishStatus, TypeOK
    <3> QED BY <2>2, <2>4, <3>2 DEF ApplyPublishStatus, TypeOK, workers
  <2> QED BY <1>6, <2>3, <2>4 DEF Drain
<1>7. CASE UNCHANGED vars
  BY <1>7 DEF vars, TypeOK
<1> QED BY <1>1, <1>2, <1>3, <1>4, <1>5, <1>6, <1>7 DEF Next

\* Type correctness: in particular the state never holds a stop flag of no
\* run, and no worker confirms more than the bound on what it may send.
THEOREM TypeCorrect == Spec => []TypeOK
<1> QED BY InitTypeOK, NextTypeOK, PTL DEF Spec

-----------------------------------------------------------------------------
(* The step lemmas of the strengthening.  The steps that neither move a    *)
(* worker, nor touch the channel, nor change what is shown are dealt with  *)
(* by one lemma.                                                           *)

quiet == <<lifecycle, worker, chan, raced>>

\* A step that changes none of the four variables keeps the strengthening.
LEMMA QuietKeepsInv ==
  ASSUME IInv, UNCHANGED quiet
  PROVE  EndsLast' /\ WindowInv'
BY DEF IInv, quiet, EndsLast, WindowInv, IsFinal, LiveRuns, Live, OpenRuns, Unannounced,
       IsLifecycle

\* After a restart of the process no run exists and none is shown.
LEMMA RebootInv == Reboot => EndsLast' /\ WindowInv'
<1> SUFFICES ASSUME Reboot PROVE EndsLast' /\ WindowInv'
  OBVIOUS
<1>1. chan' = <<>> /\ lifecycle' \in Final /\ \A r \in Runs : ~Live(r)'
  BY DEF Reboot, Final, Live, LivePhases
<1> QED BY <1>1 DEF EndsLast, WindowInv, LiveRuns, OpenRuns

\* Initially no run exists and none is shown.
LEMMA InitInv == Init => EndsLast /\ WindowInv
<1> SUFFICES ASSUME Init PROVE EndsLast /\ WindowInv
  OBVIOUS
<1>1. chan = <<>> /\ lifecycle \in Final /\ \A r \in Runs : ~Live(r)
  BY DEF Init, Final, Live, LivePhases
<1> QED BY <1>1 DEF EndsLast, WindowInv, LiveRuns, OpenRuns

\* An accepted start makes a worker live, so the last report is no longer
\* tied to the lifecycle; and unless it raced, nothing else was open.
LEMMA AcceptInv ==
  ASSUME IInv, Accept
  PROVE  EndsLast' /\ WindowInv'
<1>1. PICK r \in Runs :
        /\ worker[r] = "none"
        /\ worker' = [worker EXCEPT ![r] = "spawned"]
        /\ raced' = (raced \/ OpenRuns # {})
        /\ UNCHANGED <<lifecycle, chan>>
  BY DEF Accept
<1>2. Live(r)' /\ Unannounced(r)'
  BY <1>1 DEF Live, LivePhases, Unannounced, IInv, TypeOK
<1>3. EndsLast'
  BY <1>2 DEF EndsLast, LiveRuns
<1>4. ASSUME ~raced' PROVE chan = <<>> /\ LiveRuns = {}
  <2>1. OpenRuns = {}
    BY <1>1, <1>4
  <2>2. chan \in Seq(Events)
    BY DEF IInv, TypeOK
  <2>3. \A i \in DOMAIN chan : chan[i].run \in Runs
    BY <2>2 DEF Events, LifecycleEvents, StatusEvents
  <2> QED BY <2>1, <2>2, <2>3 DEF OpenRuns, LiveRuns
<1>5. WindowInv'
  <2> SUFFICES ASSUME ~raced' PROVE WindowInv'
    BY DEF WindowInv
  <2>1. chan' = <<>>
    BY <1>1, <1>4
  <2>2. \A q \in Runs : Live(q)' => q = r
    BY <1>1, <1>4 DEF Live, LiveRuns, IInv, TypeOK
  <2> QED BY <1>2, <2>1, <2>2 DEF WindowInv, OpenRuns
<1> QED BY <1>3, <1>5

\* A live worker appends a report that is not its last one.
LEMMA ReportInv ==
  ASSUME IInv, NEW r \in Runs, Live(r), Live(r)',
         \A q \in Runs \ {r} : worker'[q] = worker[q],
         NEW e \in Events, chan' = Append(chan, e), ~IsFinal(e),
         UNCHANGED <<lifecycle, raced>>,
         e.run = r,
         worker[r] = "spawned" => IsLifecycle(e, "Starting")
  PROVE  EndsLast' /\ WindowInv'
<1>1. chan \in Seq(Events)
  BY DEF IInv, TypeOK
<1>2. EndsLast'
  BY DEF EndsLast, LiveRuns
<1>3. \A q \in Runs : Live(q)' <=> Live(q)
  BY DEF Live
<1>4. WindowInv'
  <2> SUFFICES ASSUME ~raced PROVE WindowInv'
    BY DEF WindowInv
  <2>1. \A p, q \in Runs : Live(p)' /\ Live(q)' => p = q
    BY <1>3 DEF IInv, WindowInv
  <2>2. \A i \in DOMAIN chan' : ~IsFinal(chan'[i])
    BY <1>1 DEF IInv, WindowInv, LiveRuns
  <2>3. ASSUME NEW q \in Runs, q \in OpenRuns' PROVE Unannounced(q)' \/ lifecycle' \in Active
    <3>1. q \in OpenRuns
      BY <1>1, <1>3, <2>3 DEF OpenRuns
    <3>2. Unannounced(q) \/ lifecycle \in Active
      BY <3>1 DEF IInv, WindowInv
    <3>3. ASSUME Unannounced(q) PROVE Unannounced(q)'
      <4>1. CASE worker[q] = "spawned" /\ q = r
        BY <1>1, <4>1 DEF Unannounced
      <4>2. CASE worker[q] = "spawned" /\ q # r
        BY <4>2 DEF Unannounced
      <4>3. CASE \E i \in DOMAIN chan : chan[i].run = q /\ IsLifecycle(chan[i], "Starting")
        <5>1. \A i \in DOMAIN chan : i \in DOMAIN chan' /\ chan'[i] = chan[i]
          BY <1>1
        <5> QED BY <4>3, <5>1 DEF Unannounced, IsLifecycle
      <4> QED BY <3>3, <4>1, <4>2, <4>3 DEF Unannounced
    <3> QED BY <3>2, <3>3
  <2> QED BY <2>1, <2>2, <2>3 DEF WindowInv, OpenRuns
<1> QED BY <1>2, <1>4

\* A worker's last report: it is the last one waiting, and when no start
\* raced no worker is live any more.
LEMMA EndInv ==
  ASSUME IInv, NEW r \in Runs, Live(r), worker[r] # "spawned",
         worker' = [worker EXCEPT ![r] = "ended"],
         NEW e \in Events, chan' = Append(chan, e), IsFinal(e), e.run = r,
         UNCHANGED <<lifecycle, raced>>
  PROVE  EndsLast' /\ WindowInv'
<1>1. chan \in Seq(Events)
  BY DEF IInv, TypeOK
<1>2. chan' # <<>> /\ chan'[Len(chan')] = e /\ Len(chan') = Len(chan) + 1
  BY <1>1
<1>3. EndsLast'
  BY <1>2 DEF EndsLast, IsFinal
<1>4. \A q \in Runs : Live(q)' <=> Live(q) /\ q # r
  BY DEF Live, LivePhases, IInv, TypeOK
<1>5. WindowInv'
  <2> SUFFICES ASSUME ~raced PROVE WindowInv'
    BY DEF WindowInv
  <2>1. LiveRuns' = {}
    BY <1>4 DEF LiveRuns, IInv, WindowInv
  <2>2. ASSUME NEW i \in DOMAIN chan', IsFinal(chan'[i]) PROVE i = Len(chan')
    <3>1. ASSUME i # Len(chan') PROVE FALSE
      <4>1. i \in DOMAIN chan /\ chan'[i] = chan[i]
        BY <1>1, <1>2, <3>1
      <4>2. LiveRuns = {}
        BY <2>2, <4>1 DEF IInv, WindowInv
      <4> QED BY <4>2 DEF LiveRuns
    <3> QED BY <3>1
  <2>3. ASSUME NEW q \in OpenRuns' PROVE Unannounced(q)' \/ lifecycle' \in Active
    <3>1. q \in OpenRuns
      BY <1>1, <1>4, <2>3 DEF OpenRuns
    <3>2. Unannounced(q) \/ lifecycle \in Active
      BY <3>1 DEF IInv, WindowInv
    <3>3. ASSUME Unannounced(q) PROVE Unannounced(q)'
      <4>1. \A i \in DOMAIN chan : i \in DOMAIN chan' /\ chan'[i] = chan[i]
        BY <1>1
      <4>2. worker[q] = "spawned" => worker'[q] = "spawned"
        BY <3>1 DEF OpenRuns, IInv, TypeOK
      <4> QED BY <3>3, <4>1, <4>2 DEF Unannounced, IsLifecycle
    <3> QED BY <3>2, <3>3
  <2> QED BY <2>1, <2>2, <2>3, <1>4 DEF WindowInv, LiveRuns, IsFinal
<1> QED BY <1>3, <1>5

\* Applying a report: what stays behind it keeps its order, and the last one
\* decides what is shown.
LEMMA DrainInv ==
  ASSUME IInv, Drain
  PROVE  EndsLast' /\ WindowInv'
<1>1. /\ chan \in Seq(Events) /\ chan # <<>> /\ chan' = Tail(chan)
      /\ UNCHANGED <<worker, raced>>
      /\ Head(chan).kind = "Lifecycle" => lifecycle' = Head(chan).lifecycle
      /\ Head(chan).kind # "Lifecycle" => lifecycle' = lifecycle
  BY DEF Drain, ApplyLifecycle, ApplyPublishStatus, workers, IInv, TypeOK
<1>2. /\ Len(chan) \in Nat \ {0} /\ Len(chan') = Len(chan) - 1
      /\ \A i \in DOMAIN chan' : i + 1 \in DOMAIN chan /\ chan'[i] = chan[i + 1]
      /\ Head(chan) = chan[1]
  BY <1>1
<1>3. \A r \in Runs : Live(r)' <=> Live(r)
  BY <1>1 DEF Live
<1>4. LiveRuns' = LiveRuns
  BY <1>3 DEF LiveRuns
<1>5. Head(chan) \in Events
  BY <1>1
<1>6. EndsLast'
  <2> SUFFICES ASSUME LiveRuns = {} PROVE EndsLast'
    BY <1>4 DEF EndsLast
  <2>1. IsFinal(chan[Len(chan)])
    BY <1>1 DEF IInv, EndsLast
  <2>2. CASE Len(chan) = 1
    BY <1>1, <1>2, <2>1, <2>2 DEF EndsLast, IsFinal
  <2>3. CASE Len(chan) # 1
    <3>1. chan' # <<>> /\ Len(chan') \in DOMAIN chan' /\ chan'[Len(chan')] = chan[Len(chan)]
      <4>1. chan' \in Seq(Events) /\ Len(chan') \in Nat \ {0}
        BY <1>1, <1>2, <2>3
      <4>2. Len(chan') \in DOMAIN chan' /\ chan' # <<>>
        BY <4>1
      <4> QED BY <1>2, <4>1, <4>2
    <3> QED BY <2>1, <3>1 DEF EndsLast, IsFinal
  <2> QED BY <2>2, <2>3
<1>7. WindowInv'
  <2> SUFFICES ASSUME ~raced PROVE WindowInv'
    BY <1>1 DEF WindowInv
  <2>1. \A q, r \in Runs : Live(q)' /\ Live(r)' => q = r
    BY <1>3 DEF IInv, WindowInv
  <2>2. \A i \in DOMAIN chan' : IsFinal(chan'[i]) => i = Len(chan') /\ LiveRuns' = {}
    BY <1>2, <1>4 DEF IInv, WindowInv
  <2>3. ASSUME NEW r \in OpenRuns' PROVE Unannounced(r)' \/ lifecycle' \in Active
    <3>1. r \in OpenRuns
      BY <1>2, <1>3, <2>3 DEF OpenRuns
    <3>2. Unannounced(r) \/ lifecycle \in Active
      BY <3>1 DEF IInv, WindowInv
    <3>3. CASE Head(chan).kind = "Lifecycle" /\ Head(chan).lifecycle \in Active
      BY <1>1, <3>3
    <3>4. CASE IsFinal(Head(chan))
      <4>1. Len(chan) = 1 /\ LiveRuns = {}
        BY <1>2, <3>4 DEF IInv, WindowInv
      <4> QED BY <1>1, <1>2, <1>4, <2>3, <4>1 DEF OpenRuns, LiveRuns
    <3>5. CASE Head(chan).kind # "Lifecycle"
      <4>1. ASSUME Unannounced(r) PROVE Unannounced(r)'
        <5>1. CASE worker[r] = "spawned"
          BY <1>1, <5>1 DEF Unannounced
        <5>2. CASE \E i \in DOMAIN chan : chan[i].run = r /\ IsLifecycle(chan[i], "Starting")
          <6>1. PICK i \in DOMAIN chan : chan[i].run = r /\ IsLifecycle(chan[i], "Starting")
            BY <5>2
          <6>2. i # 1
            BY <1>2, <3>5, <6>1 DEF IsLifecycle
          <6>3. i - 1 \in DOMAIN chan' /\ chan'[i - 1] = chan[i]
            BY <1>1, <1>2, <6>2
          <6> QED BY <6>1, <6>3 DEF Unannounced, IsLifecycle
        <5> QED BY <4>1, <5>1, <5>2 DEF Unannounced
      <4> QED BY <1>1, <3>2, <3>5, <4>1
    <3>6. Head(chan).kind = "Lifecycle" => Head(chan).lifecycle \in Active \cup Final
      BY <1>5 DEF Events, LifecycleEvents, StatusEvents
    <3> QED BY <3>3, <3>4, <3>5, <3>6 DEF IsFinal
  <2> QED BY <2>1, <2>2, <2>3 DEF WindowInv
<1> QED BY <1>6, <1>7

\* Every report of a worker thread keeps the strengthening.
LEMMA WorkerInv ==
  ASSUME IInv, NEW r \in Runs, Worker(r)
  PROVE  EndsLast' /\ WindowInv'
<1>1. worker \in [Runs -> LivePhases \cup {"none", "ended"}]
  BY DEF IInv, TypeOK
<1>2. ASSUME NEW from \in SUBSET LivePhases, NEW to \in LivePhases,
             NEW l \in Active, WorkerMoves(r, from, to, l),
             "spawned" \in from => l = "Starting"
      PROVE  EndsLast' /\ WindowInv'
  <2> DEFINE e == [kind |-> "Lifecycle", run |-> r, lifecycle |-> l]
  <2>1. /\ e \in Events /\ ~IsFinal(e) /\ e.run = r
        /\ l = "Starting" => IsLifecycle(e, "Starting")
    BY DEF Events, LifecycleEvents, IsFinal, IsLifecycle, Active, Final
  <2>2. /\ Live(r) /\ Live(r)' /\ \A q \in Runs \ {r} : worker'[q] = worker[q]
        /\ UNCHANGED <<lifecycle, raced>> /\ chan' = Append(chan, e)
        /\ worker[r] = "spawned" => l = "Starting"
    BY <1>1, <1>2 DEF WorkerMoves, Report, Live, shared
  <2> HIDE DEF e
  <2> QED BY <2>1, <2>2, ReportInv
<1>3. ASSUME NEW from \in SUBSET LivePhases, NEW l \in Final,
             WorkerMoves(r, from, "ended", l), "spawned" \notin from
      PROVE  EndsLast' /\ WindowInv'
  <2> DEFINE e == [kind |-> "Lifecycle", run |-> r, lifecycle |-> l]
  <2>1. e \in Events /\ IsFinal(e) /\ e.run = r
    BY DEF Events, LifecycleEvents, IsFinal
  <2>2. /\ Live(r) /\ worker[r] # "spawned"
        /\ UNCHANGED <<lifecycle, raced>> /\ chan' = Append(chan, e)
        /\ worker' = [worker EXCEPT ![r] = "ended"]
    BY <1>3 DEF WorkerMoves, Report, Live, shared
  <2> HIDE DEF e
  <2> QED BY <2>1, <2>2, EndInv
<1>4. CASE WorkerStarts(r)
  BY <1>2, <1>4 DEF WorkerStarts, LivePhases, Active
<1>5. CASE WorkerConnects(r)
  BY <1>2, <1>5 DEF WorkerConnects, LivePhases, Active
<1>6. CASE WorkerSeesStop(r)
  BY <1>2, <1>6 DEF WorkerSeesStop, LivePhases, Active
<1>7. CASE WorkerFails(r)
  BY <1>3, <1>7 DEF WorkerFails, LivePhases, Final
<1>8. CASE WorkerEnds(r)
  BY <1>3, <1>8 DEF WorkerEnds, LivePhases, Final
<1>9. CASE WorkerPublishes(r)
  <2>1. PICK n \in {0, 1}, a \in 0..MaxSent, error \in BOOLEAN :
          Report([kind |-> "PublishStatus", run |-> r, published |-> n,
                  acked |-> a, error |-> error])
    BY <1>9 DEF WorkerPublishes
  <2> DEFINE e == [kind |-> "PublishStatus", run |-> r, published |-> n,
                   acked |-> a, error |-> error]
  <2>2. e \in Events /\ ~IsFinal(e) /\ e.run = r
    BY DEF Events, StatusEvents, IsFinal
  <2>3. /\ Live(r) /\ Live(r)' /\ worker' = worker /\ worker[r] # "spawned"
        /\ UNCHANGED <<lifecycle, raced>>
    BY <1>9 DEF WorkerPublishes, Live, LivePhases, shared
  <2>4. chan' = Append(chan, e)
    BY <2>1 DEF Report
  <2> HIDE DEF e
  <2> QED BY <2>2, <2>3, <2>4, ReportInv
<1> QED BY <1>4, <1>5, <1>6, <1>7, <1>8, <1>9 DEF Worker

\* The three facts of the inductive argument.
LEMMA NextInv == IInv /\ [Next]_vars => IInv'
<1> SUFFICES ASSUME IInv, [Next]_vars PROVE EndsLast' /\ WindowInv'
  BY NextTypeOK DEF IInv
<1>1. CASE Refuse
  BY <1>1, QuietKeepsInv DEF Refuse, shared, workers, quiet
<1>2. CASE Serve \/ Start
  BY <1>1, <1>2, AcceptInv DEF Serve, Start, StartRepublisher
<1>3. CASE Stop \/ Shutdown
  BY <1>3, QuietKeepsInv DEF Stop, Shutdown, SetStopFlag, shared, workers, quiet
<1>4. CASE Exit \/ Crash
  BY <1>4, RebootInv DEF Exit, Crash
<1>5. CASE \E r \in Runs : Worker(r)
  BY <1>5, WorkerInv
<1>6. CASE Drain
  BY <1>6, DrainInv
<1>7. CASE UNCHANGED vars
  BY <1>7, QuietKeepsInv DEF vars, quiet
<1> QED BY <1>2, <1>3, <1>4, <1>5, <1>6, <1>7 DEF Next

\* The invariant from which the two theorems below follow: where the reports
\* of a run stand in the channel, and what is shown meanwhile.
THEOREM Inductive == Spec => []IInv
<1>1. Init => IInv
  BY InitTypeOK, InitInv DEF IInv
<1> QED BY <1>1, NextInv, PTL DEF Spec

\* Whatever starts overlapped, a daemon with no live worker and nothing left
\* to drain does not show (and does not refuse a start because of) a run.
THEOREM QuiescentCorrect == Spec => []QuiescentMeansStopped
<1>1. IInv => QuiescentMeansStopped
  BY DEF IInv, EndsLast, QuiescentMeansStopped
<1> QED BY <1>1, Inductive, PTL

\* The guard of start_republisher has no other window than the one between a
\* start and the drain of its first report.
THEOREM OverlapCorrect == Spec => OverlapOnlyInWindow
<1> DEFINE Overlap == raced' /\ ~raced => \A r \in OpenRuns : Unannounced(r)
<1>1. IInv /\ [Next]_vars => [Overlap]_vars
  <2> SUFFICES ASSUME IInv, Next, raced', ~raced PROVE \A r \in OpenRuns : Unannounced(r)
    OBVIOUS
  <2>1. lifecycle \notin Active
    <3>1. CASE Serve \/ Start
      BY <3>1 DEF Serve, Start, StartRepublisher, Refuse
    <3>2. CASE Stop \/ Shutdown
      BY <3>2 DEF Stop, Shutdown, SetStopFlag
    <3>3. CASE Exit \/ Crash
      BY <3>3 DEF Exit, Crash, Reboot
    <3>4. CASE \E r \in Runs : Worker(r)
      BY <3>4 DEF Worker, WorkerStarts, WorkerConnects, WorkerFails, WorkerSeesStop,
                  WorkerEnds, WorkerPublishes, WorkerMoves
    <3>5. CASE Drain
      BY <3>5 DEF Drain, ApplyLifecycle, ApplyPublishStatus
    <3> QED BY <3>1, <3>2, <3>3, <3>4, <3>5 DEF Next
  <2> QED BY <2>1 DEF IInv, WindowInv
<1> QED BY <1>1, Inductive, PTL DEF Spec, OverlapOnlyInWindow

-----------------------------------------------------------------------------
(* The counters.  What is shown and what is still in the channel add up to *)
(* what the worker has reported: a count over a prefix of the channel,     *)
(* which a report extends at one end and the drain shortens at the other.  *)

\* The reports of a publication among the first i of the channel.
Handed(c, i) == {j \in 1..i : c[j].kind = "PublishStatus" /\ c[j].published = 1}

\* What one report adds to the count.
Share(e) == IF e.kind = "PublishStatus" THEN e.published ELSE 0

\* A worker that was never spawned has reported nothing, and none confirms
\* more than it published.
WorkersInv ==
  \A r \in Runs :
    /\ worker[r] = "none" => sent[r] = 0 /\ confirmed[r] = 0
    /\ confirmed[r] <= sent[r]

\* Without an overlap only the latest run is open; what is shown and what is
\* waiting is what it published; and no report, when its turn comes, will
\* confirm more than is shown by then.
CountersInv ==
  ~raced =>
    /\ OpenRuns \subseteq {latest}
    /\ latest # NoRun => published + Cardinality(Handed(chan, Len(chan))) = sent[latest]
    /\ lastError \in {NoRun, latest}
    /\ acked <= published
    /\ \A i \in DOMAIN chan :
         chan[i].kind = "PublishStatus" => chan[i].acked <= published + Cardinality(Handed(chan, i))

\* A report is of one of the two kinds, and adds nothing or one.
LEMMA ShareType ==
  ASSUME NEW e \in Events
  PROVE  /\ Share(e) \in {0, 1}
         /\ Share(e) = 1 <=> e.kind = "PublishStatus" /\ e.published = 1
BY DEF Share, Events, LifecycleEvents, StatusEvents

\* The counts are numbers, and the empty prefix has none.
LEMMA HandedType ==
  ASSUME NEW c, NEW i \in Nat
  PROVE  /\ IsFiniteSet(Handed(c, i)) /\ Cardinality(Handed(c, i)) \in Nat
         /\ Cardinality(Handed(c, 0)) = 0
<1>1. IsFiniteSet(1..i)
  BY FS_Interval
<1>2. IsFiniteSet(Handed(c, i))
  BY <1>1, FS_Subset DEF Handed
<1>3. Handed(c, 0) = {}
  BY DEF Handed
<1> QED BY <1>2, <1>3, FS_CardinalityType, FS_EmptySet

\* Appending a report leaves the counts of the prefixes alone and adds its
\* share to the whole.
LEMMA HandedAppend ==
  ASSUME NEW c \in Seq(Events), NEW e \in Events
  PROVE  /\ \A i \in 0..Len(c) : Handed(Append(c, e), i) = Handed(c, i)
         /\ Cardinality(Handed(Append(c, e), Len(c) + 1))
              = Cardinality(Handed(c, Len(c))) + Share(e)
<1>1. /\ Len(c) \in Nat
      /\ \A j \in 1..Len(c) : Append(c, e)[j] = c[j]
      /\ Append(c, e)[Len(c) + 1] = e
  OBVIOUS
<1>2. \A i \in 0..Len(c) : Handed(Append(c, e), i) = Handed(c, i)
  BY <1>1 DEF Handed
<1>3. IsFiniteSet(Handed(c, Len(c))) /\ Cardinality(Handed(c, Len(c))) \in Nat
  BY <1>1, HandedType
<1>4. CASE Share(e) = 1
  <2>1. Handed(Append(c, e), Len(c) + 1) = Handed(c, Len(c)) \cup {Len(c) + 1}
    BY <1>1, <1>4, ShareType DEF Handed
  <2>2. Len(c) + 1 \notin Handed(c, Len(c))
    BY <1>1 DEF Handed
  <2> QED BY <1>2, <1>3, <1>4, <2>1, <2>2, FS_AddElement
<1>5. CASE Share(e) = 0
  <2>1. Handed(Append(c, e), Len(c) + 1) = Handed(c, Len(c))
    BY <1>1, <1>5, ShareType DEF Handed
  <2> QED BY <1>2, <1>3, <1>5, <2>1
<1> QED BY <1>4, <1>5, ShareType

\* Taking the first report away takes its share from every prefix.
LEMMA HandedTail ==
  ASSUME NEW c \in Seq(Events), c # <<>>, NEW i \in 0..Len(Tail(c))
  PROVE  Cardinality(Handed(c, i + 1)) = Cardinality(Handed(Tail(c), i)) + Share(Head(c))
<1>1. /\ Len(c) \in Nat \ {0} /\ Len(Tail(c)) = Len(c) - 1
      /\ \A j \in 1..Len(Tail(c)) : Tail(c)[j] = c[j + 1]
      /\ Head(c) = c[1] /\ Head(c) \in Events
  OBVIOUS
<1> DEFINE S == Handed(Tail(c), i)
           T == Handed(c, i + 1) \ {1}
           f == [j \in S |-> j + 1]
<1>2. IsFiniteSet(S) /\ IsFiniteSet(Handed(c, i + 1)) /\ Cardinality(S) \in Nat
  BY HandedType
<1>3. S \subseteq 1..i /\ \A j \in 1..i : j \in S <=> j + 1 \in T
  BY <1>1 DEF Handed
<1>4. \A k \in T : k - 1 \in S /\ f[k - 1] = k
  <2> SUFFICES ASSUME NEW k \in T PROVE k - 1 \in S /\ f[k - 1] = k
    OBVIOUS
  <2>1. k \in 2..(i + 1)
    BY <1>1 DEF Handed
  <2>2. k - 1 \in 1..i /\ (k - 1) + 1 = k
    BY <2>1
  <2> QED BY <1>3, <2>2
<1>5. f \in Bijection(S, T)
  <2>1. f \in [S -> T]
    BY <1>3
  <2>2. \A a, b \in S : f[a] = f[b] => a = b
    BY <1>3
  <2>3. \A k \in T : \E j \in S : f[j] = k
    BY <1>4
  <2> HIDE DEF S, T, f
  <2> QED BY <2>1, <2>2, <2>3, Zenon DEF Bijection, Injection, Surjection, IsInjective
<1>6. Cardinality(T) = Cardinality(S)
  <2> HIDE DEF S, T, f
  <2> QED BY <1>2, <1>5, FS_Bijection DEF ExistsBijection
<1>7. 1 \in Handed(c, i + 1) <=> Share(Head(c)) = 1
  BY <1>1, ShareType DEF Handed
<1>8. Cardinality(Handed(c, i + 1)) \in Nat
  BY HandedType
<1>9. Cardinality(T) = IF 1 \in Handed(c, i + 1) THEN Cardinality(Handed(c, i + 1)) - 1
                       ELSE Cardinality(Handed(c, i + 1))
  BY <1>2, FS_RemoveElement
<1> HIDE DEF S, T, f
<1> QED BY <1>1, <1>2, <1>6, <1>7, <1>8, <1>9, ShareType DEF S

\* Initially nothing is counted and nothing is open.
LEMMA InitCounters == Init => WorkersInv /\ CountersInv
<1> SUFFICES ASSUME Init PROVE WorkersInv /\ CountersInv
  OBVIOUS
<1>1. chan = <<>> /\ published = 0 /\ acked = 0 /\ lastError = NoRun /\ latest = NoRun
  BY DEF Init
<1>2. \A r \in Runs : worker[r] = "none" /\ sent[r] = 0 /\ confirmed[r] = 0
  BY DEF Init
<1>3. OpenRuns = {}
  BY <1>1, <1>2 DEF OpenRuns, Live, LivePhases
<1> QED BY <1>1, <1>2, <1>3 DEF WorkersInv, CountersInv

\* After a reboot nothing is counted and nothing is open.
LEMMA RebootCounters == Reboot => WorkersInv' /\ CountersInv'
<1> SUFFICES ASSUME Reboot PROVE WorkersInv' /\ CountersInv'
  OBVIOUS
<1>1. /\ chan' = <<>> /\ published' = 0 /\ acked' = 0
      /\ lastError' = NoRun /\ latest' = NoRun
  BY DEF Reboot
<1>2. \A r \in Runs : worker'[r] = "none" /\ sent'[r] = 0 /\ confirmed'[r] = 0
  BY DEF Reboot
<1>3. OpenRuns' = {}
  BY <1>1, <1>2 DEF OpenRuns, Live, LivePhases
<1> QED BY <1>1, <1>2, <1>3 DEF WorkersInv, CountersInv

counted == <<latest, published, acked, lastError, worker, sent, confirmed, chan, raced>>

\* A step that leaves the counters, the workers and the channel alone keeps
\* what is said of them.
LEMMA UncountedKeepsCounters ==
  ASSUME WorkersInv, CountersInv, UNCHANGED counted
  PROVE  WorkersInv' /\ CountersInv'
BY DEF counted, WorkersInv, CountersInv, OpenRuns, Live

\* A start that does not race finds nothing open and an empty channel.
LEMMA AcceptCounters ==
  ASSUME TypeOK, WorkersInv, CountersInv, Accept
  PROVE  WorkersInv' /\ CountersInv'
<1>1. PICK r \in Runs :
        /\ worker[r] = "none"
        /\ latest' = r /\ published' = 0 /\ acked' = 0 /\ lastError' = NoRun
        /\ worker' = [worker EXCEPT ![r] = "spawned"]
        /\ raced' = (raced \/ OpenRuns # {})
        /\ UNCHANGED <<chan, sent, confirmed>>
  BY DEF Accept
<1>2. WorkersInv'
  BY <1>1 DEF WorkersInv, TypeOK
<1>3. ASSUME ~raced' PROVE CountersInv'
  <2>1. OpenRuns = {}
    BY <1>1, <1>3
  <2>2. \A i \in DOMAIN chan : chan[i].run \in Runs
    BY DEF TypeOK, Events, LifecycleEvents, StatusEvents
  <2>3. chan = <<>> /\ \A q \in Runs : ~Live(q)
    <3>1. chan \in Seq(Events)
      BY DEF TypeOK
    <3> QED BY <2>1, <2>2, <3>1 DEF OpenRuns
  <2>4. OpenRuns' \subseteq {r}
    BY <1>1, <2>3 DEF OpenRuns, Live, TypeOK
  <2>5. Cardinality(Handed(chan, Len(chan))) = 0 /\ sent[r] = 0
    BY <1>1, <2>3, HandedType DEF WorkersInv
  <2> QED BY <1>1, <2>3, <2>4, <2>5 DEF CountersInv, NoRun
<1> QED BY <1>2, <1>3 DEF CountersInv

\* A report that counts nothing is appended by a worker that was live.
LEMMA MoveCounters ==
  ASSUME TypeOK, WorkersInv, CountersInv, NEW r \in Runs,
         NEW from \in SUBSET LivePhases, NEW to \in LivePhases \cup {"ended"},
         NEW l \in Active \cup Final, WorkerMoves(r, from, to, l)
  PROVE  WorkersInv' /\ CountersInv'
<1> DEFINE e == [kind |-> "Lifecycle", run |-> r, lifecycle |-> l]
<1>1. e \in Events /\ Share(e) = 0 /\ e.run = r /\ e.kind = "Lifecycle"
  BY DEF Events, LifecycleEvents, Share
<1>2. /\ chan \in Seq(Events) /\ chan' = Append(chan, e)
      /\ UNCHANGED <<latest, published, acked, lastError, sent, confirmed, raced>>
      /\ worker' = [worker EXCEPT ![r] = to] /\ Live(r)
  BY DEF WorkerMoves, Report, shared, Live, TypeOK
<1> HIDE DEF e
<1>3. WorkersInv'
  BY <1>2 DEF WorkersInv, TypeOK, LivePhases
<1>4. ASSUME ~raced PROVE CountersInv'
  <2>1. OpenRuns' \subseteq OpenRuns
    <3>1. \A q \in Runs \ {r} : Live(q)' => Live(q)
      BY <1>2 DEF Live, TypeOK
    <3>2. \A i \in DOMAIN chan' : (i \in DOMAIN chan /\ chan'[i] = chan[i]) \/ chan'[i] = e
      BY <1>1, <1>2
    <3> QED BY <1>1, <1>2, <3>1, <3>2 DEF OpenRuns
  <2>2. /\ Len(chan') = Len(chan) + 1 /\ Len(chan) \in Nat
        /\ \A i \in 1..Len(chan) : chan'[i] = chan[i]
        /\ chan'[Len(chan')] = e
        /\ DOMAIN chan = 1..Len(chan) /\ DOMAIN chan' = 1..Len(chan')
    BY <1>1, <1>2
  <2>3. /\ \A i \in 0..Len(chan) : Handed(chan', i) = Handed(chan, i)
        /\ Cardinality(Handed(chan', Len(chan'))) = Cardinality(Handed(chan, Len(chan)))
    BY <1>1, <1>2, <2>2, HandedAppend, HandedType
  <2>4. ASSUME NEW i \in DOMAIN chan', chan'[i].kind = "PublishStatus"
        PROVE  chan'[i].acked <= published + Cardinality(Handed(chan', i))
    <3>1. i \in 1..Len(chan)
      BY <1>1, <2>2, <2>4
    <3> QED BY <1>4, <2>2, <2>3, <2>4, <3>1 DEF CountersInv
  <2> QED BY <1>2, <1>4, <2>1, <2>3, <2>4 DEF CountersInv
<1> QED BY <1>2, <1>3, <1>4 DEF CountersInv

\* A report of publications: what it adds is counted, and what it confirms
\* was counted before it or with it.
LEMMA PublishCounters ==
  ASSUME TypeOK, WorkersInv, CountersInv, NEW r \in Runs, WorkerPublishes(r)
  PROVE  WorkersInv' /\ CountersInv'
<1>1. PICK n \in {0, 1}, a \in 0..MaxSent, error \in BOOLEAN :
        /\ a \in confirmed[r] .. sent[r] + n
        /\ sent' = [sent EXCEPT ![r] = @ + n]
        /\ confirmed' = [confirmed EXCEPT ![r] = a]
        /\ Report([kind |-> "PublishStatus", run |-> r, published |-> n,
                   acked |-> a, error |-> error])
  BY DEF WorkerPublishes
<1> DEFINE e == [kind |-> "PublishStatus", run |-> r, published |-> n,
                 acked |-> a, error |-> error]
<1>2. /\ e \in Events /\ Share(e) = n /\ e.run = r
      /\ e.kind = "PublishStatus" /\ e.acked = a
  BY DEF Events, StatusEvents, Share
<1>3. /\ chan \in Seq(Events) /\ chan' = Append(chan, e)
      /\ UNCHANGED <<latest, published, acked, lastError, worker, raced>>
      /\ worker[r] \in {"running", "stopping"}
  BY <1>1 DEF WorkerPublishes, Report, shared, TypeOK
<1> HIDE DEF e
<1>4. sent[r] \in Nat /\ confirmed[r] \in Nat /\ r # NoRun /\ Live(r)
  BY <1>3, RunAssumption DEF TypeOK, Live, LivePhases, Runs, NoRun
<1>5. sent'[r] = sent[r] + n /\ confirmed'[r] = a /\ a <= sent[r] + n
  BY <1>1, <1>4 DEF TypeOK
<1>6. WorkersInv'
  BY <1>1, <1>3, <1>4, <1>5 DEF WorkersInv, TypeOK
<1>7. ASSUME ~raced PROVE CountersInv'
  <2>1. r = latest /\ OpenRuns \subseteq {latest}
    BY <1>4, <1>7 DEF CountersInv, OpenRuns
  <2>2. OpenRuns' \subseteq OpenRuns
    <3>1. \A q \in Runs : Live(q)' => Live(q)
      BY <1>3 DEF Live
    <3>2. \A i \in DOMAIN chan' : (i \in DOMAIN chan /\ chan'[i] = chan[i]) \/ chan'[i] = e
      BY <1>2, <1>3
    <3> QED BY <1>2, <1>4, <3>1, <3>2 DEF OpenRuns
  <2>3. /\ Len(chan') = Len(chan) + 1 /\ Len(chan) \in Nat
        /\ \A i \in 1..Len(chan) : chan'[i] = chan[i]
        /\ chan'[Len(chan')] = e
        /\ DOMAIN chan = 1..Len(chan) /\ DOMAIN chan' = 1..Len(chan')
    BY <1>2, <1>3
  <2>4. /\ \A i \in 0..Len(chan) : Handed(chan', i) = Handed(chan, i)
        /\ Cardinality(Handed(chan', Len(chan'))) = Cardinality(Handed(chan, Len(chan))) + n
        /\ Cardinality(Handed(chan, Len(chan))) \in Nat
    BY <1>2, <1>3, <2>3, HandedAppend, HandedType
  <2>5. published \in Nat /\ published + Cardinality(Handed(chan, Len(chan))) = sent[r]
    BY <1>4, <1>7, <2>1 DEF CountersInv, TypeOK
  <2>6. published + Cardinality(Handed(chan', Len(chan'))) = sent'[r]
    BY <1>4, <1>5, <2>4, <2>5
  <2>7. ASSUME NEW i \in DOMAIN chan', chan'[i].kind = "PublishStatus"
        PROVE  chan'[i].acked <= published + Cardinality(Handed(chan', i))
    <3>1. CASE i \in 1..Len(chan)
      BY <1>7, <2>3, <2>4, <2>7, <3>1 DEF CountersInv
    <3>2. CASE i = Len(chan')
      BY <1>2, <1>5, <2>3, <2>6, <3>2
    <3> QED BY <2>3, <3>1, <3>2
  <2> QED BY <1>3, <1>7, <2>1, <2>2, <2>6, <2>7 DEF CountersInv
<1> QED BY <1>3, <1>6, <1>7 DEF CountersInv

\* Applying a report moves its share from what waits to what is shown.
LEMMA DrainCounters ==
  ASSUME TypeOK, WorkersInv, CountersInv, Drain
  PROVE  WorkersInv' /\ CountersInv'
<1> DEFINE h == Head(chan)
<1>1. /\ chan \in Seq(Events) /\ chan # <<>> /\ chan' = Tail(chan)
      /\ UNCHANGED <<latest, worker, sent, confirmed, raced>>
  BY DEF Drain, ApplyLifecycle, ApplyPublishStatus, workers, TypeOK
<1>2. /\ Len(chan) \in Nat \ {0} /\ Len(chan') = Len(chan) - 1
      /\ \A i \in 1..Len(chan') : chan'[i] = chan[i + 1]
      /\ h = chan[1] /\ h \in Events /\ 1 \in DOMAIN chan
      /\ DOMAIN chan = 1..Len(chan) /\ DOMAIN chan' = 1..Len(chan')
  BY <1>1
<1>3. /\ published' = published + Share(h) /\ published' \in Nat /\ published \in Nat
      /\ h.run \in Runs
      /\ acked' = IF h.kind = "PublishStatus" /\ h.acked > acked THEN h.acked ELSE acked
      /\ lastError' \in {lastError, NoRun, h.run}
  BY <1>2, ShareType DEF Drain, ApplyLifecycle, ApplyPublishStatus, TypeOK, Share,
     Events, LifecycleEvents, StatusEvents
<1>4. \A i \in 0..Len(chan') :
        /\ Cardinality(Handed(chan, i + 1)) = Cardinality(Handed(chan', i)) + Share(h)
        /\ Cardinality(Handed(chan', i)) \in Nat
  BY <1>1, HandedTail, HandedType
<1> HIDE DEF h
<1>5. WorkersInv'
  BY <1>1 DEF WorkersInv
<1>6. ASSUME ~raced PROVE CountersInv'
  <2>1. OpenRuns' \subseteq OpenRuns
    BY <1>1, <1>2 DEF OpenRuns, Live
  <2>2. h.run \in OpenRuns
    BY <1>2, <1>3 DEF OpenRuns
  <2>3. lastError' \in {NoRun, latest}
    BY <1>3, <1>6, <2>2 DEF CountersInv
  <2>4. Share(h) \in {0, 1}
    BY <1>2, ShareType
  <2>5. Cardinality(Handed(chan, Len(chan))) = Cardinality(Handed(chan', Len(chan'))) + Share(h)
    BY <1>2, <1>4
  <2>6. latest # NoRun => published' + Cardinality(Handed(chan', Len(chan'))) = sent[latest]
    <3>1. Cardinality(Handed(chan', Len(chan'))) \in Nat
      BY <1>2, <1>4
    <3> QED BY <1>3, <1>6, <2>4, <2>5, <3>1 DEF CountersInv
  <2>7. acked' <= published'
    <3>1. acked \in Nat /\ acked <= published
      BY <1>6 DEF CountersInv, TypeOK
    <3>2. ASSUME h.kind = "PublishStatus" PROVE h.acked <= published'
      <4>1. Cardinality(Handed(chan, 1)) = Share(h)
        <5>1. Cardinality(Handed(chan', 0)) = 0 /\ 0 \in 0..Len(chan')
          BY <1>2, HandedType
        <5> QED BY <1>4, <2>4, <5>1
      <4> QED BY <1>2, <1>3, <1>6, <3>2, <4>1 DEF CountersInv
    <3> QED BY <1>3, <2>4, <3>1, <3>2
  <2>8. ASSUME NEW i \in DOMAIN chan', chan'[i].kind = "PublishStatus"
        PROVE  chan'[i].acked <= published' + Cardinality(Handed(chan', i))
    <3>1. i + 1 \in DOMAIN chan /\ chan'[i] = chan[i + 1] /\ i \in 0..Len(chan')
      BY <1>2, <2>8
    <3>2. chan'[i].acked <= published + Cardinality(Handed(chan, i + 1))
      BY <1>6, <2>8, <3>1 DEF CountersInv
    <3>3. published + Cardinality(Handed(chan, i + 1)) = published' + Cardinality(Handed(chan', i))
      BY <1>3, <1>4, <2>4, <3>1
    <3> QED BY <3>2, <3>3
  <2> QED BY <1>1, <1>6, <2>1, <2>3, <2>6, <2>7, <2>8 DEF CountersInv
<1> QED BY <1>1, <1>5, <1>6 DEF CountersInv

\* Every step keeps the counts.
LEMMA NextCounters ==
  TypeOK /\ WorkersInv /\ CountersInv /\ [Next]_vars => WorkersInv' /\ CountersInv'
<1> SUFFICES ASSUME TypeOK, WorkersInv, CountersInv, [Next]_vars
             PROVE  WorkersInv' /\ CountersInv'
  OBVIOUS
<1>1. CASE Refuse
  BY <1>1, UncountedKeepsCounters DEF Refuse, shared, workers, counted
<1>2. CASE Serve \/ Start
  BY <1>1, <1>2, AcceptCounters DEF Serve, Start, StartRepublisher
<1>3. CASE Stop \/ Shutdown
  BY <1>3, UncountedKeepsCounters DEF Stop, Shutdown, SetStopFlag, shared, workers, counted
<1>4. CASE Exit \/ Crash
  BY <1>4, RebootCounters DEF Exit, Crash
<1>5. ASSUME NEW r \in Runs, Worker(r) PROVE WorkersInv' /\ CountersInv'
  <2>1. CASE WorkerStarts(r)
    BY <2>1, MoveCounters DEF WorkerStarts, LivePhases, Active
  <2>2. CASE WorkerConnects(r)
    BY <2>2, MoveCounters DEF WorkerConnects, LivePhases, Active
  <2>3. CASE WorkerFails(r)
    BY <2>3, MoveCounters DEF WorkerFails, LivePhases, Final
  <2>4. CASE WorkerSeesStop(r)
    BY <2>4, MoveCounters DEF WorkerSeesStop, LivePhases, Active
  <2>5. CASE WorkerEnds(r)
    BY <2>5, MoveCounters DEF WorkerEnds, LivePhases, Final
  <2>6. CASE WorkerPublishes(r)
    BY <2>6, PublishCounters
  <2> QED BY <1>5, <2>1, <2>2, <2>3, <2>4, <2>5, <2>6 DEF Worker
<1>6. CASE Drain
  BY <1>6, DrainCounters
<1>7. CASE UNCHANGED vars
  BY <1>7, UncountedKeepsCounters DEF vars, counted
<1> QED BY <1>2, <1>3, <1>4, <1>5, <1>6, <1>7 DEF Next

\* What is shown and what is waiting add up, in every reachable state.
THEOREM CountersInductive == Spec => [](TypeOK /\ WorkersInv /\ CountersInv)
<1>1. Init => TypeOK /\ WorkersInv /\ CountersInv
  BY InitTypeOK, InitCounters
<1>2. (TypeOK /\ WorkersInv /\ CountersInv) /\ [Next]_vars
        => (TypeOK /\ WorkersInv /\ CountersInv)'
  BY NextTypeOK, NextCounters
<1> QED BY <1>1, <1>2, PTL DEF Spec

\* Without an overlap the published count is exactly the current run's, less
\* what has not been applied yet, and no earlier run's error is shown.
THEOREM CountersCorrect == Spec => []CountersBelongToRun
<1>1. TypeOK /\ CountersInv => CountersBelongToRun
  <2> SUFFICES ASSUME TypeOK, CountersInv, ~raced, latest # NoRun
               PROVE  published + Pending(latest) = sent[latest]
    BY DEF CountersBelongToRun, CountersInv
  <2>1. /\ chan \in Seq(Events) /\ DOMAIN chan = 1..Len(chan)
        /\ \A i \in DOMAIN chan : chan[i].run \in Runs
    BY DEF TypeOK, Events, LifecycleEvents, StatusEvents
  <2>2. \A i \in DOMAIN chan : chan[i].run = latest
    BY <2>1 DEF CountersInv, OpenRuns
  <2>3. {i \in DOMAIN chan : /\ chan[i].kind = "PublishStatus"
                             /\ chan[i].run = latest /\ chan[i].published = 1}
          = Handed(chan, Len(chan))
    BY <2>1, <2>2 DEF Handed
  <2> QED BY <2>3 DEF CountersInv, Pending
<1> QED BY <1>1, CountersInductive, PTL

\* Without an overlap no more is shown as delivered than as queued.
THEOREM DeliveredCorrect == Spec => []DeliveredWithinQueued
<1>1. CountersInv => DeliveredWithinQueued
  BY DEF CountersInv, DeliveredWithinQueued
<1> QED BY <1>1, CountersInductive, PTL
=============================================================================
