----------------------------- MODULE Republisher -----------------------------
(***************************************************************************)
(* Starting, stopping and following the publishing run of the daemon: the  *)
(* API handlers start_republisher and stop_republisher, the autostart and  *)
(* the shutdown of web::serve, the worker thread a start spawns, and the   *)
(* drain thread through which its lifecycle and its counters reach         *)
(* web::state::Shared.                                                     *)
(*                                                                         *)
(* A start does not touch Shared.lifecycle: the field changes only when    *)
(* the drain applies what the worker reported.  Between the two lies the   *)
(* channel, and that distance is what this module is about.                *)
(*                                                                         *)
(* Abstractions: a run is a number, in the order of the starts; a run's    *)
(* stop flag (an Arc<AtomicBool> shared with its worker) is membership in  *)
(* `flagged'; the counters count publications one by one; log lines, point *)
(* statuses and samples are left out.                                      *)
(***************************************************************************)
EXTENDS Naturals, Sequences, FiniteSets

CONSTANTS
  MaxRuns,      \* bound: starts in one life of the process
  MaxSent,      \* bound: publications of one run
  MaxPending,   \* bound: reports waiting for the drain at a time
  Autostart     \* mqtt.autostart of the configuration at boot

ASSUME RunAssumption ==
  MaxRuns \in Nat /\ MaxSent \in Nat /\ MaxPending \in Nat /\ Autostart \in BOOLEAN

Runs == 1..MaxRuns

NoRun == 0

VARIABLES
  lifecycle,   \* Shared.lifecycle
  latest,      \* Shared.stop_flag: the run whose flag it holds, or NoRun
  published,   \* Shared.published_total
  acked,       \* Shared.acked_total
  lastError,   \* the run whose error Shared.last_error is, or NoRun for None
  flagged,     \* the runs whose stop flag is set
  asked,       \* history: the runs that were the newest at a stop request
  worker,      \* where the worker thread of each run stands
  sent,        \* publications each worker has reported
  confirmed,   \* PubAcks each worker has reported, a running total
  chan,        \* the WorkerEvent channel, oldest first
  phase,       \* where web::serve stands
  raced        \* history: a start was accepted while an earlier run was open

shared == <<lifecycle, latest, published, acked, lastError>>

workers == <<worker, sent, confirmed>>

vars == <<lifecycle, latest, published, acked, lastError, flagged, asked,
          worker, sent, confirmed, chan, phase, raced>>

-----------------------------------------------------------------------------

Active == {"Starting", "Running", "Stopping"}

Final == {"Stopped", "Failed"}

LivePhases == {"spawned", "starting", "running", "stopping"}

Live(r) == worker[r] \in LivePhases

LiveRuns == {r \in Runs : Live(r)}

\* The runs the daemon has not seen the end of: live, or with a report in
\* the channel.
OpenRuns == {r \in Runs : Live(r) \/ \E i \in DOMAIN chan : chan[i].run = r}

LifecycleEvents == [kind : {"Lifecycle"}, run : Runs, lifecycle : Active \cup Final]

StatusEvents ==
  [kind : {"PublishStatus"}, run : Runs, published : {0, 1}, acked : 0..MaxSent, error : BOOLEAN]

Events == LifecycleEvents \cup StatusEvents

-----------------------------------------------------------------------------
(* Booting: WebState::new, the drain thread, then the autostart, before    *)
(* the listener accepts its first request.                                 *)

Init ==
  /\ lifecycle = "Stopped" /\ latest = NoRun
  /\ published = 0 /\ acked = 0 /\ lastError = NoRun
  /\ flagged = {} /\ asked = {}
  /\ worker = [r \in Runs |-> "none"]
  /\ sent = [r \in Runs |-> 0] /\ confirmed = [r \in Runs |-> 0]
  /\ chan = <<>>
  /\ phase = "booting"
  /\ raced = FALSE

\* The process is gone, its threads with it, and is started again.
Reboot ==
  /\ lifecycle' = "Stopped" /\ latest' = NoRun
  /\ published' = 0 /\ acked' = 0 /\ lastError' = NoRun
  /\ flagged' = {} /\ asked' = {}
  /\ worker' = [r \in Runs |-> "none"]
  /\ sent' = [r \in Runs |-> 0] /\ confirmed' = [r \in Runs |-> 0]
  /\ chan' = <<>>
  /\ phase' = "booting"
  /\ raced' = FALSE

-----------------------------------------------------------------------------
(* start_republisher.                                                      *)

\* Runs are numbered in the order of the starts.
Newest(r) == worker[r] # "none" /\ \A q \in Runs : q > r => worker[q] = "none"

\* Faulty: the published count goes on from the previous run.
AcceptKeepsPublished ==
  \E r \in Runs :
    /\ worker[r] = "none" /\ \A q \in Runs : q < r => worker[q] # "none"
    /\ latest' = r
    /\ acked' = 0 /\ lastError' = NoRun
    /\ worker' = [worker EXCEPT ![r] = "spawned"]
    /\ raced' = (raced \/ OpenRuns # {})
    /\ UNCHANGED <<lifecycle, published, flagged, asked, sent, confirmed, chan>>

\* Faulty: the confirmed count goes on from the previous run.
AcceptKeepsAcked ==
  \E r \in Runs :
    /\ worker[r] = "none" /\ \A q \in Runs : q < r => worker[q] # "none"
    /\ latest' = r
    /\ published' = 0 /\ lastError' = NoRun
    /\ worker' = [worker EXCEPT ![r] = "spawned"]
    /\ raced' = (raced \/ OpenRuns # {})
    /\ UNCHANGED <<lifecycle, acked, flagged, asked, sent, confirmed, chan>>

\* Faulty: the state keeps the stop flag of the first run.
AcceptKeepsFlag ==
  \E r \in Runs :
    /\ worker[r] = "none" /\ \A q \in Runs : q < r => worker[q] # "none"
    /\ latest' = IF latest = NoRun THEN r ELSE latest
    /\ published' = 0 /\ acked' = 0 /\ lastError' = NoRun
    /\ worker' = [worker EXCEPT ![r] = "spawned"]
    /\ raced' = (raced \/ OpenRuns # {})
    /\ UNCHANGED <<lifecycle, flagged, asked, sent, confirmed, chan>>

\* The accepted start: a fresh flag takes the place of the previous one, the
\* counters restart, a worker is spawned.  Shared.lifecycle is not touched.
Accept ==
  \E r \in Runs :
    /\ worker[r] = "none" /\ \A q \in Runs : q < r => worker[q] # "none"
    /\ latest' = r
    /\ published' = 0 /\ acked' = 0 /\ lastError' = NoRun
    /\ worker' = [worker EXCEPT ![r] = "spawned"]
    /\ raced' = (raced \/ OpenRuns # {})
    /\ UNCHANGED <<lifecycle, flagged, asked, sent, confirmed, chan>>

\* The answer "republisher is already running", and the refusal of a
\* configuration that does not validate or has no registered protocol:
\* which of them it is changes (module ConfigStore), so any start may fail.
Refuse ==
  UNCHANGED <<shared, flagged, asked, workers, chan, raced>>

\* Faulty: a run that is stopping does not count as running.
StartWhileStopping ==
  \/ lifecycle \notin {"Starting", "Running"} /\ Accept
  \/ Refuse

StartRepublisher ==
  \/ lifecycle \notin Active /\ Accept
  \/ Refuse

\* web::serve: the autostart runs before the listener.
Serve ==
  /\ phase = "booting"
  /\ phase' = "serving"
  /\ IF Autostart THEN StartRepublisher ELSE Refuse

\* Requests are served until the listener has closed, so also while the
\* daemon is shutting down.
Serving == phase \in {"serving", "closing"}

Start == Serving /\ StartRepublisher /\ UNCHANGED phase

\* Faulty: the flag is set without looking whether there is one.
SetStopFlagBlindly ==
  /\ flagged' = flagged \cup {latest}
  /\ asked' = asked \cup {r \in Runs : Newest(r)}
  /\ UNCHANGED <<shared, workers, chan, raced>>

\* Whatever flag the state holds is set, and nothing else changes.
SetStopFlag ==
  /\ flagged' = IF latest = NoRun THEN flagged ELSE flagged \cup {latest}
  /\ asked' = asked \cup {r \in Runs : Newest(r)}
  /\ UNCHANGED <<shared, workers, chan, raced>>

\* stop_republisher.
Stop == Serving /\ SetStopFlag /\ UNCHANGED phase

\* The shutdown task: the stop flag is set, then the server begins to close.
Shutdown == phase = "serving" /\ SetStopFlag /\ phase' = "closing"

\* serve returns when the connections are closed (at once if there are none,
\* after the grace period at the latest) and main returns with it.
Exit == phase = "closing" /\ Reboot

\* The process dies.
Crash == phase # "booting" /\ Reboot

-----------------------------------------------------------------------------
(* The worker thread of a run, in republish-core: what it reports, in the  *)
(* order of RepublisherLifecycle, and the stop flag it polls.              *)

Report(event) == Len(chan) < MaxPending /\ chan' = Append(chan, event)

WorkerMoves(r, from, to, l) ==
  /\ worker[r] \in from
  /\ worker' = [worker EXCEPT ![r] = to]
  /\ Report([kind |-> "Lifecycle", run |-> r, lifecycle |-> l])
  /\ UNCHANGED <<shared, flagged, asked, sent, confirmed, phase, raced>>

WorkerStarts(r) == WorkerMoves(r, {"spawned"}, "starting", "Starting")

WorkerConnects(r) == WorkerMoves(r, {"starting"}, "running", "Running")

WorkerFails(r) == WorkerMoves(r, {"starting", "running"}, "ended", "Failed")

WorkerSeesStop(r) ==
  r \in flagged /\ WorkerMoves(r, {"starting", "running"}, "stopping", "Stopping")

WorkerEnds(r) == WorkerMoves(r, {"stopping"}, "ended", "Stopped")

\* Publications handed to the broker are reported as an increment, PubAcks
\* as a running total; a report may carry the latest connection error.
WorkerPublishes(r) ==
  /\ worker[r] \in {"running", "stopping"}
  /\ \E n \in {0, 1}, a \in 0..MaxSent, error \in BOOLEAN :
       /\ sent[r] + n <= MaxSent
       /\ a \in confirmed[r] .. sent[r] + n
       /\ n = 1 \/ a > confirmed[r]
       /\ sent' = [sent EXCEPT ![r] = @ + n]
       /\ confirmed' = [confirmed EXCEPT ![r] = a]
       /\ Report([kind |-> "PublishStatus", run |-> r, published |-> n,
                  acked |-> a, error |-> error])
  /\ UNCHANGED <<shared, flagged, asked, worker, phase, raced>>

Worker(r) ==
  \/ WorkerStarts(r) \/ WorkerConnects(r) \/ WorkerFails(r)
  \/ WorkerSeesStop(r) \/ WorkerEnds(r) \/ WorkerPublishes(r)

-----------------------------------------------------------------------------
(* The drain thread: apply_event.                                          *)

\* Faulty: a failure is logged and the lifecycle left as it was.
ApplyLifecycleButFailed ==
  /\ chan # <<>> /\ Head(chan).kind = "Lifecycle"
  /\ chan' = Tail(chan)
  /\ lifecycle' = IF Head(chan).lifecycle = "Failed" THEN lifecycle ELSE Head(chan).lifecycle
  /\ UNCHANGED <<latest, published, acked, lastError, flagged, asked, workers, phase, raced>>

ApplyLifecycle ==
  /\ chan # <<>> /\ Head(chan).kind = "Lifecycle"
  /\ chan' = Tail(chan)
  /\ lifecycle' = Head(chan).lifecycle
  /\ UNCHANGED <<latest, published, acked, lastError, flagged, asked, workers, phase, raced>>

\* The published count is a sum of increments; the acked count is a running
\* total, of which the larger is kept; the error is replaced.
ApplyPublishStatus ==
  /\ chan # <<>> /\ Head(chan).kind = "PublishStatus"
  /\ chan' = Tail(chan)
  /\ published' = published + Head(chan).published
  /\ acked' = IF Head(chan).acked > acked THEN Head(chan).acked ELSE acked
  /\ lastError' = IF Head(chan).error THEN Head(chan).run ELSE NoRun
  /\ UNCHANGED <<lifecycle, latest, flagged, asked, workers, phase, raced>>

Drain == ApplyLifecycle \/ ApplyPublishStatus

-----------------------------------------------------------------------------

Next ==
  \/ Serve \/ Start \/ Stop \/ Shutdown \/ Exit \/ Crash
  \/ \E r \in Runs : Worker(r)
  \/ Drain

Spec == Init /\ [][Next]_vars

\* A worker thread that can start, resolve its connection, notice its stop
\* flag or end does so, and the drain thread never stops.  A run that nobody
\* stops may go on for ever.
Fairness ==
  /\ \A r \in Runs :
       /\ WF_vars(WorkerStarts(r))
       /\ WF_vars(worker[r] = "starting" /\ (WorkerConnects(r) \/ WorkerFails(r)))
       /\ WF_vars(WorkerSeesStop(r))
       /\ WF_vars(WorkerEnds(r))
  /\ WF_vars(Drain)

FairSpec == Spec /\ Fairness

-----------------------------------------------------------------------------
(* Properties.                                                             *)

\* The type invariant.
TypeOK ==
  /\ lifecycle \in Active \cup Final
  /\ latest \in Runs \cup {NoRun}
  /\ published \in Nat /\ acked \in Nat
  /\ lastError \in Runs \cup {NoRun}
  /\ flagged \subseteq Runs /\ asked \subseteq Runs
  /\ worker \in [Runs -> LivePhases \cup {"none", "ended"}]
  /\ sent \in [Runs -> 0..MaxSent] /\ confirmed \in [Runs -> 0..MaxSent]
  /\ chan \in Seq(Events)
  /\ phase \in {"booting", "serving", "closing"}
  /\ raced \in BOOLEAN

IsLifecycle(e, l) == e.kind = "Lifecycle" /\ e.lifecycle = l

\* The first report of run r has not been applied yet.
Unannounced(r) ==
  \/ worker[r] = "spawned"
  \/ \E i \in DOMAIN chan : chan[i].run = r /\ IsLifecycle(chan[i], "Starting")

\* The guard of start_republisher works once the drain has caught up with
\* the first report of the run: the first start that is accepted before an
\* earlier run is over can only come in the window between that run's start
\* and the drain of its "Starting".  In particular a start is never accepted
\* while the daemon shows a run in any stage.
OverlapOnlyInWindow ==
  [][ raced' /\ ~raced => \A r \in OpenRuns : Unannounced(r) ]_vars

\* However the runs overlapped, when every worker has ended and the drain
\* has applied all reports the daemon says so: it never goes on showing
\* (and refusing a start because of) a run that no longer exists.
QuiescentMeansStopped ==
  LiveRuns = {} /\ chan = <<>> => lifecycle \in Final

\* Publications of run r reported but not applied yet.
Pending(r) ==
  Cardinality({i \in DOMAIN chan :
                 /\ chan[i].kind = "PublishStatus"
                 /\ chan[i].run = r /\ chan[i].published = 1})

\* Without an overlap the counters are those of the current run alone: no
\* report of an earlier run reaches them after the reset of a start, none of
\* the current run's is lost, and no earlier run's error is shown.
CountersBelongToRun ==
  ~raced =>
    /\ latest # NoRun => published + Pending(latest) = sent[latest]
    /\ lastError \in {NoRun, latest}

\* Without an overlap, "delivered" never exceeds "queued": state.rs calls
\* acked_total the honest figure alongside published_total.
DeliveredWithinQueued == ~raced => acked <= published

\* A stop reaches the newest run whenever it comes, also before the worker's
\* first report: the run ends and its last report is applied.
StopSettles ==
  \A r \in Runs : r \in asked ~> (~Live(r) /\ \A i \in DOMAIN chan : chan[i].run # r)

\* api.rs, the answer to a start while a run is live, "republisher is
\* already running": at most one run is live.
OneRunAtATime == Cardinality(LiveRuns) <= 1
=============================================================================
