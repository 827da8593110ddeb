--------------------------- MODULE WorkerLifecycle ---------------------------
(***************************************************************************)
(* One worker process from its start to its exit (cmd/worker/main.go,      *)
(* cmd/worker/idle.go, pkg/metrics/metrics.go): the Temporal workers it    *)
(* starts one after the other, the idle poller that ends it when there is  *)
(* nothing to do, the stop of the workers in reverse order, and the wait   *)
(* for one last scrape of /metrics.                                        *)
(*                                                                         *)
(* What the Temporal SDK does (hand tasks out, drain, give up after        *)
(* WorkerStopTimeout) and what Prometheus does (scrape) is external.       *)
(***************************************************************************)
EXTENDS Integers, FiniteSets

CONSTANTS
  Tasks,       \* activity and workflow tasks that may reach this process
  NumWorkers,  \* enabled activity tokens, one Temporal worker each
  IdleAfter    \* WORKER_IDLE_EXIT_AFTER, in clock ticks

ASSUME LifecycleAssumption ==
  /\ IsFiniteSet(Tasks)
  /\ NumWorkers \in Nat \ {0}
  /\ IdleAfter \in Nat \ {0}

Workers == 1..NumWorkers

VARIABLES
  main,      \* how far run() got
  worker,    \* each Temporal worker
  ctx,       \* run()'s context: "live", or what cancelled it
  poller,    \* the idle poller's goroutine
  inFlight,  \* idleTracker.inFlight
  elapsed,   \* ticks since idleTracker.lastActivity, no more than IdleAfter
  task,      \* each task
  on,        \* the worker that polled each task
  late,      \* workers whose Stop gave up waiting for their tasks
  quiet,     \* ticks without a task in execution, no more than IdleAfter
  scrape,    \* the scrape being served, by what it gathered
  token,     \* the content of the scrapeNotify channel
  gate       \* how WaitForScrape ended

trackerVars == <<inFlight, elapsed>>
taskVars    == <<task, on, late, quiet>>
scrapeVars  == <<scrape, token, gate>>
vars == <<main, worker, ctx, poller, trackerVars, taskVars, scrapeVars>>

Executing == {t \in Tasks : task[t] = "running"}
Held(w)   == {t \in Tasks : on[t] = w /\ task[t] \in {"polled", "running"}}

-----------------------------------------------------------------------------
\* startWorkers and the body of run

StartWorker(w) ==
  /\ main = "starting"
  /\ worker[w] = "none"
  /\ \A v \in 1..(w - 1) : worker[v] = "polling"
  /\ worker' = [worker EXCEPT ![w] = "polling"]
  /\ main' = IF w = NumWorkers THEN "serving" ELSE main
  /\ UNCHANGED <<ctx, poller, trackerVars, taskVars, scrapeVars>>

\* A worker that does not start stops the started ones; run returns at once.
StartFails ==
  /\ main = "starting"
  /\ main' = "stopping"
  /\ gate' = "skipped"
  /\ UNCHANGED <<worker, ctx, poller, trackerVars, taskVars, scrape, token>>

BeginStop ==
  /\ main = "serving"
  /\ ctx # "live"
  /\ main' = "stopping"
  /\ UNCHANGED <<worker, ctx, poller, trackerVars, taskVars, scrapeVars>>

\* stopWorkers: the worker started last is stopped first.
StopWorkers(w) ==
  /\ main = "stopping"
  /\ worker[w] = "polling"
  /\ \A v \in (w + 1)..NumWorkers : worker[v] \in {"none", "stopped"}
  /\ worker' = [worker EXCEPT ![w] = "draining"]
  /\ UNCHANGED <<main, ctx, poller, trackerVars, taskVars, scrapeVars>>

AllStopped_OffByOne == \A w \in 2..NumWorkers : worker[w] \in {"none", "stopped"}

AllStopped == \A w \in Workers : worker[w] \in {"none", "stopped"}

\* After a drain run waits for a scrape, and after a failed start it does not.
WorkersStopped ==
  /\ main = "stopping"
  /\ AllStopped
  /\ main' = IF gate = "skipped" THEN "closing" ELSE "drained"
  /\ UNCHANGED <<worker, ctx, poller, trackerVars, taskVars, scrapeVars>>

\* The deferred calls, and the end of the process and of what it still runs.
RunReturns ==
  /\ main = "closing"
  /\ main' = "exited"
  /\ task' = [t \in Tasks |-> IF task[t] \in {"polled", "running"} THEN "aborted"
                                                                 ELSE task[t]]
  /\ UNCHANGED <<worker, ctx, poller, trackerVars, on, late, quiet, scrapeVars>>

-----------------------------------------------------------------------------
\* The Temporal SDK (external)

\* A worker polls a task; the interceptor has not seen it yet.
PollTask(t, w) ==
  /\ task[t] = "queued"
  /\ worker[w] = "polling"
  /\ task' = [task EXCEPT ![t] = "polled"]
  /\ on' = [on EXCEPT ![t] = w]
  /\ UNCHANGED <<main, worker, ctx, poller, trackerVars, late, quiet, scrapeVars>>

\* Stop returns when the worker has no task left ...
WorkerDrained(w) ==
  /\ worker[w] = "draining"
  /\ Held(w) = {}
  /\ worker' = [worker EXCEPT ![w] = "stopped"]
  /\ UNCHANGED <<main, ctx, poller, trackerVars, taskVars, scrapeVars>>

\* ... or WorkerStopTimeout is over.
StopTimesOut(w) ==
  /\ worker[w] = "draining"
  /\ Held(w) # {}
  /\ worker' = [worker EXCEPT ![w] = "stopped"]
  /\ late' = late \cup {w}
  /\ UNCHANGED <<main, ctx, poller, trackerVars, task, on, quiet, scrapeVars>>

\* SIGTERM, SIGINT or the interrupt channel.
Interrupt ==
  /\ ctx = "live"
  /\ ctx' = "signal"
  /\ UNCHANGED <<main, worker, poller, trackerVars, taskVars, scrapeVars>>

-----------------------------------------------------------------------------
\* idleTracker, fed by the interceptor

MarkStart_Uncounted(t) ==
  /\ main # "exited"
  /\ task[t] = "polled"
  /\ task' = [task EXCEPT ![t] = "running"]
  /\ elapsed' = 0
  /\ UNCHANGED <<main, worker, ctx, poller, inFlight, on, late, quiet, scrapeVars>>

MarkStart(t) ==
  /\ main # "exited"
  /\ task[t] = "polled"
  /\ task' = [task EXCEPT ![t] = "running"]
  /\ inFlight' = inFlight + 1
  /\ elapsed' = 0
  /\ UNCHANGED <<main, worker, ctx, poller, on, late, quiet, scrapeVars>>

MarkEnd_NoStamp(t) ==
  /\ main # "exited"
  /\ task[t] = "running"
  /\ task' = [task EXCEPT ![t] = "done"]
  /\ inFlight' = inFlight - 1
  /\ UNCHANGED <<main, worker, ctx, poller, elapsed, on, late, quiet, scrapeVars>>

MarkEnd_NoCount(t) ==
  /\ main # "exited"
  /\ task[t] = "running"
  /\ task' = [task EXCEPT ![t] = "done"]
  /\ elapsed' = 0
  /\ UNCHANGED <<main, worker, ctx, poller, inFlight, on, late, quiet, scrapeVars>>

MarkEnd(t) ==
  /\ main # "exited"
  /\ task[t] = "running"
  /\ task' = [task EXCEPT ![t] = "done"]
  /\ inFlight' = inFlight - 1
  /\ elapsed' = 0
  /\ UNCHANGED <<main, worker, ctx, poller, on, late, quiet, scrapeVars>>

Tick ==
  /\ main # "exited"
  /\ elapsed' = IF elapsed < IdleAfter THEN elapsed + 1 ELSE elapsed
  /\ quiet' = IF Executing # {} THEN 0
              ELSE IF quiet < IdleAfter THEN quiet + 1 ELSE quiet
  /\ UNCHANGED <<main, worker, ctx, poller, inFlight, task, on, late, scrapeVars>>

\* idlePoller.evaluate: the snapshot is atomic, the decision comes after it.
Evaluate ==
  /\ main # "exited"
  /\ poller = "running"
  /\ inFlight = 0
  /\ elapsed >= IdleAfter
  /\ poller' = "decided"
  /\ UNCHANGED <<main, worker, ctx, trackerVars, taskVars, scrapeVars>>

CancelRun ==
  /\ main # "exited"
  /\ poller = "decided"
  /\ poller' = "done"
  /\ ctx' = IF ctx = "live" THEN "idle" ELSE ctx
  /\ UNCHANGED <<main, worker, trackerVars, taskVars, scrapeVars>>

\* idlePoller.run returns when the context is done.
PollerReturns ==
  /\ poller = "running"
  /\ ctx # "live"
  /\ poller' = "done"
  /\ UNCHANGED <<main, worker, ctx, trackerVars, taskVars, scrapeVars>>

-----------------------------------------------------------------------------
\* The /metrics handler and WaitForScrape

\* The handler gathers the metrics ...
Gather ==
  /\ main # "exited"
  /\ scrape = "none"
  /\ scrape' = IF main \in {"drained", "waiting", "closing"} THEN "after" ELSE "before"
  /\ UNCHANGED <<main, worker, ctx, poller, trackerVars, taskVars, token, gate>>

\* ... and then notifies, unless a notification is pending.
NotifyScrape ==
  /\ main # "exited"
  /\ scrape # "none"
  /\ scrape' = "none"
  /\ token' = IF token # "none" THEN token
              ELSE IF main # "waiting" THEN "old"
              ELSE IF scrape = "before" THEN "stale" ELSE "fresh"
  /\ UNCHANGED <<main, worker, ctx, poller, trackerVars, taskVars, gate>>

WaitForScrape_Undrained ==
  /\ main = "drained"
  /\ \/ main' = "waiting" /\ UNCHANGED gate
     \/ main' = "closing" /\ gate' = "skipped"
  /\ UNCHANGED <<worker, ctx, poller, trackerVars, taskVars, scrape, token>>

\* WaitForScrape takes what is pending, then waits; or it is disabled.
WaitForScrape ==
  /\ main = "drained"
  /\ \/ main' = "waiting" /\ token' = "none" /\ UNCHANGED gate
     \/ main' = "closing" /\ gate' = "skipped" /\ UNCHANGED token
  /\ UNCHANGED <<worker, ctx, poller, trackerVars, taskVars, scrape>>

Scraped ==
  /\ main = "waiting"
  /\ token # "none"
  /\ main' = "closing"
  /\ gate' = token
  /\ token' = "none"
  /\ UNCHANGED <<worker, ctx, poller, trackerVars, taskVars, scrape>>

ScrapeTimesOut_Never == Scraped

ScrapeTimesOut ==
  /\ main = "waiting"
  /\ main' = "closing"
  /\ gate' = "timeout"
  /\ UNCHANGED <<worker, ctx, poller, trackerVars, taskVars, scrape, token>>

-----------------------------------------------------------------------------
Init ==
  /\ main = "starting"
  /\ worker = [w \in Workers |-> "none"]
  /\ ctx = "live"
  /\ poller \in {"running", "off"}    \* off: WORKER_IDLE_EXIT_AFTER is unset
  /\ inFlight = 0
  /\ elapsed = 0
  /\ task = [t \in Tasks |-> "queued"]
  /\ on = [t \in Tasks |-> 0]
  /\ late = {}
  /\ quiet = 0
  /\ scrape = "none"
  /\ token = "none"
  /\ gate = "none"

Run ==
  \/ \E w \in Workers : StartWorker(w) \/ StopWorkers(w)
  \/ BeginStop \/ WorkersStopped \/ RunReturns
  \/ WaitForScrape \/ Scraped \/ ScrapeTimesOut

Stop(w) == WorkerDrained(w) \/ StopTimesOut(w)

Next ==
  \/ Run \/ StartFails \/ Interrupt
  \/ \E w \in Workers : Stop(w)
  \/ \E t \in Tasks : \/ \E w \in Workers : PollTask(t, w)
                      \/ MarkStart(t) \/ MarkEnd(t)
  \/ Tick \/ Evaluate \/ CancelRun \/ PollerReturns
  \/ Gather \/ NotifyScrape

Spec == Init /\ [][Next]_vars

\* run, its timeouts and the poller keep going, and time passes.  Nothing says
\* that a task ends, a signal comes or Prometheus scrapes.
Fairness ==
  /\ WF_vars(Run) /\ WF_vars(Tick) /\ WF_vars(Evaluate) /\ WF_vars(CancelRun)
  /\ \A w \in Workers : WF_vars(Stop(w))

FairSpec == Spec /\ Fairness

-----------------------------------------------------------------------------
TypeOK ==
  /\ main \in {"starting", "serving", "stopping", "drained", "waiting",
               "closing", "exited"}
  /\ worker \in [Workers -> {"none", "polling", "draining", "stopped"}]
  /\ ctx \in {"live", "idle", "signal"}
  /\ poller \in {"off", "running", "decided", "done"}
  /\ inFlight \in Nat
  /\ elapsed \in 0..IdleAfter
  /\ task \in [Tasks -> {"queued", "polled", "running", "done", "aborted"}]
  /\ on \in [Tasks -> Workers \cup {0}]
  /\ late \subseteq Workers
  /\ quiet \in 0..IdleAfter
  /\ scrape \in {"none", "before", "after"}
  /\ token \in {"none", "old", "stale", "fresh"}
  /\ gate \in {"none", "skipped", "timeout", "old", "stale", "fresh"}

\* A task that a worker polled is lost only when its worker's Stop gave up
\* waiting, however the process comes to its end, a failed start included
\* (startWorkers, stopWorkers).
TasksDrained == \A t \in Tasks : task[t] = "aborted" => on[t] \in late

\* The idle window counts from the end of the last task, not from its start: a
\* task that outlives the window does not end the worker as it returns
\* (idleTracker, evaluate).
IdleWindowHonoured ==
  [][poller = "running" /\ poller' = "decided" => quiet = IdleAfter]_vars

\* A notification that was in the channel when the wait began does not satisfy
\* it (the drain of scrapeNotify in WaitForScrape).
OldScrapeIgnored == gate # "old"

\* Once its context is cancelled the process exits, whatever its tasks and
\* Prometheus do (WorkerStopTimeout, the scrape timeout).
ShutdownCompletes == (ctx # "live") ~> (main = "exited")

\* A worker with idle exit on that gets nothing more to do exits on its own
\* (idlePoller.run).
IdleWorkerExits ==
  poller # "off" /\ <>[](Executing = {}) => <>(main = "exited")
=============================================================================
