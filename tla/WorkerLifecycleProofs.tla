------------------------ MODULE WorkerLifecycleProofs ------------------------
(***************************************************************************)
(* What one worker process guarantees for any number of workers and tasks  *)
(* and any idle window: no polled task is lost unless a Stop timed out,    *)
(* the idle window counts from the last end, and an old scrape does not    *)
(* pass the gate.                                                          *)
(***************************************************************************)
EXTENDS WorkerLifecycle, FiniteSetTheorems, TLAPS

\* While the process runs, the tracker counts the tasks in execution, and
\* without one it has not waited longer than there was quiet.
TrackerOK ==
  main # "exited" =>
    /\ inFlight = Cardinality(Executing)
    /\ Executing = {} => elapsed <= quiet

\* A task that is held belongs to a worker that still answers for it, and
\* after the drain no worker does.
DrainOK ==
  /\ \A t \in Tasks :
       task[t] \in {"polled", "running"} =>
         on[t] \in late \/ (on[t] \in Workers /\ worker[on[t]] \in {"polling", "draining"})
  /\ main \in {"drained", "waiting", "closing", "exited"} => AllStopped

\* The gate's drain leaves no old notification behind.
GateOK == main = "waiting" => token # "old"

IInv == TypeOK /\ TrackerOK /\ DrainOK /\ TasksDrained /\ GateOK /\ OldScrapeIgnored

-----------------------------------------------------------------------------
\* The tasks in execution can be counted.
LEMMA ExecutingFinite ==
  /\ IsFiniteSet(Executing)
  /\ Cardinality(Executing) \in Nat
  /\ Cardinality(Executing) = 0 <=> Executing = {}
<1>1. IsFiniteSet(Executing)
  BY FS_Subset, LifecycleAssumption DEF Executing
<1> QED
  BY <1>1, FS_CardinalityType, FS_EmptySet

\* The worker starts idle.
LEMMA InitIInv == Init => IInv
<1> SUFFICES ASSUME Init PROVE IInv
  OBVIOUS
<1>1. TypeOK
  BY LifecycleAssumption DEF Init, TypeOK
<1>2. Executing = {} /\ Cardinality({}) = 0
  BY FS_EmptySet DEF Init, Executing
<1>3. TrackerOK
  BY <1>2 DEF Init, TrackerOK
<1> QED
  BY <1>1, <1>3 DEF Init, IInv, DrainOK, TasksDrained, GateOK, OldScrapeIgnored

\* run() and its timeouts.
LEMMA RunIInv == IInv /\ (Run \/ StartFails \/ Interrupt) => IInv'
<1> SUFFICES ASSUME IInv, Run \/ StartFails \/ Interrupt PROVE IInv'
  OBVIOUS
<1> USE LifecycleAssumption
    DEF IInv, TypeOK, TrackerOK, DrainOK, TasksDrained, GateOK, OldScrapeIgnored,
        trackerVars, taskVars, scrapeVars, Executing, AllStopped, Workers
<1>1. ASSUME NEW w \in Workers, StartWorker(w) PROVE IInv'
  BY <1>1 DEF StartWorker
<1>2. ASSUME NEW w \in Workers, StopWorkers(w) PROVE IInv'
  BY <1>2 DEF StopWorkers
<1>3. CASE BeginStop
  BY <1>3 DEF BeginStop
<1>4. CASE WorkersStopped
  BY <1>4 DEF WorkersStopped
<1>5. CASE RunReturns
  <2>1. TypeOK'
    BY <1>5 DEF RunReturns
  <2>2. TasksDrained'
    BY <1>5 DEF RunReturns
  <2> QED
    BY <1>5, <2>1, <2>2 DEF RunReturns
<1>6. CASE WaitForScrape
  BY <1>6 DEF WaitForScrape
<1>7. CASE Scraped
  BY <1>7 DEF Scraped
<1>8. CASE ScrapeTimesOut
  BY <1>8 DEF ScrapeTimesOut
<1>9. CASE StartFails
  BY <1>9 DEF StartFails
<1>10. CASE Interrupt
  BY <1>10 DEF Interrupt
<1> QED
  BY <1>1, <1>2, <1>3, <1>4, <1>5, <1>6, <1>7, <1>8, <1>9, <1>10 DEF Run

\* The SDK polls, drains and gives up.
LEMMA SdkIInv ==
  ASSUME IInv, NEW w \in Workers, Stop(w) \/ \E t \in Tasks : PollTask(t, w)
  PROVE  IInv'
<1> USE DEF IInv, TypeOK, TrackerOK, DrainOK, TasksDrained, GateOK, OldScrapeIgnored,
            trackerVars, taskVars, scrapeVars, AllStopped
<1>1. ASSUME NEW t \in Tasks, PollTask(t, w) PROVE IInv'
  <2>1. Executing' = Executing
    BY <1>1 DEF PollTask, Executing
  <2> QED
    BY <1>1, <2>1 DEF PollTask
<1>2. CASE WorkerDrained(w)
  BY <1>2 DEF WorkerDrained, Held, Executing
<1>3. CASE StopTimesOut(w)
  BY <1>3 DEF StopTimesOut, Executing
<1> QED
  BY <1>1, <1>2, <1>3 DEF Stop

\* A task starts or ends.
LEMMA TaskIInv ==
  ASSUME IInv, NEW t \in Tasks, MarkStart(t) \/ MarkEnd(t)
  PROVE  IInv'
<1> USE DEF IInv, TypeOK, DrainOK, TasksDrained, GateOK, OldScrapeIgnored,
            trackerVars, taskVars, scrapeVars, AllStopped
<1>1. CASE MarkStart(t)
  <2>1. Executing' = Executing \cup {t} /\ t \notin Executing
    BY <1>1 DEF MarkStart, Executing
  <2>2. Cardinality(Executing') = Cardinality(Executing) + 1
    BY <2>1, ExecutingFinite, FS_AddElement
  <2>3. TrackerOK'
    BY <1>1, <2>1, <2>2 DEF MarkStart, TrackerOK
  <2> QED
    BY <1>1, <2>3, LifecycleAssumption DEF MarkStart
<1>2. CASE MarkEnd(t)
  <2>1. Executing' = Executing \ {t} /\ t \in Executing
    BY <1>2 DEF MarkEnd, Executing
  <2>2. Cardinality(Executing') = Cardinality(Executing) - 1
    BY <2>1, ExecutingFinite, FS_RemoveElement
  <2>3. inFlight' \in Nat
    BY <1>2, <2>1, ExecutingFinite DEF MarkEnd, TrackerOK
  <2>4. TrackerOK'
    BY <1>2, <2>2 DEF MarkEnd, TrackerOK
  <2> QED
    BY <1>2, <2>3, <2>4, LifecycleAssumption DEF MarkEnd
<1> QED
  BY <1>1, <1>2

\* The clock, the poller and the scrapes.
LEMMA WatchIInv ==
  IInv /\ (Tick \/ Evaluate \/ CancelRun \/ PollerReturns \/ Gather \/ NotifyScrape) => IInv'
<1> SUFFICES ASSUME IInv, Tick \/ Evaluate \/ CancelRun \/ PollerReturns \/ Gather \/ NotifyScrape
             PROVE  IInv'
  OBVIOUS
<1> USE DEF IInv, TypeOK, TrackerOK, DrainOK, TasksDrained, GateOK, OldScrapeIgnored,
            trackerVars, taskVars, scrapeVars, Executing, AllStopped
<1>1. CASE Tick
  BY <1>1, LifecycleAssumption DEF Tick
<1>2. CASE Evaluate
  BY <1>2 DEF Evaluate
<1>3. CASE CancelRun
  BY <1>3 DEF CancelRun
<1>4. CASE PollerReturns
  BY <1>4 DEF PollerReturns
<1>5. CASE Gather
  BY <1>5 DEF Gather
<1>6. CASE NotifyScrape
  BY <1>6 DEF NotifyScrape
<1> QED
  BY <1>1, <1>2, <1>3, <1>4, <1>5, <1>6

\* Every step keeps the invariant.
LEMMA NextIInv == IInv /\ [Next]_vars => IInv'
<1> SUFFICES ASSUME IInv, [Next]_vars PROVE IInv'
  OBVIOUS
<1>1. CASE UNCHANGED vars
  BY <1>1 DEF vars, trackerVars, taskVars, scrapeVars, IInv, TypeOK, TrackerOK, DrainOK,
              TasksDrained, GateOK, OldScrapeIgnored, Executing, AllStopped
<1> QED
  BY <1>1, RunIInv, SdkIInv, TaskIInv, WatchIInv DEF Next

\* The invariant of the worker's life holds in every reachable state (idleTracker,
\* stopWorkers, WaitForScrape).
THEOREM Invariance == Spec => []IInv
  BY InitIInv, NextIInv, PTL DEF Spec

-----------------------------------------------------------------------------
\* The variables keep their types: idleTracker.inFlight never goes below zero.
THEOREM TypeCorrect == Spec => []TypeOK
<1>1. IInv => TypeOK
  BY DEF IInv
<1> QED
  BY <1>1, Invariance, PTL

\* No polled task is lost unless its worker's Stop timed out (stopWorkers,
\* startWorkers).
THEOREM NoTaskLost == Spec => []TasksDrained
<1>1. IInv => TasksDrained
  BY DEF IInv
<1> QED
  BY <1>1, Invariance, PTL

\* A notification from before the wait does not pass the gate (WaitForScrape).
THEOREM OldScrapesIgnored == Spec => []OldScrapeIgnored
<1>1. IInv => OldScrapeIgnored
  BY DEF IInv
<1> QED
  BY <1>1, Invariance, PTL

\* The poller decides only after a whole idle window without a task in
\* execution (idleTracker, evaluate).
THEOREM IdleWindow == Spec => IdleWindowHonoured
<1>1. IInv /\ [Next]_vars =>
        [poller = "running" /\ poller' = "decided" => quiet = IdleAfter]_vars
  <2> SUFFICES ASSUME IInv, Next, poller = "running", poller' = "decided"
               PROVE  quiet = IdleAfter
    OBVIOUS
  <2>1. Evaluate
    BY DEF Next, Run, Stop, StartWorker, StopWorkers, BeginStop, WorkersStopped, RunReturns,
           WaitForScrape, Scraped, ScrapeTimesOut, StartFails, Interrupt, WorkerDrained,
           StopTimesOut, PollTask, MarkStart, MarkEnd, Tick, Evaluate, CancelRun,
           PollerReturns, Gather, NotifyScrape
  <2>2. Executing = {} /\ elapsed <= quiet
    BY <2>1, ExecutingFinite DEF IInv, TrackerOK, Evaluate
  <2> QED
    BY <2>1, <2>2, LifecycleAssumption DEF IInv, TypeOK, Evaluate
<1> QED
  BY <1>1, Invariance, PTL DEF Spec, IdleWindowHonoured
=============================================================================
