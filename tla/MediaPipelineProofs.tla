------------------------- MODULE MediaPipelineProofs -------------------------
(***************************************************************************)
(* What the pipeline promises for any number of files, outputs, watchers,  *)
(* attempts and faults.  No source is lost when a probe fails only on      *)
(* files that are no media (ProbeIOErrors = FALSE; pipeline_probe_error    *)
(* shows the other case).  Outputs are whole, keep their directory and are *)
(* not left behind when each has one writer (OneWriter below;              *)
(* pipeline_shared_stem shows two sources with one output).                *)
(* Whatever is shared or given up, the pipeline implements MediaLedger.    *)
(***************************************************************************)
EXTENDS MediaPipeline, TLAPS

\* The library settled the item, or Notify took it on trust that it did.
Concluded(f) == Settled(OutputOf[f]) \/ doubt[f] # {}

\* A file whose source may go.
Expendable(f) == f \in Junk \/ Concluded(f)

\* An attempt's label belongs to the activity its run waits for, and no
\* attempt outlives its run.
PhaseOK ==
  \A f \in Files :
    /\ step[f] = "closed" => Answer(f) = "idle"
    /\ Answer(f) \in {"prepared", "writing", "renamed"} => step[f] = "transcode"
    /\ Answer(f) \in {"retire", "prune"} => step[f] \in {"cleanup", "discard"}

\* Only a file that has arrived is listed, dispatched or run.
OnlyArrived ==
  /\ \A f \in Files : step[f] # "closed" => source[f] # "awaited"
  /\ \A w \in Watchers : \A f \in Files :
       f \in listing[w] \/ checked[w] = f => source[f] # "awaited"

\* What a run has learned, before it retires its source: a scan that imported
\* settles the item, a Notify that succeeded concludes the matter; a probe that
\* rejects the file makes it expendable.
Justified ==
  \A f \in Files :
    /\ scan[f] = "imported" => Settled(OutputOf[f])
    /\ step[f] = "notify" /\ Answer(f) \in Results \ {"error"} => Concluded(f)
    /\ step[f] = "cleanup" => Concluded(f)
    /\ step[f] = "probe" /\ Answer(f) \in {"reject", "invalid"} => Expendable(f)
    /\ step[f] = "discard" => Expendable(f)

-----------------------------------------------------------------------------
\* Types.

\* Both attempts of a file are processes.
LEMMA ProcTypes == \A f \in Files : Cur(f) \in Procs /\ <<f, "abandoned">> \in Procs
  BY DEF Cur, Procs

\* Every file has an output.
LEMMA OutputTypes == \A f \in Files : OutputOf[f] \in Outputs
  BY FilesAssumption

\* Every activity has at least one attempt.
LEMMA AttemptTypes == \A s \in Steps : MaxAttempts(s) \in Nat \ {0}
  BY AttemptsAssumption DEF MaxAttempts, Steps

\* Every result leads to a step of the workflow.
LEMMA NextStepTypes == \A f \in Files, s \in Steps, r \in Results : NextStep(f, s, r) \in Steps
  BY DEF NextStep, Steps, Results

\* No file at all is a state of a path.
LEMMA NoneType == None \in FileState
  BY DEF FileState

\* A move of a process keeps the labels typed.
LEMMA GotoTypes ==
  ASSUME TypeOK, NEW p \in Procs, NEW label \in Labels, Goto(p, label)
  PROVE  pc' \in [Procs -> Labels]
  BY DEF TypeOK, Goto

\* A fault is counted, up to the bound.
LEMMA FaultTypes == TypeOK /\ Fault => faults' \in 0..MaxFaults
  BY FilesAssumption DEF TypeOK, Fault

\* Notify only adds to the doubts of its file.
LEMMA DoubtsGrow ==
  ASSUME TypeOK, NEW f \in Files, NotifyPost(f) \/ NotifyResolve(f)
  PROVE  /\ doubt' \in [Files -> SUBSET Doubts]
         /\ \A g \in Files : doubt[g] \subseteq doubt'[g]
<1>1. PICK why \in SUBSET Doubts : doubt' = [doubt EXCEPT ![f] = @ \cup why]
  <2>1. CASE UNCHANGED doubt
    <3>1. doubt' = [doubt EXCEPT ![f] = @ \cup {}]
      BY <2>1 DEF TypeOK
    <3> QED
      BY <3>1
  <2>2. ASSUME NEW reason \in Doubts, doubt' = [doubt EXCEPT ![f] = @ \cup {reason}]
        PROVE  \E why \in SUBSET Doubts : doubt' = [doubt EXCEPT ![f] = @ \cup why]
    BY <2>2
  <2>3. {"no id", "no result", "no name"} \subseteq Doubts
    BY DEF Doubts
  <2>4. UNCHANGED doubt \/ \E reason \in {"no id", "no result", "no name"} :
                             doubt' = [doubt EXCEPT ![f] = @ \cup {reason}]
    BY DEF NotifyPost, NotifyResolve, fileVars, runVars
  <2> QED
    BY <2>1, <2>2, <2>3, <2>4
<1>2. doubt \in [Files -> SUBSET Doubts]
  BY DEF TypeOK
<1>3. \A g \in Files : doubt'[g] = IF g = f THEN doubt[f] \cup why ELSE doubt[g]
  BY <1>1, <1>2
<1>4. doubt' \in [Files -> SUBSET Doubts]
  BY <1>1, <1>2
<1> QED
  BY <1>3, <1>4

\* The initial state is typed.
LEMMA InitTypeOK == Init => TypeOK
<1> SUFFICES ASSUME Init PROVE TypeOK
  OBVIOUS
<1> USE DEF Init
<1>1. lib \in [Outputs -> [status : {"wanted", "imported"} \cup Refused, file : FileState]]
  BY NoneType
<1>2. temp \in [Outputs -> FileState] /\ final \in [Outputs -> FileState] /\ dest \in [Files -> FileState]
  BY NoneType
<1>3. step \in [Files -> Steps] /\ pc \in [Procs -> Labels]
  BY DEF Steps, Labels
<1>4. tries \in [Files -> Nat] /\ \A f \in Files : tries[f] < MaxAttempts(step[f])
  BY AttemptTypes DEF Steps
<1>5. faults \in 0..MaxFaults
  BY FilesAssumption
<1> QED
  BY <1>1, <1>2, <1>3, <1>4, <1>5 DEF TypeOK

\* One step of an activity attempt.
LEMMA ActivityTypeOK ==
  ASSUME TypeOK, NEW f \in Files, ActivityStep(f), UNCHANGED <<wfVars, watchVars>>
  PROVE  TypeOK'
<1> USE ProcTypes, OutputTypes, FilesAssumption
    DEF TypeOK, fileVars, arrVars, runVars, wfVars, watchVars, Goto, Fault, Labels, Results, At
<1>1. CASE ProbeRead(f)
  BY <1>1 DEF ProbeRead
<1>2. CASE ProbeRemove(f)
  BY <1>2 DEF ProbeRemove
<1>3. CASE DetectCrop(f)
  BY <1>3 DEF DetectCrop
<1>4. CASE TranscodePrepare(f)
  <2> DEFINE o == OutputOf[f]
  <2>1. final[o] \in FileState
    BY OutputTypes
  <2>2. dest' \in [Files -> FileState] /\ outDir' \in BOOLEAN
    BY <1>4, <2>1 DEF TranscodePrepare, Reusable
  <2>3. pc' \in [Procs -> Labels]
    BY <1>4, GotoTypes DEF TranscodePrepare, Reusable
  <2> QED
    BY <1>4, <2>2, <2>3 DEF TranscodePrepare, Reusable
<1>5. ASSUME NEW who \in {"current", "abandoned"}, TranscodeOpen(<<f, who>>)
      PROVE TypeOK'
  <2>1. <<f, who>> \in Procs /\ <<f, who>>[1] = f
    BY DEF Procs
  <2>2. [of |-> f, torn |-> OtherWriters(<<f, who>>) # {}] \in FileState
    BY DEF FileState, Contents
  <2>3. temp' \in [Outputs -> FileState]
    BY <1>5, <2>1, <2>2, NoneType DEF TranscodeOpen
  <2>4. pc' \in [Procs -> Labels]
    BY <1>5, <2>1, GotoTypes DEF TranscodeOpen
  <2> QED
    BY <1>5, <2>3, <2>4 DEF TranscodeOpen
<1>6. ASSUME NEW who \in {"current", "abandoned"}, TranscodeRename(<<f, who>>)
      PROVE TypeOK'
  <2>1. <<f, who>> \in Procs /\ <<f, who>>[1] = f
    BY DEF Procs
  <2>2. temp' \in [Outputs -> FileState] /\ final' \in [Outputs -> FileState]
    <3>1. temp[OutputOf[f]] \in FileState
      BY OutputTypes
    <3> QED
      BY <1>6, <2>1, <3>1, NoneType DEF TranscodeRename
  <2>3. pc' \in [Procs -> Labels]
    BY <1>6, <2>1, GotoTypes DEF TranscodeRename
  <2> QED
    BY <1>6, <2>2, <2>3 DEF TranscodeRename
<1>7. CASE AbandonedEnds(f)
  BY <1>7 DEF AbandonedEnds
<1>8. CASE NotifyPost(f)
  <2>1. doubt' \in [Files -> SUBSET Doubts]
    BY <1>8, DoubtsGrow
  <2>2. scan' \in [Files -> {"none", "queued", "imported", "nothing", "vague"}]
    BY <1>8 DEF NotifyPost
  <2>3. pc' \in [Procs -> Labels] /\ faults' \in 0..MaxFaults
    BY <1>8, GotoTypes, FaultTypes DEF NotifyPost
  <2> QED
    BY <1>8, <2>1, <2>2, <2>3 DEF NotifyPost
<1>9. CASE NotifyResolve(f)
  <2>1. doubt' \in [Files -> SUBSET Doubts]
    BY <1>9, DoubtsGrow
  <2>2. scan' \in [Files -> {"none", "queued", "imported", "nothing", "vague"}]
    BY <1>9 DEF NotifyResolve
  <2>3. \E label \in {"ok", "skip", "error"} : Goto(Cur(f), label)
    BY <1>9 DEF NotifyResolve, NotifyVerdict
  <2>4. pc' \in [Procs -> Labels]
    BY <2>3, GotoTypes
  <2>5. faults' \in 0..MaxFaults
    BY <1>9, FaultTypes DEF NotifyResolve
  <2> QED
    BY <1>9, <2>1, <2>2, <2>4, <2>5 DEF NotifyResolve
<1>10. CASE CleanupOutput(f)
  BY <1>10 DEF CleanupOutput, FileState
<1>11. CASE CleanupSource(f)
  BY <1>11 DEF CleanupSource
<1>12. CASE CleanupPrune(f)
  BY <1>12 DEF CleanupPrune
<1>13. CASE NotifyFailure(f)
  BY <1>13 DEF NotifyFailure
<1>14. ASSUME NEW who \in {"current", "abandoned"}, TranscodeStat(<<f, who>>)
       PROVE TypeOK'
  <2>1. <<f, who>> \in Procs /\ <<f, who>>[1] = f
    BY DEF Procs
  <2>2. dest' \in [Files -> FileState]
    <3>1. final[OutputOf[f]] \in FileState
      BY OutputTypes
    <3> QED
      BY <1>14, <2>1, <3>1 DEF TranscodeStat
  <2>3. pc' \in [Procs -> Labels]
    BY <1>14, <2>1, GotoTypes DEF TranscodeStat
  <2> QED
    BY <1>14, <2>2, <2>3 DEF TranscodeStat
<1> QED
  BY <1>1, <1>2, <1>3, <1>4, <1>5, <1>6, <1>7, <1>8, <1>9, <1>10, <1>11, <1>12, <1>13, <1>14
  DEF ActivityStep

\* One step of the workflow body or the retry policy.
LEMMA WorkflowTypeOK ==
  ASSUME TypeOK, NEW f \in Files, WorkflowStep(f), UNCHANGED watchVars
  PROVE  TypeOK'
<1> USE ProcTypes, OutputTypes, AttemptTypes
    DEF TypeOK, fileVars, arrVars, runVars, watchVars, Goto, Labels, Results, Answer
<1>1. CASE CompleteActivity(f)
  <2>1. NextStep(f, step[f], Answer(f)) \in Steps
    BY <1>1, NextStepTypes DEF CompleteActivity
  <2> QED
    <3>1. step' \in [Files -> Steps] /\ skipped' \subseteq Files
      BY <1>1, <2>1 DEF CompleteActivity
    <3>2. /\ tries' \in [Files -> Nat]
          /\ \A g \in Files : tries'[g] < MaxAttempts(step'[g])
      BY <1>1, <2>1 DEF CompleteActivity
    <3>3. outcome' \in [Files -> {"none", "completed", "failed"}]
      BY <1>1 DEF CompleteActivity
    <3>4. pc' \in [Procs -> Labels]
      BY <1>1, GotoTypes DEF CompleteActivity
    <3> QED
      BY <1>1, <3>1, <3>2, <3>3, <3>4 DEF CompleteActivity
<1>2. CASE RetryAttempt(f)
  <2>1. /\ tries' \in [Files -> Nat]
        /\ \A g \in Files : tries'[g] < MaxAttempts(step'[g])
    BY <1>2 DEF RetryAttempt
  <2>2. pc' \in [Procs -> Labels]
    BY <1>2, GotoTypes DEF RetryAttempt
  <2> QED
    BY <1>2, <2>1, <2>2 DEF RetryAttempt
<1>3. CASE FailRun(f)
  <2>1. step' \in [Files -> Steps]
    BY <1>3 DEF FailRun, Steps
  <2>2. /\ tries' \in [Files -> Nat]
        /\ \A g \in Files : tries'[g] < MaxAttempts(step'[g])
    BY <1>3, <2>1 DEF FailRun
  <2>3. pc' \in [Procs -> Labels]
    BY <1>3, GotoTypes DEF FailRun
  <2> QED
    BY <1>3, <2>1, <2>2, <2>3 DEF FailRun
<1>4. CASE CloseFailed(f)
  BY <1>4 DEF CloseFailed, Steps, MaxAttempts
<1> QED
  BY <1>1, <1>2, <1>3, <1>4 DEF WorkflowStep

\* The watchers.
LEMMA WatcherTypeOK ==
  ASSUME TypeOK, NEW w \in Watchers, Walk(w) \/ WatcherRestart(w)
  PROVE  TypeOK'
<1> USE AttemptTypes
    DEF TypeOK, fileVars, arrVars, runVars, wfVars, Fault
<1>1. CASE StartWalk(w)
  BY <1>1 DEF StartWalk
<1>2. ASSUME NEW f \in Files, StatSentinel(w, f) PROVE TypeOK'
  BY <1>2 DEF StatSentinel
<1>3. CASE Dispatch(w)
  <2> DEFINE f == checked[w]
  <2>1. f \in Files /\ checked' \in [Watchers -> Files \cup {NoFile}]
    BY <1>3 DEF Dispatch
  <2>2. CASE StartRun(f)
    <3>1. step' \in [Files -> Steps] /\ dest' \in [Files -> FileState] /\ skipped' \subseteq Files
      BY <2>2, NoneType DEF StartRun, Steps
    <3>2. MaxAttempts("probe") = MaxAttempts("closed")
      BY DEF MaxAttempts
    <3>3. \A g \in Files : tries'[g] < MaxAttempts(step'[g])
      BY <2>2, <3>2 DEF StartRun
    <3> QED
      BY <1>3, <2>1, <2>2, <3>1, <3>3, FaultTypes DEF Dispatch, StartRun
  <2>3. CASE UNCHANGED <<runVars, wfVars, dest>>
    BY <1>3, <2>1, <2>3, FaultTypes DEF Dispatch
  <2> QED
    BY <1>3, <2>2, <2>3 DEF Dispatch
<1>4. CASE WatcherRestart(w)
  BY <1>4, FaultTypes DEF WatcherRestart
<1> QED
  BY <1>1, <1>2, <1>3, <1>4 DEF Walk

\* Faults, arrivals and the arr service.
LEMMA OutsideTypeOK ==
  ASSUME TypeOK,
         \/ \E f \in Files : FaultStep(f) \/ (ArrScan(f) /\ UNCHANGED <<wfVars, watchVars>>)
         \/ Environment
  PROVE  TypeOK'
<1> USE ProcTypes, OutputTypes, FilesAssumption
    DEF TypeOK, fileVars, arrVars, runVars, wfVars, watchVars, Goto, Fault, Labels, Results
<1>1. ASSUME NEW f \in Files, AttemptError(f), UNCHANGED <<wfVars, watchVars>>
      PROVE  TypeOK'
  <2>1. pc' \in [Procs -> Labels]
    BY <1>1, GotoTypes DEF AttemptError
  <2> QED
    BY <1>1, <2>1, FaultTypes DEF AttemptError
<1>2. ASSUME NEW f \in Files, Abandon(f), UNCHANGED <<wfVars, watchVars>>
      PROVE  TypeOK'
  <2>1. pc' \in [Procs -> Labels]
    BY <1>2 DEF Abandon
  <2>2. faults' \in 0..MaxFaults
    BY <1>2, FaultTypes DEF Abandon
  <2> QED
    BY <1>2, <2>1, <2>2 DEF Abandon
<1>3. ASSUME NEW f \in Files, NEW who \in {"current", "abandoned"},
             TranscodeFail(<<f, who>>), UNCHANGED <<wfVars, watchVars>>
      PROVE  TypeOK'
  BY <1>3 DEF TranscodeFail, FileState, Procs
<1>4. ASSUME NEW o \in Outputs, Import(o)
      PROVE  /\ lib' \in [Outputs -> [status : {"wanted", "imported"} \cup Refused,
                                       file : FileState]]
             /\ final' \in [Outputs -> FileState]
  BY <1>4 DEF Import, FileState
<1>5. ASSUME NEW f \in Files, ArrScan(f), UNCHANGED <<wfVars, watchVars>>
      PROVE  TypeOK'
  <2>1. faults' \in 0..MaxFaults
    BY <1>5, FaultTypes DEF ArrScan, ScanEnds
  <2>2. scan' \in [Files -> {"none", "queued", "imported", "nothing", "vague"}]
    BY <1>5 DEF ArrScan, ScanEnds
  <2>3. CASE Import(OutputOf[f])
    BY <1>4, <1>5, <2>1, <2>2, <2>3 DEF ArrScan
  <2>4. CASE UNCHANGED <<lib, final>>
    BY <1>5, <2>1, <2>2, <2>4 DEF ArrScan
  <2> QED
    BY <1>5, <2>3, <2>4 DEF ArrScan
<1>6. ASSUME NEW o \in Outputs, ArrAutoImport(o), UNCHANGED <<wfVars, watchVars>>
      PROVE  TypeOK'
  BY <1>4, <1>6 DEF ArrAutoImport
<1>7. ASSUME NEW o \in Outputs, ArrRefuses(o), UNCHANGED <<wfVars, watchVars>>
      PROVE  TypeOK'
  BY <1>7 DEF ArrRefuses, Refused
<1>8. ASSUME NEW f \in Files, Arrive(f)
      PROVE  TypeOK'
  BY <1>8 DEF Arrive
<1> QED
  BY <1>1, <1>2, <1>3, <1>5, <1>6, <1>7, <1>8 DEF FaultStep, Environment

\* Every step keeps the types.
LEMMA NextTypeOK == TypeOK /\ [Next]_vars => TypeOK'
<1> SUFFICES ASSUME TypeOK, [Next]_vars PROVE TypeOK'
  OBVIOUS
<1>1. CASE UNCHANGED vars
  BY <1>1 DEF vars, fileVars, arrVars, runVars, wfVars, watchVars, TypeOK
<1> QED
  BY <1>1, ActivityTypeOK, WorkflowTypeOK, WatcherTypeOK, OutsideTypeOK DEF Next, RunStep

\* The variables keep their types; in particular no activity is attempted
\* more often than its retry policy allows.
THEOREM TypeCorrect == Spec => []TypeOK
  BY InitTypeOK, NextTypeOK, PTL DEF Spec

-----------------------------------------------------------------------------
\* No source is lost.

\* NoLoss is not inductive: a run deletes its source on the strength of what
\* its earlier activities found.  Core says what that was.
Core == PhaseOK /\ OnlyArrived /\ Justified /\ NoLoss

\* At first no run has started and no source is in danger.
LEMMA InitCore == Init => Core
<1> SUFFICES ASSUME Init PROVE Core
  OBVIOUS
<1>1. \A f \in Files : Answer(f) = "idle" /\ step[f] = "closed"
  BY ProcTypes DEF Init, Answer
<1>2. PhaseOK
  BY <1>1 DEF PhaseOK
<1>3. OnlyArrived
  BY <1>1, WatcherAssumption DEF Init, OnlyArrived
<1>4. Justified
  BY <1>1 DEF Init, Justified
<1>5. NoLoss
  BY DEF Init, NoLoss, Retired
<1> QED
  BY <1>2, <1>3, <1>4, <1>5 DEF Core

\* A step that leaves alone all that Core speaks of, but for the label of an
\* abandoned transcode.
LEMMA FrameCore ==
  ASSUME TypeOK, Core,
         UNCHANGED <<source, sentinel, lib, scan, doubt, step, listing, checked>>,
         \A f \in Files : Answer(f)' = Answer(f)
  PROVE  Core'
  BY OutputTypes
  DEF Core, PhaseOK, OnlyArrived, Justified, NoLoss, Retired, Expendable, Concluded, Settled

\* A step of the run of f that only moves the label of its attempt, and may
\* take an answer on trust: what Core asks of f itself is left to show.
LEMMA LabelCore ==
  ASSUME TypeOK, Core, UNCHANGED <<source, sentinel, lib, step, listing, checked>>,
         NEW f \in Files, NEW label, Goto(Cur(f), label), step[f] # "closed",
         label \in {"prepared", "writing", "renamed"} => step[f] = "transcode",
         label \in {"retire", "prune"} => step[f] \in {"cleanup", "discard"},
         step[f] = "notify" /\ label \in Results \ {"error"} => Concluded(f)',
         step[f] = "probe" /\ label \in {"reject", "invalid"} => Expendable(f),
         \A g \in Files : scan'[g] = "imported" => scan[g] = "imported",
         \A g \in Files : doubt[g] # {} => doubt'[g] # {}
  PROVE  Core'
<1>1. /\ Answer(f)' = label
      /\ \A g \in Files \ {f} : Answer(g)' = Answer(g)
  BY ProcTypes DEF TypeOK, Goto, Answer, Cur
<1>2. PhaseOK'
  BY <1>1 DEF Core, PhaseOK
<1>3. OnlyArrived' /\ NoLoss'
  BY DEF Core, OnlyArrived, NoLoss, Retired, Settled
<1>4. \A g \in Files : /\ Settled(OutputOf[g])' <=> Settled(OutputOf[g])
                       /\ Concluded(g) => Concluded(g)'
  BY DEF Settled, Concluded
<1>5. Justified'
  BY <1>1, <1>4 DEF Core, Justified, Expendable
<1> QED
  BY <1>2, <1>3, <1>5 DEF Core

\* The library only moves on: what is settled stays settled.
LEMMA LibraryCore ==
  ASSUME TypeOK, Core, UNCHANGED <<source, sentinel, doubt, step, listing, checked, pc>>,
         \A o \in Outputs : Settled(o) => Settled(o)',
         \A f \in Files : scan'[f] = "imported" => scan[f] = "imported" \/ Settled(OutputOf[f])'
  PROVE  Core'
<1>1. PhaseOK' /\ OnlyArrived'
  BY DEF Core, PhaseOK, OnlyArrived, Answer
<1>2. \A f \in Files : /\ Settled(OutputOf[f]) => Settled(OutputOf[f])'
                       /\ Concluded(f) => Concluded(f)'
  BY OutputTypes DEF Concluded
<1>3. Justified'
  BY <1>2 DEF Core, Justified, Expendable, Answer
<1>4. NoLoss'
  BY <1>2 DEF Core, NoLoss, Retired
<1> QED
  BY <1>1, <1>3, <1>4 DEF Core

\* One step of an activity attempt.
LEMMA ActivityCore ==
  ASSUME ~ ProbeIOErrors, TypeOK, Core, NEW f \in Files, ActivityStep(f),
         UNCHANGED <<wfVars, watchVars>>
  PROVE  Core'
<1> USE DEF fileVars, arrVars, runVars, wfVars, watchVars, At
<1>1. CASE ProbeRead(f)
  <2>1. step[f] = "probe" /\ Answer(f) = "idle" /\ source[f] # "awaited"
    BY <1>1 DEF ProbeRead, Core, OnlyArrived, Answer
  <2>2. ~ Probe_LooksMedia(f) => Expendable(f)
    BY <2>1 DEF Probe_LooksMedia, Expendable, Concluded, Core, NoLoss, Retired, TypeOK
  <2>3. CASE Probe_LooksMedia(f) /\ Goto(Cur(f), "ok")
    BY <1>1, <2>1, <2>3, LabelCore DEF ProbeRead
  <2>4. CASE ~ Probe_LooksMedia(f) /\ Goto(Cur(f), "reject")
    BY <1>1, <2>1, <2>2, <2>4, LabelCore DEF ProbeRead, Results
  <2> QED
    BY <1>1, <2>3, <2>4 DEF ProbeRead
<1>2. CASE ProbeRemove(f)
  <2>1. step[f] = "probe" /\ Answer(f) = "reject" /\ Expendable(f)
    BY <1>2 DEF ProbeRemove, Core, Justified, Answer
  <2>2. /\ Answer(f)' = "invalid"
        /\ \A g \in Files \ {f} : Answer(g)' = Answer(g)
    BY <1>2, ProcTypes DEF ProbeRemove, TypeOK, Goto, Answer, Cur
  <2>3. PhaseOK' /\ Justified'
    BY <1>2, <2>1, <2>2
    DEF ProbeRemove, Core, PhaseOK, Justified, Expendable, Concluded, Settled, Results
  <2>4. \A g \in Files : source'[g] = source[g] \/ (g = f /\ g \notin Preserve /\ source'[g] = "removed")
    BY <1>2 DEF ProbeRemove, TypeOK
  <2>5. OnlyArrived'
    BY <1>2, <2>4 DEF ProbeRemove, Core, OnlyArrived
  <2>6. NoLoss'
    BY <1>2, <2>1, <2>4 DEF ProbeRemove, Core, NoLoss, Retired, Expendable, Concluded, Settled
  <2> QED
    BY <2>3, <2>5, <2>6 DEF Core
<1>3. CASE DetectCrop(f)
  BY <1>3, LabelCore DEF DetectCrop
<1>4. CASE TranscodePrepare(f)
  BY <1>4, LabelCore DEF TranscodePrepare, Reusable
<1>5. ASSUME NEW who \in {"current", "abandoned"}, NEW label \in {"writing", "renamed", "error", "ok"},
             pc[<<f, who>>] \in {"prepared", "writing", "renamed"}, Goto(<<f, who>>, label),
             UNCHANGED <<source, sentinel, lib, scan, doubt, step, listing, checked>>
      PROVE  Core'
  <2>1. CASE who = "current"
    <3>1. step[f] = "transcode"
      BY <1>5, <2>1 DEF Core, PhaseOK, Answer, Cur
    <3> QED
      BY <1>5, <2>1, <3>1, LabelCore DEF Cur
  <2>2. CASE who = "abandoned"
    BY <1>5, <2>2, FrameCore DEF Goto, Answer, Cur, TypeOK, Procs
  <2> QED
    BY <2>1, <2>2
<1>6. ASSUME NEW who \in {"current", "abandoned"},
             \/ TranscodeOpen(<<f, who>>) \/ TranscodeRename(<<f, who>>)
             \/ TranscodeStat(<<f, who>>)
      PROVE  Core'
  BY <1>5, <1>6 DEF TranscodeOpen, TranscodeRename, TranscodeStat
<1>7. CASE AbandonedEnds(f)
  BY <1>7, FrameCore DEF AbandonedEnds, Goto, Answer, Cur, TypeOK, Procs
<1>8. CASE NotifyPost(f)
  <2>1. \A g \in Files : /\ scan'[g] = "imported" => scan[g] = "imported"
                         /\ doubt[g] # {} => doubt'[g] # {}
    BY <1>8, DoubtsGrow DEF NotifyPost, TypeOK
  <2>2. CASE Goto(Cur(f), "scanning")
    BY <1>8, <2>1, <2>2, LabelCore DEF NotifyPost, Results
  <2>3. CASE Goto(Cur(f), "ok") /\ doubt' = [doubt EXCEPT ![f] = @ \cup {"no id"}]
    <3>1. Concluded(f)'
      BY <2>3 DEF Concluded, TypeOK
    <3> QED
      BY <1>8, <2>1, <2>3, <3>1, LabelCore DEF NotifyPost
  <2> QED
    BY <1>8, <2>2, <2>3 DEF NotifyPost
<1>9. CASE NotifyResolve(f)
  <2>1. \A g \in Files : /\ scan'[g] = "imported" => scan[g] = "imported"
                         /\ doubt[g] # {} => doubt'[g] # {}
    BY <1>9, DoubtsGrow DEF NotifyResolve, TypeOK
  <2>2. CASE scan[f] = "imported" /\ Goto(Cur(f), "ok")
    <3>1. Concluded(f)'
      BY <1>9, <2>2 DEF NotifyResolve, Concluded, Settled, Core, Justified
    <3> QED
      BY <1>9, <2>1, <2>2, <3>1, LabelCore DEF NotifyResolve
  <2>3. CASE Goto(Cur(f), "ok") /\ doubt' = [doubt EXCEPT ![f] = @ \cup {"no result"}]
    <3>1. Concluded(f)'
      BY <2>3 DEF Concluded, TypeOK
    <3> QED
      BY <1>9, <2>1, <2>3, <3>1, LabelCore DEF NotifyResolve
  <2>4. ASSUME NEW failed \in {"none", "item", "rejection"},
               Goto(Cur(f), NotifyVerdict(f, failed)),
               doubt' = IF f \in Unnamed /\ failed # "item"
                          THEN [doubt EXCEPT ![f] = @ \cup {"no name"}] ELSE doubt
        PROVE  Core'
    <3>1. NotifyVerdict(f, failed) \in {"ok", "skip", "error"}
      BY DEF NotifyVerdict
    <3>2. NotifyVerdict(f, failed) # "error" => Concluded(f)'
      <4>1. CASE f \in Unnamed /\ failed # "item"
        BY <2>4, <4>1 DEF Concluded, TypeOK
      <4>2. CASE ~ (f \in Unnamed /\ failed # "item")
        <5>1. NotifyVerdict(f, failed) # "error" => Settled(OutputOf[f])
          BY <4>2 DEF NotifyVerdict, NotFound, NotUpgrade, TookOurs, Settled
        <5> QED
          BY <1>9, <5>1 DEF NotifyResolve, Concluded, Settled
      <4> QED
        BY <4>1, <4>2
    <3> QED
      BY <1>9, <2>1, <2>4, <3>1, <3>2, LabelCore DEF NotifyResolve
  <2> QED
    BY <1>9, <2>2, <2>3, <2>4 DEF NotifyResolve
<1>10. CASE CleanupOutput(f)
  BY <1>10, LabelCore DEF CleanupOutput, Results
<1>11. CASE CleanupSource(f)
  <2>1. step[f] \in {"cleanup", "discard"} /\ Expendable(f)
    BY <1>11 DEF CleanupSource, Core, PhaseOK, Justified, Expendable, Answer
  <2>2. /\ Answer(f)' = "prune"
        /\ \A g \in Files \ {f} : Answer(g)' = Answer(g)
    BY <1>11, ProcTypes DEF CleanupSource, TypeOK, Goto, Answer, Cur
  <2>3. PhaseOK' /\ Justified'
    BY <1>11, <2>1, <2>2
    DEF CleanupSource, Core, PhaseOK, Justified, Expendable, Concluded, Settled, Results
  <2>4. /\ \A g \in Files : source'[g] = source[g] \/ (g = f /\ g \notin Preserve /\ source'[g] = "removed")
        /\ \A g \in Files : g \in sentinel' => g \in sentinel \/ g = f
    BY <1>11 DEF CleanupSource, TypeOK
  <2>5. OnlyArrived'
    BY <1>11, <2>4 DEF CleanupSource, Core, OnlyArrived
  <2>6. NoLoss'
    BY <1>11, <2>1, <2>4
    DEF CleanupSource, Core, NoLoss, Retired, Expendable, Concluded, Settled
  <2> QED
    BY <2>3, <2>5, <2>6 DEF Core
<1>12. CASE CleanupPrune(f)
  <2>1. step[f] \in {"cleanup", "discard"}
    BY <1>12 DEF CleanupPrune, Core, PhaseOK, Answer
  <2> QED
    BY <1>12, <2>1, LabelCore DEF CleanupPrune
<1>13. CASE NotifyFailure(f)
  BY <1>13, LabelCore DEF NotifyFailure
<1> QED
  BY <1>1, <1>2, <1>3, <1>4, <1>6, <1>7, <1>8, <1>9, <1>10, <1>11, <1>12, <1>13
  DEF ActivityStep

\* One step of the workflow body: the answer becomes what the next activity
\* relies on.
LEMMA WorkflowCore ==
  ASSUME TypeOK, Core, NEW f \in Files, WorkflowStep(f), UNCHANGED watchVars
  PROVE  Core'
<1> USE DEF fileVars, arrVars, runVars, watchVars
<1>1. ASSUME NEW next, step' = [step EXCEPT ![f] = next], Goto(Cur(f), "idle"),
             step[f] # "closed", UNCHANGED <<source, sentinel, lib, scan, doubt, listing, checked>>,
             next = "cleanup" => Concluded(f),
             next = "discard" => Expendable(f)
      PROVE  Core'
  <2>1. /\ Answer(f)' = "idle"
        /\ \A g \in Files \ {f} : Answer(g)' = Answer(g)
    BY <1>1, ProcTypes DEF TypeOK, Goto, Answer, Cur
  <2>2. /\ step'[f] = next
        /\ \A g \in Files \ {f} : step'[g] = step[g]
    BY <1>1 DEF TypeOK
  <2>3. PhaseOK'
    BY <2>1, <2>2 DEF Core, PhaseOK
  <2>4. OnlyArrived' /\ NoLoss'
    BY <1>1, <2>2 DEF Core, OnlyArrived, NoLoss, Retired, Settled
  <2>5. \A g \in Files : /\ Settled(OutputOf[g])' <=> Settled(OutputOf[g])
                         /\ Concluded(g)' <=> Concluded(g)
    BY <1>1 DEF Settled, Concluded
  <2>6. Justified'
    BY <1>1, <2>1, <2>2, <2>5 DEF Core, Justified, Expendable, Results
  <2> QED
    BY <2>3, <2>4, <2>6 DEF Core
<1>2. CASE CompleteActivity(f)
  <2> DEFINE next == NextStep(f, step[f], Answer(f))
  <2>1. next = "cleanup" => step[f] = "notify"
    BY DEF NextStep
  <2>2. next = "discard" => step[f] = "probe" /\ Answer(f) = "invalid"
    BY DEF NextStep
  <2>3. Answer(f) \in Results \ {"error"}
    BY <1>2 DEF CompleteActivity
  <2>4. /\ next = "cleanup" => Concluded(f)
        /\ next = "discard" => Expendable(f)
    BY <2>1, <2>2, <2>3 DEF Core, Justified
  <2>5. step[f] # "closed" /\ step' = [step EXCEPT ![f] = next] /\ Goto(Cur(f), "idle")
    BY <1>2 DEF CompleteActivity
  <2>6. UNCHANGED <<source, sentinel, lib, scan, doubt, listing, checked>>
    BY <1>2 DEF CompleteActivity
  <2> HIDE DEF next
  <2> QED
    BY <1>1, <2>4, <2>5, <2>6
<1>3. CASE RetryAttempt(f)
  BY <1>3, LabelCore DEF RetryAttempt, Results
<1>4. CASE FailRun(f)
  BY <1>1, <1>4 DEF FailRun
<1>5. CASE CloseFailed(f)
  BY <1>1, <1>5 DEF CloseFailed
<1> QED
  BY <1>2, <1>3, <1>4, <1>5 DEF WorkflowStep

\* The watchers.
LEMMA WatcherCore ==
  ASSUME TypeOK, Core, NEW w \in Watchers, Walk(w) \/ WatcherRestart(w)
  PROVE  Core'
<1> USE DEF fileVars, arrVars, runVars, wfVars
<1>1. ASSUME UNCHANGED <<source, sentinel, lib, scan, doubt, step, pc>>, OnlyArrived'
      PROVE  Core'
  BY <1>1 DEF Core, PhaseOK, Justified, NoLoss, Retired, Expendable, Concluded, Settled, Answer
<1>2. CASE StartWalk(w)
  BY <1>1, <1>2 DEF StartWalk, Core, OnlyArrived, TypeOK
<1>3. ASSUME NEW f \in Files, StatSentinel(w, f) PROVE Core'
  BY <1>1, <1>3 DEF StatSentinel, Core, OnlyArrived, TypeOK
<1>4. CASE Dispatch(w)
  <2> DEFINE f == checked[w]
  <2>1. f \in Files /\ source[f] # "awaited"
    BY <1>4 DEF Dispatch, Core, OnlyArrived, TypeOK
  <2>2. \A v \in Watchers, g \in Files : checked'[v] = g => checked[v] = g
    BY <1>4, WatcherAssumption DEF Dispatch, TypeOK
  <2>3. UNCHANGED <<source, sentinel, lib, scan, doubt, pc, listing>>
    BY <1>4 DEF Dispatch
  <2>4. CASE StartRun(f)
    <3>1. /\ step[f] = "closed" /\ step'[f] = "probe"
          /\ \A g \in Files \ {f} : step'[g] = step[g]
      BY <2>1, <2>4 DEF StartRun, TypeOK
    <3>2. Answer(f) = "idle"
      BY <2>1, <3>1 DEF Core, PhaseOK
    <3>3. PhaseOK' /\ Justified'
      BY <2>1, <2>3, <3>1, <3>2
      DEF Core, PhaseOK, Justified, Expendable, Concluded, Settled, Answer, Results
    <3>4. OnlyArrived'
      BY <2>1, <2>2, <2>3, <3>1 DEF Core, OnlyArrived
    <3>5. NoLoss'
      BY <2>3 DEF Core, NoLoss, Retired, Settled
    <3> QED
      BY <3>3, <3>4, <3>5 DEF Core
  <2>5. CASE UNCHANGED step
    <3>1. OnlyArrived'
      BY <2>2, <2>3, <2>5 DEF Core, OnlyArrived
    <3> QED
      BY <1>1, <2>3, <2>5, <3>1
  <2> QED
    BY <1>4, <2>4, <2>5 DEF Dispatch
<1>5. CASE WatcherRestart(w)
  BY <1>1, <1>5, WatcherAssumption DEF WatcherRestart, Core, OnlyArrived, TypeOK
<1> QED
  BY <1>2, <1>3, <1>4, <1>5 DEF Walk

\* Faults, arrivals and the arr service.
LEMMA OutsideCore ==
  ASSUME TypeOK, Core,
         \/ \E f \in Files : FaultStep(f) \/ (ArrScan(f) /\ UNCHANGED <<wfVars, watchVars>>)
         \/ Environment
  PROVE  Core'
<1> USE DEF fileVars, arrVars, runVars, wfVars, watchVars
<1>1. ASSUME NEW f \in Files, AttemptError(f), UNCHANGED <<wfVars, watchVars>>
      PROVE  Core'
  BY <1>1, LabelCore DEF AttemptError
<1>2. ASSUME NEW f \in Files, Abandon(f), UNCHANGED <<wfVars, watchVars>>
      PROVE  Core'
  <2>1. /\ Answer(f)' = "error"
        /\ \A g \in Files \ {f} : Answer(g)' = Answer(g)
    BY <1>2 DEF Abandon, TypeOK, Answer, Cur, Procs
  <2>2. PhaseOK' /\ Justified'
    BY <1>2, <2>1 DEF Abandon, Core, PhaseOK, Justified, Expendable, Concluded, Settled
  <2>3. OnlyArrived' /\ NoLoss'
    BY <1>2 DEF Abandon, Core, OnlyArrived, NoLoss, Retired, Settled
  <2> QED
    BY <2>2, <2>3 DEF Core
<1>3. ASSUME NEW f \in Files, NEW who \in {"current", "abandoned"},
             TranscodeFail(<<f, who>>), UNCHANGED <<wfVars, watchVars>>
      PROVE  Core'
  <2>1. CASE who = "current"
    <3>1. step[f] = "transcode"
      BY <1>3, <2>1 DEF TranscodeFail, Core, PhaseOK, Answer, Cur
    <3> QED
      BY <1>3, <2>1, <3>1, LabelCore DEF TranscodeFail, Cur
  <2>2. CASE who = "abandoned"
    BY <1>3, <2>2, FrameCore DEF TranscodeFail, Goto, Answer, Cur, TypeOK, Procs
  <2> QED
    BY <2>1, <2>2
<1>4. ASSUME NEW o \in Outputs, Import(o)
      PROVE  Settled(o)' /\ \A x \in Outputs : Settled(x) => Settled(x)'
  BY <1>4 DEF Import, Settled, TypeOK
<1>5. ASSUME NEW f \in Files, ArrScan(f), UNCHANGED <<wfVars, watchVars>>
      PROVE  Core'
  <2>1. CASE Import(OutputOf[f])
    BY <1>4, <1>5, <2>1, OutputTypes, LibraryCore DEF ArrScan, ScanEnds, TypeOK
  <2>2. CASE UNCHANGED lib /\ \E r \in {"nothing", "vague"} : scan' = [scan EXCEPT ![f] = r]
    BY <1>5, <2>2, LibraryCore DEF ArrScan, TypeOK, Settled
  <2> QED
    BY <1>5, <2>1, <2>2 DEF ArrScan, ScanEnds
<1>6. ASSUME NEW o \in Outputs, ArrAutoImport(o), UNCHANGED <<wfVars, watchVars>>
      PROVE  Core'
  BY <1>4, <1>6, LibraryCore DEF ArrAutoImport
<1>7. ASSUME NEW o \in Outputs, ArrRefuses(o), UNCHANGED <<wfVars, watchVars>>
      PROVE  Core'
  <2>1. \A x \in Outputs : Settled(x) => Settled(x)'
    BY <1>7 DEF ArrRefuses, Settled, Refused, TypeOK
  <2> QED
    BY <1>7, <2>1, LibraryCore DEF ArrRefuses
<1>8. ASSUME NEW f \in Files, Arrive(f)
      PROVE  Core'
  <2>1. \A g \in Files : source'[g] = source[g] \/ source'[g] = "present"
    BY <1>8 DEF Arrive, TypeOK
  <2>2. OnlyArrived' /\ NoLoss'
    BY <1>8, <2>1 DEF Arrive, Core, OnlyArrived, NoLoss, Retired, Settled
  <2>3. PhaseOK' /\ Justified'
    BY <1>8 DEF Arrive, Core, PhaseOK, Justified, Expendable, Concluded, Settled, Answer
  <2> QED
    BY <2>2, <2>3 DEF Core
<1> QED
  BY <1>1, <1>2, <1>3, <1>5, <1>6, <1>7, <1>8 DEF FaultStep, Environment

\* Every step keeps the sources safe, when a probe rejects only what is no media.
LEMMA NextCore == ~ ProbeIOErrors /\ TypeOK /\ Core /\ [Next]_vars => Core'
<1> SUFFICES ASSUME ~ ProbeIOErrors, TypeOK, Core, [Next]_vars PROVE Core'
  OBVIOUS
<1>1. CASE UNCHANGED vars
  BY <1>1, FrameCore DEF vars, fileVars, arrVars, runVars, wfVars, watchVars, Answer
<1> QED
  BY <1>1, ActivityCore, WorkflowCore, WatcherCore, OutsideCore DEF Next, RunStep

\* No source is lost: whatever crashes, retries, partitions and races there
\* are, a source is deleted or marked as processed only when it was junk, its
\* item is settled in the library, or its own Notify was told neither a command
\* id nor a result, or found no name (doubt); and a preserved source is never
\* deleted (RunProbe, Notify, Cleanup).
THEOREM NoSourceLost ==
  ASSUME ~ ProbeIOErrors
  PROVE  Spec => []NoLoss
<1>1. TypeOK /\ Core /\ [Next]_vars => TypeOK' /\ Core'
  BY NextTypeOK, NextCore
<1>2. Core => NoLoss
  BY DEF Core
<1> QED
  BY InitTypeOK, InitCore, <1>1, <1>2, PTL DEF Spec

-----------------------------------------------------------------------------
\* One writer for each output: no two sources share a stem, and Temporal gives
\* up on no transcode that still runs (without either, pipeline_shared_stem
\* and a torn temp file are possible).

OneWriter ==
  /\ ~ Partitions
  /\ \A f, g \in Files : OutputOf[f] = OutputOf[g] => f = g

\* The complete transcode of f.
Own(f) == [of |-> f, torn |-> FALSE]

Alone == \A f \in Files : pc[<<f, "abandoned">>] = "idle"

WholeFiles ==
  \A f \in Files : \A file \in {temp[OutputOf[f]], final[OutputOf[f]], lib[OutputOf[f]].file} :
    file = None \/ file = Own(f)

\* A transcode that writes has its temp file, which keeps the directory.
WriterHasTemp == \A f \in Files : Answer(f) = "writing" => temp[OutputOf[f]] # None

DirOK == ~ DirEmpty => outDir

Writers == Alone /\ WholeFiles /\ WriterHasTemp /\ DirOK

\* A file's own transcode is a file.
LEMMA OwnIsFile == \A f \in Files : Own(f) # None
  BY FilesAssumption DEF Own, None

\* A step of the attempt of f moves no other label.
LEMMA MoveLabel ==
  ASSUME TypeOK, NEW f \in Files, NEW label, Goto(Cur(f), label)
  PROVE  /\ Answer(f)' = label
         /\ \A g \in Files \ {f} : Answer(g)' = Answer(g)
         /\ \A g \in Files : pc'[<<g, "abandoned">>] = pc[<<g, "abandoned">>]
  BY ProcTypes DEF TypeOK, Goto, Answer, Cur, Procs

\* At first there is nothing to write and nothing written.
LEMMA InitWriters == Init => Writers
<1> SUFFICES ASSUME Init PROVE Writers
  OBVIOUS
<1>1. Alone /\ WriterHasTemp
  BY ProcTypes DEF Init, Alone, WriterHasTemp, Answer, Cur
<1>2. WholeFiles
  BY OutputTypes DEF Init, WholeFiles
<1>3. DirOK
  BY DEF Init, DirOK, DirEmpty
<1> QED
  BY <1>1, <1>2, <1>3 DEF Writers

\* A step that writes, moves and removes no file, and starts no writer.
LEMMA FrameWriters ==
  ASSUME Writers, UNCHANGED <<temp, final, outDir>>, Alone',
         \A o \in Outputs : lib'[o].file = lib[o].file,
         \A f \in Files : Answer(f)' = "writing" => Answer(f) = "writing"
  PROVE  Writers'
<1>1. WholeFiles'
  BY OutputTypes DEF Writers, WholeFiles, Own
<1>2. WriterHasTemp' /\ DirOK'
  BY DEF Writers, WriterHasTemp, DirOK, DirEmpty
<1> QED
  BY <1>1, <1>2 DEF Writers

\* A move to any label but the one that writes disturbs no writer.
LEMMA LabelWriters ==
  ASSUME TypeOK, Writers, UNCHANGED <<temp, final, outDir, lib>>,
         NEW f \in Files, NEW label, label # "writing", Goto(Cur(f), label)
  PROVE  Writers'
<1>1. Alone'
  BY MoveLabel DEF Writers, Alone
<1>2. \A g \in Files : Answer(g)' = "writing" => Answer(g) = "writing"
  BY MoveLabel
<1> QED
  BY <1>1, <1>2, FrameWriters

\* Only the attempt of f itself takes the steps of its transcode.
LEMMA OwnTranscode ==
  ASSUME Writers, NEW f \in Files, NEW who \in {"current", "abandoned"},
         pc[<<f, who>>] # "idle"
  PROVE  <<f, who>> = Cur(f)
  BY DEF Writers, Alone, Cur

\* A step of the transcode keeps its temp file and its output whole.
LEMMA TranscodeWriters ==
  ASSUME OneWriter, TypeOK, Writers, NEW f \in Files,
         \/ TranscodePrepare(f)
         \/ \E who \in {"current", "abandoned"} :
              \/ TranscodeOpen(<<f, who>>) \/ TranscodeFail(<<f, who>>)
              \/ TranscodeRename(<<f, who>>) \/ TranscodeStat(<<f, who>>)
  PROVE  Writers'
<1> DEFINE o == OutputOf[f]
<1> USE DEF fileVars, arrVars, runVars
<1>1. o \in Outputs /\ \A g \in Files : OutputOf[g] \in Outputs /\ (g # f => OutputOf[g] # o)
  BY OutputTypes DEF OneWriter
<1>2. Cur(f)[1] = f /\ Cur(f) \in Procs
  BY DEF Cur, Procs
<1>3. temp \in [Outputs -> FileState] /\ final \in [Outputs -> FileState]
  BY DEF TypeOK
<1> HIDE DEF o
<1>4. CASE TranscodePrepare(f)
  <2>1. \E label \in {"error", "ok", "prepared"} : Goto(Cur(f), label)
    BY <1>4 DEF TranscodePrepare
  <2>2. UNCHANGED <<temp, final, lib>> /\ outDir' \in {outDir, TRUE}
    BY <1>4 DEF TranscodePrepare
  <2>3. Alone' /\ WriterHasTemp'
    BY <2>1, <2>2, MoveLabel DEF Writers, Alone, WriterHasTemp
  <2>4. WholeFiles' /\ DirOK'
    BY <2>2 DEF Writers, WholeFiles, Own, DirOK, DirEmpty
  <2> QED
    BY <2>3, <2>4 DEF Writers
<1>5. CASE TranscodeOpen(Cur(f))
  <2>1. OtherWriters(Cur(f)) = {}
    <3> SUFFICES ASSUME NEW q \in Procs, q # Cur(f), pc[q] = "writing", OutputOf[q[1]] = OutputOf[f]
                 PROVE  FALSE
      BY <1>2 DEF OtherWriters
    <3>1. PICK g \in Files, who \in {"current", "abandoned"} : q = <<g, who>>
      BY DEF Procs
    <3>2. g = f
      BY <3>1 DEF OneWriter
    <3> QED
      BY <3>1, <3>2, OwnTranscode
  <2>2. CASE /\ temp' = [temp EXCEPT ![o] = Own(f)]
             /\ outDir /\ Goto(Cur(f), "writing")
             /\ UNCHANGED <<outDir, final, lib>>
    <3>1. temp'[o] = Own(f) /\ \A x \in Outputs \ {o} : temp'[x] = temp[x]
      BY <1>1, <1>3, <2>2
    <3>2. Alone'
      BY <2>2, MoveLabel DEF Writers, Alone
    <3>3. WholeFiles'
      BY <1>1, <2>2, <3>1 DEF Writers, WholeFiles, Own, o
    <3>4. WriterHasTemp'
      BY <1>1, <2>2, <3>1, MoveLabel, OwnIsFile DEF Writers, WriterHasTemp, o
    <3>5. DirOK'
      BY <2>2 DEF DirOK
    <3> QED
      BY <3>2, <3>3, <3>4, <3>5 DEF Writers
  <2>3. CASE /\ temp' = [temp EXCEPT ![o] = None] /\ Goto(Cur(f), "error")
             /\ UNCHANGED <<outDir, final, lib>>
    <3>1. temp'[o] = None /\ \A x \in Outputs \ {o} : temp'[x] = temp[x]
      BY <1>1, <1>3, <2>3
    <3>2. Alone'
      BY <2>3, MoveLabel DEF Writers, Alone
    <3>3. WholeFiles'
      BY <1>1, <2>3, <3>1 DEF Writers, WholeFiles, Own, o
    <3>4. WriterHasTemp'
      BY <1>1, <2>3, <3>1, MoveLabel DEF Writers, WriterHasTemp, o
    <3>5. DirOK'
      BY <1>1, <2>3, <3>1 DEF Writers, DirOK, DirEmpty
    <3> QED
      BY <3>2, <3>3, <3>4, <3>5 DEF Writers
  <2> QED
    BY <1>2, <1>5, <2>1, <2>2, <2>3 DEF TranscodeOpen, Own, o
<1>6. CASE TranscodeFail(Cur(f))
  <2>1. temp'[o] = None /\ \A x \in Outputs \ {o} : temp'[x] = temp[x]
    BY <1>1, <1>2, <1>3, <1>6 DEF TranscodeFail, o
  <2>2. Goto(Cur(f), "error") /\ UNCHANGED <<outDir, final, lib>>
    BY <1>6 DEF TranscodeFail
  <2>3. Alone'
    BY <2>2, MoveLabel DEF Writers, Alone
  <2>4. WholeFiles'
    BY <1>1, <2>1, <2>2 DEF Writers, WholeFiles, Own, o
  <2>5. WriterHasTemp'
    BY <1>1, <2>1, <2>2, MoveLabel DEF Writers, WriterHasTemp, o
  <2>6. DirOK'
    BY <1>1, <2>1, <2>2 DEF Writers, DirOK, DirEmpty
  <2> QED
    BY <2>3, <2>4, <2>5, <2>6 DEF Writers
<1>7. CASE TranscodeRename(Cur(f))
  <2>1. CASE temp[o] = None
    <3>1. Goto(Cur(f), "error") /\ UNCHANGED <<temp, final, outDir, lib>>
      BY <1>2, <1>7, <2>1 DEF TranscodeRename, o
    <3> QED
      BY <3>1, LabelWriters
  <2>2. CASE temp[o] # None
    <3>1. /\ Goto(Cur(f), "renamed") /\ UNCHANGED <<outDir, lib>>
          /\ final' = [final EXCEPT ![o] = temp[o]] /\ temp' = [temp EXCEPT ![o] = None]
      BY <1>2, <1>7, <2>2 DEF TranscodeRename, o
    <3>2. /\ temp'[o] = None /\ \A x \in Outputs \ {o} : temp'[x] = temp[x]
          /\ final'[o] = temp[o] /\ \A x \in Outputs \ {o} : final'[x] = final[x]
      BY <1>1, <1>3, <3>1
    <3>3. Alone'
      BY <3>1, MoveLabel DEF Writers, Alone
    <3>4. WholeFiles'
      BY <1>1, <3>1, <3>2 DEF Writers, WholeFiles, Own, o
    <3>5. WriterHasTemp'
      BY <1>1, <3>1, <3>2, MoveLabel DEF Writers, WriterHasTemp, o
    <3>6. DirOK'
      BY <1>1, <2>2, <3>1 DEF Writers, DirOK, DirEmpty
    <3> QED
      BY <3>3, <3>4, <3>5, <3>6 DEF Writers
  <2> QED
    BY <2>1, <2>2
<1>8. CASE TranscodeStat(Cur(f))
  <2>1. \E label \in {"error", "ok"} : Goto(Cur(f), label)
    BY <1>8 DEF TranscodeStat
  <2> QED
    BY <1>8, <2>1, LabelWriters DEF TranscodeStat
<1>9. ASSUME NEW who \in {"current", "abandoned"},
             \/ TranscodeOpen(<<f, who>>) \/ TranscodeFail(<<f, who>>)
             \/ TranscodeRename(<<f, who>>) \/ TranscodeStat(<<f, who>>)
      PROVE  <<f, who>> = Cur(f)
  BY <1>9, OwnTranscode DEF TranscodeOpen, TranscodeFail, TranscodeRename, TranscodeStat
<1> QED
  BY <1>4, <1>5, <1>6, <1>7, <1>8, <1>9

\* The steps that write no output: the removals, the service's import, the
\* labels.
LEMMA ActivityWriters ==
  ASSUME OneWriter, TypeOK, Writers, NEW f \in Files, ActivityStep(f)
  PROVE  Writers'
<1> USE DEF fileVars, arrVars, runVars
<1>1. CASE ProbeRead(f) \/ ProbeRemove(f) \/ DetectCrop(f) \/ NotifyPost(f) \/ CleanupSource(f)
           \/ NotifyFailure(f)
  <2>1. \E label \in {"ok", "reject", "invalid", "error", "scanning", "prune"} : Goto(Cur(f), label)
    BY <1>1 DEF ProbeRead, ProbeRemove, DetectCrop, NotifyPost, CleanupSource, NotifyFailure
  <2>2. UNCHANGED <<temp, final, outDir, lib>>
    BY <1>1 DEF ProbeRead, ProbeRemove, DetectCrop, NotifyPost, CleanupSource, NotifyFailure
  <2> QED
    BY <2>1, <2>2, LabelWriters
<1>2. CASE NotifyResolve(f)
  <2>1. \E label \in {"ok", "skip", "error"} : Goto(Cur(f), label)
    BY <1>2 DEF NotifyResolve, NotifyVerdict
  <2> QED
    BY <1>2, <2>1, LabelWriters DEF NotifyResolve
<1>3. CASE CleanupOutput(f)
  <2>1. Goto(Cur(f), "retire") /\ UNCHANGED <<temp, outDir, lib>>
        /\ \A o \in Outputs : final'[o] \in {final[o], None}
    BY <1>3 DEF CleanupOutput, TypeOK
  <2>2. Alone' /\ WriterHasTemp'
    BY <2>1, MoveLabel DEF Writers, Alone, WriterHasTemp
  <2>3. WholeFiles' /\ DirOK'
    BY <2>1, OutputTypes DEF Writers, WholeFiles, Own, DirOK, DirEmpty
  <2> QED
    BY <2>2, <2>3 DEF Writers
<1>4. CASE CleanupPrune(f)
  <2>1. Goto(Cur(f), "ok") /\ UNCHANGED <<temp, final, lib>> /\ (outDir' = outDir \/ DirEmpty)
    BY <1>4 DEF CleanupPrune
  <2>2. Alone' /\ WriterHasTemp'
    BY <2>1, MoveLabel DEF Writers, Alone, WriterHasTemp
  <2>3. WholeFiles' /\ DirOK'
    BY <2>1 DEF Writers, WholeFiles, Own, DirOK, DirEmpty
  <2> QED
    BY <2>2, <2>3 DEF Writers
<1>5. CASE AbandonedEnds(f)
  BY <1>5 DEF AbandonedEnds, Writers, Alone
<1> QED
  BY <1>1, <1>2, <1>3, <1>4, <1>5, TranscodeWriters DEF ActivityStep

\* An import takes a whole file, or none.
LEMMA ImportWriters ==
  ASSUME TypeOK, Writers, NEW o \in Outputs, Import(o), UNCHANGED <<temp, outDir, pc>>
  PROVE  Writers'
<1>1. \A x \in Outputs : /\ final'[x] \in {final[x], None}
                         /\ lib'[x].file = lib[x].file \/ (x = o /\ lib'[x].file = final[x])
  BY DEF Import, TypeOK
<1>2. Alone' /\ WriterHasTemp'
  BY DEF Writers, Alone, WriterHasTemp, Answer
<1>3. WholeFiles'
  BY <1>1, OutputTypes DEF Writers, WholeFiles, Own
<1>4. DirOK'
  BY <1>1 DEF Writers, DirOK, DirEmpty
<1> QED
  BY <1>2, <1>3, <1>4 DEF Writers

\* Every step keeps the writers apart and their files whole.
LEMMA NextWriters == OneWriter /\ TypeOK /\ Writers /\ [Next]_vars => Writers'
<1> SUFFICES ASSUME OneWriter, TypeOK, Writers, [Next]_vars PROVE Writers'
  OBVIOUS
<1> USE DEF fileVars, arrVars, runVars
<1>1. CASE UNCHANGED vars
  BY <1>1, FrameWriters DEF vars, Writers, Alone, Answer
<1>2. ASSUME NEW w \in Watchers, Walk(w) \/ WatcherRestart(w) PROVE Writers'
  <2>1. UNCHANGED <<temp, final, outDir, lib, pc>>
    BY <1>2 DEF Walk, StartWalk, StatSentinel, Dispatch, WatcherRestart
  <2> QED
    BY <2>1, FrameWriters DEF Writers, Alone, Answer
<1>3. ASSUME NEW f \in Files, WorkflowStep(f) PROVE Writers'
  <2>1. Goto(Cur(f), "idle") /\ UNCHANGED <<temp, final, outDir, lib>>
    BY <1>3 DEF WorkflowStep, CompleteActivity, RetryAttempt, FailRun, CloseFailed
  <2> QED
    BY <2>1, LabelWriters
<1>4. ASSUME NEW f \in Files, ArrScan(f) PROVE Writers'
  <2>1. CASE Import(OutputOf[f])
    BY <1>4, <2>1, ImportWriters, OutputTypes DEF ArrScan
  <2>2. CASE UNCHANGED <<lib, final>>
    BY <1>4, <2>2, FrameWriters DEF ArrScan, Writers, Alone, Answer
  <2> QED
    BY <1>4, <2>1, <2>2 DEF ArrScan
<1>5. ASSUME NEW f \in Files, FaultStep(f) PROVE Writers'
  <2>1. CASE AttemptError(f)
    BY <2>1, LabelWriters DEF AttemptError
  <2>2. ASSUME NEW who \in {"current", "abandoned"}, TranscodeFail(<<f, who>>) PROVE Writers'
    BY <2>2, TranscodeWriters
  <2> QED
    BY <1>5, <2>1, <2>2 DEF FaultStep, OneWriter
<1>6. CASE Environment
  <2>1. ASSUME NEW f \in Files, Arrive(f) PROVE Writers'
    BY <2>1, FrameWriters DEF Arrive, Writers, Alone, Answer
  <2>2. ASSUME NEW o \in Outputs, ArrAutoImport(o) PROVE Writers'
    BY <2>2, ImportWriters DEF ArrAutoImport
  <2>3. ASSUME NEW o \in Outputs, ArrRefuses(o) PROVE Writers'
    <3>1. \A x \in Outputs : lib'[x].file = lib[x].file
      BY <2>3 DEF ArrRefuses, TypeOK
    <3> QED
      BY <2>3, <3>1, FrameWriters DEF ArrRefuses, Writers, Alone, Answer
  <2> QED
    BY <1>6, <2>1, <2>2, <2>3 DEF Environment
<1> QED
  BY <1>1, <1>2, <1>3, <1>4, <1>5, <1>6, ActivityWriters DEF Next, RunStep

\* The files of one writer keep their directory and hold its transcode.
THEOREM WritersInvariance ==
  ASSUME OneWriter
  PROVE  Spec => []Writers
<1>1. TypeOK /\ Writers /\ [Next]_vars => TypeOK' /\ Writers'
  BY NextTypeOK, NextWriters
<1> QED
  BY InitTypeOK, InitWriters, <1>1, PTL DEF Spec

\* Pruning never pulls a directory away from under a transcode that writes
\* there or with a file in it, whatever crashes and retries there are
\* (PruneOutputDirs, RunTranscode).
THEOREM FilesKeepDir ==
  ASSUME OneWriter
  PROVE  Spec => []FilesHaveDir
<1>1. Writers => FilesHaveDir
  <2> SUFFICES ASSUME Writers PROVE FilesHaveDir
    OBVIOUS
  <2>1. ASSUME NEW p \in Procs, pc[p] = "writing" PROVE ~ DirEmpty
    <3>1. PICK f \in Files, who \in {"current", "abandoned"} : p = <<f, who>>
      BY DEF Procs
    <3>2. p = Cur(f)
      BY <2>1, <3>1, OwnTranscode
    <3> QED
      BY <2>1, <3>2, OutputTypes DEF Writers, WriterHasTemp, Answer, DirEmpty
  <2> QED
    BY <2>1 DEF FilesHaveDir, Writers, DirOK
<1> QED
  BY <1>1, WritersInvariance, PTL

\* What is offered to the library, and what it took, is the source's own
\* complete transcode (the temp file and the rename of RunTranscode).
THEOREM OutputsAreWhole ==
  ASSUME OneWriter
  PROVE  Spec => []OutputWhole
<1>1. Writers => OutputWhole
  BY DEF Writers, WholeFiles, Own, OutputWhole
<1> QED
  BY <1>1, WritersInvariance, PTL

-----------------------------------------------------------------------------
\* No output is stranded.

\* The service took the output, or Notify took its answer on trust.
Accepted(f) ==
  lib[OutputOf[f]].status = "imported" \/ "no id" \in doubt[f] \/ "no result" \in doubt[f]

Delivered(f) == final[OutputOf[f]] = None \/ Accepted(f)

\* What a run has found out about its file, up to the claim that its output is
\* gone or accepted once the run is complete.
Story(f) ==
  /\ Answer(f) = "skip" => step[f] = "notify"
  /\ Answer(f) = "invalid" => step[f] = "probe"
  /\ step[f] \in {"crop", "transcode", "notify"} \/ (step[f] = "probe" /\ Answer(f) = "ok")
       => source[f] = "present" /\ f \notin Junk
  /\ f \in Junk => final[OutputOf[f]] = None
  /\ (step[f] = "probe" /\ Answer(f) \in {"reject", "invalid"}) \/ step[f] = "discard"
       => f \in Junk \/ source[f] = "removed"
  /\ source[f] = "removed" => Delivered(f)
  /\ scan[f] = "imported" => Accepted(f)
  /\ step[f] = "notify" /\ Answer(f) = "ok" => Accepted(f)
  /\ step[f] = "cleanup" /\ f \notin skipped => Accepted(f)
  /\ step[f] = "cleanup" /\ Answer(f) \in {"retire", "prune", "ok"} => Delivered(f)
  /\ outcome[f] = "completed" => step[f] = "closed" /\ Delivered(f)

Stories == \A f \in Files : Story(f)

\* What a step does to the output and the library item of a file that it does
\* not write: the output may go, an import is final, and so is a doubt.
Kept(f) ==
  /\ final[OutputOf[f]] = None => final'[OutputOf[f]] = None
  /\ Accepted(f) => Accepted(f)'

\* What was delivered stays so while its output is kept.
LEMMA KeptDelivered == \A f \in Files : Kept(f) => (Delivered(f) => Delivered(f)')
  BY DEF Kept, Delivered, Accepted

\* A step that is not about f.
LEMMA KeptStory ==
  ASSUME NEW f \in Files, Story(f), Kept(f),
         step'[f] = step[f], source'[f] = source[f], scan'[f] = scan[f],
         outcome'[f] = outcome[f], Answer(f)' = Answer(f), f \in skipped' <=> f \in skipped
  PROVE  Story(f)'
<1>1. Delivered(f) => Delivered(f)'
  BY KeptDelivered
<1>2. Accepted(f) => Accepted(f)'
  BY DEF Kept
<1>3. f \in Junk => final'[OutputOf[f]] = None
  BY DEF Story, Kept
<1> QED
  BY <1>1, <1>2, <1>3 DEF Story

\* At first there is nothing to account for.
LEMMA InitStories == Init => Stories
<1> SUFFICES ASSUME Init, NEW f \in Files PROVE Story(f)
  BY DEF Stories
<1>1. Answer(f) = "idle" /\ step[f] = "closed" /\ source[f] = "awaited" /\ scan[f] = "none"
      /\ outcome[f] = "none" /\ final[OutputOf[f]] = None
  BY ProcTypes, OutputTypes DEF Init, Answer
<1> QED
  BY <1>1 DEF Story

\* Of the activities' steps, only the run's own rename writes its output.
LEMMA OnlyRenameWrites ==
  ASSUME OneWriter, TypeOK, Writers, NEW f \in Files, NEW g \in Files, ActivityStep(g)
  PROVE  Kept(f) \/ (g = f /\ TranscodeRename(Cur(f)))
<1> DEFINE o == OutputOf[f]
<1> USE DEF fileVars, arrVars
<1>1. o \in Outputs
  BY OutputTypes
<1>2. ASSUME UNCHANGED <<final, lib, doubt>> PROVE Kept(f)
  BY <1>2 DEF Kept, Accepted
<1>3. CASE CleanupOutput(g)
  <2>1. final'[o] \in {final[o], None} /\ lib' = lib /\ doubt' = doubt
    BY <1>1, <1>3 DEF CleanupOutput, TypeOK
  <2> QED
    BY <2>1 DEF Kept, Accepted
<1>4. ASSUME NEW who \in {"current", "abandoned"}, TranscodeRename(<<g, who>>)
      PROVE  Kept(f) \/ (g = f /\ TranscodeRename(Cur(f)))
  <2>1. <<g, who>> = Cur(g)
    BY <1>4, OwnTranscode DEF TranscodeRename
  <2>2. CASE g = f
    BY <1>4, <2>1, <2>2
  <2>3. CASE g # f
    <3>1. OutputOf[g] # o
      BY <2>3 DEF OneWriter
    <3>2. Cur(g)[1] = g
      BY DEF Cur
    <3>3. final'[o] = final[o] /\ lib' = lib /\ doubt' = doubt
      BY <1>1, <1>4, <2>1, <3>1, <3>2 DEF TranscodeRename, TypeOK
    <3> QED
      BY <3>3 DEF Kept, Accepted
  <2> QED
    BY <2>2, <2>3
<1>5. ASSUME NEW who \in {"current", "abandoned"},
             TranscodeOpen(<<g, who>>) \/ TranscodeStat(<<g, who>>)
      PROVE  Kept(f)
  BY <1>2, <1>5 DEF TranscodeOpen, TranscodeStat
<1>6. CASE \/ ProbeRead(g) \/ ProbeRemove(g) \/ DetectCrop(g) \/ TranscodePrepare(g)
           \/ AbandonedEnds(g) \/ CleanupSource(g) \/ CleanupPrune(g) \/ NotifyFailure(g)
  BY <1>2, <1>6 DEF ProbeRead, ProbeRemove, DetectCrop, TranscodePrepare, AbandonedEnds,
     CleanupSource, CleanupPrune, NotifyFailure
<1>7. CASE NotifyPost(g) \/ NotifyResolve(g)
  <2>1. UNCHANGED <<final, lib>> /\ doubt[f] \subseteq doubt'[f]
    BY <1>7, DoubtsGrow DEF NotifyPost, NotifyResolve
  <2> QED
    BY <2>1 DEF Kept, Accepted
<1> QED
  BY <1>3, <1>4, <1>5, <1>6, <1>7 DEF ActivityStep

\* No other process writes an output, or drops it without an import.
LEMMA OthersKeepOutputs ==
  ASSUME TypeOK, NEW f \in Files,
         \/ \E w \in Watchers : Walk(w) \/ WatcherRestart(w)
         \/ \E g \in Files : WorkflowStep(g) \/ FaultStep(g) \/ ArrScan(g)
         \/ Environment
  PROVE  Kept(f)
<1> USE DEF fileVars, arrVars, runVars
<1>1. OutputOf[f] \in Outputs
  BY OutputTypes
<1>2. ASSUME UNCHANGED <<final, lib, doubt>> PROVE Kept(f)
  BY <1>2 DEF Kept, Accepted
<1>3. ASSUME NEW x \in Outputs, Import(x), UNCHANGED doubt PROVE Kept(f)
  BY <1>1, <1>3 DEF Import, Kept, Accepted, TypeOK
<1>4. ASSUME NEW w \in Watchers, Walk(w) \/ WatcherRestart(w) PROVE Kept(f)
  BY <1>2, <1>4 DEF Walk, StartWalk, StatSentinel, Dispatch, WatcherRestart
<1>5. ASSUME NEW g \in Files, WorkflowStep(g) PROVE Kept(f)
  BY <1>2, <1>5 DEF WorkflowStep, CompleteActivity, RetryAttempt, FailRun, CloseFailed
<1>6. ASSUME NEW g \in Files, FaultStep(g) PROVE Kept(f)
  BY <1>2, <1>6 DEF FaultStep, AttemptError, Abandon, TranscodeFail
<1>7. ASSUME NEW g \in Files, ArrScan(g) PROVE Kept(f)
  BY <1>2, <1>3, <1>7, OutputTypes DEF ArrScan
<1>8. CASE Environment
  <2>1. ASSUME NEW g \in Files, Arrive(g) PROVE Kept(f)
    BY <1>2, <2>1 DEF Arrive
  <2>2. ASSUME NEW x \in Outputs, ArrAutoImport(x) PROVE Kept(f)
    BY <1>3, <2>2 DEF ArrAutoImport
  <2>3. ASSUME NEW x \in Outputs, ArrRefuses(x) PROVE Kept(f)
    BY <1>1, <2>3 DEF ArrRefuses, Kept, Accepted, TypeOK
  <2> QED
    BY <1>8, <2>1, <2>2, <2>3 DEF Environment
<1> QED
  BY <1>4, <1>5, <1>6, <1>7, <1>8

\* One step of the run's own attempt.
LEMMA OwnStory ==
  ASSUME ~ ProbeIOErrors, TypeOK, Core, Writers, NEW f \in Files, Story(f), ActivityStep(f),
         Kept(f) \/ TranscodeRename(Cur(f)), UNCHANGED wfVars
  PROVE  Story(f)'
<1> USE DEF fileVars, arrVars, runVars, wfVars, At
<1> DEFINE Quiet == UNCHANGED <<step, skipped, outcome>> /\ source'[f] = source[f]
<1>1. Kept(f) => /\ (Delivered(f) => Delivered(f)') /\ (Accepted(f) => Accepted(f)')
                 /\ (f \in Junk => final'[OutputOf[f]] = None)
  BY KeptDelivered DEF Kept, Story
<1>2. ASSUME NEW label \in {"idle", "error", "prepared", "writing", "renamed", "scanning"},
             Quiet, Kept(f), Goto(Cur(f), label), scan'[f] = "imported" => scan[f] = "imported"
      PROVE  Story(f)'
  <2>1. Answer(f)' = label
    BY <1>2, MoveLabel
  <2> QED
    BY <1>1, <1>2, <2>1 DEF Story
<1>3. CASE ProbeRead(f)
  <2>1. Quiet /\ Kept(f) /\ scan' = scan /\ step[f] = "probe"
    BY <1>3 DEF ProbeRead, Kept, Accepted
  <2>2. source[f] # "awaited"
    BY <2>1 DEF Core, OnlyArrived
  <2>3. CASE Probe_LooksMedia(f) /\ Goto(Cur(f), "ok")
    <3>1. Answer(f)' = "ok"
      BY <2>3, MoveLabel
    <3> QED
      BY <1>1, <2>1, <2>3, <3>1 DEF Story, Probe_LooksMedia
  <2>4. CASE ~ Probe_LooksMedia(f) /\ Goto(Cur(f), "reject")
    <3>1. Answer(f)' = "reject"
      BY <2>4, MoveLabel
    <3>2. f \in Junk \/ source[f] = "removed"
      BY <2>2, <2>4 DEF Probe_LooksMedia, TypeOK
    <3> QED
      BY <1>1, <2>1, <3>1, <3>2 DEF Story
  <2> QED
    BY <1>3, <2>3, <2>4 DEF ProbeRead
<1>4. CASE ProbeRemove(f)
  <2>1. /\ UNCHANGED <<step, skipped, outcome, scan, doubt, final, lib>> /\ step[f] = "probe"
        /\ Answer(f) = "reject" /\ Goto(Cur(f), "invalid")
        /\ source'[f] = source[f] \/ source'[f] = "removed"
    BY <1>4 DEF ProbeRemove, Answer, TypeOK
  <2>2. Answer(f)' = "invalid"
    BY <2>1, MoveLabel
  <2>3. Kept(f)
    BY <2>1 DEF Kept, Accepted
  <2>4. (f \in Junk \/ source[f] = "removed") /\ Delivered(f)
    BY <2>1 DEF Story, Delivered
  <2> QED
    BY <1>1, <2>1, <2>2, <2>3, <2>4 DEF Story
<1>5. CASE DetectCrop(f)
  <2>1. Quiet /\ Kept(f) /\ scan' = scan /\ step[f] = "crop"
    BY <1>5 DEF DetectCrop, Kept, Accepted
  <2>2. CASE Goto(Cur(f), "ok")
    <3>1. Answer(f)' = "ok"
      BY <2>2, MoveLabel
    <3> QED
      BY <1>1, <2>1, <3>1 DEF Story
  <2>3. CASE Goto(Cur(f), "error")
    BY <1>2, <2>1, <2>3
  <2> QED
    BY <1>5, <2>2, <2>3 DEF DetectCrop
<1>6. CASE TranscodePrepare(f)
  <2>1. Quiet /\ Kept(f) /\ scan' = scan /\ step[f] = "transcode"
    BY <1>6 DEF TranscodePrepare, Kept, Accepted
  <2>2. PICK label \in {"error", "ok", "prepared"} : Goto(Cur(f), label)
    BY <1>6 DEF TranscodePrepare
  <2>3. Answer(f)' = label
    BY <2>2, MoveLabel
  <2> QED
    BY <1>1, <2>1, <2>3 DEF Story
<1>7. CASE TranscodeOpen(Cur(f)) \/ TranscodeStat(Cur(f)) \/ TranscodeRename(Cur(f))
  <2>1. Quiet /\ scan' = scan /\ step[f] = "transcode"
    BY <1>7 DEF TranscodeOpen, TranscodeStat, TranscodeRename, Core, PhaseOK, Answer
  <2>2. PICK label \in {"error", "ok", "writing", "renamed"} : Goto(Cur(f), label)
    BY <1>7 DEF TranscodeOpen, TranscodeStat, TranscodeRename
  <2>3. Answer(f)' = label
    BY <2>2, MoveLabel
  <2>4. Accepted(f) => Accepted(f)'
    BY <1>7 DEF TranscodeOpen, TranscodeStat, TranscodeRename, Accepted
  <2> QED
    BY <2>1, <2>3, <2>4 DEF Story
<1>8. CASE AbandonedEnds(f)
  BY <1>8, OwnTranscode DEF AbandonedEnds, Writers, Alone
<1>9. CASE NotifyPost(f)
  <2>1. /\ Quiet /\ UNCHANGED <<final, lib>> /\ doubt[f] \subseteq doubt'[f] /\ step[f] = "notify"
        /\ scan'[f] = "imported" => scan[f] = "imported"
    BY <1>9, DoubtsGrow DEF NotifyPost, TypeOK
  <2>2. Kept(f)
    BY <2>1 DEF Kept, Accepted
  <2>3. CASE Goto(Cur(f), "scanning")
    BY <1>2, <2>1, <2>2, <2>3
  <2>4. CASE Goto(Cur(f), "ok") /\ doubt' = [doubt EXCEPT ![f] = @ \cup {"no id"}]
    <3>1. Answer(f)' = "ok"
      BY <2>4, MoveLabel
    <3>2. Accepted(f)'
      BY <2>4 DEF Accepted, TypeOK
    <3> QED
      BY <1>1, <2>1, <2>2, <3>1, <3>2 DEF Story
  <2> QED
    BY <1>9, <2>3, <2>4 DEF NotifyPost
<1>10. CASE NotifyResolve(f)
  <2>1. /\ Quiet /\ UNCHANGED <<final, lib>> /\ doubt[f] \subseteq doubt'[f] /\ step[f] = "notify"
        /\ scan'[f] = "none"
    BY <1>10, DoubtsGrow DEF NotifyResolve, TypeOK
  <2>2. Kept(f)
    BY <2>1 DEF Kept, Accepted
  <2>3. PICK label \in {"ok", "skip", "error"} :
           Goto(Cur(f), label) /\ (label = "ok" => Accepted(f)')
    <3>1. CASE scan[f] = "imported" /\ Goto(Cur(f), "ok")
      BY <2>2, <3>1 DEF Story, Kept
    <3>2. CASE Goto(Cur(f), "ok") /\ doubt' = [doubt EXCEPT ![f] = @ \cup {"no result"}]
      BY <3>2 DEF Accepted, TypeOK
    <3>3. ASSUME NEW failed \in {"none", "item", "rejection"},
                 Goto(Cur(f), NotifyVerdict(f, failed))
          PROVE  \E label \in {"ok", "skip", "error"} :
                   Goto(Cur(f), label) /\ (label = "ok" => Accepted(f)')
      <4>1. NotifyVerdict(f, failed) \in {"ok", "skip", "error"}
        BY DEF NotifyVerdict
      <4>2. NotifyVerdict(f, failed) = "ok" => Accepted(f)'
        BY <2>1 DEF NotifyVerdict, TookOurs, Accepted
      <4> QED
        BY <3>3, <4>1, <4>2
    <3> QED
      BY <1>10, <3>1, <3>2, <3>3 DEF NotifyResolve
  <2>4. Answer(f)' = label
    BY <2>3, MoveLabel
  <2> QED
    BY <1>1, <2>1, <2>2, <2>3, <2>4 DEF Story
<1>11. CASE CleanupOutput(f)
  <2>1. /\ Quiet /\ scan' = scan /\ lib' = lib /\ step[f] \in {"cleanup", "discard"}
        /\ Goto(Cur(f), "retire")
        /\ step[f] = "cleanup" /\ f \in skipped => final'[OutputOf[f]] = None
    BY <1>11, OutputTypes DEF CleanupOutput, TypeOK
  <2>2. Answer(f)' = "retire"
    BY <2>1, MoveLabel
  <2>3. Kept(f)
    BY <1>11, OutputTypes DEF CleanupOutput, Kept, Accepted, TypeOK
  <2>4. step[f] = "cleanup" => Delivered(f)'
    BY <1>1, <2>1, <2>3 DEF Story, Delivered
  <2> QED
    BY <1>1, <2>1, <2>2, <2>3, <2>4 DEF Story
<1>12. CASE CleanupSource(f)
  <2>1. /\ UNCHANGED <<step, skipped, outcome, scan, doubt, final, lib>>
        /\ Goto(Cur(f), "prune") /\ Answer(f) = "retire"
    BY <1>12 DEF CleanupSource, Answer
  <2>2. Kept(f) /\ step[f] \in {"cleanup", "discard"}
    BY <2>1 DEF Core, PhaseOK, Kept, Accepted
  <2>3. Answer(f)' = "prune"
    BY <2>1, MoveLabel
  <2>4. Delivered(f) /\ (source'[f] = source[f] \/ source'[f] = "removed")
    <3>1. Delivered(f)
      BY <2>1, <2>2 DEF Story, Delivered
    <3> QED
      BY <1>12, <3>1 DEF CleanupSource, TypeOK
  <2> QED
    BY <1>1, <2>1, <2>2, <2>3, <2>4 DEF Story
<1>13. CASE CleanupPrune(f)
  <2>1. /\ Quiet /\ UNCHANGED <<scan, doubt, final, lib>>
        /\ Goto(Cur(f), "ok") /\ Answer(f) = "prune"
    BY <1>13 DEF CleanupPrune, Answer
  <2>2. Kept(f) /\ step[f] \in {"cleanup", "discard"}
    BY <2>1 DEF Core, PhaseOK, Kept, Accepted
  <2>3. Answer(f)' = "ok"
    BY <2>1, MoveLabel
  <2> QED
    BY <1>1, <2>1, <2>2, <2>3 DEF Story
<1>14. CASE NotifyFailure(f)
  <2>1. Quiet /\ Kept(f) /\ scan' = scan /\ step[f] = "alert" /\ Goto(Cur(f), "ok")
    BY <1>14 DEF NotifyFailure, Kept, Accepted
  <2>2. Answer(f)' = "ok"
    BY <2>1, MoveLabel
  <2> QED
    BY <1>1, <2>1, <2>2 DEF Story
<1>15. ASSUME NEW who \in {"current", "abandoned"},
              TranscodeOpen(<<f, who>>) \/ TranscodeRename(<<f, who>>) \/ TranscodeStat(<<f, who>>)
       PROVE  <<f, who>> = Cur(f)
  BY <1>15, OwnTranscode DEF TranscodeOpen, TranscodeRename, TranscodeStat
<1> QED
  BY <1>3, <1>4, <1>5, <1>6, <1>7, <1>8, <1>9, <1>10, <1>11, <1>12, <1>13, <1>14, <1>15
  DEF ActivityStep

\* An attempt of one file leaves what is known of the others.
LEMMA OthersStory ==
  ASSUME TypeOK, Writers, NEW f \in Files, ActivityStep(f), UNCHANGED wfVars,
         NEW g \in Files, g # f, Story(g), Kept(g)
  PROVE  Story(g)'
<1> USE DEF fileVars, arrVars, runVars, wfVars
<1>1. UNCHANGED <<step, skipped, outcome>>
  BY DEF ActivityStep, ProbeRead, ProbeRemove, DetectCrop, TranscodePrepare, TranscodeOpen,
         TranscodeRename, TranscodeStat, AbandonedEnds, NotifyPost, NotifyResolve, CleanupOutput,
         CleanupSource, CleanupPrune, NotifyFailure
<1>2. source'[g] = source[g]
  <2>1. CASE ProbeRemove(f) \/ CleanupSource(f)
    BY <2>1 DEF ProbeRemove, CleanupSource, TypeOK
  <2>2. CASE ~ (ProbeRemove(f) \/ CleanupSource(f))
    BY <2>2 DEF ActivityStep, ProbeRead, DetectCrop, TranscodePrepare, TranscodeOpen,
       TranscodeRename, TranscodeStat, AbandonedEnds, NotifyPost, NotifyResolve, CleanupOutput,
       CleanupPrune, NotifyFailure
  <2> QED
    BY <2>1, <2>2
<1>3. scan'[g] = scan[g]
  <2>1. CASE NotifyPost(f) \/ NotifyResolve(f)
    BY <2>1 DEF NotifyPost, NotifyResolve, TypeOK
  <2>2. CASE ~ (NotifyPost(f) \/ NotifyResolve(f))
    BY <2>2 DEF ActivityStep, ProbeRead, ProbeRemove, DetectCrop, TranscodePrepare, TranscodeOpen,
       TranscodeRename, TranscodeStat, AbandonedEnds, CleanupOutput, CleanupSource, CleanupPrune,
       NotifyFailure
  <2> QED
    BY <2>1, <2>2
<1>4. Answer(g)' = Answer(g)
  <2>1. CASE AbandonedEnds(f)
    BY <2>1 DEF AbandonedEnds, Writers, Alone
  <2>2. ASSUME NEW who \in {"current", "abandoned"},
               TranscodeOpen(<<f, who>>) \/ TranscodeRename(<<f, who>>) \/ TranscodeStat(<<f, who>>)
        PROVE  Answer(g)' = Answer(g)
    <3>1. <<f, who>> = Cur(f)
      BY <2>2, OwnTranscode DEF TranscodeOpen, TranscodeRename, TranscodeStat
    <3>2. \E label \in Labels : Goto(Cur(f), label)
      BY <2>2, <3>1 DEF TranscodeOpen, TranscodeRename, TranscodeStat, Labels, Results
    <3> QED
      BY <3>2, MoveLabel
  <2>3. CASE \/ ProbeRead(f) \/ ProbeRemove(f) \/ DetectCrop(f) \/ TranscodePrepare(f)
             \/ NotifyPost(f) \/ NotifyResolve(f) \/ CleanupOutput(f)
             \/ CleanupSource(f) \/ CleanupPrune(f) \/ NotifyFailure(f)
    <3>1. \E label : Goto(Cur(f), label)
      BY <2>3 DEF ProbeRead, ProbeRemove, DetectCrop, TranscodePrepare, NotifyPost, NotifyResolve,
         CleanupOutput, CleanupSource, CleanupPrune, NotifyFailure
    <3> QED
      BY <3>1, MoveLabel
  <2> QED
    BY <2>1, <2>2, <2>3 DEF ActivityStep
<1> QED
  BY <1>1, <1>2, <1>3, <1>4, KeptStory

\* The workflow body hands on what the answer says.
LEMMA WorkflowStory ==
  ASSUME TypeOK, Core, Stories, NEW f \in Files, WorkflowStep(f), NEW g \in Files
  PROVE  Story(g)'
<1> USE DEF fileVars, arrVars, runVars
<1>1. Goto(Cur(f), "idle") /\ UNCHANGED <<source, final, lib, scan, doubt>> /\ step[f] # "closed"
  BY DEF WorkflowStep, CompleteActivity, RetryAttempt, FailRun, CloseFailed
<1>2. Kept(g) /\ Story(g) /\ (g # f => Answer(g)' = Answer(g)) /\ (g = f => Answer(g)' = "idle")
  BY <1>1, MoveLabel DEF Kept, Accepted, Stories
<1>3. CASE g # f
  <2>1. step'[g] = step[g] /\ outcome'[g] = outcome[g] /\ (g \in skipped' <=> g \in skipped)
    BY <1>3 DEF WorkflowStep, CompleteActivity, RetryAttempt, FailRun, CloseFailed, TypeOK
  <2> QED
    BY <1>1, <1>2, <1>3, <2>1, KeptStory
<1>4. CASE g = f
  <2>1. outcome[f] # "completed"
    BY <1>1, <1>2, <1>4 DEF Story
  <2>2. Delivered(f)' <=> Delivered(f)
    BY <1>1 DEF Delivered, Accepted
  <2>3. Accepted(f)' <=> Accepted(f)
    BY <1>1 DEF Accepted
  <2>4. CASE CompleteActivity(f)
    <3> DEFINE next == NextStep(f, step[f], Answer(f))
    <3>1. /\ step'[f] = next
          /\ outcome'[f] = IF next = "closed" THEN "completed" ELSE outcome[f]
          /\ skipped' = IF Answer(f) = "skip" THEN skipped \cup {f} ELSE skipped
          /\ Answer(f) \in {"ok", "invalid", "skip"} /\ step[f] \notin {"closed", "alert"}
      BY <2>4 DEF CompleteActivity, TypeOK, Results
    <3>2. step[f] \in Steps
      BY DEF TypeOK
    <3>3. CASE step[f] = "probe" /\ Answer(f) = "ok"
      <4>1. next \in {"crop", "transcode"}
        BY <3>3 DEF NextStep
      <4> QED
        BY <1>1, <1>2, <1>4, <2>1, <2>2, <2>3, <3>1, <3>3, <4>1 DEF Story
    <3>4. CASE step[f] = "probe" /\ Answer(f) = "invalid"
      <4>1. next = "discard"
        BY <3>4 DEF NextStep
      <4> QED
        BY <1>1, <1>2, <1>4, <2>1, <2>2, <2>3, <3>1, <3>4, <4>1 DEF Story
    <3>5. CASE step[f] = "crop" \/ step[f] = "transcode"
      <4>1. next \in {"transcode", "notify"}
        BY <3>5 DEF NextStep
      <4> QED
        BY <1>1, <1>2, <1>4, <2>1, <2>2, <2>3, <3>1, <3>5, <4>1 DEF Story
    <3>6. CASE step[f] = "notify"
      <4>1. next = "cleanup"
        BY <3>6 DEF NextStep
      <4>2. f \notin skipped' => Accepted(f)
        BY <1>2, <1>4, <3>1, <3>6 DEF Story
      <4> QED
        BY <1>1, <1>2, <1>4, <2>1, <2>2, <2>3, <3>1, <3>6, <4>1, <4>2 DEF Story
    <3>7. CASE step[f] \in {"cleanup", "discard"}
      <4>1. next = "closed"
        BY <3>7 DEF NextStep
      <4>2. Delivered(f)
        BY <1>2, <1>4, <3>1, <3>7 DEF Story, Delivered
      <4> QED
        BY <1>1, <1>2, <1>4, <2>2, <2>3, <3>1, <3>7, <4>1, <4>2 DEF Story
    <3>8. ~ (step[f] = "probe" /\ Answer(f) = "skip")
      BY <1>2, <1>4 DEF Story
    <3> QED
      BY <3>1, <3>2, <3>3, <3>4, <3>5, <3>6, <3>7, <3>8 DEF Steps
  <2>5. CASE RetryAttempt(f)
    BY <1>1, <1>2, <1>4, <2>1, <2>2, <2>3, <2>5 DEF RetryAttempt, Story
  <2>6. CASE FailRun(f)
    <3>1. step'[f] = "alert" /\ UNCHANGED <<skipped, outcome>>
      BY <2>6 DEF FailRun, TypeOK
    <3> QED
      BY <1>1, <1>2, <1>4, <2>1, <2>2, <2>3, <3>1 DEF Story
  <2>7. CASE CloseFailed(f)
    <3>1. step'[f] = "closed" /\ outcome'[f] = "failed" /\ UNCHANGED skipped
      BY <2>7 DEF CloseFailed, TypeOK
    <3> QED
      BY <1>1, <1>2, <1>4, <2>2, <2>3, <3>1 DEF Story
  <2> QED
    BY <2>4, <2>5, <2>6, <2>7 DEF WorkflowStep
<1> QED
  BY <1>3, <1>4

\* A run that starts knows nothing.
LEMMA WatcherStory ==
  ASSUME TypeOK, Core, Stories, NEW w \in Watchers, Walk(w) \/ WatcherRestart(w), NEW g \in Files
  PROVE  Story(g)'
<1> USE DEF fileVars, arrVars, runVars, wfVars
<1>1. UNCHANGED <<source, final, lib, scan, doubt, pc>>
  BY DEF Walk, StartWalk, StatSentinel, Dispatch, WatcherRestart
<1>2. Kept(g) /\ Story(g) /\ Answer(g)' = Answer(g)
  BY <1>1 DEF Kept, Accepted, Stories, Answer
<1>3. CASE UNCHANGED <<step, skipped, outcome>>
  BY <1>1, <1>2, <1>3, KeptStory
<1>4. ASSUME StartRun(checked[w]), checked[w] \in Files PROVE Story(g)'
  <2>1. CASE g = checked[w]
    <3>1. step[g] = "closed" /\ step'[g] = "probe" /\ outcome'[g] = "none"
      BY <1>4, <2>1 DEF StartRun, TypeOK
    <3>2. Answer(g) = "idle"
      BY <3>1 DEF Core, PhaseOK
    <3>3. (Delivered(g)' <=> Delivered(g)) /\ (Accepted(g)' <=> Accepted(g))
      BY <1>1 DEF Delivered, Accepted
    <3> QED
      BY <1>1, <1>2, <3>1, <3>2, <3>3 DEF Story
  <2>2. CASE g # checked[w]
    <3>1. step'[g] = step[g] /\ outcome'[g] = outcome[g] /\ (g \in skipped' <=> g \in skipped)
      BY <1>4, <2>2 DEF StartRun, TypeOK
    <3> QED
      BY <1>1, <1>2, <3>1, KeptStory
  <2> QED
    BY <2>1, <2>2
<1>5. CASE Dispatch(w)
  BY <1>3, <1>4, <1>5 DEF Dispatch, TypeOK
<1> QED
  BY <1>3, <1>5 DEF Walk, StartWalk, StatSentinel, WatcherRestart

\* A fault, the service or the environment keeps every run's account.
LEMMA OutsideStory ==
  ASSUME OneWriter, TypeOK, Writers, Stories, NEW g \in Files, Kept(g),
         \/ \E f \in Files : FaultStep(f) \/ (ArrScan(f) /\ UNCHANGED <<wfVars, watchVars>>)
         \/ Environment
  PROVE  Story(g)'
<1> USE DEF fileVars, arrVars, runVars, wfVars
<1>1. Story(g)
  BY DEF Stories
<1>2. UNCHANGED <<step, skipped, outcome>>
  BY DEF FaultStep, AttemptError, Abandon, TranscodeFail, ArrScan, Environment, Arrive,
         ArrAutoImport, ArrRefuses
<1>3. ASSUME NEW f \in Files, NEW label \in {"error"}, Goto(Cur(f), label), UNCHANGED <<source, scan>>
      PROVE  Story(g)'
  <2>1. CASE g = f
    <3>1. Answer(g)' = "error"
      BY <1>3, <2>1, MoveLabel
    <3>2. (Delivered(g) => Delivered(g)') /\ (Accepted(g) => Accepted(g)')
          /\ (g \in Junk => final'[OutputOf[g]] = None)
      BY <1>1, KeptDelivered DEF Kept, Story
    <3> QED
      BY <1>1, <1>2, <1>3, <3>1, <3>2 DEF Story
  <2>2. CASE g # f
    BY <1>1, <1>2, <1>3, <2>2, MoveLabel, KeptStory
  <2> QED
    BY <2>1, <2>2
<1>4. ASSUME NEW f \in Files, FaultStep(f) PROVE Story(g)'
  <2>1. CASE AttemptError(f)
    BY <1>3, <2>1 DEF AttemptError
  <2>2. ASSUME NEW who \in {"current", "abandoned"}, TranscodeFail(<<f, who>>) PROVE Story(g)'
    <3>1. <<f, who>> = Cur(f)
      BY <2>2, OwnTranscode DEF TranscodeFail
    <3> QED
      BY <1>3, <2>2, <3>1 DEF TranscodeFail
  <2> QED
    BY <1>4, <2>1, <2>2 DEF FaultStep, OneWriter
<1>5. ASSUME NEW f \in Files, ArrScan(f) PROVE Story(g)'
  <2>1. UNCHANGED <<source, pc>> /\ Answer(g)' = Answer(g)
    BY <1>5 DEF ArrScan, Answer
  <2>2. CASE g # f \/ scan'[g] # "imported"
    <3>1. (Delivered(g) => Delivered(g)') /\ (Accepted(g) => Accepted(g)')
          /\ (g \in Junk => final'[OutputOf[g]] = None)
      BY <1>1, KeptDelivered DEF Kept, Story
    <3>2. scan'[g] = "imported" => scan[g] = "imported"
      BY <1>5, <2>2 DEF ArrScan, ScanEnds, TypeOK
    <3> QED
      BY <1>1, <1>2, <2>1, <3>1, <3>2 DEF Story
  <2>3. CASE g = f /\ scan'[g] = "imported"
    <3>1. Import(OutputOf[f])
      BY <1>5, <2>3 DEF ArrScan, ScanEnds, TypeOK
    <3>2. Accepted(g)'
      BY <2>3, <3>1, OutputTypes DEF Import, Accepted, TypeOK
    <3>3. Delivered(g)' /\ (g \in Junk => final'[OutputOf[g]] = None)
      BY <1>1, <3>2 DEF Delivered, Kept, Story
    <3> QED
      BY <1>1, <1>2, <2>1, <3>2, <3>3 DEF Story
  <2> QED
    BY <2>2, <2>3
<1>6. CASE Environment
  <2>1. UNCHANGED <<scan, pc>> /\ Answer(g)' = Answer(g)
    BY <1>6 DEF Environment, Arrive, ArrAutoImport, ArrRefuses, Answer
  <2>2. CASE source'[g] = source[g]
    BY <1>1, <1>2, <2>1, <2>2, KeptStory
  <2>3. CASE source'[g] = "present" /\ source[g] = "awaited"
    <3>1. (Delivered(g) => Delivered(g)') /\ (Accepted(g) => Accepted(g)')
          /\ (g \in Junk => final'[OutputOf[g]] = None)
      BY <1>1, KeptDelivered DEF Kept, Story
    <3> QED
      BY <1>1, <1>2, <2>1, <2>3, <3>1 DEF Story
  <2>4. source'[g] = source[g] \/ (source'[g] = "present" /\ source[g] = "awaited")
    BY <1>6 DEF Environment, Arrive, ArrAutoImport, ArrRefuses, TypeOK
  <2> QED
    BY <2>2, <2>3, <2>4
<1> QED
  BY <1>4, <1>5, <1>6

\* Every step keeps every run's account.
LEMMA NextStories ==
  OneWriter /\ ~ ProbeIOErrors /\ TypeOK /\ Core /\ Writers /\ Stories /\ [Next]_vars => Stories'
<1> SUFFICES ASSUME OneWriter, ~ ProbeIOErrors, TypeOK, Core, Writers, Stories, [Next]_vars,
                    NEW g \in Files
             PROVE  Story(g)'
  BY DEF Stories
<1>1. Story(g)
  BY DEF Stories
<1>2. CASE UNCHANGED vars
  <2>1. Kept(g)
    BY <1>2 DEF vars, fileVars, arrVars, Kept, Accepted
  <2> QED
    BY <1>1, <1>2, <2>1, KeptStory DEF vars, fileVars, arrVars, runVars, wfVars, Answer
<1>3. ASSUME NEW f \in Files, ActivityStep(f), UNCHANGED wfVars PROVE Story(g)'
  <2>1. Kept(g) \/ (f = g /\ TranscodeRename(Cur(g)))
    BY <1>3, OnlyRenameWrites
  <2>2. CASE g = f
    BY <1>1, <1>3, <2>1, <2>2, OwnStory
  <2>3. CASE g # f
    BY <1>1, <1>3, <2>1, <2>3, OthersStory
  <2> QED
    BY <2>2, <2>3
<1>4. ASSUME NEW f \in Files, WorkflowStep(f), UNCHANGED watchVars PROVE Story(g)'
  BY <1>1, <1>4, OthersKeepOutputs, WorkflowStory
<1>5. ASSUME NEW w \in Watchers, Walk(w) \/ WatcherRestart(w) PROVE Story(g)'
  BY <1>1, <1>5, OthersKeepOutputs, WatcherStory
<1>6. ASSUME \/ \E f \in Files : FaultStep(f) \/ (ArrScan(f) /\ UNCHANGED <<wfVars, watchVars>>)
             \/ Environment
      PROVE  Story(g)'
  BY <1>1, <1>6, OthersKeepOutputs, OutsideStory
<1> QED
  BY <1>2, <1>3, <1>4, <1>5, <1>6 DEF Next, RunStep

\* A run that completes leaves no output behind, unless the service has taken its copy or told
\* Notify neither a command id nor a result, when every output has one writer and a probe never
\* fails to read a file (Notify's skips, Cleanup).
THEOREM NothingStranded ==
  ASSUME OneWriter, ~ ProbeIOErrors
  PROVE  Spec => []NoStrandedOutput
<1>1. Init => TypeOK /\ Core /\ Writers /\ Stories
  BY InitTypeOK, InitCore, InitWriters, InitStories
<1>2. TypeOK /\ Core /\ Writers /\ Stories /\ [Next]_vars => (TypeOK /\ Core /\ Writers /\ Stories)'
  BY NextTypeOK, NextCore, NextWriters, NextStories
<1>3. Stories => NoStrandedOutput
  BY DEF Stories, Story, Delivered, Accepted, NoStrandedOutput
<1> QED
  BY <1>1, <1>2, <1>3, PTL DEF Spec

-----------------------------------------------------------------------------
\* The pipeline implements the ledger.

\* A run goes on to its later activities, and a transcode outlives its run,
\* only for a file that is media and has arrived.
MediaKnown ==
  \A f \in Files :
    /\ step[f] \in {"crop", "transcode"} \/ (step[f] = "probe" /\ Answer(f) = "ok")
         => f \notin Junk
    /\ pc[<<f, "abandoned">>] # "idle" => f \notin Junk /\ source[f] # "awaited"

\* A step that leaves the runs where they are and brings no file back.
LEMMA FrameKnown ==
  ASSUME MediaKnown,
         \A f \in Files : /\ source[f] # "awaited" => source'[f] # "awaited"
                          /\ step'[f] = step[f]
                          /\ Answer(f)' = "ok" /\ step[f] = "probe" => Answer(f) = "ok"
                          /\ pc'[<<f, "abandoned">>] # "idle" => pc[<<f, "abandoned">>] # "idle"
  PROVE  MediaKnown'
  BY DEF MediaKnown

\* A step of the attempt of f that only moves its label.
LEMMA LabelKnown ==
  ASSUME TypeOK, MediaKnown, NEW f \in Files, NEW label, Goto(Cur(f), label),
         UNCHANGED step, label = "ok" => step[f] # "probe" \/ f \notin Junk,
         \A g \in Files : source[g] # "awaited" => source'[g] # "awaited"
  PROVE  MediaKnown'
<1>1. /\ Answer(f)' = label
      /\ \A g \in Files \ {f} : Answer(g)' = Answer(g)
      /\ \A g \in Files : pc'[<<g, "abandoned">>] = pc[<<g, "abandoned">>]
  BY MoveLabel
<1> QED
  BY <1>1 DEF MediaKnown

\* Every step keeps what is known of the files.
LEMMA NextKnown == TypeOK /\ Core /\ MediaKnown /\ [Next]_vars => MediaKnown'
<1> SUFFICES ASSUME TypeOK, Core, MediaKnown, [Next]_vars PROVE MediaKnown'
  OBVIOUS
<1> USE DEF fileVars, arrVars, runVars, wfVars, watchVars, At
<1>1. ASSUME NEW f \in Files, ActivityStep(f), UNCHANGED <<wfVars, watchVars>>
      PROVE  MediaKnown'
  <2>1. CASE ProbeRead(f)
    <3>1. PICK label \in {"ok", "reject"} :
             Goto(Cur(f), label) /\ (label = "ok" => f \notin Junk)
      BY <2>1 DEF ProbeRead, Probe_LooksMedia
    <3> QED
      BY <2>1, <3>1, LabelKnown DEF ProbeRead
  <2>2. CASE ProbeRemove(f)
    <3>1. \A g \in Files : source[g] # "awaited" => source'[g] # "awaited"
      BY <2>2 DEF ProbeRemove, TypeOK
    <3> QED
      BY <2>2, <3>1, LabelKnown DEF ProbeRemove
  <2>3. CASE DetectCrop(f)
    BY <2>3, LabelKnown DEF DetectCrop
  <2>4. CASE TranscodePrepare(f)
    BY <2>4, LabelKnown DEF TranscodePrepare
  <2>5. ASSUME NEW who \in {"current", "abandoned"},
               \/ TranscodeOpen(<<f, who>>) \/ TranscodeRename(<<f, who>>)
               \/ TranscodeStat(<<f, who>>)
        PROVE  MediaKnown'
    <3>1. /\ pc[<<f, who>>] \in {"prepared", "writing", "renamed"}
          /\ \E label \in Labels : Goto(<<f, who>>, label)
          /\ UNCHANGED <<source, step>>
      BY <2>5 DEF TranscodeOpen, TranscodeRename, TranscodeStat, Labels, Results
    <3>2. who = "current" => step[f] = "transcode"
      BY <3>1 DEF Core, PhaseOK, Answer, Cur
    <3>3. \A g \in Files : /\ g # f \/ who = "abandoned" => Answer(g)' = Answer(g)
                           /\ g # f \/ who = "current" =>
                                pc'[<<g, "abandoned">>] = pc[<<g, "abandoned">>]
      BY <3>1, ProcTypes DEF TypeOK, Goto, Answer, Cur, Procs
    <3> QED
      BY <3>1, <3>2, <3>3, FrameKnown
  <2>6. CASE AbandonedEnds(f)
    <3>1. \A g \in Files : /\ Answer(g)' = Answer(g)
                           /\ pc'[<<g, "abandoned">>] # "idle" => pc[<<g, "abandoned">>] # "idle"
      BY <2>6, ProcTypes DEF AbandonedEnds, TypeOK, Goto, Answer, Cur, Procs
    <3> QED
      BY <2>6, <3>1, FrameKnown DEF AbandonedEnds
  <2>7. CASE NotifyPost(f) \/ NotifyResolve(f)
    <3>1. \E label : Goto(Cur(f), label)
      BY <2>7 DEF NotifyPost, NotifyResolve
    <3> QED
      BY <2>7, <3>1, LabelKnown DEF NotifyPost, NotifyResolve
  <2>8. CASE CleanupOutput(f)
    BY <2>8, LabelKnown DEF CleanupOutput
  <2>9. CASE CleanupSource(f)
    <3>1. \A g \in Files : source[g] # "awaited" => source'[g] # "awaited"
      BY <2>9 DEF CleanupSource, TypeOK
    <3> QED
      BY <2>9, <3>1, LabelKnown DEF CleanupSource
  <2>10. CASE CleanupPrune(f)
    <3>1. step[f] # "probe"
      BY <2>10 DEF CleanupPrune, Core, PhaseOK, Answer
    <3> QED
      BY <2>10, <3>1, LabelKnown DEF CleanupPrune
  <2>11. CASE NotifyFailure(f)
    BY <2>11, LabelKnown DEF NotifyFailure
  <2> QED
    BY <1>1, <2>1, <2>2, <2>3, <2>4, <2>5, <2>6, <2>7, <2>8, <2>9, <2>10, <2>11
    DEF ActivityStep
<1>2. ASSUME NEW f \in Files, WorkflowStep(f), UNCHANGED watchVars
      PROVE  MediaKnown'
  <2>1. ASSUME NEW next, step' = [step EXCEPT ![f] = next],
               next \in {"crop", "transcode"} => f \notin Junk
        PROVE  MediaKnown'
    <3>1. Goto(Cur(f), "idle") /\ UNCHANGED source
      BY <1>2 DEF WorkflowStep, CompleteActivity, RetryAttempt, FailRun, CloseFailed
    <3>2. step'[f] = next /\ \A g \in Files \ {f} : step'[g] = step[g]
      BY <2>1 DEF TypeOK
    <3> QED
      BY <2>1, <3>1, <3>2, MoveLabel DEF MediaKnown
  <2>2. CASE CompleteActivity(f)
    <3> DEFINE next == NextStep(f, step[f], Answer(f))
    <3>1. next \in {"crop", "transcode"} =>
             step[f] = "crop" \/ (step[f] = "probe" /\ Answer(f) = "ok")
      BY <2>2 DEF NextStep, CompleteActivity, Results
    <3>2. next \in {"crop", "transcode"} => f \notin Junk
      BY <3>1 DEF MediaKnown
    <3>3. step' = [step EXCEPT ![f] = next]
      BY <2>2 DEF CompleteActivity
    <3> HIDE DEF next
    <3> QED
      BY <2>1, <3>2, <3>3
  <2>3. CASE RetryAttempt(f)
    BY <2>3, LabelKnown DEF RetryAttempt
  <2>4. CASE FailRun(f)
    BY <2>1, <2>4 DEF FailRun
  <2>5. CASE CloseFailed(f)
    BY <2>1, <2>5 DEF CloseFailed
  <2> QED
    BY <1>2, <2>2, <2>3, <2>4, <2>5 DEF WorkflowStep
<1>3. ASSUME NEW w \in Watchers, Walk(w) \/ WatcherRestart(w)
      PROVE  MediaKnown'
  <2>1. CASE UNCHANGED step
    <3>1. UNCHANGED <<source, pc>>
      BY <1>3 DEF Walk, StartWalk, StatSentinel, Dispatch, WatcherRestart
    <3> QED
      BY <2>1, <3>1, FrameKnown DEF Answer
  <2>2. ASSUME NEW f \in Files, StartRun(f), UNCHANGED <<source, pc>>
        PROVE  MediaKnown'
    <3>1. /\ step[f] = "closed" /\ step'[f] = "probe"
          /\ \A g \in Files \ {f} : step'[g] = step[g]
      BY <2>2 DEF StartRun, TypeOK
    <3>2. Answer(f) = "idle"
      BY <3>1 DEF Core, PhaseOK
    <3> QED
      BY <2>2, <3>1, <3>2 DEF MediaKnown, Answer
  <2> QED
    BY <1>3, <2>1, <2>2 DEF Walk, StartWalk, StatSentinel, Dispatch, WatcherRestart, TypeOK
<1>4. ASSUME NEW f \in Files, AttemptError(f) PROVE MediaKnown'
  BY <1>4, LabelKnown DEF AttemptError
<1>5. ASSUME NEW f \in Files, Abandon(f) PROVE MediaKnown'
  <2>1. f \notin Junk /\ source[f] # "awaited"
    BY <1>5 DEF Abandon, MediaKnown, Core, OnlyArrived
  <2>2. /\ Answer(f)' = "error"
        /\ \A g \in Files \ {f} : /\ Answer(g)' = Answer(g)
                                  /\ pc'[<<g, "abandoned">>] = pc[<<g, "abandoned">>]
    BY <1>5 DEF Abandon, TypeOK, Answer, Cur, Procs
  <2> QED
    BY <1>5, <2>1, <2>2 DEF Abandon, MediaKnown
<1>6. ASSUME NEW f \in Files, NEW who \in {"current", "abandoned"}, TranscodeFail(<<f, who>>)
      PROVE  MediaKnown'
  <2>1. \A g \in Files : /\ Answer(g)' = "ok" => Answer(g) = "ok"
                         /\ pc'[<<g, "abandoned">>] # "idle" => pc[<<g, "abandoned">>] # "idle"
    BY <1>6, ProcTypes DEF TranscodeFail, TypeOK, Goto, Answer, Cur, Procs
  <2> QED
    BY <1>6, <2>1, FrameKnown DEF TranscodeFail
<1>7. ASSUME UNCHANGED <<step, pc>>,
             \A g \in Files : source[g] # "awaited" => source'[g] # "awaited"
      PROVE  MediaKnown'
  BY <1>7, FrameKnown DEF Answer
<1>8. ASSUME NEW f \in Files, ArrScan(f) PROVE MediaKnown'
  BY <1>7, <1>8 DEF ArrScan
<1>9. CASE Environment
  <2>1. ASSUME NEW f \in Files, Arrive(f) PROVE MediaKnown'
    BY <1>7, <2>1 DEF Arrive, TypeOK
  <2> QED
    BY <1>7, <1>9, <2>1 DEF Environment, ArrAutoImport, ArrRefuses
<1>10. CASE UNCHANGED vars
  BY <1>7, <1>10 DEF vars
<1> QED
  BY <1>1, <1>2, <1>3, <1>4, <1>5, <1>6, <1>8, <1>9, <1>10 DEF Next, RunStep, FaultStep

\* At first nothing has been promised.
LEMMA InitLedger == Init => Ledger!Init /\ MediaKnown
<1> SUFFICES ASSUME Init PROVE Ledger!Init /\ MediaKnown
  OBVIOUS
<1>1. MediaKnown
  BY ProcTypes DEF Init, MediaKnown, Answer
<1>2. /\ {f \in Files : source[f] # "awaited"} = {} /\ {o \in Outputs : final[o] # None} = {}
      /\ {o \in Outputs : Settled(o)} = {} /\ {f \in Files : source[f] = "removed"} = {}
      /\ sentinel = {} /\ {OutputOf[f] : f \in {g \in Files : doubt[g] # {}}} = {}
  BY DEF Init, Settled
<1> QED
  BY <1>1, <1>2 DEF Ledger!Init

\* A step that touches neither sources, outputs, the library nor a doubt.
LEMMA FrameLedger ==
  ASSUME UNCHANGED <<source, sentinel, final, lib, doubt>>
  PROVE  UNCHANGED Ledger!vars
  BY DEF Ledger!vars, Ledger!retired, Settled

\* A step of the library makes one entry.
LEMMA LibraryLedger ==
  ASSUME TypeOK, UNCHANGED <<source, sentinel, doubt>>, NEW o \in Outputs,
         \/ Import(o)
         \/ /\ UNCHANGED final
            /\ lib[o].status = "wanted"
            /\ \E why \in Refused : lib' = [lib EXCEPT ![o].status = why]
  PROVE  Ledger!Next
<1> DEFINE offered == {x \in Outputs : final[x] # None}
           settled == {x \in Outputs : Settled(x)}
<1>1. ~ Settled(o) /\ Settled(o)'
  BY DEF Import, Settled, Refused, TypeOK
<1>2. \A x \in Outputs \ {o} : Settled(x)' <=> Settled(x)
  BY DEF Import, Settled, TypeOK
<1>3. settled' = settled \cup {o} /\ o \notin settled
  BY <1>1, <1>2
<1>4. /\ {f \in Files : source[f] # "awaited"}' = {f \in Files : source[f] # "awaited"}
      /\ {f \in Files : source[f] = "removed"}' = {f \in Files : source[f] = "removed"}
      /\ {OutputOf[f] : f \in {g \in Files : doubt[g] # {}}}'
           = {OutputOf[f] : f \in {g \in Files : doubt[g] # {}}}
  OBVIOUS
<1>5. offered' = offered \/ (o \in offered /\ offered' = offered \ {o})
  <2>1. CASE UNCHANGED final
    BY <2>1
  <2>2. CASE final[o] # None /\ final' = [final EXCEPT ![o] = None]
    BY <2>2 DEF TypeOK
  <2> QED
    BY <2>1, <2>2 DEF Import
<1>6. Ledger!Settle(o) \/ Ledger!Take(o)
  BY <1>3, <1>4, <1>5 DEF Ledger!Settle, Ledger!Take, Ledger!retired
<1> QED
  BY <1>6 DEF Ledger!Next

\* A step that writes or removes the output o makes one entry, or none.
LEMMA OutputLedger ==
  ASSUME TypeOK, UNCHANGED <<source, sentinel, lib, doubt>>, NEW o \in Outputs, NEW file,
         final' = [final EXCEPT ![o] = file],
         file = None => \E f \in Files : OutputOf[f] = o /\ Concluded(f),
         file # None =>
           \E f \in Files : source[f] # "awaited" /\ f \notin Junk /\ OutputOf[f] = o
  PROVE  [Ledger!Next]_Ledger!vars
<1> DEFINE arrived == {f \in Files : source[f] # "awaited"}
           offered == {x \in Outputs : final[x] # None}
           settled == {x \in Outputs : Settled(x)}
           presumed == {OutputOf[f] : f \in {g \in Files : doubt[g] # {}}}
           deleted == {f \in Files : source[f] = "removed"}
<1>1. arrived' = arrived /\ settled' = settled /\ deleted' = deleted /\ presumed' = presumed
  BY DEF Settled
<1>2. final'[o] = file /\ \A x \in Outputs \ {o} : final'[x] = final[x]
  BY DEF TypeOK
<1>3. CASE file # None
  <2>1. offered' = offered \cup {o}
    BY <1>2, <1>3 DEF None
  <2>2. \E f \in arrived \ Junk : OutputOf[f] = o
    BY <1>3
  <2>3. Ledger!Offer(o)
    BY <1>1, <2>1, <2>2 DEF Ledger!Offer, Ledger!retired
  <2> QED
    BY <2>3 DEF Ledger!Next
<1>4. CASE file = None /\ o \in offered
  <2>1. offered' = offered \ {o}
    BY <1>2, <1>4 DEF None
  <2>2. o \in settled \cup presumed
    BY <1>4 DEF Concluded
  <2>3. Ledger!Discard(o)
    BY <1>1, <1>4, <2>1, <2>2 DEF Ledger!Discard, Ledger!retired
  <2> QED
    BY <2>3 DEF Ledger!Next
<1>5. CASE file = None /\ o \notin offered
  <2>1. offered' = offered
    BY <1>2, <1>5 DEF None
  <2> QED
    BY <1>1, <2>1 DEF Ledger!vars, Ledger!retired
<1> QED
  BY <1>3, <1>4, <1>5

\* A step that retires f, if it was not retired before, makes one entry.
LEMMA RetireLedger ==
  ASSUME TypeOK, UNCHANGED <<final, lib, doubt>>, NEW f \in Files, Expendable(f),
         source[f] # "awaited",
         \A g \in Files \ {f} : source'[g] = source[g],
         \/ f \notin Preserve /\ source'[f] \in {source[f], "removed"} /\ UNCHANGED sentinel
         \/ f \in Preserve /\ UNCHANGED source /\ sentinel' \in {sentinel, sentinel \cup {f}}
  PROVE  [Ledger!Next]_Ledger!vars
<1> DEFINE arrived == {g \in Files : source[g] # "awaited"}
           offered == {x \in Outputs : final[x] # None}
           settled == {x \in Outputs : Settled(x)}
           presumed == {OutputOf[g] : g \in {h \in Files : doubt[h] # {}}}
           deleted == {g \in Files : source[g] = "removed"}
<1>1. arrived' = arrived /\ offered' = offered /\ settled' = settled /\ presumed' = presumed
  BY DEF Settled
<1>2. Ledger!Expendable(f) /\ f \in arrived
  BY OutputTypes DEF Ledger!Expendable, Expendable, Concluded
<1>3. CASE source'[f] = source[f] /\ (f \in sentinel \/ UNCHANGED sentinel)
  <2>1. deleted' = deleted /\ sentinel' = sentinel
    BY <1>3
  <2> QED
    BY <1>1, <2>1 DEF Ledger!vars, Ledger!retired
<1>4. CASE f \notin Preserve /\ source[f] # "removed" /\ source'[f] = "removed" /\ UNCHANGED sentinel
  <2>1. deleted' = deleted \cup {f} /\ f \notin deleted
    BY <1>4
  <2>2. Ledger!Delete(f)
    BY <1>1, <1>2, <1>4, <2>1 DEF Ledger!Delete
  <2> QED
    BY <2>2 DEF Ledger!Next
<1>5. CASE f \in Preserve \ sentinel /\ UNCHANGED source /\ sentinel' = sentinel \cup {f}
  <2>1. deleted' = deleted
    BY <1>5
  <2>2. Ledger!Mark(f)
    BY <1>1, <1>2, <1>5, <2>1 DEF Ledger!Mark
  <2> QED
    BY <2>2 DEF Ledger!Next
<1> QED
  BY <1>3, <1>4, <1>5

\* An answer of f that is taken on trust makes one entry, or none.
LEMMA PresumeLedger ==
  ASSUME TypeOK, UNCHANGED <<source, sentinel, final, lib>>, NEW f \in Files, NEW why,
         doubt' = [doubt EXCEPT ![f] = @ \cup {why}]
  PROVE  [Ledger!Next]_Ledger!vars
<1> DEFINE presumed == {OutputOf[g] : g \in {h \in Files : doubt[h] # {}}}
<1>1. /\ {g \in Files : source[g] # "awaited"}' = {g \in Files : source[g] # "awaited"}
      /\ {x \in Outputs : final[x] # None}' = {x \in Outputs : final[x] # None}
      /\ {x \in Outputs : Settled(x)}' = {x \in Outputs : Settled(x)}
      /\ {g \in Files : source[g] = "removed"}' = {g \in Files : source[g] = "removed"}
  BY DEF Settled
<1>2. doubt'[f] # {} /\ \A g \in Files \ {f} : doubt'[g] = doubt[g]
  BY DEF TypeOK
<1>3. presumed' = presumed \cup {OutputOf[f]}
  BY <1>2
<1>4. CASE OutputOf[f] \in presumed
  <2>1. presumed' = presumed
    BY <1>3, <1>4
  <2> QED
    BY <1>1, <2>1 DEF Ledger!vars, Ledger!retired
<1>5. CASE OutputOf[f] \notin presumed
  <2>1. Ledger!Presume(OutputOf[f])
    BY <1>1, <1>3, <1>5 DEF Ledger!Presume, Ledger!retired
  <2> QED
    BY <2>1, OutputTypes DEF Ledger!Next
<1> QED
  BY <1>4, <1>5

\* Every step of the pipeline makes one entry in the ledger, or none.
LEMMA NextLedger ==
  TypeOK /\ Core /\ MediaKnown /\ [Next]_vars => [Ledger!Next]_Ledger!vars
<1> SUFFICES ASSUME TypeOK, Core, MediaKnown, [Next]_vars PROVE [Ledger!Next]_Ledger!vars
  OBVIOUS
<1> USE DEF fileVars, arrVars, runVars, wfVars, watchVars, At
<1>1. CASE UNCHANGED <<source, sentinel, final, lib, doubt>>
  BY <1>1, FrameLedger
<1>2. ASSUME NEW f \in Files, NEW who \in {"current", "abandoned"}, TranscodeRename(<<f, who>>)
      PROVE  [Ledger!Next]_Ledger!vars
  <2>1. f \notin Junk /\ source[f] # "awaited"
    BY <1>2 DEF TranscodeRename, MediaKnown, Core, PhaseOK, OnlyArrived, Answer, Cur
  <2>2. CASE UNCHANGED final
    BY <1>1, <1>2, <2>2 DEF TranscodeRename
  <2>3. CASE temp[OutputOf[f]] # None /\ final' = [final EXCEPT ![OutputOf[f]] = temp[OutputOf[f]]]
    BY <1>2, <2>1, <2>3, OutputTypes, OutputLedger DEF TranscodeRename
  <2> QED
    BY <1>2, <2>2, <2>3 DEF TranscodeRename
<1>3. ASSUME NEW f \in Files, CleanupOutput(f)
      PROVE  [Ledger!Next]_Ledger!vars
  <2>1. CASE UNCHANGED final
    BY <1>1, <1>3, <2>1 DEF CleanupOutput
  <2>2. CASE step[f] = "cleanup" /\ final' = [final EXCEPT ![OutputOf[f]] = None]
    BY <1>3, <2>2, OutputTypes, OutputLedger DEF CleanupOutput, Core, Justified
  <2> QED
    BY <1>3, <2>1, <2>2 DEF CleanupOutput
<1>4. ASSUME NEW f \in Files, ProbeRemove(f)
      PROVE  [Ledger!Next]_Ledger!vars
  <2>1. Expendable(f) /\ source[f] # "awaited"
    BY <1>4 DEF ProbeRemove, Core, Justified, OnlyArrived, Answer
  <2>2. /\ \A g \in Files \ {f} : source'[g] = source[g]
        /\ IF f \in Preserve THEN UNCHANGED source ELSE source'[f] \in {source[f], "removed"}
    BY <1>4 DEF ProbeRemove, TypeOK
  <2>3. UNCHANGED <<final, lib, doubt, sentinel>>
    BY <1>4 DEF ProbeRemove
  <2> QED
    BY <2>1, <2>2, <2>3, RetireLedger
<1>5. ASSUME NEW f \in Files, CleanupSource(f)
      PROVE  [Ledger!Next]_Ledger!vars
  <2>1. Expendable(f) /\ source[f] # "awaited"
    BY <1>5 DEF CleanupSource, Core, PhaseOK, Justified, Expendable, OnlyArrived, Answer
  <2>2. /\ \A g \in Files \ {f} : source'[g] = source[g]
        /\ IF f \in Preserve THEN UNCHANGED source /\ sentinel' = sentinel \cup {f}
                             ELSE source'[f] = "removed" /\ UNCHANGED sentinel
    BY <1>5 DEF CleanupSource, TypeOK
  <2>3. UNCHANGED <<final, lib, doubt>>
    BY <1>5 DEF CleanupSource
  <2> QED
    BY <2>1, <2>2, <2>3, RetireLedger
<1>6. ASSUME NEW f \in Files, Arrive(f)
      PROVE  [Ledger!Next]_Ledger!vars
  <2>1. /\ source[f] = "awaited" /\ source'[f] = "present"
        /\ \A g \in Files \ {f} : source'[g] = source[g]
        /\ UNCHANGED <<sentinel, final, lib, doubt>>
    BY <1>6 DEF Arrive, TypeOK
  <2>2. {g \in Files : source[g] # "awaited"}' = {g \in Files : source[g] # "awaited"} \cup {f}
    BY <2>1
  <2>3. /\ {x \in Outputs : final[x] # None}' = {x \in Outputs : final[x] # None}
        /\ {x \in Outputs : Settled(x)}' = {x \in Outputs : Settled(x)}
        /\ {g \in Files : source[g] = "removed"}' = {g \in Files : source[g] = "removed"}
        /\ {OutputOf[g] : g \in {h \in Files : doubt[h] # {}}}'
             = {OutputOf[g] : g \in {h \in Files : doubt[h] # {}}}
    BY <2>1 DEF Settled
  <2>4. Ledger!Arrive(f)
    BY <2>1, <2>2, <2>3 DEF Ledger!Arrive, Ledger!retired
  <2> QED
    BY <2>4 DEF Ledger!Next
<1>7. ASSUME NEW f \in Files, ArrScan(f)
      PROVE  [Ledger!Next]_Ledger!vars
  <2>1. CASE Import(OutputOf[f])
    BY <1>7, <2>1, OutputTypes, LibraryLedger DEF ArrScan
  <2>2. CASE UNCHANGED <<lib, final>>
    BY <1>1, <1>7, <2>2 DEF ArrScan
  <2> QED
    BY <1>7, <2>1, <2>2 DEF ArrScan
<1>8. ASSUME NEW o \in Outputs, ArrAutoImport(o) \/ ArrRefuses(o)
      PROVE  [Ledger!Next]_Ledger!vars
  BY <1>8, LibraryLedger DEF ArrAutoImport, ArrRefuses
<1>9. ASSUME NEW f \in Files, ActivityStep(f)
      PROVE  [Ledger!Next]_Ledger!vars
  <2>1. CASE NotifyPost(f) \/ NotifyResolve(f)
    <3>1. /\ UNCHANGED <<source, sentinel, final, lib>>
          /\ UNCHANGED doubt \/ \E why : doubt' = [doubt EXCEPT ![f] = @ \cup {why}]
      BY <2>1 DEF NotifyPost, NotifyResolve
    <3> QED
      BY <1>1, <3>1, PresumeLedger
  <2> QED
    BY <1>1, <1>2, <1>3, <1>4, <1>5, <1>9, <2>1
    DEF ActivityStep, ProbeRead, DetectCrop, TranscodePrepare, TranscodeOpen, TranscodeStat,
        AbandonedEnds, CleanupPrune, NotifyFailure
<1>10. ASSUME NEW f \in Files, WorkflowStep(f) \/ FaultStep(f)
       PROVE  [Ledger!Next]_Ledger!vars
  BY <1>1, <1>10 DEF WorkflowStep, CompleteActivity, RetryAttempt, FailRun, CloseFailed,
                     FaultStep, AttemptError, Abandon, TranscodeFail
<1>11. ASSUME NEW w \in Watchers, Walk(w) \/ WatcherRestart(w)
       PROVE  [Ledger!Next]_Ledger!vars
  BY <1>1, <1>11 DEF Walk, StartWalk, StatSentinel, Dispatch, WatcherRestart
<1>12. CASE UNCHANGED vars
  BY <1>1, <1>12 DEF vars
<1> QED
  BY <1>6, <1>7, <1>8, <1>9, <1>10, <1>11, <1>12 DEF Next, RunStep, Environment

\* The pipeline keeps the ledger when a probe never fails to read a good file, whatever
\* transcodes are given up and whichever outputs are shared (RunTranscode, Notify, Cleanup).
THEOREM LedgerKept ==
  ASSUME ~ ProbeIOErrors
  PROVE  Spec => KeepsLedger
<1>1. Init => TypeOK /\ Core /\ MediaKnown /\ Ledger!Init
  BY InitTypeOK, InitCore, InitLedger
<1>2. TypeOK /\ Core /\ MediaKnown /\ [Next]_vars
        => (TypeOK /\ Core /\ MediaKnown)' /\ [Ledger!Next]_Ledger!vars
  BY NextTypeOK, NextCore, NextKnown, NextLedger
<1> QED
  BY <1>1, <1>2, PTL DEF Spec, KeepsLedger, Ledger!Spec
=============================================================================
