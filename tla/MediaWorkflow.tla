---------------------------- MODULE MediaWorkflow ----------------------------
(***************************************************************************)
(* MediaWorkflow (workflows/media/workflow.go) on Temporal: one run per    *)
(* workflow ID at a time, and a workflow ID is a source file.  step[f] is  *)
(* the activity the open run of f waits for; the actions below are what    *)
(* the workflow body does with an attempt's answer.  Temporal's part (the  *)
(* retry policy, the conflict and reuse policies) is modelled from the     *)
(* options the code passes.                                                *)
(***************************************************************************)
EXTENDS MediaActivities

CONSTANTS
  SkipCrop,         \* files of a watch with skip_crop_detection
  NotifyAttempts,   \* MaximumAttempts of Notify
  CleanupAttempts   \* MaximumAttempts of Cleanup

ASSUME AttemptsAssumption ==
  /\ SkipCrop \subseteq Files
  /\ NotifyAttempts \in Nat \ {0}
  /\ CleanupAttempts \in Nat \ {0}

VARIABLES
  tries,     \* failed attempts of the current activity of each run
  outcome    \* how the latest run of each file closed

wfVars == <<tries, outcome>>

MaxAttempts(s) == CASE s = "notify" -> NotifyAttempts
                    [] s \in {"cleanup", "discard"} -> CleanupAttempts
                    [] OTHER -> 1

Answer(f) == pc[Cur(f)]

NextStep_InvalidCloses(f, s, r) ==
  CASE s = "probe" /\ r = "ok" -> IF f \in SkipCrop THEN "transcode" ELSE "crop"
    [] s = "crop" -> "transcode"
    [] s = "transcode" -> "notify"
    [] s = "notify" -> "cleanup"
    [] OTHER -> "closed"

\* The activity the body runs after activity s of f answered r; "closed" is
\* the end of the body.
NextStep(f, s, r) ==
  CASE s = "probe" /\ r = "invalid" -> "discard"
    [] s = "probe" /\ r = "ok" -> IF f \in SkipCrop THEN "transcode" ELSE "crop"
    [] s = "crop" -> "transcode"
    [] s = "transcode" -> "notify"
    [] s = "notify" -> "cleanup"
    [] OTHER -> "closed"

\* The body takes the answer and schedules the next activity, or returns nil.
CompleteActivity(f) ==
  /\ step[f] \notin {"closed", "alert"}
  /\ Answer(f) \in Results \ {"error"}
  /\ LET next == NextStep(f, step[f], Answer(f)) IN
       /\ step' = [step EXCEPT ![f] = next]
       /\ outcome' = IF next = "closed" THEN [outcome EXCEPT ![f] = "completed"]
                                        ELSE outcome
  /\ skipped' = IF Answer(f) = "skip" THEN skipped \cup {f} ELSE skipped
  /\ tries' = [tries EXCEPT ![f] = 0]
  /\ Goto(Cur(f), "idle")
  /\ UNCHANGED <<fileVars, arrVars, faults>>

RetryAttempt_Unlimited(f) ==
  /\ step[f] # "closed"
  /\ Answer(f) = "error"
  /\ tries' = [tries EXCEPT ![f] = @ + 1]
  /\ Goto(Cur(f), "idle")
  /\ UNCHANGED <<fileVars, arrVars, runVars, outcome, faults>>

\* An attempt failed and the retry policy allows another one.
RetryAttempt(f) ==
  /\ step[f] # "closed"
  /\ Answer(f) = "error"
  /\ tries[f] + 1 < MaxAttempts(step[f])
  /\ tries' = [tries EXCEPT ![f] = @ + 1]
  /\ Goto(Cur(f), "idle")
  /\ UNCHANGED <<fileVars, arrVars, runVars, outcome, faults>>

\* The last attempt failed: the body returns the error, and its defer runs
\* NotifyFailure on a disconnected context.
FailRun(f) ==
  /\ step[f] \notin {"closed", "alert"}
  /\ Answer(f) = "error"
  /\ tries[f] + 1 >= MaxAttempts(step[f])
  /\ step' = [step EXCEPT ![f] = "alert"]
  /\ tries' = [tries EXCEPT ![f] = 0]
  /\ Goto(Cur(f), "idle")
  /\ UNCHANGED <<fileVars, arrVars, skipped, outcome, faults>>

\* The run closes as failed once the webhook activity is over, sent or not.
CloseFailed_OnDelivery(f) ==
  /\ step[f] = "alert"
  /\ Answer(f) = "ok"
  /\ step' = [step EXCEPT ![f] = "closed"]
  /\ outcome' = [outcome EXCEPT ![f] = "failed"]
  /\ Goto(Cur(f), "idle")
  /\ UNCHANGED <<fileVars, arrVars, skipped, tries, faults>>

CloseFailed(f) ==
  /\ step[f] = "alert"
  /\ Answer(f) \in {"ok", "error"}
  /\ step' = [step EXCEPT ![f] = "closed"]
  /\ outcome' = [outcome EXCEPT ![f] = "failed"]
  /\ Goto(Cur(f), "idle")
  /\ UNCHANGED <<fileVars, arrVars, skipped, tries, faults>>

\* ExecuteWorkflow under ALLOW_DUPLICATE and conflict policy FAIL: a run is
\* started when none is open, whatever became of the earlier ones.
StartRun(f) ==
  /\ step[f] = "closed"
  /\ step' = [step EXCEPT ![f] = "probe"]
  /\ outcome' = [outcome EXCEPT ![f] = "none"]
  /\ skipped' = skipped \ {f}
  /\ dest' = [dest EXCEPT ![f] = None]
  /\ UNCHANGED tries

AlreadyStarted(f) == step[f] # "closed"

\* One step of an activity attempt of f.
ActivityStep(f) ==
  \/ ProbeRead(f) \/ ProbeRemove(f)
  \/ DetectCrop(f)
  \/ TranscodePrepare(f)
  \/ \E who \in {"current", "abandoned"} :
       \/ TranscodeOpen(<<f, who>>)
       \/ TranscodeRename(<<f, who>>)
       \/ TranscodeStat(<<f, who>>)
  \/ AbandonedEnds(f)
  \/ NotifyPost(f) \/ NotifyResolve(f)
  \/ CleanupOutput(f) \/ CleanupSource(f) \/ CleanupPrune(f)
  \/ NotifyFailure(f)

\* One step of the workflow body, or of Temporal's retry policy.
WorkflowStep(f) ==
  CompleteActivity(f) \/ RetryAttempt(f) \/ FailRun(f) \/ CloseFailed(f)
=============================================================================
