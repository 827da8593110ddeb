---------------------------- MODULE MediaPipeline ----------------------------
(***************************************************************************)
(* The pipeline end to end: the watchers (cmd/watcher/watcher.go) that     *)
(* walk the watch directory and dispatch runs, the runs and their          *)
(* activities (MediaWorkflow, MediaActivities), the arr service and the    *)
(* faults.                                                                 *)
(*                                                                         *)
(* The promise: a source file leaves the watch (deleted, or marked with a  *)
(* sentinel) only when it was junk, its transcode is in the library, the   *)
(* library refused it for good, or the arr client concluded so from an     *)
(* answer that does not say it (doubt).                                    *)
(***************************************************************************)
EXTENDS MediaWorkflow

CONSTANTS
  Watchers,   \* watcher replicas
  NoFile,     \* no dispatch in progress
  Partitions  \* may Temporal give up on a transcode that still runs?

ASSUME WatcherAssumption == NoFile \notin Files /\ Partitions \in BOOLEAN

VARIABLES
  listing,   \* directory entries a watcher's walk has yet to visit
  checked    \* the file a watcher found no sentinel for and now dispatches

watchVars == <<listing, checked>>
vars == <<fileVars, arrVars, runVars, pc, faults, wfVars, watchVars>>

-----------------------------------------------------------------------------
\* scan: one walk of the watch directory.

\* WalkDir reads the directory once; its entries are visited from that list,
\* whatever happens to the files meanwhile.
StartWalk(w) ==
  /\ listing[w] = {}
  /\ checked[w] = NoFile
  /\ listing' = [listing EXCEPT ![w] = {f \in Files : source[f] = "present"}]
  /\ UNCHANGED <<fileVars, arrVars, runVars, pc, faults, wfVars, checked>>

\* The walk visits f: a file with a sentinel is skipped.
StatSentinel(w, f) ==
  /\ checked[w] = NoFile
  /\ f \in listing[w]
  /\ listing' = [listing EXCEPT ![w] = @ \ {f}]
  /\ checked' = IF f \in sentinel THEN checked ELSE [checked EXCEPT ![w] = f]
  /\ UNCHANGED <<fileVars, arrVars, runVars, pc, faults, wfVars>>

Dispatch_Once(w) ==
  LET f == checked[w] IN
  /\ f # NoFile
  /\ checked' = [checked EXCEPT ![w] = NoFile]
  /\ IF AlreadyStarted(f) \/ outcome[f] # "none"
       THEN UNCHANGED <<runVars, wfVars, dest, faults>>
       ELSE StartRun(f) /\ UNCHANGED faults
  /\ UNCHANGED <<source, sentinel, outDir, temp, final, arrVars, pc, listing>>

\* The dispatch starts a run, is told that one is open, or fails.
Dispatch(w) ==
  LET f == checked[w] IN
  /\ f # NoFile
  /\ checked' = [checked EXCEPT ![w] = NoFile]
  /\ \/ StartRun(f) /\ UNCHANGED faults
     \/ AlreadyStarted(f) /\ UNCHANGED <<runVars, wfVars, dest, faults>>
     \/ Fault /\ UNCHANGED <<runVars, wfVars, dest>>
  /\ UNCHANGED <<source, sentinel, outDir, temp, final, arrVars, pc, listing>>

\* A watcher stops or dies in a walk, and its replacement starts afresh.
WatcherRestart(w) ==
  /\ listing[w] # {} \/ checked[w] # NoFile
  /\ Fault
  /\ listing' = [listing EXCEPT ![w] = {}]
  /\ checked' = [checked EXCEPT ![w] = NoFile]
  /\ UNCHANGED <<fileVars, arrVars, runVars, pc, wfVars>>

\* A finished download appears in the watch directory.
Arrive(f) ==
  /\ source[f] = "awaited"
  /\ source' = [source EXCEPT ![f] = "present"]
  /\ UNCHANGED <<sentinel, outDir, temp, final, dest, arrVars, runVars, pc,
                 faults, wfVars, watchVars>>

-----------------------------------------------------------------------------
Init ==
  /\ source = [f \in Files |-> "awaited"]
  /\ sentinel = {}
  /\ outDir = FALSE
  /\ temp = [o \in Outputs |-> None]
  /\ final = [o \in Outputs |-> None]
  /\ dest = [f \in Files |-> None]
  /\ lib = [o \in Outputs |-> [status |-> "wanted", file |-> None]]
  /\ scan = [f \in Files |-> "none"]
  /\ doubt = [f \in Files |-> {}]
  /\ pc = [p \in Procs |-> "idle"]
  /\ step = [f \in Files |-> "closed"]
  /\ skipped = {}
  /\ faults = 0
  /\ tries = [f \in Files |-> 0]
  /\ outcome = [f \in Files |-> "none"]
  /\ listing = [w \in Watchers |-> {}]
  /\ checked = [w \in Watchers |-> NoFile]

Walk(w) ==
  StartWalk(w) \/ (\E f \in Files : StatSentinel(w, f)) \/ Dispatch(w)

RunStep(f) ==
  \/ (ActivityStep(f) \/ ArrScan(f)) /\ UNCHANGED <<wfVars, watchVars>>
  \/ WorkflowStep(f) /\ UNCHANGED watchVars

FaultStep(f) ==
  \/ AttemptError(f) /\ UNCHANGED <<wfVars, watchVars>>
  \/ Partitions /\ Abandon(f) /\ UNCHANGED <<wfVars, watchVars>>
  \/ \E who \in {"current", "abandoned"} :
       TranscodeFail(<<f, who>>) /\ UNCHANGED <<wfVars, watchVars>>

Environment ==
  \/ \E f \in Files : Arrive(f)
  \/ \E o \in Outputs : (ArrAutoImport(o) \/ ArrRefuses(o))
                          /\ UNCHANGED <<wfVars, watchVars>>

Next ==
  \/ \E w \in Watchers : Walk(w) \/ WatcherRestart(w)
  \/ \E f \in Files : RunStep(f) \/ FaultStep(f)
  \/ Environment

Spec == Init /\ [][Next]_vars

\* Watchers rescan on a ticker, workers poll every queue, the arr service
\* runs its command queue: each part keeps taking its steps.  Nothing makes a
\* fault, an arrival or a change of the library happen.
Fairness ==
  /\ \A w \in Watchers : WF_vars(Walk(w))
  /\ \A f \in Files : WF_vars(RunStep(f))

FairSpec == Spec /\ Fairness

-----------------------------------------------------------------------------
FileState == Contents \cup {None}
Labels == Results \cup {"idle", "reject", "prepared", "writing", "renamed",
                       "scanning", "retire", "prune"}

TypeOK ==
  /\ source \in [Files -> {"awaited", "present", "removed"}]
  /\ sentinel \subseteq Files
  /\ outDir \in BOOLEAN
  /\ temp \in [Outputs -> FileState]
  /\ final \in [Outputs -> FileState]
  /\ dest \in [Files -> FileState]
  /\ lib \in [Outputs -> [status : {"wanted", "imported"} \cup Refused,
                          file : FileState]]
  /\ scan \in [Files -> {"none", "queued", "imported", "nothing", "vague"}]
  /\ doubt \in [Files -> SUBSET Doubts]
  /\ pc \in [Procs -> Labels]
  /\ step \in [Files -> Steps]
  /\ skipped \subseteq Files
  /\ faults \in 0..MaxFaults
  /\ tries \in [Files -> Nat]
  /\ \A f \in Files : tries[f] < MaxAttempts(step[f])
  /\ outcome \in [Files -> {"none", "completed", "failed"}]
  /\ listing \in [Watchers -> SUBSET Files]
  /\ checked \in [Watchers -> Files \cup {NoFile}]

\* No source is lost: a file that was deleted, or marked as processed, was
\* junk or its item is settled in the library, unless its own import ended in
\* an answer that Notify takes on trust (no command id, no result) or in a
\* lookup of a name that nobody knows; and a preserved file is never deleted
\* (RunProbe, Notify, Cleanup).
Retired(f) == source[f] = "removed" \/ f \in sentinel

NoLoss ==
  \A f \in Files :
    /\ Retired(f) => f \in Junk \/ Settled(OutputOf[f]) \/ doubt[f] # {}
    /\ f \in Preserve => source[f] # "removed"

\* The pipeline keeps the ledger: an output is made of a file that arrived and
\* is media, no output is thrown away and no file deleted, or marked if its
\* watch preserves it, before the item is settled or, for one of the three
\* reasons in doubt, presumed to be; each step does one of these things, and
\* none is undone, whatever reruns, retries, partitions and late answers there
\* are (RunTranscode, Notify, Cleanup).
Ledger == INSTANCE MediaLedger WITH
  arrived <- {f \in Files : source[f] # "awaited"},
  offered <- {o \in Outputs : final[o] # None},
  settled <- {o \in Outputs : Settled(o)},
  presumed <- {OutputOf[f] : f \in {g \in Files : doubt[g] # {}}},
  deleted <- {f \in Files : source[f] = "removed"},
  marked <- sentinel

KeepsLedger == Ledger!Spec

\* Pruning an output directory never pulls it away from under a transcode
\* that writes there, nor with a file in it (PruneOutputDirs).
FilesHaveDir ==
  /\ \A p \in Procs : pc[p] = "writing" => outDir
  /\ ~ DirEmpty => outDir

\* What is offered for import, and what the library took, is one source's own
\* complete transcode (RunTranscode's temp file and rename).
OutputWhole ==
  \A f \in Files : \A file \in {final[OutputOf[f]], lib[OutputOf[f]].file} :
    file # None => file = [of |-> f, torn |-> FALSE]

\* A transcode is skipped in favour of an existing output only when that
\* output came from the same source (reuseExistingOutput).
ReusesOwnOutput == \A f \in Files : dest[f] # None => dest[f].of = f

\* When a run completes it leaves no output behind, unless the service has
\* taken its copy, or told Notify neither a command id nor a result: then the
\* output stays where nobody will import it (Notify's skips and Cleanup).
NoStrandedOutput ==
  \A f \in Files :
    outcome[f] = "completed" /\ final[OutputOf[f]] # None
      => \/ lib[OutputOf[f]].status = "imported"
         \/ doubt[f] \cap {"no id", "no result"} # {}

\* Every run ends (MediaWorkflow: bounded attempts, and the failure webhook
\* cannot hold up the end).
RunsEnd == \A f \in Files : (step[f] # "closed") ~> (step[f] = "closed")

\* Every file in the watch is dealt with in the end: deleted, or marked and
\* still there if its watch preserves it.  A failed run is dispatched again by
\* a later scan (scan, dispatchWorkflow, Cleanup).
DealtWith(f) ==
  IF f \in Preserve THEN f \in sentinel /\ source[f] = "present"
                    ELSE source[f] = "removed"

EveryFileRetired == \A f \in Files : (source[f] = "present") ~> DealtWith(f)
=============================================================================
