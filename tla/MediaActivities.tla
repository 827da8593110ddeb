--------------------------- MODULE MediaActivities ---------------------------
(***************************************************************************)
(* The media activities (workflows/media/activities.go and the Run*        *)
(* functions behind them) as steps over what they share: the source files, *)
(* the sentinels, the mirrored output directory and the arr library.       *)
(*                                                                         *)
(* An activity attempt is a process.  pc[p] says how far it got: "idle"    *)
(* before its first step, one of Results once it has an answer for         *)
(* Temporal.  p = <<f, "current">> is the attempt Temporal waits for;      *)
(* p = <<f, "abandoned">> is a transcode Temporal gave up on (heartbeat or *)
(* start-to-close timeout on a partitioned worker) and that still runs.    *)
(***************************************************************************)
EXTENDS Naturals

CONSTANTS
  Files,           \* source files; all of them mirror to one output directory
  Outputs,         \* output names ("<stem>.mkv") in that directory
  OutputOf,        \* the output name of each source file
  Junk,            \* files without a usable video stream
  Preserve,        \* files of a watch with preserve_source
  Unnamed,         \* files by whose name the arr client finds no item
  MaxFaults,       \* how many faults a behaviour may have
  ProbeIOErrors    \* may a probe of a good file fail with an I/O error?

ASSUME FilesAssumption ==
  /\ "none" \notin Files
  /\ OutputOf \in [Files -> Outputs]
  /\ Junk \subseteq Files
  /\ Preserve \subseteq Files
  /\ Unnamed \subseteq Files
  /\ MaxFaults \in Nat
  /\ ProbeIOErrors \in BOOLEAN

VARIABLES
  source,     \* [Files -> {"awaited", "present", "removed"}]
  sentinel,   \* files with a .NAME.done marker beside them
  outDir,     \* does the mirrored output directory exist?
  temp,       \* the temp file of each output name
  final,      \* the finished file of each output name
  dest,       \* what the transcode of the current run delivered (its size)
  lib,        \* the arr library's item for each output name, and its file
  scan,       \* the arr command posted by the latest Notify attempt
  doubt,      \* history: why Notify answered without knowing what became of it
  pc,         \* progress of every activity attempt
  step,       \* the activity each workflow run waits for, or "closed"
  skipped,    \* runs whose NotifyOutput.ImportSkipped is set
  faults      \* faults so far

fileVars == <<source, sentinel, outDir, temp, final, dest>>
arrVars  == <<lib, scan, doubt>>
runVars  == <<step, skipped>>

Procs   == Files \X {"current", "abandoned"}
Cur(f)  == <<f, "current">>
Results == {"ok", "invalid", "skip", "error"}
Steps   == {"closed", "probe", "crop", "transcode", "notify", "cleanup",
            "discard", "alert"}

\* An answer without a command id, a completed command without a result, and
\* a name that the client cannot look up.
Doubts == {"no id", "no result", "no name"}

None == [of |-> "none", torn |-> FALSE]
\* A file that holds the transcode of "of"; torn when two writers shared it.
Contents == [of : Files, torn : BOOLEAN]

Goto(p, label) == pc' = [pc EXCEPT ![p] = label]

\* f's current attempt of activity s stands at label.
At(f, s, label) == step[f] = s /\ pc[Cur(f)] = label

\* One fault more, if the bound allows it.
Fault == faults < MaxFaults /\ faults' = faults + 1

-----------------------------------------------------------------------------
\* Probe

Probe_LooksMedia(f) == source[f] = "present" /\ f \notin Junk

\* RunProbe reads the container.  Every error but a context error, a file
\* that is gone included, is read as "not a media file".
ProbeRead(f) ==
  /\ At(f, "probe", "idle")
  /\ \/ /\ Probe_LooksMedia(f)
        /\ Goto(Cur(f), "ok")
        /\ UNCHANGED faults
     \/ /\ ~ Probe_LooksMedia(f)
        /\ Goto(Cur(f), "reject")
        /\ UNCHANGED faults
     \/ /\ ProbeIOErrors
        /\ Fault
        /\ Goto(Cur(f), "reject")
  /\ UNCHANGED <<fileVars, arrVars, runVars>>

\* An invalid file is deleted unless its watch preserves sources.
ProbeRemove(f) ==
  /\ At(f, "probe", "reject")
  /\ source' = IF f \in Preserve \/ source[f] # "present"
                 THEN source
                 ELSE [source EXCEPT ![f] = "removed"]
  /\ Goto(Cur(f), "invalid")
  /\ UNCHANGED <<sentinel, outDir, temp, final, dest, arrVars, runVars, faults>>

-----------------------------------------------------------------------------
\* DetectCrop and NotifyFailure only read or send: what matters is the answer.

\* With both crop thresholds disabled DetectCrop does not even read the file.
DetectCrop(f) ==
  /\ At(f, "crop", "idle")
  /\ \/ Goto(Cur(f), "ok")
     \/ source[f] # "present" /\ Goto(Cur(f), "error")
  /\ UNCHANGED <<fileVars, arrVars, runVars, faults>>

NotifyFailure(f) ==
  /\ At(f, "alert", "idle")
  /\ Goto(Cur(f), "ok")
  /\ UNCHANGED <<fileVars, arrVars, runVars, faults>>

-----------------------------------------------------------------------------
\* Transcode

\* Other processes with the temp file of p's output open for writing.
OtherWriters(p) ==
  {q \in Procs \ {p} : pc[q] = "writing" /\ OutputOf[q[1]] = OutputOf[p[1]]}

\* reuseExistingOutput takes an output of a fitting duration for the result of
\* an earlier run.  Whether the duration can be read and fits is left open.
Reusable(o) == final[o] # None

\* RunTranscode up to the reuse check: stat the source, create the mirrored
\* directory, and perhaps reuse a finished output.
TranscodePrepare(f) ==
  LET o == OutputOf[f] IN
  /\ At(f, "transcode", "idle")
  /\ \/ /\ source[f] # "present"
        /\ Goto(Cur(f), "error")
        /\ UNCHANGED <<outDir, dest>>
     \/ /\ source[f] = "present"
        /\ outDir' = TRUE
        /\ \/ /\ Reusable(o)
              /\ dest' = [dest EXCEPT ![f] = final[o]]
              /\ Goto(Cur(f), "ok")
           \/ /\ Goto(Cur(f), "prepared")
              /\ UNCHANGED dest
  /\ UNCHANGED <<source, sentinel, temp, final, arrVars, runVars, faults>>

TranscodeOpen_Append(p) ==
  LET f == p[1]
      o == OutputOf[f] IN
  /\ pc[p] = "prepared"
  /\ IF source[f] = "present" /\ outDir
       THEN /\ temp' = [temp EXCEPT ![o] = [of |-> f, torn |-> @ # None]]
            /\ Goto(p, "writing")
       ELSE Goto(p, "error") /\ UNCHANGED temp
  /\ UNCHANGED <<source, sentinel, outDir, final, dest, arrVars, runVars, faults>>

\* After the poster was fetched, ffmpeg opens the source and truncates the
\* temp file.  Without a source or a directory Run fails at once and
\* RunTranscode removes whatever temp file is there.
TranscodeOpen(p) ==
  LET f == p[1]
      o == OutputOf[f] IN
  /\ pc[p] = "prepared"
  /\ IF source[f] = "present" /\ outDir
       THEN /\ temp' = [temp EXCEPT
                          ![o] = [of |-> f, torn |-> OtherWriters(p) # {}]]
            /\ Goto(p, "writing")
       ELSE /\ temp' = [temp EXCEPT ![o] = None]
            /\ Goto(p, "error")
  /\ UNCHANGED <<source, sentinel, outDir, final, dest, arrVars, runVars, faults>>

\* Run fails: the temp file is removed, whoever wrote it.
TranscodeFail(p) ==
  /\ pc[p] = "writing"
  /\ Fault
  /\ temp' = [temp EXCEPT ![OutputOf[p[1]]] = None]
  /\ Goto(p, "error")
  /\ UNCHANGED <<source, sentinel, outDir, final, dest, arrVars, runVars>>

\* Run succeeds: rename the temp file to the final name.
TranscodeRename(p) ==
  LET o == OutputOf[p[1]] IN
  /\ pc[p] = "writing"
  /\ IF temp[o] = None
       THEN Goto(p, "error") /\ UNCHANGED <<temp, final>>
       ELSE /\ final' = [final EXCEPT ![o] = temp[o]]
            /\ temp' = [temp EXCEPT ![o] = None]
            /\ Goto(p, "renamed")
  /\ UNCHANGED <<source, sentinel, outDir, dest, arrVars, runVars, faults>>

\* Stat the output for its size; the arr service may have moved it by now.
TranscodeStat(p) ==
  LET f == p[1]
      o == OutputOf[f] IN
  /\ pc[p] = "renamed"
  /\ Goto(p, IF final[o] = None THEN "error" ELSE "ok")
  /\ dest' = IF p = Cur(f) /\ final[o] # None THEN [dest EXCEPT ![f] = final[o]] ELSE dest
  /\ UNCHANGED <<source, sentinel, outDir, temp, final, arrVars, runVars, faults>>

-----------------------------------------------------------------------------
\* The arr service (external)

Refused  == {"gone", "better"}   \* no longer in the library; not an upgrade
Settled(o) == lib[o].status # "wanted"  \* imported, or refused for good

\* The service imports the file of o, moving or copying it.
Import(o) ==
  /\ final[o] # None
  /\ lib[o].status = "wanted"
  /\ lib' = [lib EXCEPT ![o] = [status |-> "imported", file |-> final[o]]]
  /\ \/ final' = [final EXCEPT ![o] = None]
     \/ UNCHANGED final

\* The command of f ends with that result; or it only says that it completed.
ScanEnds(f, result) ==
  \/ scan' = [scan EXCEPT ![f] = result] /\ UNCHANGED faults
  \/ scan' = [scan EXCEPT ![f] = "vague"] /\ Fault

\* The service runs the scan command of f.  It may not know what the file is,
\* and may miss a file that its NFS cache does not show yet.
ArrScan(f) ==
  /\ scan[f] = "queued"
  /\ \/ Import(OutputOf[f]) /\ ScanEnds(f, "imported")
     \/ /\ final[OutputOf[f]] = None \/ Settled(OutputOf[f]) \/ f \in Unnamed
        /\ ScanEnds(f, "nothing")
        /\ UNCHANGED <<lib, final>>
     \/ /\ Fault
        /\ scan' \in {[scan EXCEPT ![f] = r] : r \in {"nothing", "vague"}}
        /\ UNCHANGED <<lib, final>>
  /\ UNCHANGED <<source, sentinel, outDir, temp, dest, doubt, pc, runVars>>

\* Its completed-download handler imports the same file on its own.
ArrAutoImport(o) ==
  /\ Import(o)
  /\ UNCHANGED <<source, sentinel, outDir, temp, dest, scan, doubt, pc, runVars,
                 faults>>

\* A user removes the item from the library, or a better release arrives.
ArrRefuses(o) ==
  /\ lib[o].status = "wanted"
  /\ \E why \in Refused : lib' = [lib EXCEPT ![o].status = why]
  /\ UNCHANGED <<fileVars, scan, doubt, pc, runVars, faults>>

-----------------------------------------------------------------------------
\* Notify

\* The scan is posted.  An answer without a command id, whether or not there
\* is a scan, counts as one that ended well.
NotifyPost(f) ==
  /\ At(f, "notify", "idle")
  /\ \/ /\ scan' = [scan EXCEPT ![f] = "queued"]
        /\ Goto(Cur(f), "scanning")
        /\ UNCHANGED <<doubt, faults>>
     \/ /\ scan' \in {scan, [scan EXCEPT ![f] = "queued"]}
        /\ Goto(Cur(f), "ok")
        /\ doubt' = [doubt EXCEPT ![f] = @ \cup {"no id"}]
        /\ Fault
  /\ UNCHANGED <<fileVars, lib, runVars>>

\* The client finds no item by the file's name: the item left the library, or
\* the name tells nothing.
NotFound(f) == lib[OutputOf[f]].status = "gone" \/ f \in Unnamed

\* The service, asked about the file, rejects it as "not an upgrade".
NotUpgrade(f) ==
  final[OutputOf[f]] # None /\ lib[OutputOf[f]].status \in {"better", "imported"}

\* The library's file has the very size that the run delivered.
TookOurs(f) ==
  LET item == lib[OutputOf[f]] IN
  f \notin Unnamed /\ item.status = "imported" /\ item.file = dest[f]

NotifyVerdict_SkipLeftover(f, failed) ==
  IF (failed # "item" /\ NotFound(f)) \/ final[OutputOf[f]] # None
    THEN "skip"
    ELSE IF TookOurs(f) THEN "ok" ELSE "error"

\* ImportByFilePath after a scan that imported nothing: an item that is not
\* found and a file that is no upgrade are skips, each unless the call that
\* asks fails; our own file in the library is a success; the rest an error.
NotifyVerdict(f, failed) ==
  IF (failed # "item" /\ NotFound(f)) \/ (failed # "rejection" /\ NotUpgrade(f))
    THEN "skip"
    ELSE IF TookOurs(f) THEN "ok" ELSE "error"

\* ScanAndWait polls the command until it has ended.
ScanEnded(f) == scan[f] \in {"imported", "nothing", "vague"}

\* A command that completed with no result counts as one that imported.
NotifyResolve(f) ==
  /\ At(f, "notify", "scanning")
  /\ ScanEnded(f)
  /\ \/ /\ scan[f] = "imported"
        /\ Goto(Cur(f), "ok")
        /\ UNCHANGED <<doubt, faults>>
     \/ /\ scan[f] = "vague"
        /\ Goto(Cur(f), "ok")
        /\ doubt' = [doubt EXCEPT ![f] = @ \cup {"no result"}]
        /\ UNCHANGED faults
     \/ /\ scan[f] = "nothing"
        /\ \E failed \in {"none", "item", "rejection"} :
             /\ IF failed = "none" THEN UNCHANGED faults ELSE Fault
             /\ Goto(Cur(f), NotifyVerdict(f, failed))
             /\ doubt' = IF f \in Unnamed /\ failed # "item"
                           THEN [doubt EXCEPT ![f] = @ \cup {"no name"}]
                           ELSE doubt
  /\ scan' = [scan EXCEPT ![f] = "none"]
  /\ UNCHANGED <<fileVars, lib, runVars>>

-----------------------------------------------------------------------------
\* Cleanup ("cleanup" after an import or a skip, "discard" after an invalid
\* probe, where TranscodeOutput is empty)

CleanupOutput_Keep(f) ==
  /\ \/ At(f, "cleanup", "idle")
     \/ At(f, "discard", "idle")
  /\ Goto(Cur(f), "retire")
  /\ UNCHANGED <<fileVars, arrVars, runVars, faults>>

\* A skipped import leaves an orphan in the output directory: remove it.
CleanupOutput(f) ==
  /\ \/ At(f, "cleanup", "idle")
     \/ At(f, "discard", "idle")
  /\ final' = IF step[f] = "cleanup" /\ f \in skipped
                THEN [final EXCEPT ![OutputOf[f]] = None]
                ELSE final
  /\ Goto(Cur(f), "retire")
  /\ UNCHANGED <<source, sentinel, outDir, temp, dest, arrVars, runVars, faults>>

\* WriteSentinel or RunCleanup, which tolerates a missing source.
CleanupSource(f) ==
  /\ pc[Cur(f)] = "retire"
  /\ IF f \in Preserve
       THEN /\ sentinel' = sentinel \cup {f}
            /\ UNCHANGED source
       ELSE /\ source' = [source EXCEPT ![f] = "removed"]
            /\ UNCHANGED sentinel
  /\ Goto(Cur(f), "prune")
  /\ UNCHANGED <<outDir, temp, final, dest, arrVars, runVars, faults>>

DirEmpty == \A o \in Outputs : temp[o] = None /\ final[o] = None

CleanupPrune_Forced(f) ==
  /\ pc[Cur(f)] = "prune"
  /\ outDir' = FALSE
  /\ Goto(Cur(f), "ok")
  /\ UNCHANGED <<source, sentinel, temp, final, dest, arrVars, runVars, faults>>

\* PruneOutputDirs is best effort: rmdir succeeds on an empty directory only,
\* and is not tried at all for an invalid file or with retain_empty_directories.
CleanupPrune(f) ==
  /\ pc[Cur(f)] = "prune"
  /\ \/ UNCHANGED outDir
     \/ /\ step[f] = "cleanup"
        /\ DirEmpty
        /\ outDir' = FALSE
  /\ Goto(Cur(f), "ok")
  /\ UNCHANGED <<source, sentinel, temp, final, dest, arrVars, runVars, faults>>

-----------------------------------------------------------------------------
\* An attempt ends early, wherever it stands: the worker dies, a filesystem or
\* HTTP call fails, a context ends.  What it did stays; Temporal sees an error.
AttemptError(f) ==
  /\ step[f] # "closed"
  /\ pc[Cur(f)] # "error"
  /\ Fault
  /\ Goto(Cur(f), "error")
  /\ UNCHANGED <<fileVars, arrVars, runVars>>

\* Temporal gives up on a transcode that still runs.
Abandon(f) ==
  /\ step[f] = "transcode"
  /\ pc[Cur(f)] \in {"prepared", "writing", "renamed"}
  /\ pc[<<f, "abandoned">>] = "idle"
  /\ Fault
  /\ pc' = [pc EXCEPT ![Cur(f)] = "error", ![<<f, "abandoned">>] = pc[Cur(f)]]
  /\ UNCHANGED <<fileVars, arrVars, runVars>>

\* Nobody waits for the answer of an abandoned transcode.
AbandonedEnds(f) ==
  /\ pc[<<f, "abandoned">>] \in {"ok", "error"}
  /\ Goto(<<f, "abandoned">>, "idle")
  /\ UNCHANGED <<fileVars, arrVars, runVars, faults>>
=============================================================================
