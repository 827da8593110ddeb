------------------------------ MODULE ArrImport ------------------------------
(***************************************************************************)
(* How one finished transcode gets into the arr library: the attempts of   *)
(* the Notify activity (workflows/media/activities.go), each a sequence of *)
(* API calls of the radarr or sonarr client (ImportByFilePath) and of      *)
(* arrcommand.Wait, and the Cleanup that follows.  Meanwhile the service   *)
(* runs its scans, its own completed-download handler imports the same     *)
(* file, its queue moves and its library changes.                          *)
(*                                                                         *)
(* MediaActivities takes an attempt as one post and one verdict; this      *)
(* module looks into both.  Files are told apart by their size: the        *)
(* library's file has the transcode's size exactly when it is that file.   *)
(***************************************************************************)
EXTENDS Naturals, SequencesExt

CONSTANTS
  Items,         \* kinds of file to import
  MaxAttempts,   \* NotifyMaximumAttempts
  PageSize,      \* queue records of a page
  MaxQueue,      \* records in the queue at a time
  MaxFaults,     \* failed calls and scans of a behaviour
  MaxChanges     \* what else happens in the arr service in a behaviour

ASSUME ArrAssumption ==
  /\ Items \subseteq [service : {"radarr", "sonarr"},
                      named : SUBSET {"file", "folder"}, known : BOOLEAN]
  /\ MaxAttempts \in Nat \ {0}
  /\ PageSize \in Nat \ {0}
  /\ MaxQueue \in Nat \ {0, 1}
  /\ MaxFaults \in Nat
  /\ MaxChanges \in Nat

VARIABLES
  item,       \* the file's service, which of its names can be parsed, and
              \* whether the service knows the file whatever its names
  output,     \* is the transcode in the output directory?
  source,     \* is the source in the watch directory?
  wanted,     \* is its movie or episode in the library?
  held,       \* the library's file of it: "none", "worse", "ours", "better"
  queue,      \* the service's downloads: "ours" (pending), "imported", "other"
  scan,       \* what became of the scan each attempt posted
  tracked,    \* the scans posted with the id of the pending download
  pc,         \* where the current attempt stands
  attempt,    \* its number
  page,       \* the queue page it reads next
  fetched,    \* queue records it has read
  verdict,    \* how Notify ended: "none", "ok", "skipped" or "failed"
  faults,
  changes,
  during,     \* history: what disturbed the current attempt
  past        \* history: what the library did with the item so far, and why
              \* Notify answered without knowing that

files == <<item, output, source>>
arr == <<wanted, held, queue, scan>>
paging == <<page, fetched>>
bounds == <<faults, changes>>
vars == <<files, arr, tracked, pc, attempt, paging, verdict, bounds, during, past>>

Attempts == 1..MaxAttempts
AsGood == {"ours", "better"}

\* An answer without a command id, a completed scan without a result, and a
\* name by which the client finds no item.
Doubts == {"no id", "no result", "no name"}

\* One failed call or scan more.
Fault ==
  /\ faults < MaxFaults
  /\ faults' = faults + 1
  /\ during' = during \cup {"fault"}
  /\ UNCHANGED changes

NoFault == UNCHANGED <<bounds, during>>

-----------------------------------------------------------------------------
\* getMovieByFilePath tries the file name, then the folder's; sonarr's
\* getEpisodeByFilePath tries the file name only.
Identified ==
  "file" \in item.named \/ (item.service = "radarr" /\ "folder" \in item.named)

Found == wanted /\ Identified

\* Does the service itself know what the file is?  Its parser may do more
\* than the lookup does.
Known == wanted /\ (Identified \/ item.known)

-----------------------------------------------------------------------------
\* Ends of an attempt.

AttemptError_NoLimit ==
  /\ attempt' = attempt + 1
  /\ pc' = "lookup"
  /\ UNCHANGED verdict

\* Temporal starts another attempt until the policy's last one.
AttemptError ==
  IF attempt < MaxAttempts
    THEN attempt' = attempt + 1 /\ pc' = "lookup" /\ UNCHANGED verdict
    ELSE verdict' = "failed" /\ pc' = "end" /\ UNCHANGED attempt

Return(v) ==
  /\ verdict' = v
  /\ pc' = "cleanup"
  /\ UNCHANGED attempt

Continue(label) == pc' = label /\ UNCHANGED <<attempt, verdict>>

-----------------------------------------------------------------------------
\* findTrackedDownloadID: an item that is not found and a call that fails
\* both mean "no download".
Lookup ==
  /\ pc = "lookup"
  /\ page' = 1
  /\ fetched' = 0
  /\ changes' = changes
  /\ \/ Continue(IF Found THEN "page" ELSE "post")
        /\ during' = {}
        /\ UNCHANGED faults
     \/ Continue("post")
        /\ faults < MaxFaults
        /\ faults' = faults + 1
        /\ during' = {"fault"}
  /\ UNCHANGED <<files, arr, tracked, past>>

Rows == SubSeq(queue, (page - 1) * PageSize + 1,
               IF page * PageSize < Len(queue) THEN page * PageSize ELSE Len(queue))

ReadPage_OffByOne ==
  /\ pc = "page"
  /\ fetched' = fetched + Len(Rows)
  /\ page' = page + 1
  /\ IF "ours" \in ToSet(Rows)
       THEN tracked' = tracked \cup {attempt} /\ Continue("post")
       ELSE tracked' = tracked
              /\ Continue(IF fetched' + 1 >= Len(queue) THEN "post" ELSE "page")
  /\ NoFault
  /\ UNCHANGED <<files, arr, past>>

\* Pages are read until one has a pending download of the item, or as many
\* records were seen as the service says it has, or a page is empty.
ReadPage ==
  /\ pc = "page"
  /\ fetched' = fetched + Len(Rows)
  /\ page' = page + 1
  /\ \/ /\ IF "ours" \in ToSet(Rows)
             THEN tracked' = tracked \cup {attempt} /\ Continue("post")
             ELSE tracked' = tracked
                    /\ Continue(IF fetched' >= Len(queue) \/ Rows = <<>>
                                  THEN "post" ELSE "page")
        /\ NoFault
     \/ tracked' = tracked /\ Continue("post") /\ Fault
  /\ UNCHANGED <<files, arr, past>>

\* ImportByFilePath posts the scan.  The call may fail or be answered without
\* an id, each with the scan taken or not; an answer without an id counts as a
\* scan that ended well.
PostScan ==
  /\ pc = "post"
  /\ \/ /\ scan' = [scan EXCEPT ![attempt] = "queued"]
        /\ Continue("wait")
        /\ NoFault
        /\ UNCHANGED past
     \/ /\ scan' \in {scan, [scan EXCEPT ![attempt] = "queued"]}
        /\ Return("ok")
        /\ Fault
        /\ past' = past \cup {"no id"}
     \/ /\ scan' \in {scan, [scan EXCEPT ![attempt] = "queued"]}
        /\ AttemptError
        /\ Fault
        /\ UNCHANGED past
  /\ UNCHANGED <<files, wanted, held, queue, tracked, paging>>

WaitScan_IgnoreResult ==
  /\ pc = "wait"
  /\ \/ /\ scan[attempt] \in {"successful", "vague", "unsuccessful"}
        /\ Return("ok")
        /\ NoFault
        /\ past' = IF scan[attempt] = "vague" THEN past \cup {"no result"} ELSE past
     \/ scan[attempt] = "failed" /\ AttemptError /\ NoFault /\ past' = past
     \/ AttemptError /\ Fault /\ past' = past
  /\ UNCHANGED <<files, arr, tracked, paging>>

\* arrcommand.Wait: polls until the scan has ended, or a poll fails.  A scan
\* that completed with no result counts as one that imported.
WaitScan ==
  /\ pc = "wait"
  /\ \/ /\ scan[attempt] \in {"successful", "vague"}
        /\ Return("ok")
        /\ NoFault
        /\ past' = IF scan[attempt] = "vague" THEN past \cup {"no result"} ELSE past
     \/ /\ scan[attempt] = "unsuccessful"
        /\ Continue("recheck")
        /\ NoFault
        /\ UNCHANGED past
     \/ scan[attempt] = "failed" /\ AttemptError /\ NoFault /\ UNCHANGED past
     \/ AttemptError /\ Fault /\ UNCHANGED past
  /\ UNCHANGED <<files, arr, tracked, paging>>

-----------------------------------------------------------------------------
\* What follows a scan that imported nothing.

\* Is the item still in the library?  A name that tells nothing gets the same
\* answer as an item that left.
CheckWanted ==
  /\ pc = "recheck"
  /\ \/ Found /\ Continue("reject") /\ NoFault /\ UNCHANGED past
     \/ /\ ~ Found
        /\ Return("skipped")
        /\ NoFault
        /\ past' = IF wanted THEN past \cup {"no name"} ELSE past
     \/ Continue("reject") /\ Fault /\ UNCHANGED past
  /\ UNCHANGED <<files, arr, tracked, paging>>

CheckRejected_OnError ==
  /\ pc = "reject"
  /\ \/ /\ IF output /\ Known /\ held \in AsGood
             THEN Return("skipped")
             ELSE Continue("size")
        /\ NoFault
     \/ Return("skipped") /\ Fault
  /\ UNCHANGED <<files, arr, tracked, paging, past>>

\* rejectedAsNotUpgrade: the service looks at the file afresh.
CheckRejected ==
  /\ pc = "reject"
  /\ \/ /\ IF output /\ Known /\ held \in AsGood
             THEN Return("skipped")
             ELSE Continue("size")
        /\ NoFault
     \/ Continue("size") /\ Fault
  /\ UNCHANGED <<files, arr, tracked, paging, past>>

CheckSize_Never ==
  /\ pc = "size"
  /\ AttemptError
  /\ NoFault
  /\ UNCHANGED <<files, arr, tracked, paging, past>>

\* movieFileSize, episodeFileSize: is it our file that the library has?
CheckSize ==
  /\ pc = "size"
  /\ \/ Found /\ held = "ours" /\ Return("ok") /\ NoFault
     \/ ~ (Found /\ held = "ours") /\ AttemptError /\ NoFault
     \/ AttemptError /\ Fault
  /\ UNCHANGED <<files, arr, tracked, paging, past>>

\* The attempt's time runs out, or its worker dies.  Its scan stays posted.
AttemptLost ==
  /\ pc \in {"lookup", "page", "post", "wait", "recheck", "reject", "size"}
  /\ AttemptError
  /\ Fault
  /\ UNCHANGED <<files, arr, tracked, paging, past>>

\* Cleanup: an output whose import was skipped goes, then the source.
Cleanup ==
  /\ pc = "cleanup"
  /\ pc' = "retire"
  /\ output' = (output /\ verdict # "skipped")
  /\ UNCHANGED <<item, source, arr, tracked, attempt, paging, verdict, bounds,
                 during, past>>

RemoveSource ==
  /\ pc = "retire"
  /\ pc' = "end"
  /\ source' = FALSE
  /\ UNCHANGED <<item, output, arr, tracked, attempt, paging, verdict, bounds,
                 during, past>>

-----------------------------------------------------------------------------
\* The arr service.

client == <<item, source, tracked, pc, attempt, paging, verdict>>

\* The file is taken, by a move or by a copy.
TakeFile ==
  /\ held' = "ours"
  /\ output' \in {FALSE, TRUE}
  /\ past' = past \cup {"ours"}

CanTake == output /\ wanted /\ held \notin AsGood

\* The queue without the pending download, once that is imported.
Untracked ==
  IF "ours" \in ToSet(queue)
    THEN {RemoveAt(queue, i) : i \in {j \in DOMAIN queue : queue[j] = "ours"}}
    ELSE {queue}

\* A posted scan runs.  The service may not see the file yet (a stale NFS
\* attribute cache), the scan itself may fail, and one that completed may give
\* no result, whatever it did.
RunScan(a) ==
  /\ scan[a] = "queued"
  /\ \/ /\ CanTake /\ Known
        /\ TakeFile
        /\ queue' \in IF a \in tracked THEN Untracked ELSE {queue}
        /\ \/ /\ scan' = [scan EXCEPT ![a] = "successful"]
              /\ during' = IF a \in tracked THEN during \cup {"departure"} ELSE during
              /\ UNCHANGED bounds
           \/ /\ scan' = [scan EXCEPT ![a] = "vague"]
              /\ Fault
     \/ /\ ~ (CanTake /\ Known)
        /\ scan' = [scan EXCEPT ![a] = "unsuccessful"]
        /\ NoFault
        /\ UNCHANGED <<held, output, queue, past>>
     \/ /\ scan' \in {[scan EXCEPT ![a] = r] :
                       r \in {"unsuccessful", "failed", "vague"}}
        /\ Fault
        /\ UNCHANGED <<held, output, queue, past>>
  /\ UNCHANGED <<client, wanted>>

\* Anything else that happens there; kind says what it is to an attempt.
Change(kind) ==
  /\ pc # "end"
  /\ changes < MaxChanges
  /\ changes' = changes + 1
  /\ during' = during \cup {kind}
  /\ UNCHANGED <<client, faults, scan>>

\* The completed-download handler finds the file first.
AutoImport ==
  /\ CanTake
  /\ "ours" \in ToSet(queue)
  /\ TakeFile
  /\ queue' = [i \in DOMAIN queue |->
                 IF queue[i] = "ours" THEN "imported" ELSE queue[i]]
  /\ Change("library")
  /\ UNCHANGED wanted

\* A competing release is imported; the item's file, or the item, goes.
LibraryChanges ==
  /\ wanted
  /\ \/ wanted' = FALSE /\ held' = "none" /\ past' = past \cup {"gone"}
     \/ wanted' = TRUE /\ held' = "better" /\ past' = past \cup {"better"}
     \/ wanted' = TRUE /\ held # "none" /\ held' = "none" /\ past' = past
  /\ Change("library")
  /\ UNCHANGED <<output, queue>>

\* Downloads of other items enter the queue, anywhere, and leave it.
QueueChanges ==
  /\ \/ /\ Len(queue) < MaxQueue
        /\ \E i \in 1..(Len(queue) + 1) : queue' = InsertAt(queue, i, "other")
        /\ Change("arrival")
     \/ /\ \E i \in DOMAIN queue : queue[i] # "ours" /\ queue' = RemoveAt(queue, i)
        /\ Change("departure")
  /\ UNCHANGED <<output, wanted, held, past>>

-----------------------------------------------------------------------------
Init ==
  /\ item \in Items
  /\ output = TRUE
  /\ source = TRUE
  /\ wanted \in BOOLEAN
  /\ held \in IF wanted THEN {"none", "worse", "better"} ELSE {"none"}
  /\ queue \in {<<>>, <<"ours">>, <<"other", "ours">>, <<"ours", "other">>}
  /\ scan = [a \in Attempts |-> "none"]
  /\ tracked = {}
  /\ pc = "lookup"
  /\ attempt = 1
  /\ page = 1
  /\ fetched = 0
  /\ verdict = "none"
  /\ faults = 0
  /\ changes = 0
  /\ during = {}
  /\ past = (IF wanted THEN {} ELSE {"gone"}) \cup
            (IF held = "better" THEN {"better"} ELSE {})

Next ==
  \/ Lookup \/ ReadPage \/ PostScan \/ WaitScan
  \/ CheckWanted \/ CheckRejected \/ CheckSize \/ AttemptLost
  \/ Cleanup \/ RemoveSource
  \/ \E a \in Attempts : RunScan(a)
  \/ AutoImport \/ LibraryChanges \/ QueueChanges

Spec == Init /\ [][Next]_vars

-----------------------------------------------------------------------------
TypeOK ==
  /\ item \in Items
  /\ output \in BOOLEAN /\ source \in BOOLEAN /\ wanted \in BOOLEAN
  /\ held \in {"none", "worse"} \cup AsGood
  /\ queue \in Seq({"ours", "imported", "other"}) /\ Len(queue) <= MaxQueue
  /\ scan \in [Attempts -> {"none", "queued", "successful", "unsuccessful",
                            "vague", "failed"}]
  /\ tracked \subseteq Attempts
  /\ pc \in {"lookup", "page", "post", "wait", "recheck", "reject", "size",
             "cleanup", "retire", "end"}
  /\ attempt \in Attempts
  /\ page \in Nat \ {0} /\ fetched \in 0..((page - 1) * PageSize)
  /\ verdict \in {"none", "ok", "skipped", "failed"}
  /\ faults \in 0..MaxFaults /\ changes \in 0..MaxChanges
  /\ during \subseteq {"fault", "library", "arrival", "departure"}
  /\ past \subseteq {"ours", "better", "gone"} \cup Doubts

\* Source and transcode are not both deleted before the library took the
\* transcode, had a file as good, or dropped the item: no answer, late scan
\* or lost call of the service is mistaken for a refusal (ImportByFilePath,
\* Notify, Cleanup).
Reasons == past \cap {"ours", "better", "gone"}

NothingLost == source \/ output \/ Reasons # {}

\* Each step of an import is an entry in the ledger that the pipeline keeps, or
\* none: the transcode is removed, and the source retired, only after the
\* library took the one, had as good, or dropped the item; or after an answer
\* that the client takes for that without knowing it: one without a command
\* id, a completed scan without a result, a name that finds no item
\* (ImportByFilePath, Wait, Notify, Cleanup).
Ledger == INSTANCE MediaLedger WITH
  Files <- {"file"}, Outputs <- {"output"}, Junk <- {}, Preserve <- {},
  OutputOf <- [f \in {"file"} |-> "output"],
  arrived <- {"file"},
  offered <- IF output THEN {"output"} ELSE {},
  settled <- IF Reasons # {} THEN {"output"} ELSE {},
  presumed <- IF past \cap Doubts # {} THEN {"output"} ELSE {},
  deleted <- IF source THEN {} ELSE {"file"},
  marked <- {}

KeepsLedger == [][Ledger!Next]_(Ledger!vars)

\* Notify reports an import only when the library did get the transcode, by
\* this scan, an earlier one or the service's own import; the two exceptions
\* are an answer without a command id and a completed scan without a result
\* (ImportByFilePath, Wait).
SuccessIsImport == verdict = "ok" => past \cap {"ours", "no id", "no result"} # {}

\* A pending download of the item is found, whatever enters the queue while
\* it is read page by page: only a record that leaves, or a call that fails,
\* can hide it (findTrackedDownloadID).
PendingDownloadFound ==
  pc = "post" /\ Found /\ "ours" \in ToSet(queue)
    => attempt \in tracked \/ during \cap {"fault", "departure"} # {}

\* An attempt during which nothing failed and nothing changed ends in an error
\* only when there is no transcode left to import and the library does not
\* have it: the race with the service's own import, and a scan of an attempt
\* that was given up, are recognised for what they are (ImportByFilePath).
AttemptFails == attempt' # attempt \/ (verdict' = "failed" /\ verdict # "failed")

RetryIsUseful ==
  [][AttemptFails /\ during' = {} => ~ output /\ held # "ours"]_vars
=============================================================================
