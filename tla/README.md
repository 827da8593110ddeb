# media-processor: models, checks and proofs

media-processor watches directories for finished downloads, transcodes each file on a Temporal worker, has
Sonarr or Radarr import the result, and retires the source. This directory holds TLA+ models of it, the TLC
configurations that check them and the proofs TLAPS checks. Everything is written from the Go source; paths
below are relative to the repository. `PROJECT.json` maps each definition to its lines.

    tlc -workers 2 -config <run>.cfg <MC module>     # one run
    tlapm <module>Proofs.tla                         # the proofs

## 1. The system

| component | state it keeps | operations | talks to |
|---|---|---|---|
| watcher (`cmd/watcher`) | none on disk of its own: reads the watch and the `.NAME.done` sentinels | walk, check sentinel, dispatch | Temporal (`ExecuteWorkflow`) |
| media workflow (`workflows/media/workflow.go`) | one run per file in Temporal | probe, crop, transcode, notify, cleanup; failure webhook on error | activities, by task queue |
| media activities (`workflows/media`) | files: source, sentinel, mirrored output directory, temp file, finished file | one per workflow step | file system, ffmpeg, arr clients, webhook |
| arr clients (`pkg/medialib`) | none | find queue entry, post scan command, poll it, look up item, history and file size | Sonarr / Radarr |
| transcode limiter (`pkg/transcodelimiter`) | in-flight count, marked permits, last admission, fallback | reserve, mark, release, close | Temporal SDK, sampler |
| load sampler (`pkg/loadprobe`) | smoothed load, failed flag | start, sample, fail, close | limiter, i915 / cgroup probes |
| worker process (`cmd/worker`) | Temporal workers, idle tracker, idle poller | start in order, drain in reverse, idle exit, final scrape | Temporal SDK, limiter, metrics |
| metrics (`pkg/metrics`) | registry, one-place scrape notification | serve, wait for a scrape | Prometheus |
| ffmpeg (`pkg/ffmpeg`) | decoders, encoders, per-stream timestamps, muxer | packet loop, timestamp repair, flush, crop detection | libav |
| stream selection (`language.go`, `audio_title.go`) | none | choose and name streams | transcode activity |
| ffprobe, health, temporal client, webhook, logging, configuration | none worth modelling | | |

What is hard in it:

* **Concurrency.** Watcher replicas, one run per file, several workers, and the arr service share one
  file tree without locks. The only mutual exclusion is Temporal's "one open run per workflow ID".
* **Stale decisions.** The walk lists a directory and visits the entries later; the sentinel is checked before
  the dispatch; a permit is admitted before it is counted; idleness is measured before the drain starts.
* **Failure.** Attempts time out while they still run; a worker dies between any two file operations; retries
  meet what earlier attempts did; a scan misses a file because of an NFS cache; an answer says nothing of what was done.
* **Deletion.** The pipeline deletes its input. Everything else may be repeated; that may not.

What makes each part correct:

* pipeline: a source leaves the watch only when it was junk or its library item is settled, or presumed to be for one of three
  reasons (section 2); outputs are whole and come from their own source; no output is stranded; every run ends and every file is retired;
* limiter: the count is exact, the overshoot is bounded, waiters wake;
* worker: a polled task is lost only to `WorkerStopTimeout`; the idle window counts from the last end; shutdown
  always completes; a notification that lies in the channel when the wait begins does not end it;
* load sampler: the probe outlives its reader, failure is final, a gate closed by the load opens again;
* ffmpeg: timestamps reach the muxer strictly increasing, a success has all of its input, copied streams stay in
  sync; the tracks keep the picture, play in stereo and are refused by the container only where they were copied unseen; frames fit
  the encoder wherever the decoder gives the format it was set up for, or says in time that it will not;
* crop detection: a crop cuts nothing that was not black, and no early exit decides on the opening alone;
* arr clients: nothing is deleted that the library still wants, a success is an import, but for answers that say nothing; a retry is useful.

## 2. The modules

### MediaActivities, MediaWorkflow, MediaPipeline

One state machine in three layers. `MediaActivities` has the files and the activities, `MediaWorkflow` adds the workflow
body and Temporal's retry, conflict and reuse policies, `MediaPipeline` adds watchers, arrivals and faults and
states the properties.

| variable | in the code |
|---|---|
| `source`, `sentinel` | the source file and `.NAME.done` |
| `outDir`, `temp`, `final` | mirrored output directory, `._STEM.mkv.tmp`, `STEM.mkv` |
| `dest` | `TranscodeOutput` of the run: its size stands for its content |
| `lib`, `scan` | the arr item, with the file it imported; the posted scan command and how it ended ("vague": completed, no result) |
| `doubt` | history: the reasons for which Notify answered without knowing what the library did |
| `pc` | how far each activity attempt got |
| `step`, `skipped`, `tries`, `outcome` | the activity a run waits for, `NotifyOutput.ImportSkipped`, failed attempts, how the last run closed |
| `listing`, `checked` | the rest of a watcher's walk; the file it is about to dispatch |
| `faults` | bound on faults (see below) |

An activity is split where another process can step in between: `ProbeRead` / `ProbeRemove`;
`TranscodePrepare` (stat, mkdir, reuse) / `TranscodeOpen` (ffmpeg opens) / `TranscodeRename` / `TranscodeStat`; `NotifyPost` /
`NotifyResolve`; `CleanupOutput` / `CleanupSource` / `CleanupPrune`. `AttemptError` ends an attempt at any of these points,
which covers a crash, a failed call and a timeout of an attempt that is really over. `Abandon` is the
other kind of timeout: Temporal gives up and the transcode goes on as process `<<f, "abandoned">>`.

`MediaLedger` is what all this promises, without runs, attempts, scans or faults: files arrive, outputs are offered, items are
settled by the library, and only then is an output discarded, a file deleted, or marked if it is preserved. The pipeline implements it
(`KeepsLedger`) with `arrived` and `deleted` read off `source`, `offered` off `final`, `settled` off `lib`, and `marked` = `sentinel`. `NoLoss` is its
consequence for the sources alone.

The clients give an item up in three cases without knowing what became of it, and then Cleanup retires the source all the same: a post
answered without a command id (`arrcommand.go:93`), a command that completed with no result (`arrcommand.go:70`, `:116`), and a lookup after a
scan that imported nothing which finds no item because the name tells nothing (`radarr/client.go:207`, `sonarr/client.go:192`). The models have all
three (`NotifyPost`, `NotifyResolve`, `NotifyVerdict`; `PostScan`, `WaitScan`, `CheckWanted`), remember them as `doubt` and `past`, and the ledger has an
entry for them, `Presume`: what is only presumed settled may be discarded and retired too. The properties name them as their only exceptions. `Unnamed`
is the set of files by whose name the client finds no item; the service itself may know them.

The arr service (`ArrScan`, `ArrAutoImport`, `ArrRefuses`) is external: it imports a file by moving or
copying it, on command or on its own; it may miss a file, or end a command without saying how; a user may drop the item, and a better release
may arrive.

### SlotLimiter, Semaphore

`SlotLimiter` is `limiter.go`, one action per critical section, driven by the SDK's calls in any legal order.
`slot` is the SDK's side (`waiting` is a blocked `ReserveSlot`, `reserved` a permit not yet marked); the others are
the limiter's fields. `Semaphore` is what a slot supplier promises: a bounded number of permits out at a time. The limiter
implements it with `out` = permits reserved or used and `Limit = StaticCap + MaxUnmarked - 1`. `MaxUnmarked` is the
number of requests and unmarked permits the SDK has at a time, its number of pollers (two by default).

### TranscodeGate (extends SlotLimiter)

The limiter with what `startTranscodeLimiter` puts around it. `SlotLimiter` lets load and failure change at will; here they come
from `Sampler.loop`: `SampleReturns`, `SampleTimesOut` and `SampleFails` are the three answers of a probe, `LoopTurns` its ticker,
`Smoothed` the moving average in integers (`Scale` is 1.0). `GateInit` starts with a probe or, when none can be
built, with a sampler that has failed; the first reading is zero, as both probes give. The shutdown is the order of `transcodeLimiterRuntime.stop`: workers,
limiter, sampler (`CloseSampler` cancels, `CloseProbe` waits for the loop, then closes). `ImplementsSlotLimiter` says that
the composition is a behaviour of `SlotLimiter`, so what is proved of that module is true of the composition.

### WorkerLifecycle

One worker process: `main` is how far `run` got, `worker` the Temporal workers, `inFlight` and `elapsed` the idle
tracker, `poller` the idle poller, `token` the `scrapeNotify` channel and `gate` how `WaitForScrape` ended. `Evaluate` and
`CancelRun` are two steps because the snapshot is atomic and the decision is not; `Gather` and `NotifyScrape` are two
steps because the handler serves before it notifies. Two histories are only observed: `quiet` (ticks without a task in
execution) and the kind of a token (`old`, `stale`, `fresh`). A "task" of the workflow worker is a run held in its cache.

### Timestamps, TranscodeRun

`Timestamps` has `timestampRebase` and `monotonicDtsClamp` as operators on integers or `NoPts`. `TranscodeRun` is one `Transcoder.Run`
after the streams are known: `ReadFrame` takes a packet, `Targets` are the track of its stream and the downmix, and each kind of
track has its actions. A copied packet is rebased, checked for ADTS framing and muxed (`CopyPacket`); a subtitle is
converted or skipped; a video or audio frame goes through decoder, resampler, FIFO and encoder, whose contents are `dec`,
`delay`, `fifo` and `enc`. `pulling` is the part of a track that is being emptied, in a packet as in the flush (`FlushDecoder`,
`DecoderDrained`, `FlushResampler`, `EncodeTail`, `EncoderDrained`). The tracks flush in any order, as Go's map of streams does, the downmix last.
`Fail` ends the run at any call of libav, `Cancel` and `Interrupt` are the context and the goroutine that watches it.
Histories: `fed`, `written`, `lost` (the samples that go with a rebuilt resampler), `shift` (how far the last packet moved).

### VideoPlan, TranscodeSetup

`VideoPlan` is the setup of a re-encoded video: a plan is a record (decoder, crop filter, encoder, pixel formats, frame pool,
scaler, upload), and each phase maps a plan to the set of plans it may end in, one per answer of the machine. `EncodeVideoFrame`
follows a frame through the plan and is "bad" where two parts do not fit. `TranscodeSetup` does the rest of the setup for one
job (input streams, container, crop, cover art, machine): the choices of `RunTranscode` as operators
(`NonEnglishAudioIndices`, `DownmixSourceIndex`, `DefaultStream`, ...), then `buildStreamStates` (`SkipStream`, `BuildStream`) and
`setupOutputContext` (`OutputStream`, `NextStream`, `FinishOutput`) stream by stream, and the header. A track keeps its `origin` (a
stream, the downmix, the cover), because a source track may be AC3 as the downmix is. What Matroska takes (`MuxerAccepts`) is external: `Tagless`
is any set of codecs its muxer has no tag for, without those the transcoder writes (`TaglessAssumption`) and the video of a file that is Matroska
already (`JobsAssumption`). The code asks for the tag of a subtitle only; audio is copied whatever it is.

### CropDetection

`RunDetectCrop` and `runCropdetectLoop`. A frame is the set of its parts that are not black. `ReadPacket`, `ReceiveFrame`,
`NeedPacket` and `EndOfFile` are the branches of the decode loop; `SendToFilter` says which frames are measured (in the
first phase its head and every `SampleInterval`th frame; in the second, where only keyframes are decoded, all); `Converged` is the early exit; `Finish` applies the
thresholds. The box libavfilter reports (`Box`, over all it has seen) is external.

### ArrImport

One finished transcode and the attempts to import it: `Lookup`, `ReadPage`, `PostScan`, `WaitScan`, `CheckWanted`, `CheckRejected`, `CheckSize` are the
calls of `ImportByFilePath` in order, for both clients (`item.service`), then `Cleanup` and `RemoveSource`. It looks inside what
`NotifyPost` and `NotifyVerdict` of `MediaActivities` take as two steps. The service runs each posted scan when it likes,
also after the attempt was given up (`AttemptLost`), imports on its own (`AutoImport`), moves its queue between two pages and changes
its library. An item says which of the file's names can be parsed and whether the service knows the file whatever they say (`Known`). `past`
remembers what the library did with the item and which answers said nothing, `during` what disturbed the current attempt. `KeepsLedger` says
that this detailed import, too, makes only entries of `MediaLedger`, which is what ties it to the one-step verdict of `MediaActivities`.

## 3. The runs

| run | instance | shows |
|---|---|---|
| `pipeline` | 2 sources and 2 outputs in one directory, one source preserved and unnamed, no crop detection, 1 watcher, 1 fault | `TypeOK`, `FilesHaveDir`, `OutputWhole`, `NoStrandedOutput`, and the refinement `KeepsLedger` of `MediaLedger`; 1.6 M states |
| `pipeline_live` | 1 source, 2 watchers, 3 faults, abandoned transcodes | `NoLoss`, `RunsEnd`, `EveryFileRetired`; 0.35 M states |
| `pipeline_invalid` | 2 files that are no media, one preserved, 2 faults | `EveryFileRetired`: the one is deleted, the preserved one marked and still there; 0.1 M states |
| `limiter` | limiter, sampler and probe; 4 requests, cap 2, cooldown 1, 2 pollers, loads 0 and 5 of 4, threshold 3, window 3 | exact count, refinement of `Semaphore` and of `SlotLimiter`, probe closed last, waking, the gate opens; 0.14 M states |
| `worker` | 2 workers, 2 tasks, idle window 2 | drain, idle window, old scrapes, shutdown, idle exit |
| `transcode` | 2 copied streams (one bare AAC), 1 subtitle, 1 video, 1 downmix, 1 dropped stream; 3 packets, 1 frame held per codec | whole output, whole downmix, sync of the copies, increasing DTS; 4.6 M states |
| `setup` | all jobs of `MCJobs`: 9 pictures with up to 2 audio or subtitle streams, both containers, crop, art, every machine under `HWAccelAuto` | the tracks and the plan; 0.27 M states |
| `crop` | up to 13 packets, frames black, letterboxed, off centre or full width | crops and early exit; 1.3 M states |
| `arr` | a sonarr file name and a radarr folder name the lookup understands, a sonarr folder name only the service does, a radarr file nobody knows; 3 attempts, pages of 1, queue of 3, 2 faults, 2 changes in the service | imports; each step an entry in the ledger; 2.0 M states |
| `pipeline_probe_error`, `pipeline_shared_stem`, `arr_unnamed` | small | each refutes one sentence of the documentation, see 4 |

Bounds and why they are enough:

* Two sources with a common directory are what pruning, sharing of names and the arr service's directory imports
  need; a third adds no new pair. Two watchers give the race of two walks; with one, a walk still races the runs.
* A fault is a crash, a failed call, a missed scan or an answer that says nothing. Two files with one fault (`pipeline`) show a fault of one meeting the
  undisturbed other; one file with three (`pipeline_live`) shows faults in the recovery from others, so a run that fails for good, a lost answer
  and an abandoned transcode in one behaviour. Faults are the only bounded thing there; runs, walks and retries are not counted.
* `NotifyAttempts = CleanupAttempts = 2` instead of 15 and 3: a first and a last attempt. The proofs hold for every value.
* Four permits and a cap of two let the cap be overshot and a further request wait. Loads of 0 and 5 with a scale of 4 are an idle
  device and one whose counter tops the interval; threshold and window are such that the gate closes
  at the second high reading in a row and opens again at a low one.
* Three packets let a stream have a first, a clamped and a following packet, or three tracks one each. Timestamps are missing, equal,
  before the start time and after; timebases differ, so that distinct timestamps meet after rescaling. One frame
  held per codec between two packets is enough to be lost in a flush that forgets it.
* `KeyframeSwitchCount = 6`, `SampleInterval = 4`, `StabilityThreshold = 3` keep the order of the code's values: 13 packets pass
  the first phase and reach a converged run of readings.
* Three attempts are a first, a retry and a last one; a page of one record makes every step of the queue fall between two pages.
* Two tasks on two workers: one can be executed, polled or ended while the other worker drains.

Deadlock is checked but in `limiter`, `worker` and `arr`: a stopped limiter, an exited process and a finished import stop for good. The
pipeline never ends, and the other models state their end as a stuttering step (`Done`) and must reach it.

Fairness, where a liveness property needs it:

* `MediaPipeline`: `WF(Walk(w))`, because the scan loop runs on a ticker, and `WF(RunStep(f))`, because workers poll every queue, activities
  have timeouts and the arr service works off its command queue. Faults, arrivals and library changes carry none.
* `TranscodeGate`: the clock, `watchFallback`, the loop of `ReserveSlot` and the pollers of a running worker; the sampling loop,
  because every sample is bounded by its interval and the loop is a goroutine with a ticker; the shutdown once the context
  is done or the workers stop. No task must end and no load drop: `GateOpens` is conditional on the load staying under the threshold with a probe
  that answers again and again (`ProbeAnswers`), or on the sampler having failed.
* `WorkerLifecycle`: `run` with its timeouts, the clock, the poller, and `Stop` of a worker, which ends by `WorkerStopTimeout` at the latest. No
  task must end and nobody must scrape.

Each property of a passing run has a mutant in `PROJECT.json`: a changed definition next to the original
(`Dispatch_Once`, `FlushDecoder_EncoderOnly`, ...) under which the same run reports a violation.

## 4. Where the code and its documentation disagree

* `pipeline_probe_error`: any error but a context error counts as "not a media file", so an I/O error while probing a
  good file deletes it. `NoLoss` and `KeepsLedger` are checked and proved for probes that do not fail this way (`ProbeIOErrors = FALSE`).
* `pipeline_shared_stem`: two sources with the same stem share an output name, and the second reuses the output of the first.
* `arr_unnamed`: the clients take "the file name identifies nothing" for "no longer in the library". An episode that the service knows by the name of
  its folder, while its file name is a hash, and one scan that missed the file, and Notify reports a skip instead of a retry that would have
  imported it; Cleanup deletes output and source although the episode is wanted. The radarr client tries the folder's name too, the sonarr
  client does not. For names the client can parse `NothingLost` is proved; `KeepsLedger` holds of all of them and has this case as a presumption.

Others that the models show or that were met on the way, without a run of their own:

* A run that writes its sentinel between a walk's check and its dispatch (`watcher.go:467`) is dispatched again, although `cleanup.go:12`
  says the sentinel prevents that. The second run repeats work and does no harm (`NoLoss`, `EveryFileRetired`).
* `limiter.go:44` calls `StaticCap` the maximum in flight and `limiter.go:51` the cooldown a minimum between marks; both are checked when a
  permit is reserved, so permits reserved together pass both. `OvershootBounded` says by how much; with one poller the cap is hard.
* `metrics.go:92`, `:144` and `:164` promise that only a fresh scrape, served after the drain, satisfies the wait. A scrape that gathered before the
  drain and notifies after `WaitForScrape` emptied the channel ends it: `gate = "stale"` is a state of run `worker`. What holds, and is proved, is
  that a notification already in the channel does not (`OldScrapeIgnored`).
* `stream_video.go:140` and `:236` promise a silent fallback when the decoder does not offer the hardware format. A decoder that picks its
  format at the first frame, as `stream_video.go:177` says they do, rewrites `hwPixFmt` after the encoder was set up from it, and its frames do not
  fit. With a crop the same holds of one that decides when it is opened, because the crop graph is built for the format asked for.
  `PlanConsistent`, checked and proved for every machine, names this (`ExpectsHW`) as the only way in which a plan does not fit.
* `sampler.go:187`: a stalled probe "cannot hang Close" only when it honours its context; the model assumes it does.
* `flushAllEncoders` looks at the context only when a flush fails: a run cancelled in its flush may still succeed.
* Probe and crop detection take the first stream of type video, an attached cover included (`cropdetect.go:75`); the film may be cropped by a
  cover's box, or judged by the cover's codec.
* An audio codec that Matroska has no tag for is copied all the same (`transcode.go:577`, `:610` asks for subtitles only): the header is refused, at every
  retry. `HeaderAccepted` names it as an exception.
* A first packet with neither dts nor pts leaves `monotonicDtsClamp` without either, as `stream_test.go:113` pins, although `stream.go:304` and `:341` say
  that the muxer never sees a missing DTS. `DtsIncreasing` asks for a DTS only once the track has had one.

## 5. The proofs

Every invariant and every action property of a passing run is stated by a theorem. The proofs assume the named `ASSUME`s of the modules,
which TLC evaluates on the instances, and the hypotheses named below. Each section follows one pattern: an inductive invariant that is
stronger than the property, a lemma that `Init` gives it, one lemma per action or group of actions that keeps it, and a temporal step.

`MediaPipelineProofs`, for every set of files, outputs and watchers, and any fault bound:

* `TypeCorrect`: `Spec => []TypeOK`. The part that is not about types is that `tries` stays below the retry policy's limit.
* `NoSourceLost`: with `ProbeIOErrors = FALSE`, `Spec => []NoLoss`. `NoLoss` is not inductive: when Cleanup deletes a source nothing
  in that state says why it may. `Core` adds `PhaseOK` (which labels an attempt of each activity can have),
  `OnlyArrived` (a run is about a file that arrived) and `Justified` (a run that reached cleanup, or whose scan succeeded or was
  skipped, has a settled item or a doubt of its own, and one that reached the invalid path is about junk or a file that is gone for a good
  reason). `Settled` never becomes false again and `doubt` only grows, which carries the justification from Notify to Cleanup. One lemma per layer
  (`ActivityCore`, `WorkflowCore`, `WatcherCore`, `OutsideCore`), one step per action.
* `OutputsAreWhole` and `FilesKeepDir` (`OutputWhole`, `FilesHaveDir`), when each output has one writer (`OneWriter`: no abandoned
  transcodes, no two sources with the same stem). `Writers` adds that a transcode which writes has its temp file: this keeps the directory from
  being pruned between the opening and the rename, and makes what the rename moves the run's own complete file.
* `NothingStranded` (`NoStrandedOutput`), with `OneWriter` and `ProbeIOErrors = FALSE`; an output may stay behind after an answer without an id or a
  result, and only then. The property speaks of completed runs only;
  `Stories` says of every file, at each step of its run, what the run knows: from crop to notify the source is there, a
  scan seen as imported is imported, a source that is gone had its output delivered. Every step of another file, of a watcher or of the arr
  service leaves a story true (`Kept`), and only the rename makes an output appear (`OnlyRenameWrites`).
* `LedgerKept`: with `ProbeIOErrors = FALSE`, `Spec => KeepsLedger`, also with abandoned transcodes and shared outputs. `Core` justifies what is
  discarded and retired, a new doubt is the entry `Presume`; `MediaKnown` adds that a run past the probe, and an abandoned transcode, is of a media file that arrived. One
  lemma for each kind of entry (`LibraryLedger`, `OutputLedger`, `RetireLedger`, `FrameLedger`), then one step per action (`NextLedger`).

`SlotLimiterProofs`, for every finite set of permits, cap, cooldown and number of pollers:

* `TypeCorrect`, `CountExact`, `OvershootBounded` follow from `IInv = TypeOK /\ CountIsExact /\ UnmarkedBound /\ OvershootBound`. `UnmarkedBound`
  (at most `MaxUnmarked` requests and unmarked permits) is what makes `OvershootBound` inductive: admission needs
  fewer than `StaticCap` marked permits, and the others out are unmarked, the new one among them.
* `SinglePollerKeepsCap`: with `MaxUnmarked = 1`, `Spec => []StaticCapHolds`.
* `Refinement`: `Spec => Sem!Spec`.

`TranscodeGateProofs`, for every load, threshold, smoothing window and scale:

* `ProbeSafe` (`ProbeOutlivesLoop`), from `SamplerInv`: the types, the average between 0 and `Scale`, and `FailureIsFinal`.
* `GateImplementsLimiter`: `GateSpec => ImplementsSlotLimiter`. `GateStepRefines` takes each action of the gate to one of the limiter:
  a reading is a `LoadChanges` when it crosses the threshold and a stutter otherwise. `FailureIsFinal` is needed because the limiter lets the
  load change only until the sampler fails.
* `GateBoundsPermits` and `GateImplementsSemaphore` follow from it and from what is proved of `SlotLimiter`: the two refinements compose.

`WorkerLifecycleProofs`, for every number of workers and tasks and every idle window:

* `TypeCorrect`, `NoTaskLost` (`TasksDrained`), `OldScrapesIgnored` and the action property `IdleWindow` (`IdleWindowHonoured`), from an invariant that
  adds `TrackerOK` (the tracker counts exactly the tasks in execution, and without one its window is no longer than the quiet time),
  `DrainOK` (a held task belongs to a worker that still answers for it, and none does after the drain) and `GateOK` (an
  emptied channel holds no old notification).

`TranscodeRunProofs`, for any tracks, timebases, timestamps, buffer sizes and frame sizes; `RunInv` is kept by each of the actions:

* `SuccessWhole` and `DownmixWhole`: a success says nothing of how it came about, so `FramesKept` and `SamplesKept` balance the books in every
  state: a frame fed to a track is in the decoder, in the encoder or written, a sample is in a frame, the FIFO, the resampler or
  was lost with one, and what was flushed is empty and stays so. `LoopOK` ties the packet in the loop to the tracks that wait for it.
* `CopiesSynced`: each copied packet that was not repaired has moved by the start time up to the rounding of two rescalings
  (`ShiftBounded`, from `DivBounds`); two tracks then differ by at most the two errors.
* `DtsIncreases`: the action property `DtsIncreasing`, for any input; and `RunTypeCorrect`.

`TranscodeSetupProofs`, for any set of jobs within `JobsAssumption` (streams of any number and kind, any machine):

* `PicturesSurvive`, `HeadersAccepted`, `StereoIsPlayable`, `DefaultIsUnique`, from `SetupInv`. The properties speak of the finished list of tracks, so
  `TracksOK` says after every stream which tracks there are: those of the streams kept so far, the downmix and the art, each
  once. `HeadersAccepted` holds for every set of codecs without a tag. What the selection promises (`FirstIsLeast`: a first stream of a kind is the least of them) then carries over to the tracks.
* `PlansAreConsistent` (`PlanConsistent`), with `PipelineJobs`: the transcode activity asks for `HWAccelAuto` (`transcode.go:572`). One lemma per phase
  (`DecoderPlans`, `FilterPlans`, `EncoderPlans`) lists the shapes of the plans it ends in: what feeds the encoder is in the format the plan says
  (`Feeding`), and `PlansFit` follows a frame through it; or the plan awaits frames on the device that the decoder may yet turn down (`Awaiting`), and
  `AwaitingPlans` says that it counts on them to the end.

`CropDetectionProofs`, for every video, threshold and sampling constant:

* `CropIsJustified` and the action property `ConvergenceIsEarned`, from `CropInv`: the reading is the box of all that was seen, and the stable count
  is that of the last readings, all of the second phase (`StableRun`).
* `ShortVideoIsMeasured`, with `Skip < AlwaysIncludeCount`, as in the code (2 and 3, `cropdetect.go:31`): otherwise the filter's warm-up would
  swallow the frames that are always included. `HeadMeasured` is what is added to `CropInv`.

`ArrImportProofs`, for any number of attempts, page size, length of the queue, faults and changes of the service:

* `NothingIsLost`, when every item can be named from its file name or, with radarr, its folder (`arr_unnamed` shows why);
  `LossExplained` keeps the reason, `Remembered` that the history has what the library has.
* `PendingIsFound`: `PendingAhead` says that a pending record is on no page already read, because what enters the queue moves it
  further back; only a record that leaves can move it forward.
* `ImportKeepsLedger` (`KeepsLedger`), for items of any name: a new doubt is the entry `Presume` (`DoubtEntry`), everything else the library's or
  Cleanup's. `Answered` is what the retirement needs: Cleanup follows an answer of Notify.
* `ImportIsReal` (with the two answers that say nothing as its exceptions), `ArrTypeCorrect`, and the action property `RetriesAreUseful` (`RetryIsUseful`): `QuietAttempt` says what an attempt
  nothing disturbed has found out at each of its calls.

Only model-checked:

* `RunsEnd`, `EveryFileRetired`, `StopWakesWaiters`, `GateOpens`, `ShutdownCompletes`, `IdleWorkerExits`: liveness under fairness is beyond TLAPS 1.4.5.
* The pipeline with abandoned transcodes keeps `NoLoss`, the ledger and its types by proof; `OutputWhole`, `FilesHaveDir` and `NoStrandedOutput` are not
  claimed there, because two attempts then write one temp file.

## 6. What is not modelled

* Overlapping attempts of activities other than Transcode: Notify, Cleanup and Probe have no heartbeat, their timeouts
  are long, and their steps are idempotent; an abandoned transcode is the one that keeps writing. `OutputWhole` and `FilesHaveDir` are
  checked without abandoned transcodes.
* Notify's configuration errors, which Temporal does not retry: they end a run like an exhausted retry.
* Source directories above a file and their pruning, ignore patterns, several watches over one tree, path escapes.
* Partially downloaded files: arrivals are atomic, as with a download client that moves finished files into the watch.
* Contents: a file is identified with the source it came from and a flag for two writers at once. Two different
  files of one size are told apart in the model and not by `movieFileSize`.
* `ReserveSlot` returns an error once closed even on a turn that could admit; the model allows both orders.
* `ErrEagain` of encoder and crop filter with frames still inside (`stream_video.go:885`): in the model the crop filter gives one frame per frame.
* The lifetime of C objects: the interrupter that the watch goroutine frees, a half-built stream when its setup fails.
* Progress reports and heartbeats, metadata, encoder quality options, track titles: no decision depends on them.
* The size of gaps in the source audio, which the downmix closes up; `DownmixIsWhole` counts samples.
* Title parsing, poster lookups and HTTP of the arr clients; the service itself is only what the clients can see of it.
* Configuration, logging, health, Temporal connection, artwork, webhook payloads, Helm charts: pure I/O or parsing.

## 7. Plan

Done: the pipeline, the limiter with its sampler, the worker process, the transcoder, crop detection and the arr imports, modelled and
checked; the proofs of their safety and action properties; the refinements of limiter and gate, and of the ledger by pipeline and imports.

1. Overlapping attempts of Notify and Cleanup, which would need their timeouts in the model.
