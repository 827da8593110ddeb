---------------------------- MODULE TranscodeGate ----------------------------
(***************************************************************************)
(* The admission gate of a transcode worker (startTranscodeLimiter in      *)
(* cmd/worker/main.go): the slot limiter together with the load sampler    *)
(* (pkg/loadprobe/sampler.go) and the probe (cgroup_linux.go,              *)
(* intel_linux.go) that it reads.  SlotLimiter lets the load and the       *)
(* failure of the sampler change at will; here they come from the sampling *)
(* loop, its smoothing, its timeouts and its shutdown.                     *)
(*                                                                         *)
(* Readings are integers: Scale stands for 1.0.                            *)
(***************************************************************************)
EXTENDS SlotLimiter, Integers

CONSTANTS
  Scale,            \* the reading of a device in use all the time
  Loads,            \* what the counters say over one interval; may top Scale
  Threshold,        \* Config.GPUThreshold
  SmoothingWindow   \* SamplerConfig.SmoothingWindow

ASSUME GateAssumption ==
  /\ Scale \in Nat \ {0}
  /\ Loads \subseteq Nat
  /\ 0 \in Loads
  /\ Threshold \in 1..Scale
  /\ SmoothingWindow \in Nat \ {0}

VARIABLES
  load,      \* the utilisation of the device
  loop,      \* Sampler.loop: "sampling", "waiting" for its ticker, or "done"
  first,     \* is the next reading the first, of the loop and of its probe?
  value,     \* Sampler.value
  probe,     \* "open", "closed", or "none" when it could not be built
  closing,   \* Sampler.Close: "no", "waiting" for the loop, or "done"
  ctxDone    \* is the context of run() cancelled?

samplerVars == <<load, loop, first, value, probe, closing, ctxDone>>
gateVars == <<vars, samplerVars>>
limiterVars == <<slot, inFlight, marked, sinceAdmit, fallback, closed, stopping>>

-----------------------------------------------------------------------------
\* Sample of both probes: the change of the counters since the last sample,
\* never more than all of the interval; the first sample only reads them.  A
\* counter that went back, or an interval too short, counts as idle.
Readings == IF first THEN {0} ELSE {0, IF load > Scale THEN Scale ELSE load}

\* The moving average the loop stores, alpha = 2 / (SmoothingWindow + 1).
Smoothed(reading) ==
  IF first THEN reading
  ELSE (2 * reading + (SmoothingWindow - 1) * value) \div (SmoothingWindow + 1)

\* The loop's context: cancelled by Close, or with its parent.
Cancelled == ctxDone \/ closing # "no"

SampleReturns(reading) ==
  /\ loop = "sampling"
  /\ value' = Smoothed(reading)
  /\ busy' = (value' >= Threshold)
  /\ first' = FALSE
  /\ loop' = "waiting"
  /\ UNCHANGED <<limiterVars, failed, load, probe, closing, ctxDone>>

SampleTimesOut_Quits ==
  /\ loop = "sampling"
  /\ loop' = "done"
  /\ UNCHANGED <<limiterVars, busy, failed, load, first, value, probe,
                 closing, ctxDone>>

\* The sampling interval ran out: the round is skipped and the old value kept.
SampleTimesOut ==
  /\ loop = "sampling"
  /\ loop' = IF Cancelled THEN "done" ELSE "waiting"
  /\ UNCHANGED <<limiterVars, busy, failed, load, first, value, probe,
                 closing, ctxDone>>

SampleFails_Continues ==
  /\ loop = "sampling"
  /\ failed' = (failed \/ ~ Cancelled)
  /\ loop' = IF Cancelled THEN "done" ELSE "waiting"
  /\ UNCHANGED <<limiterVars, busy, load, first, value, probe, closing,
                 ctxDone>>

\* Any other error is a failure of the sampler, unless it is being stopped;
\* the loop ends either way.
SampleFails ==
  /\ loop = "sampling"
  /\ failed' = (failed \/ ~ Cancelled)
  /\ loop' = "done"
  /\ UNCHANGED <<limiterVars, busy, load, first, value, probe, closing,
                 ctxDone>>

\* The wait between two samples; select takes either case when both are ready.
LoopTurns ==
  /\ loop = "waiting"
  /\ loop' \in {"sampling"} \cup (IF Cancelled THEN {"done"} ELSE {})
  /\ UNCHANGED <<limiterVars, busy, failed, load, first, value, probe,
                 closing, ctxDone>>

-----------------------------------------------------------------------------
\* Shutdown: transcodeLimiterRuntime.stop closes the limiter, then the
\* sampler, whose Close cancels the loop, waits for it, and closes the probe.

CloseSampler ==
  /\ closed
  /\ closing = "no"
  /\ closing' = "waiting"
  /\ UNCHANGED <<limiterVars, busy, failed, load, loop, first, value, probe, ctxDone>>

CloseProbe_AtOnce ==
  /\ closing = "waiting"
  /\ closing' = "done"
  /\ probe' = IF probe = "open" THEN "closed" ELSE probe
  /\ UNCHANGED <<limiterVars, busy, failed, load, loop, first, value,
                 ctxDone>>

CloseProbe ==
  /\ closing = "waiting"
  /\ loop = "done"
  /\ closing' = "done"
  /\ probe' = IF probe = "open" THEN "closed" ELSE probe
  /\ UNCHANGED <<limiterVars, busy, failed, load, loop, first, value,
                 ctxDone>>

\* SIGTERM, or the idle exit.
CancelContext ==
  /\ ~ ctxDone
  /\ ctxDone' = TRUE
  /\ UNCHANGED <<limiterVars, busy, failed, load, loop, first, value, probe, closing>>

DeviceLoad ==
  /\ load' \in Loads \ {load}
  /\ UNCHANGED <<limiterVars, busy, failed, loop, first, value, probe,
                 closing, ctxDone>>

-----------------------------------------------------------------------------
\* A probe that cannot be built makes a sampler that has failed and whose
\* loop never ran (loadprobe.Failed); any other one is started at once.
GateInit ==
  /\ Init
  /\ busy = FALSE
  /\ load \in Loads
  /\ loop = IF failed THEN "done" ELSE "sampling"
  /\ first = TRUE
  /\ value = 0
  /\ probe = IF failed THEN "none" ELSE "open"
  /\ closing = "no"
  /\ ctxDone = FALSE

\* run() stops its workers and only then, by its deferred calls, the gate.
Shutdown ==
  \/ StopWorker /\ UNCHANGED samplerVars
  \/ stopping /\ Close /\ UNCHANGED samplerVars
  \/ CloseSampler \/ CloseProbe

SampleEnds ==
  (\E reading \in Readings : SampleReturns(reading)) \/ SampleTimesOut \/ SampleFails

GateNext ==
  \/ (\E p \in Permits : PermitStep(p)) /\ UNCHANGED samplerVars
  \/ (WatchFallback \/ Tick) /\ UNCHANGED samplerVars
  \/ SampleEnds \/ LoopTurns
  \/ Shutdown \/ CancelContext \/ DeviceLoad

GateSpec == GateInit /\ [][GateNext]_gateVars

\* As for SlotLimiter; the sampling loop is a goroutine whose calls end with
\* their interval, and run() shuts down once its context is cancelled or its
\* workers stop.
GateFairness ==
  /\ Fairness
  /\ WF_gateVars(SampleEnds)
  /\ WF_gateVars(LoopTurns)
  /\ WF_gateVars((ctxDone \/ stopping) /\ Shutdown)

FairGateSpec == GateSpec /\ GateFairness

-----------------------------------------------------------------------------
\* The probe's descriptors are not read after they were closed: Close waits
\* for the loop, even when the interval's sample is still under way (Close).
ProbeOutlivesLoop ==
  /\ probe = "closed" => loop = "done"
  /\ closing = "done" => loop = "done"

\* What the limiter sees is what SlotLimiter assumes of a sampler: readings
\* that move until it fails, and a failure that is final, its last reading
\* kept; a loop that was only told to stop does not fail (loop, markFailed).
ImplementsSlotLimiter == Spec

\* The premise of GateOpens: a probe that is asked for ever answers for ever.
ProbeAnswers ==
  []<>(loop = "sampling") =>
    []<><<\E reading \in Readings : SampleReturns(reading)>>_gateVars

\* When the device's load stays under the threshold and the probe answers, or
\* the sampler failed, a worker below its cap is not kept without a permit
\* for ever: a high reading dies out, timeouts do not end the loop, and
\* neither the cooldown nor the switch to fallback blocks for good (loop,
\* admissionState, watchFallback).
GateOpens ==
  (<>[](load < Threshold) /\ ProbeAnswers) \/ <>failed
    => []<>(Reserved # {} \/ inFlight >= StaticCap \/ closed \/ stopping)
=============================================================================
