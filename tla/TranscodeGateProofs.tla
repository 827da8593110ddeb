------------------------- MODULE TranscodeGateProofs -------------------------
(***************************************************************************)
(* What holds of the admission gate, the limiter with its sampler and its  *)
(* probe, for every load, threshold and smoothing window: it is a limiter  *)
(* as SlotLimiter describes one, so that everything proved of SlotLimiter  *)
(* is true of it, and it never reads a probe it has closed.                *)
(***************************************************************************)
EXTENDS TranscodeGate, SlotLimiterProofs

\* The sampler's variables; the limiter's are typed by TypeOK.  The moving
\* average stays between an idle device and one in use all the time.
SamplerTypeOK ==
  /\ load \in Loads
  /\ loop \in {"sampling", "waiting", "done"}
  /\ first \in BOOLEAN
  /\ value \in 0..Scale
  /\ probe \in {"open", "closed", "none"}
  /\ closing \in {"no", "waiting", "done"}
  /\ ctxDone \in BOOLEAN

\* A failure is final: the loop that could report another reading, or fail a
\* second time, has ended (Sampler.loop returns after markFailed).
FailureIsFinal == failed => loop = "done"

\* ProbeOutlivesLoop is inductive with the types.  FailureIsFinal is what the
\* refinement needs: a limiter's load moves only until its sampler fails.
SamplerInv == SamplerTypeOK /\ FailureIsFinal /\ ProbeOutlivesLoop

USE DEF limiterVars, samplerVars, vars, control

-----------------------------------------------------------------------------
\* A reading is a share of the interval, even when the counters say more.
LEMMA ReadingsAreShares == SamplerTypeOK => Readings \subseteq 0..Scale
  BY GateAssumption DEF SamplerTypeOK, Readings

\* A weighted mean of two shares, rounded down, is a share.
LEMMA MeanOfShares ==
  ASSUME NEW S \in Nat, NEW r \in 0..S, NEW v \in 0..S, NEW w \in Nat \ {0}
  PROVE  (2 * r + (w - 1) * v) \div (w + 1) \in 0..S
<1> DEFINE n == 2 * r + (w - 1) * v
           d == w + 1
<1>1. n \in Nat /\ d \in Nat \ {0}
  <2>1. (w - 1) * v \in Nat
    BY SMT
  <2> QED
    BY <2>1, SMT
<1>2. n <= S * d
  <2>1. (w - 1) * v <= (w - 1) * S
    BY SMT
  <2>2. (w - 1) * S + 2 * S = S * d
    BY SMT
  <2>3. (w - 1) * v \in Int /\ (w - 1) * S \in Int /\ S * d \in Int
    BY SMT
  <2> QED
    BY <2>1, <2>2, <2>3, SMT
<1> HIDE DEF n, d
<1>3. n \div d \in Nat
  BY <1>1, SMT
<1>4. n \div d <= S
  BY <1>1, <1>2, SMT
<1> QED
  BY <1>3, <1>4 DEF n, d

\* What the loop stores stays a share (Sampler.loop).
LEMMA SmoothedIsShare ==
  ASSUME SamplerTypeOK, NEW reading \in 0..Scale
  PROVE  Smoothed(reading) \in 0..Scale
  BY MeanOfShares, GateAssumption DEF SamplerTypeOK, Smoothed

\* The sampler starts before its first reading, with an open probe.
LEMMA GateInitInv == GateInit => SamplerInv
<1> SUFFICES ASSUME GateInit PROVE SamplerInv
  OBVIOUS
<1>1. value \in 0..Scale
  BY GateAssumption DEF GateInit
<1>2. SamplerTypeOK /\ FailureIsFinal
  BY <1>1 DEF GateInit, Init, SamplerTypeOK, FailureIsFinal
<1>3. ProbeOutlivesLoop
  BY DEF GateInit, Init, ProbeOutlivesLoop
<1> QED
  BY <1>2, <1>3 DEF SamplerInv

\* The limiter's own steps leave the sampler alone, and only the sampler
\* closes failedC.
LEMMA LimiterStepKeepsSampler ==
  ASSUME SamplerInv, UNCHANGED samplerVars, UNCHANGED failed
  PROVE  SamplerInv'
  BY DEF SamplerInv, SamplerTypeOK, FailureIsFinal, ProbeOutlivesLoop

\* Every step of the gate keeps the sampler's invariant.
LEMMA GateNextInv == SamplerInv /\ [GateNext]_gateVars => SamplerInv'
<1> SUFFICES ASSUME SamplerInv, [GateNext]_gateVars PROVE SamplerInv'
  OBVIOUS
<1> USE DEF SamplerInv, FailureIsFinal, ProbeOutlivesLoop
<1>1. CASE (\E p \in Permits : PermitStep(p)) /\ UNCHANGED samplerVars
  BY <1>1, LimiterStepKeepsSampler
  DEF PermitStep, Request, ReserveSlot, TryReserveSlot, MarkSlotUsed, ReleaseSlot
<1>2. CASE (WatchFallback \/ Tick) /\ UNCHANGED samplerVars
  BY <1>2, LimiterStepKeepsSampler DEF WatchFallback, Tick
<1>3. ASSUME NEW reading \in Readings, SampleReturns(reading) PROVE SamplerInv'
  <2>1. value' \in 0..Scale
    BY <1>3, ReadingsAreShares, SmoothedIsShare DEF SampleReturns
  <2> QED
    BY <1>3, <2>1 DEF SampleReturns, SamplerTypeOK
<1>4. CASE SampleTimesOut
  BY <1>4 DEF SampleTimesOut, SamplerTypeOK
<1>5. CASE SampleFails
  BY <1>5 DEF SampleFails, SamplerTypeOK
<1>6. CASE LoopTurns
  BY <1>6 DEF LoopTurns, SamplerTypeOK
<1>7. CASE Shutdown
  <2>1. CASE (StopWorker \/ Close) /\ UNCHANGED samplerVars
    BY <2>1, LimiterStepKeepsSampler DEF StopWorker, Close
  <2>2. CASE CloseSampler
    BY <2>2 DEF CloseSampler, SamplerTypeOK
  <2>3. CASE CloseProbe
    BY <2>3 DEF CloseProbe, SamplerTypeOK
  <2> QED
    BY <1>7, <2>1, <2>2, <2>3 DEF Shutdown
<1>8. CASE CancelContext
  BY <1>8 DEF CancelContext, SamplerTypeOK
<1>9. CASE DeviceLoad
  BY <1>9 DEF DeviceLoad, SamplerTypeOK
<1>10. CASE UNCHANGED gateVars
  BY <1>10, LimiterStepKeepsSampler DEF gateVars
<1> QED
  BY <1>1, <1>2, <1>3, <1>4, <1>5, <1>6, <1>7, <1>8, <1>9, <1>10
  DEF GateNext, SampleEnds

\* The invariant of the sampler holds in every reachable state (Sampler.run, Sampler.fail,
\* Close).
THEOREM GateInvariance == GateSpec => []SamplerInv
  BY GateInitInv, GateNextInv, PTL DEF GateSpec

\* The probe's descriptors are not read once they were closed, however the
\* sample, the timeouts and the shutdown interleave (Sampler.Close).
THEOREM ProbeSafe == GateSpec => []ProbeOutlivesLoop
<1>1. SamplerInv => ProbeOutlivesLoop
  BY DEF SamplerInv
<1> QED
  BY <1>1, GateInvariance, PTL

-----------------------------------------------------------------------------
\* Every step of the gate is a step of the limiter, or none: a reading is a
\* LoadChanges when it crosses the threshold, an error a SamplerFails.
LEMMA GateStepRefines ==
  ASSUME TypeOK, SamplerInv, [GateNext]_gateVars
  PROVE  [Next]_vars
<1> USE DEF SamplerInv
<1>1. CASE (\E p \in Permits : PermitStep(p)) /\ UNCHANGED samplerVars
  BY <1>1 DEF Next
<1>2. CASE (WatchFallback \/ Tick) /\ UNCHANGED samplerVars
  BY <1>2 DEF Next
<1>3. ASSUME NEW reading \in Readings, SampleReturns(reading) PROVE [Next]_vars
  <2>1. ~ failed
    BY <1>3 DEF SampleReturns, FailureIsFinal
  <2>2. busy' = busy \/ busy' = ~ busy
    <3>1. busy' \in BOOLEAN
      BY <1>3 DEF SampleReturns
    <3> QED
      BY <3>1 DEF TypeOK
  <2>3. CASE busy' = ~ busy
    BY <1>3, <2>1, <2>3 DEF SampleReturns, LoadChanges, Next
  <2>4. CASE busy' = busy
    BY <1>3, <2>4 DEF SampleReturns
  <2> QED
    BY <2>2, <2>3, <2>4
<1>4. CASE SampleFails
  <2>1. ~ failed
    BY <1>4 DEF SampleFails, FailureIsFinal
  <2>2. CASE Cancelled
    BY <1>4, <2>1, <2>2 DEF SampleFails, TypeOK
  <2>3. CASE ~ Cancelled
    BY <1>4, <2>1, <2>3 DEF SampleFails, SamplerFails, Next
  <2> QED
    BY <2>2, <2>3
<1>5. CASE Shutdown
  BY <1>5 DEF Shutdown, CloseSampler, CloseProbe, Next
<1>6. CASE SampleTimesOut \/ LoopTurns \/ CancelContext \/ DeviceLoad \/ UNCHANGED gateVars
  BY <1>6 DEF SampleTimesOut, LoopTurns, CancelContext, DeviceLoad, gateVars
<1> QED
  BY <1>1, <1>2, <1>3, <1>4, <1>5, <1>6 DEF GateNext, SampleEnds

\* The gate is a limiter: what SlotLimiter assumes of a sampler, that its
\* load moves until it fails and that a failure is final, the sampling loop
\* with its smoothing, timeouts and shutdown provides.
THEOREM GateImplementsLimiter == GateSpec => ImplementsSlotLimiter
<1>1. GateInit => Init /\ IInv
  BY InitIInv DEF GateInit
<1>2. IInv /\ SamplerInv /\ [GateNext]_gateVars => [Next]_vars
  BY GateStepRefines DEF IInv
<1>3. IInv /\ [Next]_vars => IInv'
  BY NextIInv
<1> QED
  BY <1>1, <1>2, <1>3, GateInvariance, PTL DEF GateSpec, ImplementsSlotLimiter, Spec

\* So the count is exact and the cap overshot by no more than Limit allows
\* with the real sampler too, and the gate is a semaphore.
THEOREM GateBoundsPermits == GateSpec => [](CountIsExact /\ OvershootBound)
  BY GateImplementsLimiter, CountExact, OvershootBounded, PTL DEF ImplementsSlotLimiter

\* The limiter with the sampler that feeds it still is a semaphore of Limit slots (Limiter
\* over Sampler).
THEOREM GateImplementsSemaphore == GateSpec => Sem!Spec
  BY GateImplementsLimiter, Refinement, PTL DEF ImplementsSlotLimiter
=============================================================================
