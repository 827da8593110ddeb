----------------------------- MODULE Timestamps -----------------------------
(***************************************************************************)
(* The arithmetic of packet timestamps in pkg/ffmpeg: rescaling between    *)
(* timebases, the rebase of an input onto a zero-based timeline, and the   *)
(* repair every outgoing packet goes through before the muxer sees it.     *)
(*                                                                         *)
(* A timebase is the number of AV_TIME_BASE units of one tick.             *)
(***************************************************************************)
EXTENDS Integers

CONSTANT NoPts                      \* astiav.NoPtsValue

ASSUME NoPtsAssumption == NoPts \notin Int

Timestamp == Int \cup {NoPts}

(* av_rescale_q: to the nearest tick, halves away from zero. *)
RescaleQ(t, from, to) ==
  LET Near(n) == (2 * n * from + to) \div (2 * to)
  IN IF t >= 0 THEN Near(t) ELSE -Near(-t)

(* RescaleTs leaves a missing timestamp missing. *)
RescaleTs(t, from, to) == IF t = NoPts THEN NoPts ELSE RescaleQ(t, from, to)

(* What a container that starts at startTime is shifted by. *)
RebaseOffset(startTime) == IF startTime = NoPts THEN 0 ELSE -startTime

(* The offset is taken for ticks of the stream.                            *)
Rebased_Unscaled(t, startTime, base) ==
  IF t = NoPts THEN NoPts ELSE t + RebaseOffset(startTime)

(* A timestamp of a stream, moved onto the timeline that starts at zero. *)
Rebased(t, startTime, base) ==
  IF t = NoPts THEN NoPts ELSE t + RescaleQ(RebaseOffset(startTime), 1, base)

(* A DTS equal to the last one passes.                                     *)
ClampedDts_Equal(last, dts, pts) ==
  IF dts = NoPts
    THEN IF last # NoPts THEN last + 1 ELSE pts
    ELSE IF last # NoPts /\ dts < last THEN last + 1 ELSE dts

(* The repair: the DTS of a packet, given the last one written on its track. *)
ClampedDts(last, dts, pts) ==
  IF dts = NoPts
    THEN IF last # NoPts THEN last + 1 ELSE pts
    ELSE IF last # NoPts /\ dts <= last THEN last + 1 ELSE dts

ClampedPts(newDts, pts) ==
  IF newDts # NoPts /\ pts # NoPts /\ pts < newDts THEN newDts ELSE pts

MonotonicDtsClamp(last, dts, pts) ==
  LET newDts == ClampedDts(last, dts, pts)
  IN [dts |-> newDts, pts |-> ClampedPts(newDts, pts)]

=============================================================================
