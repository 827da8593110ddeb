---------------------------- MODULE CropDetection ----------------------------
(***************************************************************************)
(* The DetectCrop step: the decode loop around libavfilter's cropdetect    *)
(* (pkg/ffmpeg/cropdetect.go) and the thresholds that decide whether its   *)
(* answer is applied (workflows/media/detectcrop.go).                      *)
(*                                                                         *)
(* A frame is the set of its parts that are not black: "c" the centre, and *)
(* the margins "l", "r", "t", "b", each one unit wide.  The decoder and    *)
(* the filter are external: the decoder keeps up to Delay frames back; the *)
(* filter passes over its first Skip inputs and then reports, for each     *)
(* frame, the box around all it has seen.                                  *)
(***************************************************************************)
EXTENDS Integers, Sequences

CONSTANTS
  KeyframeSwitchCount, AlwaysIncludeCount, SampleInterval, StabilityThreshold,
  Skip,         \* inputs cropdetect passes over
  Frames,       \* what a frame can show
  Inner,        \* width and height of the centre
  Minima,       \* values of minCropX and minCropY
  Delay, MaxPackets    \* bounds: frames held by the decoder, packets of the file

Sides == {"l", "r", "t", "b"}
ASSUME CropAssumption ==
  /\ {KeyframeSwitchCount, AlwaysIncludeCount, Skip, Delay, MaxPackets} \subseteq Nat
  /\ {SampleInterval, StabilityThreshold, Inner} \subseteq Nat \ {0}
  /\ Frames \subseteq SUBSET (Sides \cup {"c"})
  /\ \A f \in Frames : f # {} => "c" \in f
  /\ Minima \subseteq Int

VARIABLES
  minCropX, minCropY,
  stage,        \* where runCropdetectLoop is
  cancelled,    \* the context is done
  nread,        \* packets read
  dec,          \* frames in the decoder
  frameCounter, \* frames decoded
  nfilter, seen,     \* inputs of the filter, what it has seen
  haveCrop, result,  \* the last valid reading
  consecutiveStable,
  readings,     \* history: the valid readings of phase 2
  lit,          \* history: no decoded frame was black
  answer, applied    \* of RunDetectCrop

config == <<minCropX, minCropY>>
filter == <<nfilter, seen>>
crop == <<haveCrop, result, consecutiveStable, readings>>
vars == <<config, stage, cancelled, nread, dec, frameCounter, filter, crop, lit, answer, applied>>

InputW == Inner + 2
Rectangle == [W : Nat, H : Nat, X : Nat, Y : Nat]
NoCrop == [W |-> 0, H |-> 0, X |-> 0, Y |-> 0]     \* CropParams{}

(* The box around what is not black; of nothing, inverted.                 *)
Box(f) ==
  LET Has(side) == IF side \in f THEN 1 ELSE 0
  IN IF f = {} THEN [W |-> 2 - InputW, H |-> 2 - InputW, X |-> InputW - 1, Y |-> InputW - 1]
     ELSE [W |-> Inner + Has("l") + Has("r"), X |-> 1 - Has("l"),
           H |-> Inner + Has("t") + Has("b"), Y |-> 1 - Has("t")]

TypeOK ==
  /\ {minCropX, minCropY} \subseteq Minima
  /\ stage \in {"start", "read", "drain", "flush", "finish", "done"}
  /\ cancelled \in BOOLEAN /\ haveCrop \in BOOLEAN /\ lit \in BOOLEAN
  /\ nread \in 0 .. MaxPackets /\ frameCounter \in 0 .. nread
  /\ dec \in Seq(Frames) /\ Len(dec) <= Delay + 1
  /\ nfilter \in 0 .. frameCounter /\ seen \subseteq Sides \cup {"c"}
  /\ result \in Rectangle /\ applied \in Rectangle
  /\ consecutiveStable \in Nat /\ readings \in Seq(Rectangle)
  /\ answer \in {"none", "nil", "crop", "no crop", "canceled", "error"}

Init ==
  /\ minCropX \in Minima /\ minCropY \in Minima
  /\ stage = "start" /\ cancelled = FALSE
  /\ nread = 0 /\ dec = <<>> /\ frameCounter = 0
  /\ nfilter = 0 /\ seen = {}
  /\ haveCrop = FALSE /\ result = NoCrop /\ consecutiveStable = 0 /\ readings = <<>>
  /\ lit = TRUE /\ answer = "none" /\ applied = NoCrop

Cancel ==
  /\ ~cancelled /\ stage # "done" /\ cancelled' = TRUE
  /\ UNCHANGED <<config, stage, nread, dec, frameCounter, filter, crop, lit, answer, applied>>

Answer(a, c) ==
  /\ stage' = "done" /\ answer' = a /\ applied' = c
  /\ UNCHANGED <<config, cancelled, nread, dec, frameCounter, filter, crop, lit>>

Return(a) == Answer(a, NoCrop)

(* With both axes disabled DetectCrop is not called.                       *)
SkipDetection == stage = "start" /\ minCropX = -1 /\ minCropY = -1 /\ Return("nil")

(* DetectCrop up to the loop.                                              *)
Open ==
  /\ stage = "start" /\ ~(minCropX = -1 /\ minCropY = -1)
  /\ IF cancelled THEN Return("canceled")
     ELSE /\ stage' = "read"
          /\ UNCHANGED <<config, cancelled, nread, dec, frameCounter, filter, crop, lit, answer, applied>>

(* Any call into libav can fail; from the loop on, a dead context is what  *)
(* is reported then.                                                       *)
OpenFails ==
  /\ stage = "start" /\ ~(minCropX = -1 /\ minCropY = -1)
  /\ \E a \in {"error"} \cup (IF cancelled THEN {"canceled"} ELSE {}) : Return(a)

Fail == stage \notin {"start", "done"} /\ Return(IF cancelled THEN "canceled" ELSE "error")

(* Packets of other streams leave no trace.  In phase 2 only keyframes are *)
(* decoded.                                                                *)
ReadPacket ==
  /\ stage = "read" /\ nread < MaxPackets
  /\ nread' = nread + 1
  /\ \E key \in BOOLEAN, f \in Frames :
       IF frameCounter >= KeyframeSwitchCount /\ ~key
         THEN UNCHANGED <<stage, dec>>
         ELSE dec' = Append(dec, f) /\ stage' = "drain"
  /\ UNCHANGED <<config, cancelled, frameCounter, filter, crop, lit, answer, applied>>

InPhase2 == frameCounter >= KeyframeSwitchCount

(* Sparse from the first frame on.                                         *)
SendToFilter_NoHead == InPhase2 \/ frameCounter % SampleInterval = 0

SendToFilter ==
  \/ InPhase2
  \/ frameCounter < AlwaysIncludeCount
  \/ frameCounter % SampleInterval = 0

(* A wider reading does not restart the count.                             *)
Stable_NoRestart(reading) == IF InPhase2 THEN consecutiveStable + 1 ELSE consecutiveStable

(* Stability is tracked in phase 2 only; the reading that differs counts.  *)
Stable(reading) ==
  IF ~InPhase2 THEN consecutiveStable
  ELSE IF haveCrop /\ reading = result THEN consecutiveStable + 1
  ELSE 1

Converged(reading) == InPhase2 /\ haveCrop /\ reading = result /\ Stable(reading) >= StabilityThreshold

(* parseCropMetadata.                                                      *)
Measured(reading) == nfilter >= Skip /\ reading.W > 0 /\ reading.H > 0

(* drainDecoder and drainFilter for one frame.  Once the crop has          *)
(* converged the loop is left and the decoder flushed; converged in the    *)
(* flush, what the decoder still holds is not looked at.                   *)
ReceiveFrame ==
  /\ stage \in {"drain", "flush"} /\ dec # <<>>
  /\ dec' = Tail(dec) /\ frameCounter' = frameCounter + 1
  /\ lit' = (lit /\ Head(dec) # {})
  /\ IF ~SendToFilter
       THEN UNCHANGED <<filter, crop, stage>>
       ELSE LET f == Head(dec)
                reading == Box(seen \cup f)
            IN /\ nfilter' = nfilter + 1
               /\ seen' = IF nfilter >= Skip THEN seen \cup f ELSE seen
               /\ IF ~Measured(reading)
                    THEN UNCHANGED <<crop, stage>>
                    ELSE /\ haveCrop' = TRUE /\ result' = reading
                         /\ consecutiveStable' = Stable(reading)
                         /\ readings' = IF InPhase2 THEN Append(readings, reading) ELSE readings
                         /\ stage' = IF ~Converged(reading) THEN stage
                                     ELSE IF stage = "drain" THEN "flush" ELSE "finish"
  /\ UNCHANGED <<config, cancelled, nread, answer, applied>>

(* The decoder wants another packet.                                       *)
NeedPacket ==
  /\ stage = "drain" /\ Len(dec) <= Delay /\ stage' = "read"
  /\ UNCHANGED <<config, cancelled, nread, dec, frameCounter, filter, crop, lit, answer, applied>>

EndOfFile ==
  /\ stage = "read" /\ stage' = "flush"
  /\ UNCHANGED <<config, cancelled, nread, dec, frameCounter, filter, crop, lit, answer, applied>>

-----------------------------------------------------------------------------
(* applyCropThresholds: NoCrop for a nil crop.                             *)

AxisOK(trim, minimum) == minimum = -1 \/ trim >= minimum

(* The axis that fails gets its size back but keeps its offset.            *)
ApplyCropThresholds_KeepOffset(d) ==
  LET xOK == AxisOK(InputW - d.W, minCropX)
      yOK == AxisOK(InputW - d.H, minCropY)
      r == [d EXCEPT !.W = IF xOK THEN @ ELSE InputW, !.H = IF yOK THEN @ ELSE InputW]
  IN IF (~xOK /\ ~yOK) \/ (r.W = InputW /\ r.H = InputW) THEN NoCrop ELSE r

ApplyCropThresholds(d) ==
  LET xOK == AxisOK(InputW - d.W, minCropX)
      yOK == AxisOK(InputW - d.H, minCropY)
      r == [d EXCEPT !.W = IF xOK THEN @ ELSE InputW, !.X = IF xOK THEN @ ELSE 0,
                     !.H = IF yOK THEN @ ELSE InputW, !.Y = IF yOK THEN @ ELSE 0]
  IN IF (~xOK /\ ~yOK) \/ (r.W = InputW /\ r.H = InputW) THEN NoCrop ELSE r

Finish ==
  /\ stage = "finish" \/ (stage = "flush" /\ dec = <<>>)
  /\ IF ~haveCrop THEN Return("no crop")
     ELSE LET c == ApplyCropThresholds(result)
          IN Answer(IF c = NoCrop THEN "nil" ELSE "crop", c)

Done == stage = "done" /\ UNCHANGED vars

Next ==
  \/ Cancel \/ SkipDetection \/ Open \/ OpenFails \/ Fail
  \/ ReadPacket \/ ReceiveFrame \/ NeedPacket \/ EndOfFile
  \/ Finish \/ Done

Spec == Init /\ [][Next]_vars

-----------------------------------------------------------------------------
(* Properties.                                                             *)

(* A crop that is applied lies inside the frame, cuts nothing that was     *)
(* measured, cuts something, and on each axis cuts nothing or at least the *)
(* configured minimum.                                                     *)
CropJustified ==
  answer = "crop" =>
    LET picture == Box(seen)
        Axis(offset, size, from, length, minimum) ==
          /\ offset <= from /\ from + length <= offset + size
          /\ offset + size <= InputW
          /\ size = InputW \/ InputW - size >= minimum
    IN /\ Axis(applied.X, applied.W, picture.X, picture.W, minCropX)
       /\ Axis(applied.Y, applied.H, picture.Y, picture.H, minCropY)
       /\ applied.W < InputW \/ applied.H < InputW

(* Detection stops before the end of the file only after the whole first   *)
(* phase and a run of equal readings in the second one: a narrow opening   *)
(* never decides alone.                                                    *)
ConvergenceEarned ==
  [][stage = "drain" /\ stage' = "flush" =>
       /\ frameCounter >= KeyframeSwitchCount
       /\ Len(readings') >= StabilityThreshold
       /\ \A n \in Len(readings') - StabilityThreshold + 1 .. Len(readings') :
            readings'[n] = result']_vars

(* A file of at least Skip + 1 frames none of which is black is measured,  *)
(* however short it is.                                                    *)
ShortVideoMeasured == answer = "no crop" => ~lit \/ frameCounter <= Skip

=============================================================================
