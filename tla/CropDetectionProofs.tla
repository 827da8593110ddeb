------------------------ MODULE CropDetectionProofs ------------------------
(***************************************************************************)
(* What holds of crop detection for every video, every threshold and every *)
(* sampling constant: a crop that is applied cuts only what was never lit, *)
(* detection stops early only on a stable run of the second phase, and a   *)
(* short video is measured too.                                            *)
(***************************************************************************)
EXTENDS CropDetection, TLAPS

\* The decoder's frames were read, and fit between two packets.
DecoderOK ==
  /\ frameCounter + Len(dec) <= nread
  /\ stage \in {"start", "read"} => Len(dec) <= Delay

\* Once there is a reading it is the box of all the filter has seen: what was
\* lit stays lit, so that no later reading is refused.
ReadingIsBox ==
  /\ seen # {} => "c" \in seen
  /\ haveCrop => nfilter > Skip /\ "c" \in seen /\ result = Box(seen)

\* The count of stable readings belongs to the second phase, and that many of
\* its last readings are the result.
StableRun ==
  /\ frameCounter <= KeyframeSwitchCount => consecutiveStable = 0
  /\ consecutiveStable <= Len(readings)
  /\ \A n \in Len(readings) - consecutiveStable + 1 .. Len(readings) : readings[n] = result

\* The loop is left early with a reading only.
AnswerOK ==
  /\ answer # "none" => stage = "done"
  /\ answer = "no crop" => ~ haveCrop
  /\ answer = "crop" => haveCrop /\ applied = ApplyCropThresholds(result) /\ applied # NoCrop

CropInv == TypeOK /\ DecoderOK /\ ReadingIsBox /\ StableRun /\ AnswerOK

\* The first frames all reach the filter, and the first one it measures gives
\* a reading unless it is black.
HeadMeasured ==
  /\ frameCounter <= AlwaysIncludeCount => nfilter = frameCounter
  /\ lit /\ frameCounter > Skip => haveCrop

USE DEF vars, config, filter, crop

-----------------------------------------------------------------------------
(* Boxes.                                                                  *)

\* The thresholds and bounds are numbers, and the frame is wider than its inside.
LEMMA Parameters ==
  /\ KeyframeSwitchCount \in Nat /\ AlwaysIncludeCount \in Nat /\ Skip \in Nat
  /\ Delay \in Nat /\ MaxPackets \in Nat
  /\ SampleInterval \in Nat \ {0} /\ StabilityThreshold \in Nat \ {0} /\ Inner \in Nat \ {0}
  /\ InputW = Inner + 2 /\ InputW \in Nat
  BY CropAssumption DEF InputW

\* The box of what is lit is a rectangle inside the frame, and there is none
\* of black.
LEMMA BoxShape ==
  ASSUME NEW f \in SUBSET (Sides \cup {"c"})
  PROVE  /\ f # {} => /\ Box(f) \in Rectangle
                      /\ Box(f).W > 0 /\ Box(f).H > 0
                      /\ Box(f).X + Box(f).W <= InputW /\ Box(f).Y + Box(f).H <= InputW
                      /\ Box(f).W <= InputW /\ Box(f).H <= InputW
         /\ f = {} => ~ (Box(f).W > 0)
  BY Parameters DEF Box, Rectangle

\* Thresholds give an axis its whole length back or leave it alone.
LEMMA ThresholdsKeepAxes ==
  ASSUME NEW d \in Rectangle, NEW c, c = ApplyCropThresholds(d), c # NoCrop,
         d.W <= InputW, d.H <= InputW, minCropX \in Int, minCropY \in Int
  PROVE  /\ \/ c.X = d.X /\ c.W = d.W /\ (minCropX = -1 \/ InputW - d.W >= minCropX)
            \/ c.X = 0 /\ c.W = InputW
         /\ \/ c.Y = d.Y /\ c.H = d.H /\ (minCropY = -1 \/ InputW - d.H >= minCropY)
            \/ c.Y = 0 /\ c.H = InputW
         /\ c.W # InputW \/ c.H # InputW
<1> DEFINE xOK == AxisOK(InputW - d.W, minCropX)
           yOK == AxisOK(InputW - d.H, minCropY)
           r == [d EXCEPT !.W = IF xOK THEN @ ELSE InputW, !.X = IF xOK THEN @ ELSE 0,
                          !.H = IF yOK THEN @ ELSE InputW, !.Y = IF yOK THEN @ ELSE 0]
<1>1. c = r /\ ~ (r.W = InputW /\ r.H = InputW)
  BY DEF ApplyCropThresholds
<1>2. /\ r.W = IF xOK THEN d.W ELSE InputW
      /\ r.X = IF xOK THEN d.X ELSE 0
      /\ r.H = IF yOK THEN d.H ELSE InputW
      /\ r.Y = IF yOK THEN d.Y ELSE 0
  BY DEF Rectangle
<1> QED
  BY <1>1, <1>2 DEF AxisOK

\* A box the thresholds turn down becomes the whole frame, which is a rectangle too.
LEMMA ThresholdsType ==
  ASSUME NEW d \in Rectangle
  PROVE  ApplyCropThresholds(d) \in Rectangle /\ NoCrop \in Rectangle
<1>1. InputW \in Nat
  BY CropAssumption DEF InputW
<1> QED
  BY <1>1 DEF ApplyCropThresholds, Rectangle, NoCrop

-----------------------------------------------------------------------------
(* The loop.                                                               *)

\* Before the first packet there is no reading and no answer.
LEMMA InitCropInv == Init => CropInv
<1> SUFFICES ASSUME Init PROVE CropInv
  OBVIOUS
<1>1. TypeOK
  <2>1. NoCrop \in Rectangle
    BY DEF NoCrop, Rectangle
  <2>2. /\ dec \in Seq(Frames) /\ Len(dec) <= Delay + 1 /\ readings \in Seq(Rectangle)
        /\ nread \in 0 .. MaxPackets /\ frameCounter \in 0 .. nread /\ nfilter \in 0 .. frameCounter
    BY Parameters DEF Init
  <2>3. {minCropX, minCropY} \subseteq Minima /\ seen \subseteq Sides \cup {"c"}
    BY DEF Init
  <2>4. cancelled \in BOOLEAN /\ haveCrop \in BOOLEAN /\ lit \in BOOLEAN /\ consecutiveStable \in Nat
    BY DEF Init
  <2> QED
    BY <2>1, <2>2, <2>3, <2>4 DEF Init, TypeOK
<1>2. DecoderOK /\ StableRun
  BY Parameters DEF Init, DecoderOK, StableRun
<1>3. ReadingIsBox /\ AnswerOK
  BY DEF Init, ReadingIsBox, AnswerOK
<1> QED
  BY <1>1, <1>2, <1>3 DEF CropInv

\* What the step on a frame does: the frame is not sampled, not measured, or
\* gives a reading.
Unsampled == ~ SendToFilter /\ UNCHANGED <<filter, crop, stage>>

Filtered == SendToFilter /\ nfilter' = nfilter + 1

Unmeasured(f) ==
  /\ Filtered /\ ~ Measured(Box(seen \cup f))
  /\ seen' = IF nfilter >= Skip THEN seen \cup f ELSE seen
  /\ UNCHANGED <<crop, stage>>

Reads(f) ==
  LET reading == Box(seen \cup f)
  IN /\ Filtered /\ Measured(reading)
     /\ seen' = seen \cup f
     /\ haveCrop' = TRUE /\ result' = reading
     /\ consecutiveStable' = Stable(reading)
     /\ readings' = IF InPhase2 THEN Append(readings, reading) ELSE readings
     /\ stage' = IF ~ Converged(reading) THEN stage
                 ELSE IF stage = "drain" THEN "flush" ELSE "finish"

\* A frame out of the decoder is left out of the sample, shows nothing, or is read.
LEMMA FrameStep ==
  ASSUME CropInv, ReceiveFrame
  PROVE  /\ stage \in {"drain", "flush"}
         /\ UNCHANGED <<config, cancelled, nread, answer, applied>>
         /\ frameCounter' = frameCounter + 1
         /\ dec' \in Seq(Frames) /\ Len(dec') = Len(dec) - 1 /\ Len(dec) \in Nat \ {0}
         /\ \E f \in Frames : /\ lit' = (lit /\ f # {})
                              /\ Unsampled \/ Unmeasured(f) \/ Reads(f)
<1>1. dec \in Seq(Frames) /\ dec # <<>>
  BY DEF CropInv, TypeOK, ReceiveFrame
<1>2. Head(dec) \in Frames /\ Tail(dec) \in Seq(Frames) /\ Len(Tail(dec)) = Len(dec) - 1
      /\ Len(dec) \in Nat \ {0}
  BY <1>1
<1> DEFINE f == Head(dec)
<1>3. Measured(Box(seen \cup f)) => nfilter >= Skip
  BY DEF Measured
<1>4. Unsampled \/ Unmeasured(f) \/ Reads(f)
  <2>1. CASE ~ SendToFilter
    BY <2>1 DEF ReceiveFrame, Unsampled
  <2>2. CASE SendToFilter /\ ~ Measured(Box(seen \cup f))
    BY <2>2 DEF ReceiveFrame, Unmeasured, Filtered
  <2>3. CASE SendToFilter /\ Measured(Box(seen \cup f))
    BY <1>3, <2>3 DEF ReceiveFrame, Reads, Filtered
  <2> QED
    BY <2>1, <2>2, <2>3
<1> QED
  BY <1>2, <1>4 DEF ReceiveFrame

\* The counters are numbers, each within the next.
LEMMA Counters ==
  ASSUME TypeOK
  PROVE  /\ nread \in Nat /\ frameCounter \in Nat /\ nfilter \in Nat /\ consecutiveStable \in Nat
         /\ nfilter <= frameCounter /\ frameCounter <= nread /\ nread <= MaxPackets
         /\ Len(dec) \in Nat /\ Len(dec) <= Delay + 1
<1>1. /\ nread \in 0 .. MaxPackets /\ frameCounter \in 0 .. nread /\ nfilter \in 0 .. frameCounter
      /\ consecutiveStable \in Nat /\ dec \in Seq(Frames) /\ Len(dec) <= Delay + 1
  BY Zenon DEF TypeOK
<1>2. Len(dec) \in Nat
  BY <1>1
<1>3. nread \in Nat /\ nread <= MaxPackets
  BY <1>1, Parameters
<1>4. frameCounter \in Nat /\ frameCounter <= nread
  BY <1>1, <1>3
<1>5. nfilter \in Nat /\ nfilter <= frameCounter
  BY <1>1, <1>4
<1> QED
  BY <1>1, <1>2, <1>3, <1>4, <1>5

\* The steps that look at no frame.
Elsewhere == UNCHANGED <<frameCounter, filter, crop, lit>>

\* Every other step leaves the readings alone, and none of them starts the flush of a
\* drained decoder.
LEMMA OtherSteps ==
  ASSUME [Next]_vars
  PROVE  ReceiveFrame \/ (Elsewhere /\ ~ (stage = "drain" /\ stage' = "flush"))
  BY DEF Next, Elsewhere, Cancel, SkipDetection, Open, OpenFails, Fail, ReadPacket,
         NeedPacket, EndOfFile, Finish, Done, Return, Answer

\* A frame out of the decoder keeps the types.
LEMMA ReceiveFrameTypes ==
  ASSUME CropInv, ReceiveFrame
  PROVE  TypeOK' /\ DecoderOK'
<1> USE DEF CropInv
<1>1. PICK f \in Frames : lit' = (lit /\ f # {}) /\ (Unsampled \/ Unmeasured(f) \/ Reads(f))
  BY FrameStep
<1>2. f \subseteq Sides \cup {"c"} /\ (f # {} => "c" \in f)
  BY CropAssumption
<1>3. seen \cup f \in SUBSET (Sides \cup {"c"})
  BY <1>2 DEF TypeOK
<1>4. Measured(Box(seen \cup f)) => Box(seen \cup f) \in Rectangle
  <2>1. CASE seen \cup f = {}
    BY <1>3, <2>1, BoxShape DEF Measured
  <2>2. CASE seen \cup f # {}
    BY <1>3, <2>2, BoxShape
  <2> QED
    BY <2>1, <2>2
<1>5. /\ UNCHANGED <<config, cancelled, nread, answer, applied>> /\ stage \in {"drain", "flush"}
      /\ frameCounter' = frameCounter + 1
      /\ dec' \in Seq(Frames) /\ Len(dec') = Len(dec) - 1 /\ Len(dec) \in Nat \ {0}
  BY FrameStep
<1> USE DEF Unsampled, Unmeasured, Filtered, Reads
<1>6. /\ frameCounter \in Nat /\ nread \in Nat /\ nread <= MaxPackets /\ nfilter \in Nat
      /\ nfilter <= frameCounter /\ frameCounter + Len(dec) <= nread
      /\ Len(dec) \in Nat \ {0} /\ Len(dec) <= Delay + 1 /\ Delay \in Nat /\ MaxPackets \in Nat
      /\ consecutiveStable \in Nat
  <2>1. frameCounter \in Nat /\ nread \in Nat /\ nread <= MaxPackets /\ nfilter \in Nat
        /\ nfilter <= frameCounter /\ consecutiveStable \in Nat
    BY Counters
  <2>2. frameCounter + Len(dec) <= nread
    BY DEF DecoderOK
  <2>3. Len(dec) <= Delay + 1
    BY DEF TypeOK
  <2> QED
    BY <1>5, <2>1, <2>2, <2>3, Parameters
<1>7. /\ frameCounter' \in 0 .. nread' /\ Len(dec') <= Delay + 1
      /\ frameCounter' + Len(dec') <= nread' /\ stage' \notin {"start", "read"}
  <2> DEFINE n == Len(dec)
             n1 == Len(dec')
  <2>1. /\ n \in Nat \ {0} /\ n1 = n - 1 /\ frameCounter' = frameCounter + 1
        /\ frameCounter + n <= nread /\ n <= Delay + 1 /\ nread' = nread
    BY <1>5, <1>6
  <2> HIDE DEF n, n1
  <2>2. frameCounter + 1 \in 0 .. nread /\ n1 <= Delay + 1 /\ frameCounter + 1 + n1 <= nread
    BY <1>6, <2>1
  <2>3. stage' \notin {"start", "read"}
    BY <1>1, <1>5
  <2> QED
    BY <2>1, <2>2, <2>3 DEF n1
<1>8. nfilter' \in 0 .. frameCounter'
  BY <1>1, <1>5, <1>6
<1>9. seen' \subseteq Sides \cup {"c"}
  BY <1>1, <1>3 DEF TypeOK
<1>10. result' \in Rectangle /\ consecutiveStable' \in Nat /\ readings' \in Seq(Rectangle)
       /\ haveCrop' \in BOOLEAN
  <2>1. CASE Unsampled \/ Unmeasured(f)
    BY <2>1 DEF TypeOK
  <2>2. CASE Reads(f)
    <3>1. Append(readings, Box(seen \cup f)) \in Seq(Rectangle)
      <4> DEFINE b == Box(seen \cup f)
      <4>1. b \in Rectangle /\ readings \in Seq(Rectangle)
        BY <1>4, <2>2 DEF TypeOK
      <4> HIDE DEF b
      <4>2. Append(readings, b) \in Seq(Rectangle)
        BY <4>1
      <4> QED
        BY <4>2 DEF b
    <3>2. Stable(Box(seen \cup f)) \in Nat
      BY <1>6 DEF Stable
    <3> QED
      BY <1>4, <2>2, <3>1, <3>2 DEF TypeOK
  <2> QED
    BY <1>1, <2>1, <2>2
<1>11. lit' \in BOOLEAN /\ stage' \in {"start", "read", "drain", "flush", "finish", "done"}
  BY <1>1, <1>5 DEF TypeOK
<1>12. TypeOK'
  <2>1. {minCropX', minCropY'} \subseteq Minima /\ cancelled' \in BOOLEAN /\ nread' \in 0 .. MaxPackets
    BY <1>5 DEF TypeOK
  <2>2. applied' \in Rectangle /\ answer' \in {"none", "nil", "crop", "no crop", "canceled", "error"}
    BY <1>5 DEF TypeOK
  <2> QED
    BY <1>5, <1>7, <1>8, <1>9, <1>10, <1>11, <2>1, <2>2, Zenon DEF TypeOK
<1> QED
  BY <1>7, <1>12 DEF DecoderOK

\* Every other step keeps the types.
LEMMA OtherStepsTypes ==
  ASSUME CropInv, Next, ~ ReceiveFrame
  PROVE  TypeOK' /\ DecoderOK'
<1> USE DEF CropInv
<1> DEFINE Typed ==
      /\ cancelled' \in BOOLEAN /\ applied' \in Rectangle
      /\ stage' \in {"start", "read", "drain", "flush", "finish", "done"}
      /\ answer' \in {"none", "nil", "crop", "no crop", "canceled", "error"}
<1>1. /\ nread' \in 0 .. MaxPackets /\ frameCounter' \in 0 .. nread'
      /\ dec' \in Seq(Frames) /\ Len(dec') <= Delay + 1
      /\ frameCounter' + Len(dec') <= nread'
      /\ stage' \in {"start", "read"} => Len(dec') <= Delay
  <2>1. CASE ReadPacket
    <3> DEFINE n == Len(dec)
    <3>1. /\ frameCounter \in Nat /\ nread \in Nat /\ nread < MaxPackets /\ frameCounter <= nread
          /\ n \in Nat /\ n <= Delay /\ frameCounter + n <= nread
      BY <2>1, Counters DEF DecoderOK, ReadPacket
    <3>2. nread' = nread + 1 /\ frameCounter' = frameCounter
      BY <2>1 DEF ReadPacket
    <3>3. /\ dec' \in Seq(Frames)
          /\ \/ Len(dec') = n
             \/ Len(dec') = n + 1 /\ stage' = "drain"
      <4>1. PICK f \in Frames : \/ UNCHANGED <<stage, dec>>
                                \/ dec' = Append(dec, f) /\ stage' = "drain"
        BY <2>1 DEF ReadPacket
      <4>2. dec \in Seq(Frames)
        BY Zenon DEF TypeOK
      <4>3. Append(dec, f) \in Seq(Frames) /\ Len(Append(dec, f)) = Len(dec) + 1
        BY <4>2
      <4> QED
        BY <4>1, <4>2, <4>3
    <3> HIDE DEF n
    <3> DEFINE n1 == Len(dec')
    <3>4. n1 = n \/ (n1 = n + 1 /\ stage' = "drain")
      BY <3>3
    <3> HIDE DEF n1
    <3>5. /\ nread + 1 \in 0 .. MaxPackets /\ frameCounter \in 0 .. nread + 1
          /\ n1 <= Delay + 1 /\ frameCounter + n1 <= nread + 1
          /\ stage' \in {"start", "read"} => n1 <= Delay
      BY <3>1, <3>4, Parameters
    <3> QED
      BY <3>2, <3>3, <3>5 DEF n1
  <2>2. CASE ~ ReadPacket
    <3>1. UNCHANGED <<nread, dec, frameCounter>>
      BY <2>2 DEF Next, Cancel, SkipDetection, Open, OpenFails, Fail, NeedPacket, EndOfFile,
                  Finish, Done, Return, Answer
    <3>2. stage' \in {"start", "read"} => stage \in {"start", "read"} \/ Len(dec) <= Delay
      BY <2>2 DEF Next, Cancel, SkipDetection, Open, OpenFails, Fail, NeedPacket, EndOfFile,
                  Finish, Done, Return, Answer
    <3> QED
      BY <3>1, <3>2 DEF TypeOK, DecoderOK
  <2> QED
    BY <2>1, <2>2
<1>2. UNCHANGED <<config, frameCounter, filter, crop, lit>>
  BY DEF Next, Cancel, SkipDetection, Open, OpenFails, Fail, ReadPacket, NeedPacket,
         EndOfFile, Finish, Done, Return, Answer
<1>3. Typed
  <2>1. NoCrop \in Rectangle
    BY DEF NoCrop, Rectangle
  <2>2. CASE Finish
    <3>1. ApplyCropThresholds(result) \in Rectangle
      BY ThresholdsType DEF TypeOK
    <3>2. applied' \in {NoCrop, ApplyCropThresholds(result)} /\ stage' = "done"
          /\ answer' \in {"nil", "crop", "no crop"} /\ cancelled' = cancelled
      BY <2>2 DEF Finish, Return, Answer
    <3> QED
      BY <2>1, <3>1, <3>2 DEF TypeOK
  <2>3. CASE SkipDetection \/ OpenFails \/ Fail
    BY <2>1, <2>3 DEF TypeOK, SkipDetection, OpenFails, Fail, Return, Answer
  <2>4. CASE Open
    BY <2>1, <2>4 DEF TypeOK, Open, Return, Answer
  <2>5. CASE Cancel \/ NeedPacket \/ EndOfFile \/ Done
    BY <2>5 DEF TypeOK, Cancel, NeedPacket, EndOfFile, Done
  <2>6. CASE ReadPacket
    BY <2>6 DEF TypeOK, ReadPacket
  <2> QED
    BY <2>2, <2>3, <2>4, <2>5, <2>6 DEF Next
<1>4. TypeOK'
  <2>1. /\ {minCropX', minCropY'} \subseteq Minima
        /\ haveCrop' \in BOOLEAN /\ lit' \in BOOLEAN
        /\ nfilter' \in 0 .. frameCounter' /\ seen' \subseteq Sides \cup {"c"}
        /\ result' \in Rectangle
        /\ consecutiveStable' \in Nat /\ readings' \in Seq(Rectangle)
    BY <1>2 DEF TypeOK
  <2> QED
    BY <1>1, <1>3, <2>1, Zenon DEF TypeOK
<1> QED
  BY <1>1, <1>4 DEF DecoderOK

\* A reading stays the box of what was seen, through every frame.
LEMMA ReadingStep ==
  ASSUME CropInv, [Next]_vars
  PROVE  ReadingIsBox'
<1> USE DEF CropInv, ReadingIsBox
<1>1. CASE Elsewhere
  BY <1>1 DEF Elsewhere
<1>2. CASE ReceiveFrame
  <2>1. PICK f \in Frames : Unsampled \/ Unmeasured(f) \/ Reads(f)
    BY <1>2, FrameStep
  <2>2. f \subseteq Sides \cup {"c"} /\ (f # {} => "c" \in f)
    BY CropAssumption
  <2>3. seen \cup f \in SUBSET (Sides \cup {"c"}) /\ nfilter \in Nat
    BY <2>2, Counters DEF TypeOK
  <2>4. seen \cup f # {} => "c" \in seen \cup f
    BY <2>2
  <2>5. CASE Unsampled
    BY <2>5 DEF Unsampled
  <2>6. CASE Unmeasured(f)
    <3>1. ~ haveCrop
      <4> SUFFICES ASSUME haveCrop PROVE FALSE
        OBVIOUS
      <4>1. nfilter > Skip /\ seen \cup f # {}
        OBVIOUS
      <4>2. Box(seen \cup f).W > 0 /\ Box(seen \cup f).H > 0
        BY <2>3, <4>1, BoxShape
      <4>3. Measured(Box(seen \cup f))
        BY <2>3, <4>1, <4>2, Parameters DEF Measured
      <4> QED
        BY <2>6, <4>3 DEF Unmeasured
    <3> QED
      BY <2>4, <2>6, <3>1 DEF Unmeasured
  <2>7. CASE Reads(f)
    <3>1. seen \cup f # {}
      BY <2>3, <2>7, BoxShape DEF Reads, Measured
    <3>2. nfilter' > Skip
      BY <2>3, <2>7, Parameters DEF Reads, Filtered, Measured
    <3> QED
      BY <2>4, <2>7, <3>1, <3>2 DEF Reads
  <2> QED
    BY <2>1, <2>5, <2>6, <2>7
<1> QED
  BY <1>1, <1>2, OtherSteps

\* A reading equal to the last one makes the run longer, another one starts it
\* again.
LEMMA StableStep ==
  ASSUME CropInv, [Next]_vars
  PROVE  StableRun'
<1> USE DEF CropInv
<1>1. CASE Elsewhere
  BY <1>1 DEF Elsewhere, StableRun
<1>2. CASE ReceiveFrame
  <2>1. PICK f \in Frames : Unsampled \/ Unmeasured(f) \/ Reads(f)
    BY <1>2, FrameStep
  <2>2. frameCounter' = frameCounter + 1 /\ frameCounter \in Nat /\ KeyframeSwitchCount \in Nat
    BY <1>2, FrameStep, Parameters, Counters
  <2>3. CASE Unsampled \/ Unmeasured(f)
    BY <2>2, <2>3 DEF StableRun, Unsampled, Unmeasured
  <2>4. CASE Reads(f)
    <3> DEFINE b == Box(seen \cup f)
    <3>1. result' = b /\ consecutiveStable' = Stable(b)
          /\ readings' = IF InPhase2 THEN Append(readings, b) ELSE readings
      BY <2>4 DEF Reads
    <3> HIDE DEF b
    <3>2. readings \in Seq(Rectangle) /\ consecutiveStable \in Nat
      BY DEF TypeOK
    <3>3. CASE ~ InPhase2
      BY <2>2, <3>1, <3>2, <3>3 DEF StableRun, InPhase2, Stable
    <3>4. CASE InPhase2
      <4> DEFINE l == Len(readings)
                 k == consecutiveStable
                 rs == readings'
                 l1 == Len(readings')
      <4>1. b \in Rectangle
        BY <1>2, ReceiveFrameTypes, <3>1 DEF TypeOK
      <4>2. /\ l \in Nat /\ l1 = l + 1
            /\ \A n \in 1 .. l : rs[n] = readings[n]
            /\ rs[l + 1] = b
        BY <3>1, <3>2, <3>4, <4>1
      <4>3. k \in Nat /\ k <= l /\ \A n \in l - k + 1 .. l : readings[n] = result
        BY <3>2 DEF StableRun
      <4>4. \/ consecutiveStable' = 1
            \/ consecutiveStable' = k + 1 /\ b = result
        BY <3>1, <3>4 DEF Stable
      <4>5. ~ (frameCounter' <= KeyframeSwitchCount)
        BY <2>2, <3>4 DEF InPhase2
      <4> HIDE DEF l, k, rs, l1
      <4>6. consecutiveStable' <= l1 /\ \A n \in l1 - consecutiveStable' + 1 .. l1 : rs[n] = b
        <5>1. CASE consecutiveStable' = 1
          BY <4>2, <5>1
        <5>2. CASE consecutiveStable' = k + 1 /\ b = result
          <6>1. \A n \in l - k + 1 .. l : rs[n] = b
            BY <4>2, <4>3, <5>2
          <6>2. l1 - (k + 1) + 1 = l - k + 1
            BY <4>2, <4>3
          <6> QED
            BY <4>2, <4>3, <5>2, <6>1
        <5> QED
          BY <4>4, <5>1, <5>2
      <4> QED
        BY <3>1, <4>5, <4>6, Zenon DEF StableRun, rs, l1
    <3> QED
      BY <3>3, <3>4
  <2> QED
    BY <2>1, <2>3, <2>4
<1> QED
  BY <1>1, <1>2, OtherSteps

\* An answer ends the run, and fits what was measured.
LEMMA AnswerStep ==
  ASSUME CropInv, [Next]_vars
  PROVE  AnswerOK'
<1> USE DEF CropInv, AnswerOK
<1>1. CASE ReceiveFrame
  <2>1. answer' = answer /\ stage \in {"drain", "flush"}
    BY <1>1, FrameStep
  <2> QED
    BY <2>1
<1>2. CASE Finish
  <2>1. CASE ~ haveCrop
    BY <1>2, <2>1 DEF Finish, Return, Answer
  <2>2. CASE haveCrop
    <3>1. /\ stage' = "done" /\ haveCrop' = haveCrop /\ result' = result
          /\ applied' = ApplyCropThresholds(result)
          /\ answer' = IF applied' = NoCrop THEN "nil" ELSE "crop"
          /\ UNCHANGED config
      BY <1>2, <2>2 DEF Finish, Answer
    <3>2. ApplyCropThresholds(result)' = ApplyCropThresholds(result)
      BY <3>1 DEF ApplyCropThresholds
    <3> QED
      BY <2>2, <3>1, <3>2
  <2> QED
    BY <2>1, <2>2
<1>3. CASE Elsewhere /\ ~ Finish
  <2>1. CASE stage' = "done" /\ answer' \in {"nil", "canceled", "error"}
    BY <2>1
  <2>2. CASE UNCHANGED <<config, haveCrop, result, answer, applied>> /\ (stage = "done" => stage' = "done")
    BY <2>2 DEF ApplyCropThresholds
  <2>3. (Next /\ ~ ReceiveFrame) =>
          \/ stage' = "done" /\ answer' \in {"nil", "canceled", "error"}
          \/ UNCHANGED <<config, haveCrop, result, answer, applied>> /\ (stage = "done" => stage' = "done")
    BY <1>3 DEF Next, Cancel, SkipDetection, Open, OpenFails, Fail, ReadPacket, NeedPacket,
                EndOfFile, Done, Return, Answer
  <2>4. CASE UNCHANGED vars
    BY <2>2, <2>4
  <2> QED
    BY <1>1, <2>1, <2>2, <2>3, <2>4
<1> QED
  BY <1>1, <1>2, <1>3, OtherSteps

\* The inductive invariant.
THEOREM CropInvariance == Spec => []CropInv
<1>1. ASSUME CropInv, [Next]_vars PROVE CropInv'
  <2>1. TypeOK' /\ DecoderOK'
    <3>1. CASE UNCHANGED vars
      BY <1>1, <3>1 DEF CropInv, TypeOK, DecoderOK
    <3> QED
      BY <1>1, <3>1, ReceiveFrameTypes, OtherStepsTypes
  <2> QED
    BY <1>1, <2>1, ReadingStep, StableStep, AnswerStep DEF CropInv
<1> QED
  BY <1>1, InitCropInv, PTL DEF Spec

\* The type invariant: the loop never holds more than the decoder may keep
\* back, and every reading is a rectangle.
THEOREM CropTypeCorrect == Spec => []TypeOK
  BY CropInvariance, PTL DEF CropInv

-----------------------------------------------------------------------------
(* What the answer is worth.                                               *)

\* A crop that is applied lies inside the frame, cuts nothing that was lit,
\* cuts something, and on each axis nothing or at least the minimum, for all
\* videos and thresholds (applyCropThresholds).
THEOREM CropIsJustified == Spec => []CropJustified
<1>1. ASSUME CropInv, answer = "crop" PROVE CropJustified
  <2> DEFINE p == Box(seen)
  <2>1. /\ seen # {} /\ result = p /\ applied = ApplyCropThresholds(result) /\ applied # NoCrop
        /\ seen \in SUBSET (Sides \cup {"c"})
    BY <1>1 DEF CropInv, AnswerOK, ReadingIsBox, TypeOK
  <2>2. /\ p \in Rectangle /\ p.W > 0 /\ p.H > 0
        /\ p.X + p.W <= InputW /\ p.Y + p.H <= InputW
        /\ p.W <= InputW /\ p.H <= InputW
    BY <2>1, BoxShape
  <2>3. minCropX \in Int /\ minCropY \in Int
    BY <1>1, CropAssumption DEF CropInv, TypeOK
  <2>4. p.W \in Nat /\ p.H \in Nat /\ p.X \in Nat /\ p.Y \in Nat
    BY <2>2 DEF Rectangle
  <2> HIDE DEF p
  <2>5. /\ \/ applied.X = p.X /\ applied.W = p.W /\ (minCropX = -1 \/ InputW - p.W >= minCropX)
           \/ applied.X = 0 /\ applied.W = InputW
        /\ \/ applied.Y = p.Y /\ applied.H = p.H /\ (minCropY = -1 \/ InputW - p.H >= minCropY)
           \/ applied.Y = 0 /\ applied.H = InputW
        /\ applied.W # InputW \/ applied.H # InputW
    BY <2>1, <2>2, <2>3, ThresholdsKeepAxes
  <2>6. InputW - p.W >= -1 /\ InputW - p.H >= -1
    BY <2>2, <2>4, Parameters
  <2>7. /\ applied.X <= p.X /\ p.X + p.W <= applied.X + applied.W
        /\ applied.X + applied.W <= InputW
        /\ applied.W = InputW \/ InputW - applied.W >= minCropX
    BY <2>2, <2>3, <2>4, <2>5, <2>6, Parameters
  <2>8. /\ applied.Y <= p.Y /\ p.Y + p.H <= applied.Y + applied.H
        /\ applied.Y + applied.H <= InputW
        /\ applied.H = InputW \/ InputW - applied.H >= minCropY
    BY <2>2, <2>3, <2>4, <2>5, <2>6, Parameters
  <2>9. applied.W < InputW \/ applied.H < InputW
    BY <2>2, <2>4, <2>5, Parameters
  <2> QED
    BY <2>7, <2>8, <2>9, Zenon DEF CropJustified, p
<1>2. CropInv => CropJustified
  BY <1>1 DEF CropJustified
<1> QED
  BY <1>2, CropInvariance, PTL

\* The loop is left before the end of the file only on StabilityThreshold
\* equal readings of the second phase (drainFilter, runCropdetectLoop).
THEOREM ConvergenceIsEarned == Spec => ConvergenceEarned
<1> DEFINE Earned == stage = "drain" /\ stage' = "flush" =>
      /\ frameCounter >= KeyframeSwitchCount
      /\ Len(readings') >= StabilityThreshold
      /\ \A n \in Len(readings') - StabilityThreshold + 1 .. Len(readings') :
           readings'[n] = result'
<1>1. ASSUME CropInv, CropInv', [Next]_vars, stage = "drain", stage' = "flush"
      PROVE  Earned
  <2>1. ReceiveFrame
    BY <1>1, OtherSteps
  <2>2. PICK f \in Frames : Unsampled \/ Unmeasured(f) \/ Reads(f)
    BY <1>1, <2>1, FrameStep
  <2>3. Reads(f) /\ Converged(Box(seen \cup f))
    BY <1>1, <2>2 DEF Unsampled, Unmeasured, Reads
  <2>4. frameCounter >= KeyframeSwitchCount /\ consecutiveStable' >= StabilityThreshold
    BY <2>3 DEF Reads, Converged, InPhase2
  <2> DEFINE l == Len(readings')
             rs == readings'
             k == consecutiveStable'
  <2>5. l \in Nat
    <3>1. readings' \in Seq(Rectangle)
      BY <1>1, Zenon DEF CropInv, TypeOK
    <3> QED
      BY <3>1
  <2>6. k \in Nat /\ k <= l /\ \A n \in l - k + 1 .. l : rs[n] = result'
    BY <1>1, Counters DEF CropInv, StableRun, TypeOK
  <2> HIDE DEF l, rs, k
  <2>7. StabilityThreshold <= k
    BY <2>4, <2>6, Parameters DEF k
  <2>8. l >= StabilityThreshold /\ \A n \in l - StabilityThreshold + 1 .. l : rs[n] = result'
    BY <2>5, <2>6, <2>7, Parameters
  <2> QED
    BY <2>4, <2>8, Zenon DEF l, rs
<1>2. CropInv /\ CropInv' /\ [Next]_vars => [Earned]_vars
  BY <1>1
<1> QED
  BY <1>2, CropInvariance, PTL DEF Spec, ConvergenceEarned

\* With fewer frames passed over by the filter than are always sampled, as
\* the code has it (2 and 3), a video longer than those and never black is
\* measured (shouldSendToFilter).
THEOREM ShortVideoIsMeasured ==
  ASSUME Skip < AlwaysIncludeCount
  PROVE  Spec => []ShortVideoMeasured
<1>1. Init => HeadMeasured
  BY Parameters DEF Init, HeadMeasured
<1>2. ASSUME CropInv, HeadMeasured, [Next]_vars PROVE HeadMeasured'
  <2>1. CASE Elsewhere
    BY <1>2, <2>1 DEF Elsewhere, HeadMeasured
  <2>2. CASE ReceiveFrame
    <3>1. PICK f \in Frames : lit' = (lit /\ f # {}) /\ (Unsampled \/ Unmeasured(f) \/ Reads(f))
      BY <1>2, <2>2, FrameStep
    <3>2. frameCounter' = frameCounter + 1 /\ frameCounter \in Nat /\ nfilter \in Nat
      BY <1>2, <2>2, FrameStep, Counters DEF CropInv
    <3>3. frameCounter < AlwaysIncludeCount => SendToFilter
      BY DEF SendToFilter
    <3>4. frameCounter' <= AlwaysIncludeCount => nfilter' = frameCounter'
      <4>1. CASE Unsampled
        BY <3>2, <3>3, <4>1, Parameters DEF Unsampled
      <4>2. CASE Unmeasured(f) \/ Reads(f)
        BY <1>2, <3>2, <4>2, Parameters DEF Unmeasured, Reads, Filtered, HeadMeasured
      <4> QED
        BY <3>1, <4>1, <4>2
    <3>5. haveCrop => haveCrop'
      BY <3>1 DEF Unsampled, Unmeasured, Reads
    <3>6. ASSUME lit', frameCounter' > Skip PROVE haveCrop'
      <4>1. lit /\ f # {}
        BY <3>1, <3>6
      <4>2. CASE frameCounter > Skip
        BY <1>2, <3>5, <4>1, <4>2 DEF HeadMeasured
      <4>3. CASE ~ (frameCounter > Skip)
        <5>1. frameCounter = Skip
          BY <3>2, <3>6, <4>3, Parameters
        <5>2. nfilter = Skip /\ SendToFilter
          BY <1>2, <3>3, <5>1, Parameters DEF HeadMeasured
        <5>3. seen \cup f \in SUBSET (Sides \cup {"c"}) /\ seen \cup f # {}
          BY <1>2, <4>1, CropAssumption DEF CropInv, TypeOK
        <5>4. Measured(Box(seen \cup f))
          BY <5>2, <5>3, BoxShape, Parameters DEF Measured
        <5> QED
          BY <3>1, <5>2, <5>4 DEF Unsampled, Unmeasured, Reads
      <4> QED
        BY <4>2, <4>3
    <3> QED
      BY <3>4, <3>6 DEF HeadMeasured
  <2> QED
    BY <1>2, <2>1, <2>2, OtherSteps
<1>3. ASSUME CropInv PROVE frameCounter <= Skip \/ frameCounter > Skip
  BY <1>3, Counters, Parameters DEF CropInv
<1>4. CropInv /\ HeadMeasured => ShortVideoMeasured
  BY <1>3 DEF HeadMeasured, CropInv, AnswerOK, ShortVideoMeasured
<1> QED
  BY <1>1, <1>2, <1>4, CropInvariance, PTL DEF Spec
=============================================================================
