------------------------- MODULE TranscodeRunProofs -------------------------
(***************************************************************************)
(* What every Transcoder.Run keeps to, for any number of tracks, any       *)
(* timebases and any timestamps: what it hands to the muxer, what a        *)
(* success says of the output, and how far the copied tracks may drift.    *)
(***************************************************************************)
EXTENDS TranscodeRun, SequenceTheorems, TLAPS

-----------------------------------------------------------------------------
(* The inductive invariant.                                                *)

\* The packet in the loop and the tracks that wait for it go together.
LoopOK ==
  /\ stage = "process" =>
       /\ cur \in Packets
       /\ todo # <<>> /\ Targets(cur) # <<>>
       /\ todo \in {Targets(cur), Tail(Targets(cur))}
  /\ stage = "flush" => todo = <<>> \/ \E t \in toFlush \cap Encoded : todo = <<t>>
  /\ stage \in {"setup", "read"} => todo = <<>> /\ pulling = "none"
  /\ result = "ok" => stage = "done" /\ toFlush = {}
  /\ result # "none" => stage = "done"

\* While Run can still succeed.
Good == stage # "done" \/ result = "ok"

\* Have all frames of the track been through its decoder and its encoder?
Ended(t) == (stage = "flush" \/ result = "ok") /\ t \notin toFlush

\* Has everything before the encoder of the track been emptied?
Emptied(t) == Ended(t) \/ (stage = "flush" /\ todo = <<t>> /\ pulling = "encoder")

\* Frames are in the decoder, in the encoder, or written.
FramesKept ==
  Good =>
    /\ \A t \in Copies \cup Subtitles : written[t] = fed[t]
    /\ \A t \in Videos : written[t] + Len(enc[t]) + Len(dec[t]) = fed[t]
    /\ \A t \in Encoded : Emptied(t) => dec[t] = <<>>
    /\ \A t \in Encoded : Ended(t) => enc[t] = <<>>

\* Samples of the downmix that went into frames, and that left its decoder.
Framed == (written[Downmix] + Len(enc[Downmix])) * FrameSize
Decoded == (fed[Downmix] - Len(dec[Downmix])) * SourceSamples

\* Samples are in a frame, in the FIFO, in the resampler, or were lost with
\* it; the last frame may be longer than what was left.
SamplesKept ==
  Good =>
    /\ IF Emptied(Downmix)
         THEN /\ fifo = 0 /\ delay = 0
              /\ Framed \in (Decoded - lost) .. (Decoded - lost + FrameSize - 1)
         ELSE Framed + fifo + delay + lost = Decoded
    /\ stage = "flush" /\ todo = <<Downmix>> /\ pulling \in {"resampler", "tail"} =>
         dec[Downmix] = <<>>
    /\ stage = "flush" /\ todo = <<Downmix>> /\ pulling = "tail" => delay = 0

\* Where the timeline of the input starts.
Origin == IF StartTime = NoPts THEN 0 ELSE StartTime

\* A packet that was not repaired has moved by the origin, up to the rounding
\* of two rescalings.
ShiftBounded ==
  \A t \in Copies :
    shift[t] # NoPts =>
      /\ 2 * (shift[t] + Origin) <= OutTimeBase[t] + TimeBase[t]
      /\ -(2 * (shift[t] + Origin)) <= OutTimeBase[t] + TimeBase[t]

RunInv == TypeOK /\ LoopOK /\ FramesKept /\ SamplesKept /\ ShiftBounded

-----------------------------------------------------------------------------
(* Arithmetic.                                                             *)

\* What integer division means.
LEMMA DivBounds ==
  ASSUME NEW a \in Int, NEW b \in Nat \ {0}
  PROVE  /\ a \div b \in Int
         /\ b * (a \div b) <= a
         /\ a < b * (a \div b) + b
  BY SMT

\* Rescaling is off by half a tick of the target at most.
LEMMA RescaleNear ==
  ASSUME NEW t \in Int, NEW from \in Nat \ {0}, NEW to \in Nat \ {0}
  PROVE  /\ RescaleQ(t, from, to) \in Int
         /\ 2 * (RescaleQ(t, from, to) * to - t * from) <= to
         /\ -(2 * (RescaleQ(t, from, to) * to - t * from)) <= to
<1> DEFINE Near(n) == (2 * n * from + to) \div (2 * to)
<1>1. ASSUME NEW n \in Int
      PROVE  /\ Near(n) \in Int
             /\ 2 * (Near(n) * to - n * from) <= to
             /\ -(2 * (Near(n) * to - n * from)) <= to
  <2> DEFINE a == 2 * n * from + to
             q == Near(n)
  <2>1. a \in Int /\ 2 * to \in Nat \ {0}
    BY SMT
  <2>2. /\ q \in Int
        /\ (2 * to) * q <= a
        /\ a < (2 * to) * q + 2 * to
    BY <2>1, DivBounds
  <2> HIDE DEF q
  <2>3. (2 * to) * q = 2 * (q * to) /\ a = 2 * (n * from) + to
    BY <2>2, SMT
  <2>4. q * to \in Int /\ n * from \in Int
    BY <2>2, SMT
  <2>5. 2 * (q * to - n * from) <= to /\ -(2 * (q * to - n * from)) <= to
    BY <2>2, <2>3, <2>4, SMT
  <2> QED
    BY <2>2, <2>5 DEF q
<1> HIDE DEF Near
<1>2. CASE t >= 0
  <2>1. RescaleQ(t, from, to) = Near(t)
    BY <1>2 DEF RescaleQ, Near
  <2> QED
    BY <1>1, <2>1
<1>3. CASE ~ (t >= 0)
  <2>1. RescaleQ(t, from, to) = - Near(-t)
    BY <1>3 DEF RescaleQ, Near
  <2>2. -t \in Int
    OBVIOUS
  <2> DEFINE q == Near(-t)
  <2>3. /\ q \in Int
        /\ 2 * (q * to - (-t) * from) <= to
        /\ -(2 * (q * to - (-t) * from)) <= to
    BY <1>1, <2>2
  <2> HIDE DEF q
  <2>4. (-t) * from = -(t * from) /\ (-q) * to = -(q * to)
    BY <2>3, SMT
  <2>5. q * to \in Int /\ t * from \in Int
    BY <2>3, SMT
  <2>6. -q \in Int /\ 2 * ((-q) * to - t * from) <= to /\ -(2 * ((-q) * to - t * from)) <= to
    BY <2>3, <2>4, <2>5, SMT
  <2> QED
    BY <2>1, <2>6 DEF q
<1> QED
  BY <1>2, <1>3

\* A timestamp rescaled is one, and missing when it was missing.
LEMMA RescaleTsType ==
  ASSUME NEW t \in Timestamp, NEW from \in Nat \ {0}, NEW to \in Nat \ {0}
  PROVE  /\ RescaleTs(t, from, to) \in Timestamp
         /\ RescaleTs(t, from, to) = NoPts <=> t = NoPts
<1>1. CASE t = NoPts
  BY <1>1 DEF RescaleTs, Timestamp
<1>2. CASE t # NoPts
  BY <1>2, RescaleNear, NoPtsAssumption DEF RescaleTs, Timestamp
<1> QED
  BY <1>1, <1>2

\* Rebasing maps timestamps to timestamps, and none to none.
LEMMA RebasedType ==
  ASSUME NEW t \in Timestamp, NEW base \in Nat \ {0}
  PROVE  /\ Rebased(t, StartTime, base) \in Timestamp
         /\ Rebased(t, StartTime, base) = NoPts <=> t = NoPts
<1>1. RebaseOffset(StartTime) \in Int
  BY TranscodeAssumption DEF RebaseOffset, Timestamp
<1>2. RescaleQ(RebaseOffset(StartTime), 1, base) \in Int
  BY <1>1, RescaleNear
<1> QED
  BY <1>2, NoPtsAssumption DEF Rebased, Timestamp

\* What the repair of a packet's timestamps promises: a DTS above the last
\* one, and no PTS before its DTS (monotonicDTSClamp).
LEMMA ClampRepairs ==
  ASSUME NEW before \in Timestamp, NEW dts \in Timestamp, NEW pts \in Timestamp,
         NEW out, out = MonotonicDtsClamp(before, dts, pts)
  PROVE  /\ out.dts \in Timestamp /\ out.pts \in Timestamp
         /\ before # NoPts => out.dts # NoPts /\ out.dts > before
         /\ out.dts # NoPts /\ out.pts # NoPts => out.pts >= out.dts
<1>1. out.dts = ClampedDts(before, dts, pts) /\ out.pts = ClampedPts(out.dts, pts)
  BY DEF MonotonicDtsClamp
<1>2. ClampedDts(before, dts, pts) \in Timestamp
  BY DEF ClampedDts, Timestamp
<1>3. before # NoPts => out.dts # NoPts /\ out.dts > before
  BY <1>1, NoPtsAssumption DEF ClampedDts, Timestamp
<1>4. out.pts \in Timestamp
  BY <1>1, <1>2 DEF ClampedPts
<1>5. out.dts # NoPts /\ out.pts # NoPts => out.pts >= out.dts
  BY <1>1, <1>2, <1>4 DEF ClampedPts, Timestamp
<1> QED
  BY <1>1, <1>2, <1>3, <1>4, <1>5

-----------------------------------------------------------------------------
(* Types.                                                                  *)

\* Each track has one kind, and timebases divide.
LEMMA TrackKinds ==
  /\ Encoded \subseteq Tracks /\ Streams \subseteq Tracks
  /\ Tracks \subseteq Input \cup {Downmix} /\ Input \subseteq Input \cup {Downmix}
  /\ Copies \cap Encoded = {} /\ Subtitles \cap Encoded = {}
  /\ Downmix \in Encoded /\ Downmix \notin Streams
  BY TranscodeAssumption DEF Encoded, Tracks, Streams, Input

\* Every time base is positive.
LEMMA TimeBases ==
  /\ \A t \in Input \cup {Downmix} : TimeBase[t] \in Nat \ {0}
  /\ \A t \in Tracks : OutTimeBase[t] \in Nat \ {0}
  BY TranscodeAssumption

\* The rebased timestamps of the packet at hand.
LEMMA RebasedTypes ==
  ASSUME cur \in Packets
  PROVE  /\ cur.stream \in Input
         /\ cur.pts \in Timestamp
         /\ RebasedPts \in Timestamp /\ RebasedDts \in Timestamp
         /\ RebasedPts = NoPts <=> cur.pts = NoPts
<1>1. cur.stream \in Input /\ cur.pts \in Timestamp /\ cur.dts \in Timestamp
  BY TranscodeAssumption DEF Packets
<1>2. TimeBase[cur.stream] \in Nat \ {0}
  BY <1>1, TimeBases
<1> QED
  BY <1>1, <1>2, RebasedType DEF RebasedPts, RebasedDts

\* Two sequences of one element.
LEMMA ConcatSingles == ASSUME NEW a, NEW b PROVE <<a>> \o <<b>> = <<a, b>>
<1> DEFINE s == <<a>>
           t == <<b>>
           u == <<a, b>>
           S == {a, b}
<1>1. /\ s \in Seq(S) /\ t \in Seq(S) /\ u \in Seq(S)
      /\ Len(s) = 1 /\ Len(t) = 1 /\ Len(u) = 2
      /\ s[1] = a /\ t[1] = b /\ u[1] = a /\ u[2] = b
  BY SMT
<1> HIDE DEF s, t, u
<1>2. /\ s \o t \in Seq(S)
      /\ Len(s \o t) = Len(s) + Len(t)
      /\ \A i \in 1 .. (Len(s) + Len(t)) :
           (s \o t)[i] = IF i <= Len(s) THEN s[i] ELSE t[i - Len(s)]
  BY <1>1, ConcatProperties, Zenon
<1>3. Len(s \o t) = 2 /\ \A i \in 1..2 : (s \o t)[i] = u[i]
  BY <1>1, <1>2, SMT
<1>4. s \o t = u
  BY <1>1, <1>2, <1>3, SeqEqual, Zenon
<1> QED
  BY <1>4 DEF s, t, u

\* What is left of a sequence when its first element goes.
LEMMA TailLength ==
  ASSUME NEW S, NEW s \in Seq(S), s # <<>>
  PROVE  /\ Tail(s) \in Seq(S) /\ Head(s) \in S
         /\ Len(s) \in Nat \ {0} /\ Len(Tail(s)) = Len(s) - 1
         /\ Tail(s) = <<>> <=> Len(s) = 1
<1>1. /\ Tail(s) \in Seq(S) /\ Head(s) \in S
      /\ Len(s) \in Nat \ {0} /\ Len(Tail(s)) = Len(s) - 1
  BY SMT
<1>2. Len(<<>>) = 0 /\ \A seq \in Seq(S) : seq # <<>> => Len(seq) \in Nat \ {0}
  BY EmptySeq, Zenon
<1>3. Len(Tail(s)) = 0 <=> Tail(s) = <<>>
  BY <1>1, <1>2, Zenon
<1>4. Len(s) = 1 <=> Len(Tail(s)) = 0
  BY <1>1
<1> QED
  BY <1>1, <1>3, <1>4, Zenon

\* The tracks a packet goes to: none, one, or the downmix and a stream.
LEMMA TargetsType ==
  ASSUME NEW p \in Packets
  PROVE  /\ Targets(p) \in Seq(Tracks)
         /\ Targets(p) # <<>> =>
              /\ Tail(Targets(p)) \in Seq(Tracks)
              /\ Head(Targets(p)) \in {Downmix, p.stream}
              /\ Tail(Targets(p)) # <<>> => Head(Targets(p)) = Downmix
              /\ Tail(Targets(p)) # <<>> => Head(Tail(Targets(p))) = p.stream
              /\ Len(Tail(Targets(p))) <= 1
<1> DEFINE a == IF p.stream = DownmixSource THEN <<Downmix>> ELSE <<>>
           b == IF p.stream \in Streams THEN <<p.stream>> ELSE <<>>
<1>1. Targets(p) = a \o b
  BY DEF Targets
<1>2. Downmix \in Tracks /\ Streams \subseteq Tracks
  BY DEF Tracks
<1>3. CASE p.stream = DownmixSource /\ p.stream \in Streams
  <2>1. Targets(p) = <<Downmix, p.stream>>
    BY <1>1, <1>3, ConcatSingles
  <2> QED
    BY <1>2, <1>3, <2>1
<1>4. CASE p.stream = DownmixSource /\ p.stream \notin Streams
  <2>1. Targets(p) = <<Downmix>>
    BY <1>1, <1>4
  <2> QED
    BY <1>2, <2>1
<1>5. CASE p.stream # DownmixSource /\ p.stream \in Streams
  <2>1. Targets(p) = <<p.stream>>
    BY <1>1, <1>5
  <2> QED
    BY <1>2, <1>5, <2>1
<1>6. CASE p.stream # DownmixSource /\ p.stream \notin Streams
  <2>1. Targets(p) = <<>>
    BY <1>1, <1>6
  <2> QED
    BY <2>1
<1> QED
  BY <1>3, <1>4, <1>5, <1>6

\* What a write does to the muxer's side.
LEMMA MuxTypes ==
  ASSUME TypeOK, NEW t \in Tracks, NEW pts \in Timestamp, NEW dts \in Timestamp,
         NEW base \in Nat \ {0},
         t \in Copies => cur \in Packets /\ (cur.pts # NoPts => pts # NoPts),
         Mux(t, pts, dts, base)
  PROVE  /\ sent' \in [track : Tracks, pts : Timestamp, dts : Timestamp]
         /\ last' \in [Tracks -> Timestamp]
         /\ written' \in [Tracks -> Nat]
         /\ written' = [written EXCEPT ![t] = @ + 1]
         /\ shift' \in [Tracks -> Timestamp]
         /\ sent'.track = t
         /\ last[t] # NoPts => sent'.dts # NoPts /\ sent'.dts > last[t]
         /\ sent'.dts # NoPts /\ sent'.pts # NoPts => sent'.pts >= sent'.dts
<1> DEFINE p == RescaleTs(pts, base, OutTimeBase[t])
           d == RescaleTs(dts, base, OutTimeBase[t])
           out == MonotonicDtsClamp(last[t], d, p)
<1>1. p \in Timestamp /\ d \in Timestamp /\ (p = NoPts <=> pts = NoPts)
  BY RescaleTsType, TimeBases
<1>2. last[t] \in Timestamp
  BY DEF TypeOK
<1> HIDE DEF p, d
<1>3. /\ out.dts \in Timestamp /\ out.pts \in Timestamp
      /\ last[t] # NoPts => out.dts # NoPts /\ out.dts > last[t]
      /\ out.dts # NoPts /\ out.pts # NoPts => out.pts >= out.dts
  BY <1>1, <1>2, ClampRepairs
<1>4. /\ sent' = [track |-> t, pts |-> out.pts, dts |-> out.dts]
      /\ last' = [last EXCEPT ![t] = out.dts]
      /\ written' = [written EXCEPT ![t] = @ + 1]
      /\ shift' = [shift EXCEPT ![t] =
            IF t \in Copies /\ cur.pts # NoPts /\ out.pts = p
              THEN out.pts * OutTimeBase[t] - cur.pts * base ELSE NoPts]
  BY DEF Mux, p, d
<1> HIDE DEF out
<1>5. sent' \in [track : Tracks, pts : Timestamp, dts : Timestamp] /\ last' \in [Tracks -> Timestamp]
  BY <1>3, <1>4 DEF TypeOK
<1>6. written' \in [Tracks -> Nat]
  BY <1>4 DEF TypeOK
<1>7. ASSUME t \in Copies, cur.pts # NoPts, out.pts = p
      PROVE  out.pts * OutTimeBase[t] - cur.pts * base \in Int
  <2>1. cur.pts \in Int
    BY <1>7, RebasedTypes DEF Timestamp
  <2>2. out.pts \in Int
    BY <1>1, <1>3, <1>7 DEF Timestamp
  <2>3. OutTimeBase[t] \in Int
    BY TimeBases
  <2> QED
    BY <2>1, <2>2, <2>3, SMT
<1>8. shift' \in [Tracks -> Timestamp]
  BY <1>4, <1>7 DEF TypeOK, Timestamp
<1> QED
  BY <1>3, <1>4, <1>5, <1>6, <1>8

-----------------------------------------------------------------------------
USE DEF vars, run, context, loop, audio, codecs, muxed

\* The packet in the loop moves on to its next track, or out of the loop.
LEMMA NextTargetMoves ==
  ASSUME TypeOK, LoopOK, stage = "process", NextTarget
  PROVE  /\ todo' \in Seq(Tracks)
         /\ \/ stage' = "read" /\ todo' = <<>> /\ cur' = None
            \/ /\ stage' = "process" /\ cur' = cur
               /\ todo' # <<>> /\ todo' = Tail(Targets(cur))
         /\ pulling' = "none"
<1>1. cur \in Packets /\ todo \in Seq(Tracks) /\ todo # <<>> /\ Targets(cur) # <<>>
  BY DEF TypeOK, LoopOK
<1>2. /\ Tail(todo) \in Seq(Tracks)
      /\ Len(todo) \in Nat \ {0}
      /\ Tail(todo) = <<>> <=> Len(todo) = 1
  BY <1>1, TailLength
<1>3. Tail(Targets(cur)) \in Seq(Tracks) /\ Len(Tail(Targets(cur))) <= 1
  BY <1>1, TargetsType
<1>4. Len(todo) # 1 => todo = Targets(cur)
  BY <1>2, <1>3 DEF LoopOK
<1> QED
  BY <1>1, <1>2, <1>4 DEF NextTarget

\* Which track a step can be about.
LEMMA HeadOfTodo ==
  ASSUME TypeOK, LoopOK, todo # <<>>, stage \in {"process", "flush"}
  PROVE  /\ Head(todo) \in Tracks
         /\ stage = "process" => cur \in Packets /\ Head(todo) \in {Downmix, cur.stream}
         /\ stage = "flush" => /\ todo = <<Head(todo)>>
                               /\ Head(todo) \in toFlush \cap Encoded
<1>1. todo \in Seq(Tracks)
  BY DEF TypeOK
<1>2. CASE stage = "process"
  <2>1. cur \in Packets /\ Targets(cur) # <<>>
    BY <1>2 DEF LoopOK
  <2>2. todo \in {Targets(cur), Tail(Targets(cur))}
    BY <1>2 DEF LoopOK
  <2>3. Head(todo) \in {Downmix, cur.stream}
    BY <2>1, <2>2, TargetsType
  <2> QED
    BY <1>1, <1>2, <2>1, <2>3, TailLength
<1>3. CASE stage = "flush"
  <2>1. PICK t \in toFlush \cap Encoded : todo = <<t>>
    BY <1>3 DEF LoopOK
  <2>2. Head(todo) = t
    BY <2>1
  <2> QED
    BY <1>3, <2>1, <2>2, TrackKinds
<1> QED
  BY <1>2, <1>3

\* Every step keeps the types.
LEMMA NextTypeOK == TypeOK /\ LoopOK /\ [Next]_vars => TypeOK'
<1> SUFFICES ASSUME TypeOK, LoopOK, [Next]_vars PROVE TypeOK'
  OBVIOUS
<1>1. CASE Cancel \/ Interrupt \/ Done \/ UNCHANGED vars
  <2>1. cancelled' \in BOOLEAN /\ fired' \in BOOLEAN
    BY <1>1 DEF Cancel, Interrupt, Done, TypeOK
  <2>2. UNCHANGED <<run, loop, codecs, fed, muxed>>
    BY <1>1 DEF Cancel, Interrupt, Done
  <2> QED
    BY <2>1, <2>2 DEF TypeOK
<1>2. CASE Setup \/ SetupFails \/ Fail
  BY <1>2 DEF Setup, SetupFails, Fail, Return, TypeOK
<1>3. CASE EndOfInput \/ WriteTrailer
  BY <1>3 DEF EndOfInput, WriteTrailer, Return, TypeOK
<1>4. CASE ReadFrame
  <2>1. PICK p \in Packets : /\ todo' = Targets(p)
                             /\ cur' = IF Targets(p) = <<>> THEN None ELSE p
                             /\ stage' = IF Targets(p) = <<>> THEN "read" ELSE "process"
    BY <1>4 DEF ReadFrame
  <2>2. todo' \in Seq(Tracks) /\ cur' \in Packets \cup {None} /\ stage' \in {"read", "process"}
    BY <2>1, TargetsType
  <2>3. nread' \in 0 .. MaxPackets
    BY <1>4, TranscodeAssumption DEF ReadFrame, TypeOK
  <2> QED
    BY <1>4, <2>2, <2>3 DEF ReadFrame, TypeOK
<1>5. ASSUME NEW t \in Tracks, CopyPacket(t) PROVE TypeOK'
  <2>1. cur \in Packets
    BY <1>5 DEF CopyPacket, LoopOK
  <2>2. /\ RebasedPts \in Timestamp /\ RebasedDts \in Timestamp
        /\ cur.pts # NoPts => RebasedPts # NoPts
    BY <2>1, RebasedTypes
  <2>3. TimeBase[t] \in Nat \ {0}
    BY TrackKinds, TimeBases
  <2>4. Mux(t, RebasedPts, RebasedDts, TimeBase[t])
    BY <1>5 DEF CopyPacket
  <2>5. /\ sent' \in [track : Tracks, pts : Timestamp, dts : Timestamp]
        /\ last' \in [Tracks -> Timestamp]
        /\ written' \in [Tracks -> Nat]
        /\ shift' \in [Tracks -> Timestamp]
    BY <2>1, <2>2, <2>3, <2>4, MuxTypes
  <2>6. fed' \in [Tracks -> Nat]
    BY <1>5 DEF CopyPacket, TypeOK
  <2>7. todo' \in Seq(Tracks) /\ stage' \in {"read", "process"} /\ cur' \in {None, cur} /\ pulling' = "none"
    BY <1>5, NextTargetMoves DEF CopyPacket
  <2> QED
    BY <1>5, <2>5, <2>6, <2>7 DEF CopyPacket, NextTarget, TypeOK
<1>6. ASSUME NEW t \in Tracks, SkipPacket(t) \/ EndPacket(t) PROVE TypeOK'
  <2>1. todo' \in Seq(Tracks) /\ stage' \in {"read", "process"} /\ cur' \in {None, cur} /\ pulling' = "none"
    BY <1>6, NextTargetMoves DEF SkipPacket, EndPacket
  <2> QED
    BY <1>6, <2>1 DEF SkipPacket, EndPacket, NextTarget, TypeOK
<1>7. ASSUME NEW t \in Tracks, SendPacket(t) PROVE TypeOK'
  <2>1. RebasedPts \in Timestamp
    BY <1>7, RebasedTypes DEF SendPacket, LoopOK
  <2>2. dec' \in [Encoded -> Seq(Timestamp)]
    BY <1>7, <2>1 DEF SendPacket, TypeOK
  <2>3. fed' \in [Tracks -> Nat]
    BY <1>7 DEF SendPacket, TypeOK
  <2> QED
    BY <1>7, <2>2, <2>3 DEF SendPacket, TypeOK
<1>8. ASSUME NEW t \in Tracks, EncodeVideoFrame(t) PROVE TypeOK'
  <2>1. t \in Encoded /\ dec[t] \in Seq(Timestamp) /\ enc[t] \in Seq(Timestamp) /\ dec[t] # <<>>
    BY <1>8 DEF EncodeVideoFrame, Encoded, TypeOK
  <2>2. Tail(dec[t]) \in Seq(Timestamp) /\ Append(enc[t], Head(dec[t])) \in Seq(Timestamp)
    BY <2>1
  <2>3. dec' \in [Encoded -> Seq(Timestamp)] /\ enc' \in [Encoded -> Seq(Timestamp)]
    BY <1>8, <2>2 DEF EncodeVideoFrame, TypeOK
  <2> QED
    BY <1>8, <2>3 DEF EncodeVideoFrame, TypeOK
<1>9. ASSUME NEW t \in Tracks, WriteEncoded(t) PROVE TypeOK'
  <2>1. PICK dts \in EncoderDts : Mux(t, Head(enc[t]), dts, TimeBase[t])
    BY <1>9 DEF WriteEncoded
  <2>2. t \in Encoded /\ enc[t] \in Seq(Timestamp) /\ enc[t] # <<>>
    BY <1>9 DEF WriteEncoded, TypeOK
  <2>3. Head(enc[t]) \in Timestamp /\ Tail(enc[t]) \in Seq(Timestamp)
    BY <2>2
  <2>4. TimeBase[t] \in Nat \ {0} /\ dts \in Timestamp /\ t \notin Copies
    BY <2>2, TrackKinds, TimeBases, TranscodeAssumption
  <2>5. /\ sent' \in [track : Tracks, pts : Timestamp, dts : Timestamp]
        /\ last' \in [Tracks -> Timestamp]
        /\ written' \in [Tracks -> Nat]
        /\ shift' \in [Tracks -> Timestamp]
    BY <2>1, <2>3, <2>4, MuxTypes
  <2>6. enc' \in [Encoded -> Seq(Timestamp)]
    BY <1>9, <2>3 DEF WriteEncoded, TypeOK
  <2> QED
    BY <1>9, <2>5, <2>6 DEF WriteEncoded, TypeOK
<1>10. ASSUME NEW t \in Tracks,
              FlushCopy(t) \/ FlushDecoder(t) \/ DecoderDrained(t) \/ EncoderDrained(t)
       PROVE  TypeOK'
  <2>1. todo' \in Seq(Tracks)
    <3>1. <<>> \in Seq(Tracks) /\ <<t>> \in Seq(Tracks) /\ todo \in Seq(Tracks)
      BY DEF TypeOK
    <3>2. todo' \in {todo, <<t>>, <<>>}
      BY <1>10 DEF FlushCopy, FlushDecoder, DecoderDrained, EncoderDrained
    <3> QED
      BY <3>1, <3>2
  <2>2. toFlush' \subseteq Tracks
    BY <1>10 DEF FlushCopy, FlushDecoder, DecoderDrained, EncoderDrained, TypeOK
  <2>3. pulling' \in {"none", "decoder", "resampler", "tail", "encoder"}
    BY <1>10 DEF FlushCopy, FlushDecoder, DecoderDrained, EncoderDrained, TypeOK
  <2>4. UNCHANGED <<run, context, nread, cur, codecs, fed, muxed>>
    BY <1>10 DEF FlushCopy, FlushDecoder, DecoderDrained, EncoderDrained
  <2> QED
    BY <2>1, <2>2, <2>3, <2>4 DEF TypeOK
<1>11. CASE EncodeAudioFrame
  <2>1. Downmix \in Encoded /\ dec[Downmix] \in Seq(Timestamp) /\ dec[Downmix] # <<>>
    BY <1>11, TrackKinds DEF EncodeAudioFrame, TypeOK
  <2>2. Head(dec[Downmix]) \in Timestamp /\ Tail(dec[Downmix]) \in Seq(Timestamp)
    BY <2>1
  <2>3. dec' \in [Encoded -> Seq(Timestamp)]
    BY <1>11, <2>2 DEF EncodeAudioFrame, TypeOK
  <2>4. seeded' \in BOOLEAN /\ nextPts' \in Int
    <3>1. TimeBase[DownmixSource] \in Nat \ {0} /\ TimeBase[Downmix] \in Nat \ {0}
      BY TimeBases, TranscodeAssumption
    <3>2. Head(dec[Downmix]) # NoPts =>
            RescaleQ(Head(dec[Downmix]), TimeBase[DownmixSource], TimeBase[Downmix]) \in Int
      BY <2>2, <3>1, RescaleNear DEF Timestamp
    <3> QED
      BY <1>11, <3>2 DEF EncodeAudioFrame, TypeOK
  <2>5. fifo' \in Nat /\ delay' \in 0 .. 1 /\ lost' \in Nat
    BY <1>11, TranscodeAssumption DEF EncodeAudioFrame, TypeOK
  <2> QED
    BY <1>11, <2>3, <2>4, <2>5 DEF EncodeAudioFrame, TypeOK
<1>12. CASE DrainFifo
  <2>1. enc' \in [Encoded -> Seq(Timestamp)]
    BY <1>12, TrackKinds DEF DrainFifo, TypeOK, Timestamp
  <2>2. nextPts' \in Int /\ fifo' \in Nat
    BY <1>12, TranscodeAssumption DEF DrainFifo, TypeOK
  <2> QED
    BY <1>12, <2>1, <2>2 DEF DrainFifo, TypeOK
<1>13. CASE FlushResampler
  BY <1>13 DEF FlushResampler, TypeOK
<1>14. CASE EncodeTail
  <2>1. enc' \in [Encoded -> Seq(Timestamp)]
    BY <1>14, TrackKinds DEF EncodeTail, TypeOK, Timestamp
  <2> QED
    BY <1>14, <2>1 DEF EncodeTail, TypeOK
<1> QED
  BY <1>1, <1>2, <1>3, <1>4, <1>5, <1>6, <1>7, <1>8, <1>9, <1>10, <1>11,
     <1>12, <1>13, <1>14
  DEF Next, Step, DownmixStep

-----------------------------------------------------------------------------
(* The loop, and the frames.                                               *)

\* Before the first packet nothing is held and nothing written.
LEMMA InitRunInv == Init => RunInv
<1> SUFFICES ASSUME Init PROVE RunInv
  OBVIOUS
<1>1. TypeOK
  <2>1. /\ dec \in [Encoded -> Seq(Timestamp)] /\ enc \in [Encoded -> Seq(Timestamp)]
        /\ todo \in Seq(Tracks)
    BY DEF Init
  <2>2. /\ fed \in [Tracks -> Nat] /\ written \in [Tracks -> Nat]
        /\ last \in [Tracks -> Timestamp] /\ shift \in [Tracks -> Timestamp]
    BY DEF Init, Timestamp
  <2>3. nread \in 0 .. MaxPackets /\ delay \in 0 .. 1
    BY TranscodeAssumption DEF Init
  <2>4. /\ stage \in {"setup", "read", "process", "flush", "done"}
        /\ result \in {"none", "ok", "canceled", "error"}
        /\ cancelled \in BOOLEAN /\ fired \in BOOLEAN /\ seeded \in BOOLEAN
        /\ toFlush \subseteq Tracks
        /\ pulling \in {"none", "decoder", "resampler", "tail", "encoder"}
    BY DEF Init
  <2>5. fifo \in Nat /\ lost \in Nat /\ nextPts \in Int
    BY DEF Init
  <2>6. cur \in Packets \cup {None} /\ sent \in [track : Tracks, pts : Timestamp, dts : Timestamp] \cup {None}
    BY DEF Init
  <2> QED
    BY <2>1, <2>2, <2>3, <2>4, <2>5, <2>6, Zenon DEF TypeOK
<1>2. LoopOK
  BY DEF Init, LoopOK
<1>3. \A t \in Encoded : ~ Emptied(t) /\ ~ Ended(t)
  BY DEF Init, Emptied, Ended
<1>4. FramesKept
  BY <1>3, TrackKinds DEF Init, FramesKept, Encoded, Tracks, Streams
<1>5. SamplesKept
  <2>1. Len(enc[Downmix]) = 0 /\ Len(dec[Downmix]) = 0 /\ written[Downmix] = 0 /\ fed[Downmix] = 0
    BY TrackKinds DEF Init, Tracks
  <2>2. Framed = 0 /\ Decoded = 0
    BY <2>1, TranscodeAssumption DEF Framed, Decoded
  <2> QED
    BY <1>3, <2>2, TrackKinds DEF Init, SamplesKept
<1>6. ShiftBounded
  BY DEF Init, ShiftBounded, Tracks, Streams
<1> QED
  BY <1>1, <1>2, <1>4, <1>5, <1>6 DEF RunInv

\* Every step keeps the loop's bookkeeping.
LEMMA NextLoopOK == TypeOK /\ LoopOK /\ [Next]_vars => LoopOK'
<1> SUFFICES ASSUME TypeOK, LoopOK, [Next]_vars PROVE LoopOK'
  OBVIOUS
<1>1. CASE Cancel \/ Interrupt \/ Done \/ UNCHANGED vars
  <2>1. UNCHANGED <<stage, result, cur, todo, toFlush, pulling>>
    BY <1>1 DEF Cancel, Interrupt, Done
  <2> QED
    BY <2>1 DEF LoopOK, Targets
<1>2. CASE Setup \/ SetupFails \/ Fail
  BY <1>2 DEF Setup, SetupFails, Fail, Return, LoopOK
<1>3. CASE EndOfInput \/ WriteTrailer
  BY <1>3 DEF EndOfInput, WriteTrailer, Return, LoopOK
<1>4. CASE ReadFrame
  <2>1. PICK p \in Packets : /\ todo' = Targets(p)
                             /\ cur' = IF Targets(p) = <<>> THEN None ELSE p
                             /\ stage' = IF Targets(p) = <<>> THEN "read" ELSE "process"
    BY <1>4 DEF ReadFrame
  <2>2. pulling' = "none" /\ result' = "none"
    BY <1>4 DEF ReadFrame, LoopOK, TypeOK
  <2>3. CASE Targets(p) = <<>>
    BY <2>1, <2>2, <2>3 DEF LoopOK
  <2>4. CASE Targets(p) # <<>>
    BY <2>1, <2>2, <2>4 DEF LoopOK, Targets
  <2> QED
    BY <2>3, <2>4
<1>5. ASSUME NEW t \in Tracks, CopyPacket(t) \/ SkipPacket(t) \/ EndPacket(t) PROVE LoopOK'
  <2>1. stage = "process" /\ NextTarget /\ result = "none"
    BY <1>5 DEF CopyPacket, SkipPacket, EndPacket, LoopOK
  <2>2. /\ \/ stage' = "read" /\ todo' = <<>> /\ cur' = None
           \/ /\ stage' = "process" /\ cur' = cur
              /\ todo' # <<>> /\ todo' = Tail(Targets(cur))
        /\ pulling' = "none" /\ result' = "none"
    BY <2>1, NextTargetMoves DEF NextTarget
  <2> QED
    BY <2>1, <2>2 DEF LoopOK, Targets
<1>6. ASSUME NEW t \in Tracks, SendPacket(t) PROVE LoopOK'
  BY <1>6 DEF SendPacket, LoopOK, Targets
<1>7. ASSUME NEW t \in Tracks, EncodeVideoFrame(t) \/ WriteEncoded(t) PROVE LoopOK'
  <2>1. UNCHANGED <<stage, result, cur, todo, toFlush, pulling>>
    BY <1>7 DEF EncodeVideoFrame, WriteEncoded
  <2> QED
    BY <2>1 DEF LoopOK, Targets
<1>8. ASSUME NEW t \in Tracks, FlushCopy(t) \/ FlushDecoder(t) PROVE LoopOK'
  BY <1>8 DEF FlushCopy, FlushDecoder, MayFlush, LoopOK
<1>9. ASSUME NEW t \in Tracks, DecoderDrained(t) \/ EncoderDrained(t) PROVE LoopOK'
  BY <1>9 DEF DecoderDrained, EncoderDrained, LoopOK
<1>10. CASE DownmixStep
  <2>1. UNCHANGED <<stage, result, cur, todo, toFlush>>
    BY <1>10 DEF DownmixStep, EncodeAudioFrame, DrainFifo, FlushResampler, EncodeTail
  <2>2. stage \in {"process", "flush"}
    BY <1>10 DEF DownmixStep, EncodeAudioFrame, DrainFifo, FlushResampler, EncodeTail, At
  <2> QED
    BY <2>1, <2>2 DEF LoopOK, Targets
<1> QED
  BY <1>1, <1>2, <1>3, <1>4, <1>5, <1>6, <1>7, <1>8, <1>9, <1>10 DEF Next, Step

\* While a step is still to be taken in it, Run has no result yet.
LEMMA Running ==
  ASSUME RunInv, stage # "done"
  PROVE  /\ result = "none" /\ Good
         /\ \A t : Ended(t) <=> stage = "flush" /\ t \notin toFlush
  BY DEF RunInv, LoopOK, Good, Ended

\* Frames go from decoder to encoder to the file, and none is left in a track
\* that was flushed.
LEMMA NextFramesKept == RunInv /\ [Next]_vars => FramesKept'
<1> SUFFICES ASSUME RunInv, [Next]_vars PROVE FramesKept'
  OBVIOUS
<1> USE DEF RunInv
<1> DEFINE Same == UNCHANGED <<written, fed, enc, dec>>
<1>1. CASE Cancel \/ Interrupt \/ Done \/ UNCHANGED vars
  <2>1. Same /\ UNCHANGED <<stage, result, todo, toFlush, pulling>>
    BY <1>1 DEF Cancel, Interrupt, Done
  <2> QED
    BY <2>1 DEF FramesKept, Good, Emptied, Ended
<1>2. CASE Setup \/ SetupFails \/ Fail \/ WriteTrailer
  <2>1. Same /\ UNCHANGED <<todo, toFlush, pulling>> /\ stage # "done"
    BY <1>2 DEF Setup, SetupFails, Fail, WriteTrailer, Return
  <2>2. \/ stage' = "done" /\ result' # "ok"
        \/ stage' = "read" /\ result' = "none"
        \/ stage = "flush" /\ stage' = "done" /\ result' = "ok" /\ toFlush = {}
    BY <1>2, <2>1, Running DEF Setup, SetupFails, Fail, WriteTrailer, Return
  <2> QED
    BY <2>1, <2>2, Running DEF FramesKept, Good, Emptied, Ended
<1>3. CASE EndOfInput
  <2>1. Same /\ stage' = "flush" /\ toFlush' = Tracks /\ todo' = <<>> /\ stage # "done"
    BY <1>3 DEF EndOfInput, LoopOK
  <2> QED
    BY <1>3, <2>1, Running, TrackKinds DEF FramesKept, Good, Emptied, Ended, EndOfInput
<1>4. CASE ReadFrame
  <2>1. Same /\ stage' \in {"read", "process"} /\ stage # "done" /\ result' = result
    BY <1>4 DEF ReadFrame
  <2> QED
    BY <2>1, Running DEF FramesKept, Good, Emptied, Ended
<1>5. ASSUME NEW t \in Tracks, CopyPacket(t) \/ SkipPacket(t) \/ EndPacket(t) PROVE FramesKept'
  <2>1. stage = "process" /\ stage' \in {"read", "process"} /\ result' = result
    BY <1>5 DEF CopyPacket, SkipPacket, EndPacket, NextTarget
  <2>2. CASE Same
    BY <2>1, <2>2, Running DEF FramesKept, Good, Emptied, Ended
  <2>3. CASE CopyPacket(t)
    <3>1. /\ written' = [written EXCEPT ![t] = @ + 1] /\ fed' = [fed EXCEPT ![t] = @ + 1]
          /\ UNCHANGED <<enc, dec>> /\ t \in Copies \cup Subtitles
      BY <2>3 DEF CopyPacket, Mux
    <3>2. t \notin Videos
      BY <3>1, TrackKinds DEF Encoded
    <3>3. \A u \in Tracks : u # t => written'[u] = written[u] /\ fed'[u] = fed[u]
      BY <3>1 DEF TypeOK
    <3>4. written[t] = fed[t] => written'[t] = fed'[t]
      BY <3>1 DEF TypeOK
    <3>5. \A u \in Copies \cup Subtitles : written'[u] = fed'[u]
      BY <2>1, <3>3, <3>4, Running DEF FramesKept, Tracks, Streams
    <3>6. \A u \in Videos : written'[u] + Len(enc'[u]) + Len(dec'[u]) = fed'[u]
      BY <2>1, <3>1, <3>2, <3>3, Running DEF FramesKept, Tracks, Streams
    <3> QED
      BY <2>1, <3>5, <3>6, Running DEF FramesKept, Emptied, Ended
  <2> QED
    BY <1>5, <2>2, <2>3 DEF SkipPacket, EndPacket
<1>6. ASSUME NEW t \in Tracks, SendPacket(t) PROVE FramesKept'
  <2>1. /\ fed' = [fed EXCEPT ![t] = @ + 1] /\ dec' = [dec EXCEPT ![t] = Append(@, RebasedPts)]
        /\ UNCHANGED <<written, enc, stage, result>> /\ t \in Encoded /\ stage = "process"
    BY <1>6 DEF SendPacket
  <2>2. t \notin Copies \cup Subtitles
    BY <2>1, TrackKinds
  <2>3. fed'[t] = fed[t] + 1 /\ Len(dec'[t]) = Len(dec[t]) + 1
    BY <2>1 DEF TypeOK
  <2>4. /\ \A u \in Tracks : u # t => fed'[u] = fed[u]
        /\ \A u \in Encoded : u # t => dec'[u] = dec[u]
    BY <2>1 DEF TypeOK
  <2>5. \A u \in Videos : u \in Encoded /\ u \in Tracks /\ dec[u] \in Seq(Timestamp) /\ enc[u] \in Seq(Timestamp)
    BY DEF TypeOK, Encoded, Tracks, Streams
  <2>6. \A u \in Videos : written'[u] + Len(enc'[u]) + Len(dec'[u]) = fed'[u]
    <3> SUFFICES ASSUME NEW u \in Videos
                 PROVE  written'[u] + Len(enc'[u]) + Len(dec'[u]) = fed'[u]
      OBVIOUS
    <3>1. written[u] + Len(enc[u]) + Len(dec[u]) = fed[u]
      BY <2>1, Running DEF FramesKept
    <3>2. written[u] \in Nat /\ Len(enc[u]) \in Nat /\ Len(dec[u]) \in Nat
      BY <2>5 DEF TypeOK
    <3> QED
      BY <2>1, <2>3, <2>4, <2>5, <3>1, <3>2
  <2>7. \A u \in Copies \cup Subtitles : written'[u] = fed'[u]
    BY <2>1, <2>2, <2>4, Running DEF FramesKept, Tracks, Streams
  <2> QED
    BY <2>1, <2>6, <2>7, Running DEF FramesKept, Emptied, Ended
<1>7. ASSUME NEW t \in Tracks, EncodeVideoFrame(t) PROVE FramesKept'
  <2>1. /\ dec' = [dec EXCEPT ![t] = Tail(@)] /\ enc' = [enc EXCEPT ![t] = Append(@, Head(dec[t]))]
        /\ UNCHANGED <<written, fed, stage, result, todo, toFlush, pulling>>
        /\ t \in Videos /\ At(t) /\ pulling = "decoder" /\ dec[t] # <<>>
    BY <1>7 DEF EncodeVideoFrame
  <2>2. t \in Encoded /\ dec[t] \in Seq(Timestamp) /\ enc[t] \in Seq(Timestamp)
    BY <2>1 DEF Encoded, TypeOK
  <2>3. Len(dec'[t]) + 1 = Len(dec[t]) /\ Len(enc'[t]) = Len(enc[t]) + 1
    BY <2>1, <2>2, TailLength DEF TypeOK
  <2>4. \A u \in Encoded : u # t => dec'[u] = dec[u] /\ enc'[u] = enc[u]
    BY <2>1 DEF TypeOK
  <2>5. ~ Emptied(t) /\ ~ Ended(t)
    BY <2>1, HeadOfTodo, Running DEF At, Emptied, Ended
  <2>6. \A u \in Encoded : (Emptied(u))' = Emptied(u) /\ (Ended(u))' = Ended(u)
    BY <2>1 DEF Emptied, Ended
  <2>7. Good /\ Good'
    BY <2>1 DEF At, Good
  <2>8. \A u \in Videos : u \in Encoded /\ dec[u] \in Seq(Timestamp) /\ enc[u] \in Seq(Timestamp)
                          /\ written[u] \in Nat /\ Len(dec'[u]) \in Nat /\ Len(enc'[u]) \in Nat
    BY <2>2, <2>3, <2>4 DEF TypeOK, Encoded, Tracks, Streams
  <2>9. \A u \in Videos : written'[u] + Len(enc'[u]) + Len(dec'[u]) = fed'[u]
    <3> SUFFICES ASSUME NEW u \in Videos
                 PROVE  written'[u] + Len(enc'[u]) + Len(dec'[u]) = fed'[u]
      OBVIOUS
    <3>1. written[u] + Len(enc[u]) + Len(dec[u]) = fed[u]
      BY <2>7 DEF FramesKept
    <3>2. written[u] \in Nat /\ Len(enc[u]) \in Nat /\ Len(dec[u]) \in Nat
      BY <2>8
    <3>3. CASE u = t
      <4>1. written'[u] = written[u] /\ fed'[u] = fed[u]
        BY <2>1
      <4>2. Len(dec'[u]) + 1 = Len(dec[u]) /\ Len(enc'[u]) = Len(enc[u]) + 1 /\ Len(dec'[u]) \in Nat
        BY <2>3, <2>8, <3>3
      <4> DEFINE d == Len(dec[u])
                 e == Len(enc[u])
                 d1 == Len(dec'[u])
                 e1 == Len(enc'[u])
      <4>3. /\ written[u] + e + d = fed[u] /\ written[u] \in Nat /\ e \in Nat /\ d \in Nat
            /\ d1 + 1 = d /\ e1 = e + 1 /\ d1 \in Nat
        BY <3>1, <3>2, <4>2
      <4> HIDE DEF d, e, d1, e1
      <4>4. written[u] + e1 + d1 = fed[u]
        BY <4>3
      <4> QED
        BY <4>1, <4>4 DEF d1, e1
    <3>4. CASE u # t
      BY <2>1, <2>4, <2>8, <3>1, <3>4
    <3> QED
      BY <3>3, <3>4
  <2> QED
    BY <2>1, <2>4, <2>5, <2>6, <2>7, <2>9 DEF FramesKept
<1>8. ASSUME NEW t \in Tracks, WriteEncoded(t) PROVE FramesKept'
  <2>1. /\ enc' = [enc EXCEPT ![t] = Tail(@)] /\ written' = [written EXCEPT ![t] = @ + 1]
        /\ UNCHANGED <<dec, fed, stage, result, todo, toFlush, pulling>>
        /\ t \in Encoded /\ At(t) /\ enc[t] # <<>>
    BY <1>8 DEF WriteEncoded, Mux
  <2>2. enc[t] \in Seq(Timestamp) /\ t \notin Copies \cup Subtitles
    BY <2>1, TrackKinds DEF TypeOK
  <2>3. Len(enc'[t]) + 1 = Len(enc[t]) /\ Len(enc'[t]) \in Nat /\ written'[t] = written[t] + 1
    BY <2>1, <2>2, TailLength DEF TypeOK
  <2>4. /\ \A u \in Encoded : u # t => enc'[u] = enc[u]
        /\ \A u \in Tracks : u # t => written'[u] = written[u]
    BY <2>1 DEF TypeOK
  <2>5. ~ Ended(t)
    BY <2>1, HeadOfTodo, Running DEF At, Ended
  <2>6. \A u \in Encoded : (Emptied(u))' = Emptied(u) /\ (Ended(u))' = Ended(u)
    BY <2>1 DEF Emptied, Ended
  <2>7. Good /\ Good'
    BY <2>1 DEF At, Good
  <2>8. \A u \in Videos : u \in Encoded /\ u \in Tracks /\ dec[u] \in Seq(Timestamp) /\ enc[u] \in Seq(Timestamp)
                          /\ written[u] \in Nat
    BY DEF TypeOK, Encoded, Tracks, Streams
  <2>9. \A u \in Videos : written'[u] + Len(enc'[u]) + Len(dec'[u]) = fed'[u]
    <3> SUFFICES ASSUME NEW u \in Videos
                 PROVE  written'[u] + Len(enc'[u]) + Len(dec'[u]) = fed'[u]
      OBVIOUS
    <3>1. written[u] + Len(enc[u]) + Len(dec[u]) = fed[u]
      BY <2>7 DEF FramesKept
    <3>2. written[u] \in Nat /\ Len(enc[u]) \in Nat /\ Len(dec[u]) \in Nat
      BY <2>8
    <3>3. CASE u = t
      <4>1. dec'[u] = dec[u] /\ fed'[u] = fed[u]
        BY <2>1
      <4>2. Len(enc'[u]) + 1 = Len(enc[u]) /\ written'[u] = written[u] + 1 /\ Len(enc'[u]) \in Nat
        BY <2>3, <3>3
      <4> QED
        BY <3>1, <3>2, <4>1, <4>2
    <3>4. CASE u # t
      BY <2>1, <2>4, <2>8, <3>1, <3>4
    <3> QED
      BY <3>3, <3>4
  <2>10. \A u \in Copies \cup Subtitles : written'[u] = fed'[u]
    BY <2>1, <2>2, <2>4, <2>7 DEF FramesKept, Tracks, Streams
  <2> QED
    BY <2>1, <2>4, <2>5, <2>6, <2>7, <2>9, <2>10 DEF FramesKept
<1>9. ASSUME NEW t \in Tracks, FlushCopy(t) \/ FlushDecoder(t) PROVE FramesKept'
  <2>1. Same /\ UNCHANGED <<stage, result>> /\ stage = "flush" /\ todo = <<>> /\ t \in toFlush
    BY <1>9 DEF FlushCopy, FlushDecoder, MayFlush
  <2>2. Good /\ Good' /\ result = "none"
    BY <2>1, Running DEF Good
  <2>3. \A u \in Encoded : ((Emptied(u))' => Emptied(u)) /\ ((Ended(u))' => Ended(u))
    <3>1. CASE FlushCopy(t)
      BY <2>1, <2>2, <3>1 DEF FlushCopy, Emptied, Ended
    <3>2. CASE FlushDecoder(t)
      BY <2>1, <2>2, <3>2 DEF FlushDecoder, Emptied, Ended
    <3> QED
      BY <1>9, <3>1, <3>2
  <2> QED
    BY <2>1, <2>2, <2>3 DEF FramesKept
<1>10. ASSUME NEW t \in Tracks, DecoderDrained(t) PROVE FramesKept'
  <2>1. Same /\ UNCHANGED <<stage, result, todo, toFlush>> /\ stage = "flush" /\ dec[t] = <<>> /\ At(t)
    BY <1>10 DEF DecoderDrained
  <2>2. todo = <<t>> /\ Good /\ Good'
    BY <2>1, HeadOfTodo DEF At, Good
  <2>3. \A u \in Encoded : ((Emptied(u))' => Emptied(u) \/ u = t) /\ ((Ended(u))' => Ended(u))
    BY <2>1, <2>2 DEF Emptied, Ended
  <2> QED
    BY <2>1, <2>2, <2>3 DEF FramesKept
<1>11. ASSUME NEW t \in Tracks, EncoderDrained(t) PROVE FramesKept'
  <2>1. Same /\ UNCHANGED <<stage, result>> /\ stage = "flush" /\ enc[t] = <<>> /\ At(t)
        /\ pulling = "encoder" /\ toFlush' = toFlush \ {t} /\ todo' = <<>>
    BY <1>11 DEF EncoderDrained
  <2>2. todo = <<t>> /\ t \in Encoded /\ Good /\ Good' /\ result = "none"
    BY <2>1, HeadOfTodo, Running DEF At, Good
  <2>3. \A u \in Encoded : ((Emptied(u))' => Emptied(u)) /\ ((Ended(u))' => Ended(u) \/ u = t)
    BY <2>1, <2>2 DEF Emptied, Ended
  <2> QED
    BY <2>1, <2>2, <2>3 DEF FramesKept
<1>12. CASE DownmixStep
  <2>1. /\ UNCHANGED <<written, fed, stage, result, todo, toFlush>>
        /\ At(Downmix)
        /\ \A u \in Encoded : u # Downmix => dec'[u] = dec[u] /\ enc'[u] = enc[u]
    BY <1>12 DEF DownmixStep, EncodeAudioFrame, DrainFifo, FlushResampler, EncodeTail, TypeOK
  <2>2. Good /\ Good' /\ (stage = "flush" => todo = <<Downmix>> /\ Downmix \in toFlush) /\ result = "none"
    BY <2>1, HeadOfTodo, Running DEF At, Good
  <2>3. (Emptied(Downmix))' => dec'[Downmix] = <<>>
    <3>1. CASE EncodeTail
      BY <2>2, <3>1 DEF EncodeTail, SamplesKept
    <3>2. CASE EncodeAudioFrame \/ DrainFifo \/ FlushResampler
      BY <2>1, <2>2, <3>2 DEF EncodeAudioFrame, DrainFifo, FlushResampler, Emptied, Ended
    <3> QED
      BY <1>12, <3>1, <3>2 DEF DownmixStep
  <2>4. ~ (Ended(Downmix))'
    BY <2>1, <2>2 DEF Ended
  <2>5. \A u \in Encoded : u # Downmix =>
          ((Emptied(u))' => Emptied(u)) /\ ((Ended(u))' => Ended(u))
    BY <2>1, <2>2 DEF Emptied, Ended, At
  <2>6. \A u \in Videos : u \in Encoded /\ u # Downmix
    BY TrackKinds DEF Encoded, Streams
  <2> QED
    BY <2>1, <2>2, <2>3, <2>4, <2>5, <2>6 DEF FramesKept
<1> QED
  BY <1>1, <1>2, <1>3, <1>4, <1>5, <1>6, <1>7, <1>8, <1>9, <1>10, <1>11, <1>12 DEF Next, Step

-----------------------------------------------------------------------------
(* The samples of the downmix.                                             *)

\* The counts of the downmix are numbers.
LEMMA CountTypes ==
  ASSUME TypeOK
  PROVE  /\ Framed \in Nat /\ Decoded \in Int
         /\ fed[Downmix] \in Nat /\ written[Downmix] \in Nat
         /\ dec[Downmix] \in Seq(Timestamp) /\ enc[Downmix] \in Seq(Timestamp)
         /\ Len(dec[Downmix]) \in Nat /\ Len(enc[Downmix]) \in Nat
<1>1. Downmix \in Tracks /\ Downmix \in Encoded
  BY TrackKinds
<1>2. /\ fed[Downmix] \in Nat /\ written[Downmix] \in Nat
      /\ dec[Downmix] \in Seq(Timestamp) /\ enc[Downmix] \in Seq(Timestamp)
  BY <1>1 DEF TypeOK
<1>3. Len(dec[Downmix]) \in Nat /\ Len(enc[Downmix]) \in Nat
  BY <1>2
<1> DEFINE w == written[Downmix] + Len(enc[Downmix])
           f == fed[Downmix] - Len(dec[Downmix])
<1>4. w \in Nat /\ f \in Int
  BY <1>2, <1>3
<1> HIDE DEF w, f
<1>5. w * FrameSize \in Nat /\ f * SourceSamples \in Int
  BY <1>4, TranscodeAssumption, SMT
<1> QED
  BY <1>2, <1>3, <1>5 DEF Framed, Decoded, w, f

\* One frame more, or one decoded frame more.
LEMMA OneMore == ASSUME NEW n \in Int, NEW k \in Int PROVE (n + 1) * k = n * k + k
  BY SMT

\* What a step that leaves the samples where they are does to their count.
LEMMA SamplesStay ==
  ASSUME RunInv, Good, Framed' = Framed, Decoded' = Decoded,
         UNCHANGED <<fifo, delay, lost>>,
         (Emptied(Downmix))' <=> Emptied(Downmix),
         stage' = "flush" /\ todo' = <<Downmix>> /\ pulling' \in {"resampler", "tail"} =>
           dec'[Downmix] = <<>>,
         stage' = "flush" /\ todo' = <<Downmix>> /\ pulling' = "tail" => delay = 0
  PROVE  SamplesKept'
  BY DEF RunInv, SamplesKept

\* Samples go from the decoder to the resampler and the FIFO, and from there
\* into frames, one frame at a time and the last one padded.
LEMMA NextSamplesKept == RunInv /\ [Next]_vars => SamplesKept'
<1> SUFFICES ASSUME RunInv, [Next]_vars PROVE SamplesKept'
  OBVIOUS
<1> USE DEF RunInv
<1> DEFINE Same == UNCHANGED <<written, fed, enc, dec, fifo, delay, lost>>
<1>0. Same => Framed' = Framed /\ Decoded' = Decoded
  BY DEF Framed, Decoded
<1>types. /\ Framed \in Nat /\ Decoded \in Int
      /\ fifo \in Nat /\ delay \in Nat /\ lost \in Nat
      /\ FrameSize \in Nat \ {0} /\ SourceSamples \in Nat \ {0}
  BY CountTypes, TranscodeAssumption DEF TypeOK
<1>1. CASE Cancel \/ Interrupt \/ Done \/ UNCHANGED vars
  <2>1. Same /\ UNCHANGED <<stage, result, todo, toFlush, pulling>>
    BY <1>1 DEF Cancel, Interrupt, Done
  <2> QED
    BY <2>1 DEF SamplesKept, Good, Emptied, Ended, Framed, Decoded
<1>2. CASE Setup \/ SetupFails \/ Fail \/ WriteTrailer
  <2>1. Same /\ UNCHANGED <<todo, toFlush, pulling>> /\ stage # "done"
    BY <1>2 DEF Setup, SetupFails, Fail, WriteTrailer, Return
  <2>2. \/ stage' = "done" /\ result' # "ok"
        \/ stage = "setup" /\ stage' = "read" /\ result' = "none"
        \/ stage = "flush" /\ stage' = "done" /\ result' = "ok" /\ toFlush = {}
    BY <1>2, <2>1, Running DEF Setup, SetupFails, Fail, WriteTrailer, Return
  <2>3. CASE stage' = "done" /\ result' # "ok"
    BY <2>3 DEF SamplesKept, Good
  <2>4. CASE stage' # "done" \/ result' = "ok"
    <3>1. Good /\ (Emptied(Downmix))' = Emptied(Downmix)
      BY <2>1, <2>2, <2>4, Running DEF Good, Emptied, Ended
    <3> QED
      BY <1>0, <2>1, <2>2, <2>4, <3>1, SamplesStay
  <2> QED
    BY <2>3, <2>4
<1>3. CASE EndOfInput
  <2>1. /\ Same /\ stage' = "flush" /\ toFlush' = Tracks /\ todo' = <<>>
        /\ stage = "read" /\ Good /\ result' = "none"
    BY <1>3, Running DEF EndOfInput, LoopOK
  <2>2. ~ Emptied(Downmix) /\ ~ (Emptied(Downmix))'
    BY <1>3, <2>1, Running, TrackKinds DEF Emptied, Ended, EndOfInput
  <2> QED
    BY <1>0, <2>1, <2>2, SamplesStay
<1>4. CASE ReadFrame
  <2>1. Same /\ stage' \in {"read", "process"} /\ stage = "read" /\ Good /\ result' = "none"
    BY <1>4, Running DEF ReadFrame
  <2>2. ~ Emptied(Downmix) /\ ~ (Emptied(Downmix))'
    BY <2>1, Running DEF Emptied, Ended
  <2> QED
    BY <1>0, <2>1, <2>2, SamplesStay
<1>5. ASSUME NEW t \in Tracks, CopyPacket(t) \/ SkipPacket(t) \/ EndPacket(t) PROVE SamplesKept'
  <2>1. /\ stage = "process" /\ stage' \in {"read", "process"} /\ Good /\ result' = "none"
        /\ UNCHANGED <<enc, dec, fifo, delay, lost>>
    BY <1>5, Running DEF CopyPacket, SkipPacket, EndPacket, NextTarget
  <2>2. written'[Downmix] = written[Downmix] /\ fed'[Downmix] = fed[Downmix]
    <3>1. CASE CopyPacket(t)
      <4>1. t # Downmix
        BY <3>1, TrackKinds DEF CopyPacket
      <4> QED
        BY <3>1, <4>1, TrackKinds DEF CopyPacket, Mux, TypeOK
    <3> QED
      BY <1>5, <3>1 DEF SkipPacket, EndPacket
  <2>3. Framed' = Framed /\ Decoded' = Decoded
    BY <2>1, <2>2 DEF Framed, Decoded
  <2>4. ~ Emptied(Downmix) /\ ~ (Emptied(Downmix))'
    BY <2>1, Running DEF Emptied, Ended
  <2> QED
    BY <2>1, <2>3, <2>4, SamplesStay
<1>6. ASSUME NEW t \in Tracks, SendPacket(t) PROVE SamplesKept'
  <2>1. /\ fed' = [fed EXCEPT ![t] = @ + 1] /\ dec' = [dec EXCEPT ![t] = Append(@, RebasedPts)]
        /\ UNCHANGED <<written, enc, stage, result, fifo, delay, lost>>
        /\ t \in Encoded /\ stage = "process"
    BY <1>6 DEF SendPacket
  <2>2. Framed' = Framed
    BY <2>1 DEF Framed
  <2>3. Decoded' = Decoded
    <3>1. CASE t = Downmix
      <4>1. fed'[Downmix] = fed[Downmix] + 1 /\ Len(dec'[Downmix]) = Len(dec[Downmix]) + 1
        BY <2>1, <3>1 DEF TypeOK
      <4> DEFINE d == Len(dec[Downmix])
                 d1 == Len(dec'[Downmix])
      <4>2. d \in Nat /\ d1 = d + 1 /\ fed[Downmix] \in Nat /\ fed'[Downmix] = fed[Downmix] + 1
        BY <4>1, CountTypes
      <4> HIDE DEF d, d1
      <4>3. fed'[Downmix] - d1 = fed[Downmix] - d
        BY <4>2
      <4> QED
        BY <4>3 DEF Decoded, d, d1
    <3>2. CASE t # Downmix
      <4>1. fed'[Downmix] = fed[Downmix] /\ dec'[Downmix] = dec[Downmix]
        BY <2>1, <3>2, TrackKinds DEF TypeOK
      <4> QED
        BY <4>1 DEF Decoded
    <3> QED
      BY <3>1, <3>2
  <2>4. ~ Emptied(Downmix) /\ ~ (Emptied(Downmix))' /\ Good
    BY <2>1, Running DEF Emptied, Ended
  <2> QED
    BY <2>1, <2>2, <2>3, <2>4, SamplesStay
<1>7. ASSUME NEW t \in Tracks, EncodeVideoFrame(t) PROVE SamplesKept'
  <2>1. /\ UNCHANGED <<written, fed, stage, result, todo, toFlush, pulling, fifo, delay, lost>>
        /\ t # Downmix /\ Good
    BY <1>7, TrackKinds DEF EncodeVideoFrame, At, Good, Streams
  <2>2. dec'[Downmix] = dec[Downmix] /\ enc'[Downmix] = enc[Downmix]
    BY <1>7, <2>1, TrackKinds DEF EncodeVideoFrame, TypeOK
  <2>3. Framed' = Framed /\ Decoded' = Decoded
    BY <2>1, <2>2 DEF Framed, Decoded
  <2>4. (Emptied(Downmix))' = Emptied(Downmix)
    BY <2>1 DEF Emptied, Ended
  <2> QED
    BY <2>1, <2>2, <2>3, <2>4, SamplesStay DEF SamplesKept
<1>8. ASSUME NEW t \in Tracks, WriteEncoded(t) PROVE SamplesKept'
  <2>1. /\ enc' = [enc EXCEPT ![t] = Tail(@)] /\ written' = [written EXCEPT ![t] = @ + 1]
        /\ UNCHANGED <<dec, fed, stage, result, todo, toFlush, pulling, fifo, delay, lost>>
        /\ t \in Encoded /\ enc[t] # <<>> /\ Good
    BY <1>8 DEF WriteEncoded, Mux, At, Good
  <2>2. Framed' = Framed
    <3>1. CASE t = Downmix
      <4> DEFINE e == Len(enc[Downmix])
                 e1 == Len(enc'[Downmix])
      <4>1. /\ written'[Downmix] = written[Downmix] + 1 /\ written[Downmix] \in Nat
            /\ e1 = e - 1 /\ e \in Nat
        BY <2>1, <3>1, CountTypes, TailLength DEF TypeOK
      <4> HIDE DEF e, e1
      <4>2. written'[Downmix] + e1 = written[Downmix] + e
        BY <4>1
      <4> QED
        BY <4>2 DEF Framed, e, e1
    <3>2. CASE t # Downmix
      <4>1. written'[Downmix] = written[Downmix] /\ enc'[Downmix] = enc[Downmix]
        BY <2>1, <3>2, TrackKinds DEF TypeOK
      <4> QED
        BY <4>1 DEF Framed
    <3> QED
      BY <3>1, <3>2
  <2>3. Decoded' = Decoded
    BY <2>1 DEF Decoded
  <2>4. (Emptied(Downmix))' = Emptied(Downmix)
    BY <2>1 DEF Emptied, Ended
  <2> QED
    BY <2>1, <2>2, <2>3, <2>4, SamplesStay DEF SamplesKept
<1>9. ASSUME NEW t \in Tracks, FlushCopy(t) \/ FlushDecoder(t) PROVE SamplesKept'
  <2>1. Same /\ UNCHANGED <<stage, result>> /\ stage = "flush" /\ todo = <<>> /\ t \in toFlush
    BY <1>9 DEF FlushCopy, FlushDecoder, MayFlush
  <2>2. Good
    BY <2>1, Running
  <2>3. CASE FlushCopy(t)
    <3>1. t # Downmix /\ toFlush' = toFlush \ {t} /\ todo' = <<>>
      BY <2>1, <2>3, TrackKinds DEF FlushCopy
    <3>2. (Emptied(Downmix))' = Emptied(Downmix)
      BY <2>1, <3>1 DEF Emptied, Ended
    <3> QED
      BY <1>0, <2>1, <2>2, <3>1, <3>2, SamplesStay
  <2>4. CASE FlushDecoder(t)
    <3>1. pulling' = "decoder" /\ toFlush' = toFlush /\ todo' = <<t>>
      BY <2>1, <2>4 DEF FlushDecoder
    <3>2. (Emptied(Downmix))' = Emptied(Downmix)
      BY <2>1, <3>1 DEF Emptied, Ended
    <3> QED
      BY <1>0, <2>1, <2>2, <3>1, <3>2, SamplesStay
  <2> QED
    BY <1>9, <2>3, <2>4
<1>10. ASSUME NEW t \in Tracks, DecoderDrained(t) PROVE SamplesKept'
  <2>1. /\ Same /\ UNCHANGED <<stage, result, todo, toFlush>> /\ stage = "flush"
        /\ dec[t] = <<>> /\ pulling = "decoder" /\ At(t)
        /\ pulling' = IF t = Downmix THEN "resampler" ELSE "encoder"
    BY <1>10 DEF DecoderDrained
  <2>2. todo = <<t>> /\ Good /\ (todo = <<Downmix>> <=> t = Downmix)
    BY <2>1, HeadOfTodo DEF At, Good
  <2>3. (Emptied(Downmix))' = Emptied(Downmix)
    BY <2>1, <2>2 DEF Emptied, Ended
  <2> QED
    BY <1>0, <2>1, <2>2, <2>3, SamplesStay
<1>11. ASSUME NEW t \in Tracks, EncoderDrained(t) PROVE SamplesKept'
  <2>1. Same /\ UNCHANGED <<stage, result>> /\ stage = "flush" /\ At(t)
        /\ pulling = "encoder" /\ toFlush' = toFlush \ {t} /\ todo' = <<>>
    BY <1>11 DEF EncoderDrained
  <2>2. todo = <<t>> /\ Good /\ (todo = <<Downmix>> <=> t = Downmix)
    BY <2>1, HeadOfTodo DEF At, Good
  <2>3. (Emptied(Downmix))' = Emptied(Downmix)
    BY <2>1, <2>2 DEF Emptied, Ended
  <2> QED
    BY <1>0, <2>1, <2>2, <2>3, SamplesStay
<1>12. ASSUME DownmixStep
       PROVE  /\ UNCHANGED <<written, fed, stage, result, todo, toFlush>>
              /\ Good /\ (stage = "flush" => todo = <<Downmix>> /\ Downmix \in toFlush)
              /\ result = "none" /\ Downmix \in Encoded
              /\ ~ Ended(Downmix) /\ ~ (Ended(Downmix))'
  <2>1. UNCHANGED <<written, fed, stage, result, todo, toFlush>> /\ At(Downmix)
    BY <1>12 DEF DownmixStep, EncodeAudioFrame, DrainFifo, FlushResampler, EncodeTail
  <2>2. Good /\ (stage = "flush" => todo = <<Downmix>> /\ Downmix \in toFlush) /\ result = "none"
    BY <2>1, HeadOfTodo, Running DEF At, Good
  <2> QED
    BY <2>1, <2>2, TrackKinds DEF Ended
<1>13. CASE EncodeAudioFrame
  <2>1. DownmixStep /\ dec[Downmix] # <<>> /\ pulling = "decoder" /\ pulling' = "decoder"
        /\ dec' = [dec EXCEPT ![Downmix] = Tail(@)] /\ enc' = enc
    BY <1>13 DEF DownmixStep, EncodeAudioFrame
  <2>2. Framed' = Framed
    BY <1>12, <2>1 DEF Framed
  <2>3. Decoded' = Decoded + SourceSamples
    <3> DEFINE n == fed[Downmix] - Len(dec[Downmix])
               n1 == fed'[Downmix] - Len(dec'[Downmix])
    <3>1. n \in Int /\ n1 = n + 1
      <4>1. Len(dec'[Downmix]) = Len(dec[Downmix]) - 1
        BY <1>12, <2>1, CountTypes, TailLength DEF TypeOK
      <4> DEFINE d == Len(dec[Downmix])
                 d1 == Len(dec'[Downmix])
      <4>2. d \in Nat /\ d1 = d - 1 /\ fed[Downmix] \in Nat
        BY <4>1, CountTypes
      <4> HIDE DEF d, d1
      <4>3. fed[Downmix] - d1 = fed[Downmix] - d + 1 /\ fed[Downmix] - d \in Int
        BY <4>2
      <4> QED
        BY <1>12, <2>1, <4>3 DEF d, d1
    <3> HIDE DEF n, n1
    <3>2. n1 * SourceSamples = n * SourceSamples + SourceSamples
      BY <3>1, OneMore, TranscodeAssumption
    <3> QED
      BY <3>2 DEF n, n1, Decoded
  <2>4. ~ Emptied(Downmix) /\ ~ (Emptied(Downmix))'
    BY <1>12, <2>1 DEF Emptied
  <2>5. PICK rebuilt \in BOOLEAN, held \in 0 .. 1 :
          /\ delay' = held
          /\ lost' = lost + (IF rebuilt THEN delay ELSE 0)
          /\ fifo' = fifo + (IF rebuilt THEN 0 ELSE delay) + SourceSamples - held
    BY <1>13 DEF EncodeAudioFrame
  <2>6. Framed + fifo + delay + lost = Decoded
    BY <1>12, <2>1, <2>4 DEF SamplesKept
  <2>7. Framed' + fifo' + delay' + lost' = Decoded'
    BY <1>types, <2>2, <2>3, <2>5, <2>6
  <2> QED
    BY <2>1, <2>4, <2>7 DEF SamplesKept
<1>14. ASSUME DownmixStep, enc' = [enc EXCEPT ![Downmix] = Append(@, nextPts)]
       PROVE  Framed' = Framed + FrameSize
  <2> DEFINE n == written[Downmix] + Len(enc[Downmix])
             n1 == written'[Downmix] + Len(enc'[Downmix])
  <2>1. n \in Int /\ n1 = n + 1
    <3> DEFINE e == Len(enc[Downmix])
               e1 == Len(enc'[Downmix])
    <3>1. e \in Nat /\ e1 = e + 1 /\ written[Downmix] \in Nat
      BY <1>12, <1>14, CountTypes DEF TypeOK
    <3> HIDE DEF e, e1
    <3>2. written[Downmix] + e1 = written[Downmix] + e + 1 /\ written[Downmix] + e \in Int
      BY <3>1
    <3> QED
      BY <1>12, <1>14, <3>2 DEF e, e1
  <2> HIDE DEF n, n1
  <2>2. n1 * FrameSize = n * FrameSize + FrameSize
    BY <2>1, OneMore, TranscodeAssumption
  <2> QED
    BY <2>2 DEF n, n1, Framed
<1>15. CASE DrainFifo
  <2>1. /\ DownmixStep /\ enc' = [enc EXCEPT ![Downmix] = Append(@, nextPts)]
        /\ UNCHANGED <<dec, pulling, delay, lost>> /\ fifo >= FrameSize /\ fifo' = fifo - FrameSize
        /\ pulling \in {"decoder", "tail"}
    BY <1>15 DEF DownmixStep, DrainFifo
  <2>2. Framed' = Framed + FrameSize /\ Decoded' = Decoded
    BY <1>12, <1>14, <2>1 DEF Decoded
  <2>3. ~ Emptied(Downmix) /\ ~ (Emptied(Downmix))'
    BY <1>12, <2>1 DEF Emptied
  <2>4. Framed + fifo + delay + lost = Decoded
    BY <1>12, <2>1, <2>3 DEF SamplesKept
  <2>5. Framed' + fifo' + delay' + lost' = Decoded'
    BY <1>types, <2>1, <2>2, <2>4
  <2> QED
    BY <1>12, <2>1, <2>3, <2>5 DEF SamplesKept
<1>16. CASE FlushResampler
  <2>1. /\ DownmixStep /\ UNCHANGED <<enc, dec, lost>> /\ fifo' = fifo + delay /\ delay' = 0
        /\ pulling = "resampler" /\ pulling' = "tail" /\ stage = "flush"
    BY <1>16 DEF DownmixStep, FlushResampler
  <2>2. Framed' = Framed /\ Decoded' = Decoded
    BY <1>12, <2>1 DEF Framed, Decoded
  <2>3. ~ Emptied(Downmix) /\ ~ (Emptied(Downmix))'
    BY <1>12, <2>1 DEF Emptied
  <2>4. Framed + fifo + delay + lost = Decoded /\ dec[Downmix] = <<>>
    BY <1>12, <2>1, <2>3 DEF SamplesKept
  <2>5. Framed' + fifo' + delay' + lost' = Decoded'
    BY <1>types, <2>1, <2>2, <2>4
  <2> QED
    BY <1>12, <2>1, <2>3, <2>4, <2>5 DEF SamplesKept
<1>17. CASE EncodeTail
  <2>1. /\ DownmixStep /\ UNCHANGED <<dec, delay, lost>> /\ fifo < FrameSize /\ fifo' = 0
        /\ enc' = [enc EXCEPT ![Downmix] = IF fifo > 0 THEN Append(@, nextPts) ELSE @]
        /\ pulling = "tail" /\ pulling' = "encoder" /\ stage = "flush"
    BY <1>17 DEF DownmixStep, EncodeTail
  <2>2. ~ Emptied(Downmix) /\ (Emptied(Downmix))'
    BY <1>12, <2>1 DEF Emptied
  <2>3. Framed + fifo + delay + lost = Decoded /\ delay = 0
    BY <1>12, <2>1, <2>2 DEF SamplesKept
  <2>4. Decoded' = Decoded
    BY <1>12, <2>1 DEF Decoded
  <2>5. Framed' = IF fifo > 0 THEN Framed + FrameSize ELSE Framed
    <3>1. CASE fifo > 0
      BY <1>14, <2>1, <3>1
    <3>2. CASE ~ (fifo > 0)
      <4>1. enc' = enc
        BY <2>1, <3>2 DEF TypeOK
      <4> QED
        BY <1>12, <2>1, <3>2, <4>1 DEF Framed
    <3> QED
      BY <3>1, <3>2
  <2>6. Framed' \in (Decoded' - lost') .. (Decoded' - lost' + FrameSize - 1)
    BY <1>types, <2>1, <2>3, <2>4, <2>5
  <2> QED
    BY <2>1, <2>2, <2>3, <2>6 DEF SamplesKept
<1> QED
  BY <1>1, <1>2, <1>3, <1>4, <1>5, <1>6, <1>7, <1>8, <1>9, <1>10, <1>11, <1>13,
     <1>15, <1>16, <1>17
  DEF Next, Step, DownmixStep

-----------------------------------------------------------------------------
(* The drift of the copied tracks.                                         *)

\* Rebasing and then rescaling a timestamp moves it, in time, by the offset
\* and the rounding of both.
LEMMA Drift ==
  ASSUME NEW x \in Int, NEW off \in Int, NEW a \in Nat \ {0}, NEW b \in Nat \ {0},
         NEW o, o = RescaleQ(off, 1, a), NEW q, q = RescaleQ(x + o, a, b)
  PROVE  /\ q \in Int /\ o \in Int
         /\ 2 * ((q * b - x * a) - off) <= b + a
         /\ -(2 * ((q * b - x * a) - off)) <= b + a
<1>1. o \in Int /\ 2 * (o * a - off * 1) <= a /\ -(2 * (o * a - off * 1)) <= a
  BY RescaleNear
<1>2. x + o \in Int
  BY <1>1
<1>3. /\ q \in Int
      /\ 2 * (q * b - (x + o) * a) <= b /\ -(2 * (q * b - (x + o) * a)) <= b
  BY <1>2, RescaleNear
<1>4. (x + o) * a = x * a + o * a /\ off * 1 = off
  BY <1>1, SMT
<1>5. q * b \in Int /\ x * a \in Int /\ o * a \in Int
  BY <1>1, <1>3, SMT
<1> DEFINE qb == q * b
           xa == x * a
           oa == o * a
<1>6. /\ qb \in Int /\ xa \in Int /\ oa \in Int
      /\ 2 * (oa - off) <= a /\ -(2 * (oa - off)) <= a
      /\ 2 * (qb - (xa + oa)) <= b /\ -(2 * (qb - (xa + oa))) <= b
  BY <1>1, <1>3, <1>4, <1>5
<1> HIDE DEF qb, xa, oa
<1>7. 2 * ((qb - xa) - off) <= b + a /\ -(2 * ((qb - xa) - off)) <= b + a
  BY <1>6
<1> QED
  BY <1>1, <1>3, <1>7 DEF qb, xa

\* Every step keeps the copied tracks within the rounding of their timebases.
LEMMA NextShiftBounded == RunInv /\ [Next]_vars => ShiftBounded'
<1> SUFFICES ASSUME RunInv, [Next]_vars PROVE ShiftBounded'
  OBVIOUS
<1> USE DEF RunInv
<1>1. CASE UNCHANGED shift
  BY <1>1 DEF ShiftBounded
<1>2. ASSUME NEW t \in Tracks, CopyPacket(t) PROVE ShiftBounded'
  <2> SUFFICES ASSUME NEW u \in Copies, shift'[u] # NoPts
               PROVE  /\ 2 * (shift'[u] + Origin) <= OutTimeBase[u] + TimeBase[u]
                      /\ -(2 * (shift'[u] + Origin)) <= OutTimeBase[u] + TimeBase[u]
    BY DEF ShiftBounded
  <2>1. CASE u # t
    <3>1. shift'[u] = shift[u]
      BY <1>2, <2>1, TrackKinds DEF CopyPacket, Mux, TypeOK
    <3> QED
      BY <3>1 DEF ShiftBounded
  <2>2. CASE u = t
    <3>1. stage = "process" /\ Head(todo) = t /\ todo # <<>>
      BY <1>2 DEF CopyPacket, LoopOK
    <3>2. cur \in Packets /\ t = cur.stream
      BY <2>2, <3>1, HeadOfTodo, TrackKinds
    <3> DEFINE p == RescaleTs(RebasedPts, TimeBase[t], OutTimeBase[t])
               d == RescaleTs(RebasedDts, TimeBase[t], OutTimeBase[t])
               out == MonotonicDtsClamp(last[t], d, p)
    <3>3. shift' = [shift EXCEPT ![t] =
            IF t \in Copies /\ cur.pts # NoPts /\ out.pts = p
              THEN out.pts * OutTimeBase[t] - cur.pts * TimeBase[t] ELSE NoPts]
      BY <1>2 DEF CopyPacket, Mux
    <3> HIDE DEF p, out
    <3>4. cur.pts # NoPts /\ shift'[t] = p * OutTimeBase[t] - cur.pts * TimeBase[t]
      BY <2>2, <3>3 DEF TypeOK
    <3> DEFINE off == RebaseOffset(StartTime)
               o == RescaleQ(off, 1, TimeBase[t])
    <3>5. cur.pts \in Int /\ off \in Int /\ Origin = -off
      BY <3>2, <3>4, RebasedTypes, TranscodeAssumption DEF Timestamp, RebaseOffset, Origin
    <3>6. TimeBase[t] \in Nat \ {0} /\ OutTimeBase[t] \in Nat \ {0} /\ o \in Int
      <4>1. TimeBase[t] \in Nat \ {0} /\ OutTimeBase[t] \in Nat \ {0}
        BY TimeBases, TrackKinds
      <4>2. 1 \in Nat \ {0}
        OBVIOUS
      <4> HIDE DEF off
      <4>3. RescaleQ(off, 1, TimeBase[t]) \in Int
        BY <3>5, <4>1, <4>2, RescaleNear
      <4> QED
        BY <4>1, <4>3 DEF o
    <3>7. RebasedPts = cur.pts + o /\ RebasedPts \in Int
      BY <3>2, <3>4, <3>5, <3>6 DEF RebasedPts, Rebased
    <3>8. p = RescaleQ(cur.pts + o, TimeBase[t], OutTimeBase[t])
      BY <3>7, NoPtsAssumption DEF p, RescaleTs
    <3> HIDE DEF off, o
    <3>9. /\ p \in Int
          /\ 2 * ((p * OutTimeBase[t] - cur.pts * TimeBase[t]) - off) <= OutTimeBase[t] + TimeBase[t]
          /\ -(2 * ((p * OutTimeBase[t] - cur.pts * TimeBase[t]) - off)) <= OutTimeBase[t] + TimeBase[t]
      BY <3>5, <3>6, <3>8, Drift DEF o
    <3>10. p * OutTimeBase[t] - cur.pts * TimeBase[t] \in Int
      BY <3>5, <3>6, <3>9, SMT
    <3>11. \A y \in Int : y + Origin = y - off
      BY <3>5
    <3> QED
      BY <2>2, <3>4, <3>9, <3>10, <3>11
  <2> QED
    BY <2>1, <2>2
<1>3. ASSUME NEW t \in Tracks, WriteEncoded(t) PROVE ShiftBounded'
  <2>1. t \notin Copies
    BY <1>3, TrackKinds DEF WriteEncoded
  <2>2. \A u \in Copies : shift'[u] = shift[u]
    BY <1>3, <2>1 DEF WriteEncoded, Mux, TypeOK, Tracks, Streams
  <2> QED
    BY <2>2 DEF ShiftBounded
<1>4. ASSUME [Next]_vars
      PROVE  UNCHANGED shift \/ \E t \in Tracks : CopyPacket(t) \/ WriteEncoded(t)
  BY <1>4
  DEF Next, Step, DownmixStep, Cancel, Interrupt, Done, Setup, SetupFails, Fail, Return,
      ReadFrame, EndOfInput, WriteTrailer, SkipPacket, SendPacket, EncodeVideoFrame,
      EndPacket, FlushCopy, FlushDecoder, DecoderDrained, EncoderDrained,
      EncodeAudioFrame, DrainFifo, FlushResampler, EncodeTail
<1> QED
  BY <1>1, <1>2, <1>3, <1>4

-----------------------------------------------------------------------------
(* The theorems.                                                           *)

\* Every step keeps the invariant.
LEMMA NextRunInv == RunInv /\ [Next]_vars => RunInv'
<1> SUFFICES ASSUME RunInv, [Next]_vars PROVE RunInv'
  OBVIOUS
<1>1. TypeOK' /\ LoopOK'
  BY NextTypeOK, NextLoopOK DEF RunInv
<1>2. FramesKept' /\ SamplesKept' /\ ShiftBounded'
  BY NextFramesKept, NextSamplesKept, NextShiftBounded
<1> QED
  BY <1>1, <1>2 DEF RunInv

\* The invariant of the packet loop and the flush holds in every reachable state
\* (readAllPackets, flushAllEncoders).
THEOREM RunInvariance == Spec => []RunInv
  BY InitRunInv, NextRunInv, PTL DEF Spec

\* The variables keep their types: no timestamp is lost in a rescaling and no
\* stream is taken twice.
THEOREM RunTypeCorrect == Spec => []TypeOK
<1>1. RunInv => TypeOK
  BY DEF RunInv
<1> QED
  BY <1>1, RunInvariance, PTL

\* A Run that reports success has written every packet it took in: nothing
\* stays behind in a decoder, an encoder or an unflushed track (Run's flushes).
THEOREM SuccessWhole == Spec => []SuccessIsWhole
<1>1. ASSUME RunInv, result = "ok"
      PROVE  /\ \A t \in Streams : written[t] = fed[t]
             /\ dec[Downmix] = <<>> /\ enc[Downmix] = <<>>
  <2>1. Good /\ \A t : Ended(t) /\ Emptied(t)
    BY <1>1 DEF RunInv, LoopOK, Good, Ended, Emptied
  <2>2. \A t \in Encoded : dec[t] = <<>> /\ enc[t] = <<>>
    BY <1>1, <2>1 DEF RunInv, FramesKept
  <2>3. \A t \in Videos : written[t] = fed[t]
    <3>1. Len(<<>>) = 0
      OBVIOUS
    <3>2. \A t \in Videos : t \in Encoded /\ t \in Tracks
      BY DEF Encoded, Tracks, Streams
    <3>3. \A t \in Videos : written[t] + 0 + 0 = fed[t] /\ written[t] \in Nat
      BY <1>1, <2>1, <2>2, <3>1, <3>2 DEF RunInv, FramesKept, TypeOK
    <3> QED
      BY <3>3
  <2>4. \A t \in Copies \cup Subtitles : written[t] = fed[t]
    BY <1>1, <2>1 DEF RunInv, FramesKept
  <2> QED
    BY <2>2, <2>3, <2>4, TrackKinds DEF Streams
<1>2. RunInv => SuccessIsWhole
  BY <1>1 DEF SuccessIsWhole
<1> QED
  BY <1>2, RunInvariance, PTL

\* The downmix of a successful Run has every decoded sample and less than a
\* frame of silence, whatever the frame sizes of decoder and encoder, and
\* wherever the resampler is rebuilt (encodeAudioFrame, drainFifo, flush).
THEOREM DownmixWhole == Spec => []DownmixIsWhole
<1>1. ASSUME RunInv, result = "ok"
      PROVE  LET samples == fed[Downmix] * SourceSamples - lost
             IN written[Downmix] * FrameSize \in samples .. samples + FrameSize - 1
  <2>1. Good /\ Ended(Downmix) /\ Emptied(Downmix)
    BY <1>1 DEF RunInv, LoopOK, Good, Ended, Emptied
  <2>2. dec[Downmix] = <<>> /\ enc[Downmix] = <<>>
    BY <1>1, <2>1, TrackKinds DEF RunInv, FramesKept
  <2>3. Framed \in (Decoded - lost) .. (Decoded - lost + FrameSize - 1)
    BY <1>1, <2>1 DEF RunInv, SamplesKept
  <2>4. Len(<<>>) = 0 /\ fed[Downmix] \in Nat /\ written[Downmix] \in Nat
    BY <1>1, CountTypes DEF RunInv
  <2>5. Framed = written[Downmix] * FrameSize /\ Decoded = fed[Downmix] * SourceSamples
    <3>1. written[Downmix] + Len(enc[Downmix]) = written[Downmix]
      BY <2>2, <2>4
    <3>2. fed[Downmix] - Len(dec[Downmix]) = fed[Downmix]
      BY <2>2, <2>4
    <3> QED
      BY <3>1, <3>2 DEF Framed, Decoded
  <2> QED
    BY <2>3, <2>5
<1>2. RunInv => DownmixIsWhole
  BY <1>1 DEF DownmixIsWhole
<1> QED
  BY <1>2, RunInvariance, PTL

\* The copied tracks stay in sync up to the rounding of their timebases, for
\* any start time and any timebases (rebase, RescaleTs).
THEOREM CopiesSynced == Spec => []CopiesInSync
<1>1. ASSUME RunInv PROVE CopiesInSync
  <2> SUFFICES ASSUME NEW s \in Copies, NEW t \in Copies, shift[s] # NoPts, shift[t] # NoPts
               PROVE  2 * (shift[s] - shift[t])
                        <= OutTimeBase[s] + OutTimeBase[t] + TimeBase[s] + TimeBase[t]
    BY DEF CopiesInSync
  <2>1. s \in Tracks /\ t \in Tracks
    BY DEF Tracks, Streams
  <2>2. /\ shift[s] \in Int /\ shift[t] \in Int /\ Origin \in Int
        /\ OutTimeBase[s] \in Nat /\ OutTimeBase[t] \in Nat
        /\ TimeBase[s] \in Nat /\ TimeBase[t] \in Nat
    BY <1>1, <2>1, TimeBases, TrackKinds, TranscodeAssumption
    DEF RunInv, TypeOK, Timestamp, Origin
  <2>3. /\ 2 * (shift[s] + Origin) <= OutTimeBase[s] + TimeBase[s]
        /\ -(2 * (shift[t] + Origin)) <= OutTimeBase[t] + TimeBase[t]
    BY <1>1 DEF RunInv, ShiftBounded
  <2> QED
    BY <2>2, <2>3
<1> QED
  BY <1>1, RunInvariance, PTL

\* What the muxer is given never goes back, on any track, whatever timestamps
\* the input has (monotonicDTSClamp).
THEOREM DtsIncreases == Spec => DtsIncreasing
<1> DEFINE Increases ==
      written' # written =>
        /\ last[sent'.track] # NoPts =>
             sent'.dts # NoPts /\ sent'.dts > last[sent'.track]
        /\ sent'.dts # NoPts /\ sent'.pts # NoPts => sent'.pts >= sent'.dts
<1>1. ASSUME RunInv, [Next]_vars PROVE Increases
  <2>1. ASSUME NEW t \in Tracks, CopyPacket(t) PROVE Increases
    <3>1. cur \in Packets
      BY <1>1, <2>1 DEF RunInv, CopyPacket, LoopOK
    <3>2. /\ RebasedPts \in Timestamp /\ RebasedDts \in Timestamp
          /\ cur.pts # NoPts => RebasedPts # NoPts
      BY <3>1, RebasedTypes
    <3>3. TimeBase[t] \in Nat \ {0} /\ Mux(t, RebasedPts, RebasedDts, TimeBase[t])
      BY <2>1, TrackKinds, TimeBases DEF CopyPacket
    <3> QED
      BY <1>1, <3>1, <3>2, <3>3, MuxTypes DEF RunInv
  <2>2. ASSUME NEW t \in Tracks, WriteEncoded(t) PROVE Increases
    <3>1. PICK dts \in EncoderDts : Mux(t, Head(enc[t]), dts, TimeBase[t])
      BY <2>2 DEF WriteEncoded
    <3>2. t \in Encoded /\ enc[t] \in Seq(Timestamp) /\ enc[t] # <<>>
      BY <1>1, <2>2 DEF RunInv, WriteEncoded, TypeOK
    <3>3. Head(enc[t]) \in Timestamp
      BY <3>2
    <3>4. TimeBase[t] \in Nat \ {0} /\ dts \in Timestamp /\ t \notin Copies
      BY <3>2, TrackKinds, TimeBases, TranscodeAssumption
    <3> QED
      BY <1>1, <3>1, <3>3, <3>4, MuxTypes DEF RunInv
  <2>3. UNCHANGED written \/ \E t \in Tracks : CopyPacket(t) \/ WriteEncoded(t)
    BY <1>1
    DEF Next, Step, DownmixStep, Cancel, Interrupt, Done, Setup, SetupFails, Fail, Return,
        ReadFrame, EndOfInput, WriteTrailer, SkipPacket, SendPacket, EncodeVideoFrame,
        EndPacket, FlushCopy, FlushDecoder, DecoderDrained, EncoderDrained,
        EncodeAudioFrame, DrainFifo, FlushResampler, EncodeTail
  <2> QED
    BY <2>1, <2>2, <2>3
<1>2. RunInv /\ [Next]_vars => [Increases]_vars
  BY <1>1
<1> QED
  BY <1>2, RunInvariance, PTL DEF Spec, DtsIncreasing
=============================================================================
