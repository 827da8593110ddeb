---------------------------- MODULE TranscodeRun ----------------------------
(***************************************************************************)
(* One Transcoder.Run (pkg/ffmpeg): the packet loop, the decode and encode *)
(* pipelines of its tracks, the flush of all encoders and the trailer,     *)
(* with libav failing anywhere and the context cancelled at any time.      *)
(*                                                                         *)
(* libav is external: a decoder gives its frames back, and an encoder its  *)
(* packets, when it likes; it holds at most BufferCap of them between two  *)
(* packets and all of them are out when it is drained.                     *)
(***************************************************************************)
EXTENDS Timestamps, Sequences, FiniteSets

CONSTANTS
  Copies,         \* input streams that are muxed as they are
  AdtsCopies,     \* those of Copies that carry AAC without extradata
  Subtitles,      \* input streams run through the subtitle converter
  Videos,         \* input streams that are re-encoded
  Dropped,        \* input streams that are not in the output
  Downmix,        \* the synthesized AC-3 track
  DownmixSource,  \* the input stream it is made from
  None,
  TimeBase,       \* timebase of each input stream
  OutTimeBase,    \* timebase of each output track
  StartTime,      \* start time of the container, or NoPts
  PacketPts, PacketDts,   \* timestamps a packet of the input can carry
  EncoderDts,     \* DTS an encoder can give a packet
  SourceSamples,  \* samples of a decoded audio frame
  FrameSize,      \* samples of a frame of the encoder
  MaxPackets, BufferCap   \* bounds: packets read, frames held by libav

Streams == Copies \cup Subtitles \cup Videos
Encoded == Videos \cup {Downmix}
Tracks == Streams \cup {Downmix}
Input == Streams \cup Dropped

Packets == [stream : Input, pts : PacketPts, dts : PacketDts, whole : BOOLEAN]

ASSUME TranscodeAssumption ==
  /\ AdtsCopies \subseteq Copies
  /\ Copies \cap Subtitles = {} /\ Streams \cap Dropped = {}
  /\ Videos \cap (Copies \cup Subtitles) = {}
  /\ Downmix \notin Input /\ DownmixSource \in Input
  /\ TimeBase \in [Input \cup {Downmix} -> Nat \ {0}]
  /\ OutTimeBase \in [Tracks -> Nat \ {0}]
  /\ StartTime \in Timestamp
  /\ PacketPts \subseteq Timestamp /\ PacketDts \subseteq Timestamp
  /\ EncoderDts \subseteq Timestamp
  /\ SourceSamples \in Nat \ {0} /\ FrameSize \in Nat \ {0}
  /\ None \notin Packets
  /\ MaxPackets \in Nat /\ BufferCap \in Nat

VARIABLES
  stage,      \* how far Run got
  result,     \* what it returned
  cancelled,  \* the context is done
  fired,      \* the watch goroutine has interrupted the input
  nread,      \* packets read
  cur, todo,  \* the packet in the loop and the tracks that still take it
  toFlush,    \* tracks whose flush has not returned
  pulling,    \* which part of the track at hand is being emptied
  dec, enc,   \* timestamps of the frames in each decoder and encoder
  fifo, delay,         \* samples in the audio FIFO and in the resampler
  lost,                \* samples dropped when the resampler is rebuilt
  nextPts, seeded,     \* running PTS of the FIFO's frames
  fed, written,        \* per track: frames or packets taken in, written
  last,       \* lastWrittenDts
  sent,       \* the packet handed to the muxer last
  shift       \* per track: how far that packet moved, if it was not repaired

run == <<stage, result>>
context == <<cancelled, fired>>
loop == <<nread, cur, todo, toFlush, pulling>>
audio == <<fifo, delay, lost, nextPts, seeded>>
codecs == <<dec, enc, audio>>
muxed == <<written, last, sent, shift>>
vars == <<run, context, loop, codecs, fed, muxed>>

TypeOK ==
  /\ stage \in {"setup", "read", "process", "flush", "done"}
  /\ result \in {"none", "ok", "canceled", "error"}
  /\ cancelled \in BOOLEAN /\ fired \in BOOLEAN /\ seeded \in BOOLEAN
  /\ nread \in 0 .. MaxPackets
  /\ cur \in Packets \cup {None} /\ todo \in Seq(Tracks)
  /\ toFlush \subseteq Tracks
  /\ pulling \in {"none", "decoder", "resampler", "tail", "encoder"}
  /\ dec \in [Encoded -> Seq(Timestamp)] /\ enc \in [Encoded -> Seq(Timestamp)]
  /\ fifo \in Nat /\ delay \in 0 .. 1 /\ lost \in Nat /\ nextPts \in Int
  /\ fed \in [Tracks -> Nat] /\ written \in [Tracks -> Nat]
  /\ last \in [Tracks -> Timestamp]
  /\ sent \in [track : Tracks, pts : Timestamp, dts : Timestamp] \cup {None}
  /\ shift \in [Tracks -> Timestamp]

Init ==
  /\ stage = "setup" /\ result = "none"
  /\ cancelled \in BOOLEAN /\ fired = FALSE
  /\ nread = 0 /\ cur = None /\ todo = <<>>
  /\ toFlush = {} /\ pulling = "none"
  /\ dec = [t \in Encoded |-> <<>>] /\ enc = [t \in Encoded |-> <<>>]
  /\ fifo = 0 /\ delay = 0 /\ lost = 0 /\ nextPts = 0 /\ seeded = FALSE
  /\ fed = [t \in Tracks |-> 0] /\ written = [t \in Tracks |-> 0]
  /\ last = [t \in Tracks |-> NoPts]
  /\ sent = None /\ shift = [t \in Tracks |-> NoPts]

-----------------------------------------------------------------------------
(* The context and the goroutine that watches it.                          *)

Cancel == ~cancelled /\ cancelled' = TRUE
          /\ UNCHANGED <<run, fired, loop, codecs, fed, muxed>>

Interrupt == cancelled /\ ~fired /\ stage # "done" /\ fired' = TRUE
             /\ UNCHANGED <<run, cancelled, loop, codecs, fed, muxed>>

Return(r) == stage' = "done" /\ result' = r
             /\ UNCHANGED <<context, loop, codecs, fed, muxed>>

(* Opening the input, building the streams and the output, and the header. *)
(* A dead context is reported first; a failure of OpenInput may be one.    *)
Setup ==
  /\ stage = "setup"
  /\ IF cancelled
       THEN Return("canceled")
       ELSE stage' = "read" /\ UNCHANGED <<result, context, loop, codecs, fed, muxed>>

SetupFails == stage = "setup" /\ \E r \in {"error"} \cup (IF cancelled THEN {"canceled"} ELSE {}) : Return(r)

(* Any call into libav can fail; an interrupted Run reports the context.   *)
Fail ==
  /\ stage \in {"read", "process", "flush"}
  /\ Return(IF fired THEN "canceled" ELSE "error")

-----------------------------------------------------------------------------
(* Writing: rescale, repair, hand to the muxer, remember the DTS.          *)

Mux(t, pts, dts, base) ==
  LET p == RescaleTs(pts, base, OutTimeBase[t])
      d == RescaleTs(dts, base, OutTimeBase[t])
      out == MonotonicDtsClamp(last[t], d, p)
  IN /\ sent' = [track |-> t, pts |-> out.pts, dts |-> out.dts]
     /\ last' = [last EXCEPT ![t] = out.dts]
     /\ written' = [written EXCEPT ![t] = @ + 1]
     /\ shift' = [shift EXCEPT ![t] =
          IF t \in Copies /\ cur.pts # NoPts /\ out.pts = p
            THEN out.pts * OutTimeBase[t] - cur.pts * base ELSE NoPts]

(* The tracks a packet goes to: the downmix first, on a clone of its own.  *)
Targets(p) ==
  (IF p.stream = DownmixSource THEN <<Downmix>> ELSE <<>>)
  \o (IF p.stream \in Streams THEN <<p.stream>> ELSE <<>>)

ReadFrame ==
  /\ stage = "read" /\ nread < MaxPackets
  /\ \E p \in Packets :
       /\ p.stream \in AdtsCopies \/ p.whole
       /\ todo' = Targets(p)
       /\ cur' = IF Targets(p) = <<>> THEN None ELSE p
       /\ stage' = IF Targets(p) = <<>> THEN "read" ELSE "process"
  /\ nread' = nread + 1
  /\ UNCHANGED <<result, context, toFlush, pulling, codecs, fed, muxed>>

RebasedPts == Rebased(cur.pts, StartTime, TimeBase[cur.stream])
RebasedDts == Rebased(cur.dts, StartTime, TimeBase[cur.stream])

(* The track at hand is done with the packet.                              *)
NextTarget ==
  /\ todo' = Tail(todo)
  /\ stage' = IF Len(todo) = 1 THEN "read" ELSE "process"
  /\ cur' = IF Len(todo) = 1 THEN None ELSE cur
  /\ pulling' = "none"
  /\ UNCHANGED <<result, context, nread, toFlush>>

Malformed(t) == t \in AdtsCopies /\ ~cur.whole

CopyPacket(t) ==
  /\ stage = "process" /\ Head(todo) = t
  /\ t \in Copies \cup Subtitles /\ ~Malformed(t)
  /\ Mux(t, RebasedPts, RebasedDts, TimeBase[t])
  /\ fed' = [fed EXCEPT ![t] = @ + 1]
  /\ NextTarget /\ UNCHANGED codecs

(* A fragment that is no ADTS frame, or a subtitle packet that decodes to  *)
(* nothing, is passed over before its timestamps are looked at.            *)
SkipPacket(t) ==
  /\ stage = "process" /\ Head(todo) = t
  /\ Malformed(t) \/ t \in Subtitles
  /\ NextTarget /\ UNCHANGED <<codecs, fed, muxed>>

-----------------------------------------------------------------------------
(* A re-encoded track: packet -> decoder -> [resampler -> FIFO ->] encoder *)
(* -> muxer.  Each step below is one turn of a receive loop.               *)

At(t) == stage \in {"process", "flush"} /\ todo # <<>> /\ Head(todo) = t

SendPacket(t) ==
  /\ stage = "process" /\ At(t) /\ t \in Encoded /\ pulling = "none"
  /\ dec' = [dec EXCEPT ![t] = Append(@, RebasedPts)]
  /\ fed' = [fed EXCEPT ![t] = @ + 1]
  /\ pulling' = "decoder"
  /\ UNCHANGED <<run, context, nread, cur, todo, toFlush, enc, audio, muxed>>

(* encodeVideoFrame: the frame keeps its PTS through scaling and upload.   *)
EncodeVideoFrame(t) ==
  /\ At(t) /\ t \in Videos /\ pulling = "decoder" /\ dec[t] # <<>>
  /\ dec' = [dec EXCEPT ![t] = Tail(@)]
  /\ enc' = [enc EXCEPT ![t] = Append(@, Head(dec[t]))]
  /\ UNCHANGED <<run, context, loop, audio, fed, muxed>>

(* encodeAudioFrame up to the FIFO.  The first frame with a PTS seeds the  *)
(* running counter; a change of sample format rebuilds the resampler and   *)
(* drops what it held.                                                     *)
EncodeAudioFrame ==
  /\ At(Downmix) /\ pulling = "decoder" /\ dec[Downmix] # <<>> /\ fifo < FrameSize
  /\ dec' = [dec EXCEPT ![Downmix] = Tail(@)]
  /\ LET pts == Head(dec[Downmix])
     IN IF ~seeded /\ pts # NoPts
          THEN seeded' = TRUE
               /\ nextPts' = RescaleQ(pts, TimeBase[DownmixSource], TimeBase[Downmix])
          ELSE UNCHANGED <<seeded, nextPts>>
  /\ \E rebuilt \in BOOLEAN, held \in 0 .. 1 :
       /\ delay' = held
       /\ lost' = lost + (IF rebuilt THEN delay ELSE 0)
       /\ fifo' = fifo + (IF rebuilt THEN 0 ELSE delay) + SourceSamples - held
  /\ UNCHANGED <<run, context, loop, enc, fed, muxed>>

(* The loop runs while there are samples at all.                           *)
DrainFifo_Partial ==
  /\ At(Downmix) /\ pulling \in {"decoder", "tail"} /\ fifo > 0
  /\ Len(enc[Downmix]) <= BufferCap
  /\ enc' = [enc EXCEPT ![Downmix] = Append(@, nextPts)]
  /\ nextPts' = nextPts + FrameSize
  /\ fifo' = fifo - FrameSize
  /\ UNCHANGED <<run, context, loop, dec, delay, lost, seeded, fed, muxed>>

(* drainFifo: full frames only.                                            *)
DrainFifo ==
  /\ At(Downmix) /\ pulling \in {"decoder", "tail"} /\ fifo >= FrameSize
  /\ Len(enc[Downmix]) <= BufferCap
  /\ enc' = [enc EXCEPT ![Downmix] = Append(@, nextPts)]
  /\ nextPts' = nextPts + FrameSize
  /\ fifo' = fifo - FrameSize
  /\ UNCHANGED <<run, context, loop, dec, delay, lost, seeded, fed, muxed>>

(* receiveAndWritePackets: one packet of the encoder.                      *)
WriteEncoded(t) ==
  /\ At(t) /\ t \in Encoded /\ enc[t] # <<>>
  /\ \E dts \in EncoderDts : Mux(t, Head(enc[t]), dts, TimeBase[t])
  /\ enc' = [enc EXCEPT ![t] = Tail(@)]
  /\ UNCHANGED <<run, context, loop, dec, audio, fed>>

(* Decoder and encoder want more input before they give more.              *)
EndPacket(t) ==
  /\ stage = "process" /\ At(t) /\ pulling = "decoder"
  /\ Len(dec[t]) <= BufferCap /\ Len(enc[t]) <= BufferCap
  /\ t = Downmix => fifo < FrameSize
  /\ NextTarget /\ UNCHANGED <<codecs, fed, muxed>>

-----------------------------------------------------------------------------
(* End of input: every track is flushed, the downmix last, then the        *)
(* trailer is written.                                                     *)

EndOfInput ==
  /\ stage = "read" /\ stage' = "flush" /\ toFlush' = Tracks
  /\ UNCHANGED <<result, context, nread, cur, todo, pulling, codecs, fed, muxed>>

MayFlush(t) == stage = "flush" /\ todo = <<>> /\ t \in toFlush /\ (t = Downmix => toFlush = {Downmix})

FlushCopy(t) ==
  /\ MayFlush(t) /\ t \notin Encoded
  /\ toFlush' = toFlush \ {t}
  /\ UNCHANGED <<run, context, nread, cur, todo, pulling, codecs, fed, muxed>>

(* The encoder is flushed without the decoder before it.                   *)
FlushDecoder_EncoderOnly(t) ==
  /\ MayFlush(t) /\ t \in Encoded
  /\ todo' = <<t>> /\ pulling' = "encoder"
  /\ UNCHANGED <<run, context, nread, cur, toFlush, codecs, fed, muxed>>

FlushDecoder(t) ==
  /\ MayFlush(t) /\ t \in Encoded
  /\ todo' = <<t>> /\ pulling' = "decoder"
  /\ UNCHANGED <<run, context, nread, cur, toFlush, codecs, fed, muxed>>

(* A decoder in drain mode gives every frame it holds.                     *)
DecoderDrained(t) ==
  /\ stage = "flush" /\ At(t) /\ pulling = "decoder" /\ dec[t] = <<>>
  /\ t = Downmix => fifo < FrameSize
  /\ pulling' = IF t = Downmix THEN "resampler" ELSE "encoder"
  /\ UNCHANGED <<run, context, nread, cur, todo, toFlush, codecs, fed, muxed>>

FlushResampler ==
  /\ stage = "flush" /\ At(Downmix) /\ pulling = "resampler"
  /\ fifo' = fifo + delay /\ delay' = 0
  /\ pulling' = "tail"
  /\ UNCHANGED <<run, context, nread, cur, todo, toFlush, dec, enc, lost, nextPts, seeded, fed, muxed>>

(* Only whole frames are drained: the tail stays behind.                   *)
EncodeTail_Truncate ==
  /\ stage = "flush" /\ At(Downmix) /\ pulling = "tail" /\ fifo < FrameSize
  /\ pulling' = "encoder"
  /\ UNCHANGED <<run, context, nread, cur, todo, toFlush, codecs, fed, muxed>>

(* What is left in the FIFO goes out in a frame padded with silence.       *)
EncodeTail ==
  /\ stage = "flush" /\ At(Downmix) /\ pulling = "tail" /\ fifo < FrameSize
  /\ enc' = [enc EXCEPT ![Downmix] = IF fifo > 0 THEN Append(@, nextPts) ELSE @]
  /\ fifo' = 0
  /\ pulling' = "encoder"
  /\ UNCHANGED <<run, context, nread, cur, todo, toFlush, dec, delay, lost, nextPts, seeded, fed, muxed>>

EncoderDrained(t) ==
  /\ stage = "flush" /\ At(t) /\ pulling = "encoder" /\ enc[t] = <<>>
  /\ toFlush' = toFlush \ {t} /\ todo' = <<>> /\ pulling' = "none"
  /\ UNCHANGED <<run, context, nread, cur, codecs, fed, muxed>>

WriteTrailer == stage = "flush" /\ toFlush = {} /\ \E r \in {"ok", "error"} : Return(r)

Done == stage = "done" /\ UNCHANGED vars

Step(t) ==
  \/ CopyPacket(t) \/ SkipPacket(t)
  \/ SendPacket(t) \/ EncodeVideoFrame(t) \/ WriteEncoded(t) \/ EndPacket(t)
  \/ FlushCopy(t) \/ FlushDecoder(t) \/ DecoderDrained(t) \/ EncoderDrained(t)

DownmixStep == EncodeAudioFrame \/ DrainFifo \/ FlushResampler \/ EncodeTail

Next ==
  \/ Cancel \/ Interrupt \/ Done
  \/ Setup \/ SetupFails \/ Fail
  \/ ReadFrame \/ EndOfInput \/ WriteTrailer
  \/ \E t \in Tracks : Step(t)
  \/ DownmixStep

Spec == Init /\ [][Next]_vars

-----------------------------------------------------------------------------
(* Properties.                                                             *)

(* What the muxer rejects: on no track does a packet come out without a    *)
(* DTS above the one before it, or with a PTS behind its DTS, whatever the *)
(* input, the encoders and the rounding of the timebases do.  A failed     *)
(* write leaves the baseline where it was.                                 *)
DtsIncreasing ==
  [][written' # written =>
       /\ last[sent'.track] # NoPts =>
            sent'.dts # NoPts /\ sent'.dts > last[sent'.track]
       /\ sent'.dts # NoPts /\ sent'.pts # NoPts => sent'.pts >= sent'.dts]_vars

(* A Run that reports success has written everything it read: no frame     *)
(* stays in a decoder, an encoder or the flush of another track.           *)
SuccessIsWhole ==
  result = "ok" => /\ \A t \in Streams : written[t] = fed[t]
                   /\ dec[Downmix] = <<>> /\ enc[Downmix] = <<>>

(* The downmix has every sample that was decoded, apart from those a       *)
(* rebuilt resampler dropped, and less than a frame of silence.            *)
DownmixIsWhole ==
  result = "ok" =>
    LET samples == fed[Downmix] * SourceSamples - lost
    IN written[Downmix] * FrameSize \in samples .. samples + FrameSize - 1

(* The tracks stay in sync: packets that were not repaired have moved by   *)
(* the same time on every copied track, up to the rounding of a timebase.  *)
CopiesInSync ==
  \A s, t \in Copies :
    shift[s] # NoPts /\ shift[t] # NoPts =>
      2 * (shift[s] - shift[t]) <= OutTimeBase[s] + OutTimeBase[t] + TimeBase[s] + TimeBase[t]

=============================================================================
