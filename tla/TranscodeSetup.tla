--------------------------- MODULE TranscodeSetup ---------------------------
(***************************************************************************)
(* From the probe of a file to the header of its output: what RunTranscode *)
(* asks for (workflows/media) and what the transcoder (pkg/ffmpeg) makes   *)
(* of it.  The streams of the input are built one after the other, then    *)
(* the tracks of the output, the downmix and the cover art; libav may fail *)
(* at any of these steps.                                                  *)
(*                                                                         *)
(* An input is a sequence of streams.  The pipeline always writes Matroska *)
(* and never re-encodes audio other than for the downmix: any other audio  *)
(* stream is copied, whatever its codec.  Index 0 stands for a nil index.  *)
(***************************************************************************)
EXTENDS VideoPlan, FiniteSets

CONSTANTS
  Jobs,    \* [input, mkv, crop, art, machine]
  Tagless  \* the codecs libav's Matroska muxer has no tag for

Kinds == {"video", "audio", "subtitle", "attachment", "data"}
StreamType == [kind : Kinds, codec : STRING, pic : BOOLEAN, lang : STRING,
               ch : Nat, default : BOOLEAN]

(* The codecs of the streams the transcoder makes have a tag, and so has   *)
(* the video of a file that is in Matroska already.                        *)
ASSUME TaglessAssumption == {"h265", "ass", "ac3"} \cap Tagless = {}

ASSUME JobsAssumption ==
  \A j \in Jobs : /\ j.input \in Seq(StreamType)
                  /\ {j.mkv, j.crop, j.art} \subseteq BOOLEAN
                  /\ j.machine \in Machines
                  /\ j.mkv => \A k \in DOMAIN j.input :
                       j.input[k].kind = "video" => j.input[k].codec \notin Tagless

(* What libav says of a codec: a still image; text that can become ASS;    *)
(* whether the Matroska muxer has a tag for it.                            *)
IsStillImageCodec(c) == c = "mjpeg"
IsTextSubtitleCodec(c) == c \in {"srt", "mov_text"}
MatroskaSupportsCodec(c) == c \notin Tagless

VARIABLES
  job,      \* the job, once and for all
  stage,    \* the function Run is in
  i,        \* the stream it is at
  streams,  \* buildStreamStates: what becomes of the streams built so far
  plans,    \* the wiring of the re-encoded ones
  out       \* the tracks of the output so far
vars == <<job, stage, i, streams, plans, out>>

input == job.input
Of(kind) == {k \in DOMAIN input : input[k].kind = kind}
First(S) == IF S = {} THEN 0 ELSE CHOOSE k \in S : \A l \in S : k <= l
Tagged(kind) == {k \in Of(kind) : input[k].lang = "eng"}

-----------------------------------------------------------------------------
(* What RunTranscode asks for.                                             *)

NonEnglishAudioIndices == IF Tagged("audio") = {} THEN {} ELSE Of("audio") \ Tagged("audio")
NonEnglishSubtitleIndices == Of("subtitle") \ Tagged("subtitle")
ExcludeStreams == NonEnglishAudioIndices \cup NonEnglishSubtitleIndices

(* The probe reports the first video stream of the file; a crop needs a    *)
(* re-encode.                                                              *)
SelectVideoCodec ==
  IF job.mkv /\ input[First(Of("video"))].codec \in {"h264", "h265"} /\ ~job.crop
    THEN "copy" ELSE "h265"

(* RunProbe takes a stream whose layout is unknown for a surround one.     *)
EffectiveChannelCount(k) == IF input[k].ch = 0 THEN 6 ELSE input[k].ch

(* Decided on all audio streams, those that are left out too.              *)
DownmixSourceIndex_All ==
  IF \E k \in Of("audio") : EffectiveChannelCount(k) <= 3 THEN 0
  ELSE First({k \in Of("audio") \ NonEnglishAudioIndices : EffectiveChannelCount(k) >= 4})

DownmixSourceIndex ==
  LET retained == Of("audio") \ NonEnglishAudioIndices
  IN IF \E k \in retained : EffectiveChannelCount(k) <= 3 THEN 0
     ELSE First({k \in retained : EffectiveChannelCount(k) >= 4})

DefaultStream(kind) == First(Tagged(kind))

-----------------------------------------------------------------------------
(* buildStreamStates.                                                      *)

Wanted == DOMAIN input \ ExcludeStreams

(* Any video stream passes for a real one.                                 *)
HasRealVideoStream_Any == Of("video") \cap Wanted # {}

HasRealVideoStream ==
  \E k \in Of("video") \cap Wanted : ~input[k].pic /\ ~IsStillImageCodec(input[k].codec)

DroppedFromMKV(s) ==
  \/ s.kind = "video" /\ s.pic
  \/ s.kind = "video" /\ HasRealVideoStream /\ IsStillImageCodec(s.codec)
  \/ s.kind = "attachment" /\ job.art

Reencoded(s) == s.kind = "video" /\ SelectVideoCodec # "copy"

Dropped(k) ==
  \/ k \notin Wanted
  \/ DroppedFromMKV(input[k])
  \/ ~Reencoded(input[k]) /\ input[k].kind = "data"      \* matroskaAcceptsTrackMediaType

(* The converter goes to the codecs that need none.                        *)
StreamState_NativeOnly(s) ==
  IF Reencoded(s) THEN "video"
  ELSE IF s.kind = "subtitle" /\ MatroskaSupportsCodec(s.codec) THEN "subtitle"
  ELSE "copy"

StreamState(s) ==
  IF Reencoded(s) THEN "video"
  ELSE IF s.kind = "subtitle" /\ ~MatroskaSupportsCodec(s.codec) /\ IsTextSubtitleCodec(s.codec)
    THEN "subtitle"
  ELSE "copy"

Init ==
  /\ job \in Jobs
  /\ stage = "build" /\ i = 1
  /\ streams = <<>> /\ plans = <<>> /\ out = <<>>

Advance == i' = i + 1 /\ UNCHANGED <<job, stage>>

SkipStream ==
  /\ stage = "build" /\ i <= Len(input) /\ Dropped(i)
  /\ streams' = Append(streams, "dropped") /\ plans' = Append(plans, NewPlan)
  /\ Advance /\ UNCHANGED out

BuildStream ==
  /\ stage = "build" /\ i <= Len(input) /\ ~Dropped(i)
  /\ streams' = Append(streams, StreamState(input[i]))
  /\ \E p \in IF StreamState(input[i]) = "video"
                THEN SetupDecoder(NewPlan, job.machine, job.crop) ELSE {NewPlan} :
       \E q \in IF StreamState(input[i]) = "video" /\ job.crop
                  THEN SetupCropFilter(p, job.machine) ELSE {p} :
         plans' = Append(plans, q)
  /\ Advance /\ UNCHANGED out

StreamsBuilt ==
  /\ stage = "build" /\ i > Len(input)
  /\ stage' = "output" /\ i' = 1
  /\ UNCHANGED <<job, streams, plans, out>>

-----------------------------------------------------------------------------
(* setupOutputContext.                                                     *)

OutputDisposition(s, k) ==
  IF s.kind \notin {"audio", "subtitle"} \/ DefaultStream(s.kind) = 0
    THEN s.default
    ELSE DefaultStream(s.kind) = k

OutCodec(s, state) ==
  IF state = "video" THEN "h265" ELSE IF state = "subtitle" THEN "ass" ELSE s.codec

OutputStream ==
  /\ stage = "output" /\ i <= Len(input) /\ streams[i] # "dropped"
  /\ \E p \in IF streams[i] = "video" THEN SetupEncoder(plans[i], job.machine) ELSE {plans[i]} :
       plans' = [plans EXCEPT ![i] = p]
  /\ LET s == input[i]
     IN out' = Append(out, [origin |-> "stream", source |-> i, kind |-> s.kind,
                            codec |-> OutCodec(s, streams[i]),
                            default |-> OutputDisposition(s, i)])
  /\ Advance /\ UNCHANGED streams

NextStream ==
  /\ stage = "output" /\ i <= Len(input) /\ streams[i] = "dropped"
  /\ Advance /\ UNCHANGED <<streams, plans, out>>

(* A stream that is left out of the output counts as well.                 *)
HasDefaultAudio_AnyInput == \E k \in Of("audio") : input[k].default

HasDefaultAudio == \E k \in Of("audio") : streams[k] # "dropped" /\ OutputDisposition(input[k], k)

Downmixed ==
  IF DownmixSourceIndex = 0 THEN <<>>
  ELSE <<[origin |-> "downmix", source |-> DownmixSourceIndex, kind |-> "audio",
          codec |-> "ac3", default |-> ~HasDefaultAudio]>>

CoverArt ==
  IF job.art THEN <<[origin |-> "art", source |-> 0, kind |-> "attachment", codec |-> "jpeg",
                     default |-> FALSE]>>
  ELSE <<>>

FinishOutput ==
  /\ stage = "output" /\ i > Len(input)
  /\ out' = out \o Downmixed \o CoverArt
  /\ stage' = "header"
  /\ UNCHANGED <<job, i, streams, plans>>

(* The muxer writes tracks of three kinds, of codecs it has a tag for, and *)
(* attachments by their MIME type.                                         *)
MuxerAccepts(track) ==
  \/ track.kind = "attachment"
  \/ track.kind \in {"video", "audio", "subtitle"} /\ MatroskaSupportsCodec(track.codec)

WriteHeader ==
  /\ stage = "header"
  /\ \A n \in DOMAIN out : MuxerAccepts(out[n])
  /\ stage' = "ready"
  /\ UNCHANGED <<job, i, streams, plans, out>>

Fail ==
  /\ stage \in {"build", "output", "header"}
  /\ stage' = "failed"
  /\ UNCHANGED <<job, i, streams, plans, out>>

Done == stage \in {"ready", "failed"} /\ UNCHANGED vars

Next ==
  \/ SkipStream \/ BuildStream \/ StreamsBuilt
  \/ OutputStream \/ NextStream \/ FinishOutput
  \/ WriteHeader \/ Fail \/ Done

Spec == Init /\ [][Next]_vars

-----------------------------------------------------------------------------
(* Properties, of the tracks the muxer is given.                           *)

Tracks(kind) == {n \in DOMAIN out : out[n].kind = kind}
Complete == stage \in {"header", "ready"}

(* No film loses its picture: every motion picture of the input is in the  *)
(* output, and a file whose only pictures are stills keeps at least one,   *)
(* unless all of them are attached covers.                                 *)
PictureKept ==
  Complete =>
    LET kept == {out[n].source : n \in Tracks("video")}
        pictures == {k \in Of("video") : ~input[k].pic}
    IN /\ {k \in pictures : ~IsStillImageCodec(input[k].codec)} \subseteq kept
       /\ pictures # {} => kept # {}

(* What the muxer refuses at the header is a stream of the input that was  *)
(* copied without a tag for its codec: sound, which is copied unseen, or a *)
(* bitmap subtitle, which cannot become text.  No video, no data stream,   *)
(* no text subtitle and nothing the transcoder made is refused.            *)
HeaderAccepted ==
  Complete => \A n \in DOMAIN out :
    \/ MuxerAccepts(out[n])
    \/ /\ out[n].origin = "stream" /\ streams[out[n].source] = "copy"
       /\ \/ out[n].kind = "audio"
          \/ out[n].kind = "subtitle" /\ ~IsTextSubtitleCodec(out[n].codec)

(* Where the output has sound, it has a track a stereo player can play.    *)
StereoPlayable ==
  Complete /\ Tracks("audio") # {} =>
    \E n \in Tracks("audio") :
      out[n].origin = "downmix" \/ input[out[n].source].ch \in 1 .. 3

(* A player that takes the default tracks takes the first English one;     *)
(* where there is none, a file with a downmix has a default all the same.  *)
OneDefault ==
  Complete =>
    /\ \A kind \in {"audio", "subtitle"} :
         Tagged(kind) # {} =>
           \E n \in Tracks(kind) :
             /\ out[n].source = First(Tagged(kind)) /\ out[n].origin = "stream"
             /\ {l \in Tracks(kind) : out[l].default} = {n}
    /\ \A n \in Tracks("audio") :
         out[n].origin = "downmix" => \E l \in Tracks("audio") : out[l].default

(* Decoder, crop filter, scaler, upload and encoder agree on the format of *)
(* every frame, on any machine, but for one case: the decoder turns the    *)
(* hardware format down after the crop filter or the encoder was set up    *)
(* for frames on the device.                                               *)
PlanConsistent ==
  Complete => \A k \in DOMAIN streams :
    streams[k] = "video" =>
      \/ Consistent(plans[k], job.machine)
      \/ job.machine.offers # "always" /\ ExpectsHW(plans[k])

=============================================================================
