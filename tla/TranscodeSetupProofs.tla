------------------------ MODULE TranscodeSetupProofs ------------------------
(***************************************************************************)
(* What the setup of a transcode promises, for every set of jobs: the      *)
(* tracks given to the muxer are exactly those of the streams kept, the    *)
(* downmix and the cover art, each once, and the plan of every re-encoded  *)
(* stream is one of those its setup can end in.                            *)
(***************************************************************************)
EXTENDS TranscodeSetup, SequenceTheorems, WellFoundedInduction, TLAPS

Stages == {"build", "output", "header", "ready", "failed"}
StreamStates == {"dropped", "video", "subtitle", "copy"}

\* A track keeps its stream's codec or has one of those the transcoder writes.
SourceCodecs == UNION {{j.input[k].codec : k \in DOMAIN j.input} : j \in Jobs}
Track == [origin : {"stream", "downmix", "art"}, source : Nat, kind : Kinds,
          codec : SourceCodecs \cup {"h265", "ass", "ac3", "jpeg"}, default : BOOLEAN]

\* The plans a re-encoded stream of the job may have, before and after the
\* encoder is set up.
Prepared ==
  UNION {IF job.crop THEN SetupCropFilter(p, job.machine) ELSE {p} :
           p \in SetupDecoder(NewPlan, job.machine, job.crop)}
Encoded == UNION {SetupEncoder(p, job.machine) : p \in Prepared}

SetupTypeOK ==
  /\ job \in Jobs /\ stage \in Stages /\ i \in Nat \ {0}
  /\ streams \in Seq(StreamStates)
  /\ plans \in Seq({NewPlan} \cup Prepared \cup Encoded)
  /\ out \in Seq(Track)

\* Every stream has the state its place in the input gives it.
StreamsOK ==
  /\ Len(plans) = Len(streams)
  /\ stage = "build" => i = Len(streams) + 1 /\ i <= Len(input) + 1
  /\ stage = "output" => Len(streams) = Len(input) /\ i <= Len(input) + 1
  /\ Complete => Len(streams) = Len(input) /\ i = Len(input) + 1
  /\ Len(streams) <= Len(input)
  /\ \A k \in DOMAIN streams :
       streams[k] = IF Dropped(k) THEN "dropped" ELSE StreamState(input[k])

PlansOK ==
  stage # "failed" =>
    \A k \in DOMAIN streams :
      streams[k] = "video" =>
        plans[k] \in IF stage = "build" \/ k >= i THEN Prepared ELSE Encoded

StreamTrack(k) ==
  [origin |-> "stream", source |-> k, kind |-> input[k].kind,
   codec |-> OutCodec(input[k], streams[k]), default |-> OutputDisposition(input[k], k)]
DownmixTrack ==
  [origin |-> "downmix", source |-> DownmixSourceIndex, kind |-> "audio",
   codec |-> "ac3", default |-> ~HasDefaultAudio]
ArtTrack ==
  [origin |-> "art", source |-> 0, kind |-> "attachment", codec |-> "jpeg", default |-> FALSE]

Elements(s) == {s[n] : n \in DOMAIN s}
Distinct(s) == \A m, n \in DOMAIN s : s[m] = s[n] => m = n
Kept == {k \in DOMAIN streams : streams[k] # "dropped"}
KeptSoFar == {k \in Kept : stage # "build" /\ k < i}

\* The tracks of the output are those of the streams kept so far and, once
\* it is complete, the downmix and the cover art; none is there twice.
TracksOK ==
  stage # "failed" =>
    /\ Distinct(out)
    /\ Elements(out) =
         {StreamTrack(k) : k \in KeptSoFar}
         \cup (IF Complete /\ DownmixSourceIndex # 0 THEN {DownmixTrack} ELSE {})
         \cup (IF Complete /\ job.art THEN {ArtTrack} ELSE {})

SetupInv == SetupTypeOK /\ StreamsOK /\ PlansOK /\ TracksOK

-----------------------------------------------------------------------------
(* What the proofs need of the numbers and of the input.                   *)

\* Every set of naturals that is not empty has a first element.
LEMMA FirstIsLeast ==
  ASSUME NEW S \in SUBSET Nat
  PROVE  /\ S = {} => First(S) = 0
         /\ S # {} => First(S) \in S
<1>1. CASE S = {}
  BY <1>1 DEF First
<1>2. CASE S # {}
  <2> DEFINE Less == {pair \in Nat \X Nat : pair[1] < pair[2]}
  <2>1. IsWellFoundedOn(Less, Nat)
    BY NatLessThanWellFounded DEF OpToRel
  <2>2. PICK m \in S : \A l \in S : <<l, m>> \notin Less
    BY <1>2, <2>1, WFMin
  <2>3. ASSUME NEW l \in S, l < m PROVE FALSE
    <3>1. <<l, m>> \in Nat \X Nat /\ <<l, m>>[1] = l /\ <<l, m>>[2] = m
      OBVIOUS
    <3>2. <<l, m>> \in Less
      BY <2>3, <3>1
    <3> QED
      BY <2>2, <3>2
  <2>4. \A l \in S : m <= l
    BY <2>3
  <2> QED
    BY <1>2, <2>4 DEF First
<1> QED
  BY <1>1, <1>2

\* The input is a sequence of streams, and no stream has number 0.
LEMMA InputType ==
  ASSUME SetupTypeOK
  PROVE  /\ input \in Seq(StreamType) /\ Len(input) \in Nat
         /\ DOMAIN input = 1 .. Len(input)
         /\ \A k \in DOMAIN input : input[k] \in StreamType
         /\ {job.mkv, job.crop, job.art} \subseteq BOOLEAN /\ job.machine \in Machines
         /\ \A kind : Of(kind) \subseteq DOMAIN input /\ Of(kind) \in SUBSET Nat /\ 0 \notin Of(kind)
  BY JobsAssumption DEF SetupTypeOK, input, Of

\* Adding a track that is not there yet.
LEMMA AddTrack ==
  ASSUME NEW T, NEW s \in Seq(T), NEW t \in T, Distinct(s), t \notin Elements(s)
  PROVE  /\ Append(s, t) \in Seq(T)
         /\ Distinct(Append(s, t))
         /\ Elements(Append(s, t)) = Elements(s) \cup {t}
<1> DEFINE r == Append(s, t)
<1>1. /\ r \in Seq(T) /\ DOMAIN s = 1 .. Len(s) /\ DOMAIN r = 1 .. Len(s) + 1 /\ Len(s) \in Nat
      /\ r[Len(s) + 1] = t
      /\ \A n \in 1 .. Len(s) : r[n] = s[n]
  BY AppendProperties
<1> HIDE DEF r
<1>2. Distinct(r)
  BY <1>1 DEF Distinct, Elements
<1>3. Elements(r) = Elements(s) \cup {t}
  BY <1>1 DEF Elements
<1> QED
  BY <1>1, <1>2, <1>3 DEF r

-----------------------------------------------------------------------------
(* The invariant, step by step.                                            *)

\* What a step that keeps the job leaves as it was.
LEMMA SameJob ==
  ASSUME job' = job
  PROVE  /\ input' = input /\ Prepared' = Prepared /\ Encoded' = Encoded
         /\ DownmixSourceIndex' = DownmixSourceIndex
         /\ \A k : (Dropped(k)' <=> Dropped(k))
         /\ \A t : StreamState(t)' = StreamState(t)
         /\ \A t, k : OutputDisposition(t, k)' = OutputDisposition(t, k)
<1>1. input' = input
  BY DEF input
<1>2. Prepared' = Prepared /\ Encoded' = Encoded
  BY DEF Prepared, Encoded
<1>3. /\ \A kind : Of(kind)' = Of(kind)
      /\ \A kind : Tagged(kind)' = Tagged(kind)
  BY <1>1 DEF Of, Tagged
<1>4. NonEnglishAudioIndices' = NonEnglishAudioIndices
      /\ NonEnglishSubtitleIndices' = NonEnglishSubtitleIndices
  BY <1>3 DEF NonEnglishAudioIndices, NonEnglishSubtitleIndices
<1>5. DownmixSourceIndex' = DownmixSourceIndex
  BY <1>1, <1>3, <1>4 DEF DownmixSourceIndex, EffectiveChannelCount
<1>6. SelectVideoCodec' = SelectVideoCodec
  BY <1>1, <1>3 DEF SelectVideoCodec
<1>7. Wanted' = Wanted
  BY <1>1, <1>4 DEF Wanted, ExcludeStreams
<1>8. HasRealVideoStream' <=> HasRealVideoStream
  BY <1>1, <1>3, <1>7 DEF HasRealVideoStream
<1>9. \A t : (DroppedFromMKV(t)' <=> DroppedFromMKV(t)) /\ (Reencoded(t)' <=> Reencoded(t))
  BY <1>6, <1>8 DEF DroppedFromMKV, Reencoded
<1>10. \A k : (Dropped(k)' <=> Dropped(k))
  BY <1>1, <1>7, <1>9 DEF Dropped
<1>11. \A t : StreamState(t)' = StreamState(t)
  BY <1>9 DEF StreamState
<1>12. \A t, k : OutputDisposition(t, k)' = OutputDisposition(t, k)
  BY <1>3 DEF OutputDisposition, DefaultStream
<1> QED
  BY <1>1, <1>2, <1>5, <1>10, <1>11, <1>12

\* Before the first stream nothing is built.
LEMMA InitSetupInv == Init => SetupInv
<1> SUFFICES ASSUME Init PROVE SetupInv
  OBVIOUS
<1>1. SetupTypeOK
  BY DEF Init, SetupTypeOK, Stages
<1>2. DOMAIN streams = {} /\ DOMAIN out = {} /\ Len(streams) = 0 /\ Len(plans) = 0
  BY DEF Init
<1>3. StreamsOK /\ PlansOK
  BY <1>1, <1>2, InputType DEF Init, StreamsOK, PlansOK, Complete
<1>4. TracksOK
  BY <1>2 DEF Init, TracksOK, Distinct, Elements, Kept, KeptSoFar, Complete
<1> QED
  BY <1>1, <1>3, <1>4 DEF SetupInv

\* A stream is added to those built, with the state and the plan it gets.
LEMMA BuiltStep ==
  ASSUME SetupInv, stage = "build", i <= Len(input), job' = job, stage' = stage, i' = i + 1,
         UNCHANGED out, NEW state, NEW plan,
         state = IF Dropped(i) THEN "dropped" ELSE StreamState(input[i]),
         plan \in {NewPlan} \cup Prepared, state = "video" => plan \in Prepared,
         streams' = Append(streams, state), plans' = Append(plans, plan)
  PROVE  SetupInv'
<1> DEFINE n == Len(streams)
<1>1. /\ SetupTypeOK /\ n \in Nat /\ i = n + 1 /\ Len(plans) = n /\ Len(input) \in Nat
      /\ streams \in Seq(StreamStates) /\ plans \in Seq({NewPlan} \cup Prepared \cup Encoded)
      /\ DOMAIN streams = 1 .. n /\ DOMAIN plans = 1 .. n
  BY InputType DEF SetupInv, SetupTypeOK, StreamsOK
<1>2. state \in StreamStates
  BY DEF StreamState, StreamStates
<1>3. /\ streams' \in Seq(StreamStates) /\ Len(streams') = n + 1 /\ DOMAIN streams' = 1 .. n + 1
      /\ streams'[n + 1] = state /\ \A k \in 1 .. n : streams'[k] = streams[k]
  BY <1>1, <1>2, AppendProperties
<1>4. /\ plans' \in Seq({NewPlan} \cup Prepared \cup Encoded) /\ Len(plans') = n + 1
      /\ plans'[n + 1] = plan /\ \A k \in 1 .. n : plans'[k] = plans[k]
  BY <1>1, AppendProperties
<1> HIDE DEF n
<1>5. SetupTypeOK'
  BY <1>1, <1>3, <1>4, SameJob DEF SetupTypeOK
<1>6. StreamsOK'
  <2>1. \A k \in 1 .. n : streams[k] = IF Dropped(k) THEN "dropped" ELSE StreamState(input[k])
    BY <1>1 DEF SetupInv, StreamsOK
  <2>2. \A k \in 1 .. n + 1 :
          streams'[k] = (IF Dropped(k) THEN "dropped" ELSE StreamState(input[k]))'
    <3> SUFFICES ASSUME NEW k \in 1 .. n + 1
                 PROVE  streams'[k] = (IF Dropped(k) THEN "dropped" ELSE StreamState(input[k]))'
      OBVIOUS
    <3>1. CASE k = n + 1
      BY <1>1, <1>3, <3>1, SameJob
    <3>2. CASE k \in 1 .. n
      BY <1>3, <2>1, <3>2, SameJob
    <3> QED
      BY <1>1, <3>1, <3>2
  <2> QED
    BY <1>1, <1>3, <1>4, <2>2, SameJob DEF StreamsOK, Complete
<1>7. PlansOK'
  <2>1. \A k \in 1 .. n : streams[k] = "video" => plans[k] \in Prepared
    BY <1>1 DEF SetupInv, PlansOK
  <2>2. ASSUME NEW k \in 1 .. n + 1, streams'[k] = "video" PROVE plans'[k] \in Prepared
    <3>1. CASE k = n + 1
      BY <1>3, <1>4, <2>2, <3>1
    <3>2. CASE k \in 1 .. n
      BY <1>3, <1>4, <2>1, <2>2, <3>2
    <3> QED
      BY <1>1, <3>1, <3>2
  <2> QED
    BY <1>3, <2>2, SameJob DEF PlansOK
<1>8. TracksOK'
  BY <1>1 DEF SetupInv, TracksOK, KeptSoFar, Complete, Distinct, Elements
<1> QED
  BY <1>5, <1>6, <1>7, <1>8 DEF SetupInv

\* Building a stream, or leaving it out, keeps the account.
LEMMA BuildSteps == SetupInv /\ (SkipStream \/ BuildStream) => SetupInv'
<1>1. ASSUME SetupInv, SkipStream PROVE SetupInv'
  BY <1>1, BuiltStep DEF SkipStream, Advance
<1>2. ASSUME SetupInv, BuildStream PROVE SetupInv'
  <2>1. PICK p \in IF StreamState(input[i]) = "video"
                     THEN SetupDecoder(NewPlan, job.machine, job.crop) ELSE {NewPlan} :
        \E q \in IF StreamState(input[i]) = "video" /\ job.crop
                   THEN SetupCropFilter(p, job.machine) ELSE {p} :
          plans' = Append(plans, q)
    BY <1>2 DEF BuildStream
  <2>2. PICK q \in IF StreamState(input[i]) = "video" /\ job.crop
                     THEN SetupCropFilter(p, job.machine) ELSE {p} :
          plans' = Append(plans, q)
    BY <2>1
  <2>3. q \in {NewPlan} \cup Prepared /\ (StreamState(input[i]) = "video" => q \in Prepared)
    BY <2>1, <2>2 DEF Prepared
  <2> QED
    BY <1>2, <2>2, <2>3, BuiltStep DEF BuildStream, Advance
<1> QED
  BY <1>1, <1>2

\* Going on to the output keeps the account.
LEMMA StreamsBuiltStep == SetupInv /\ StreamsBuilt => SetupInv'
<1> SUFFICES ASSUME SetupInv, StreamsBuilt PROVE SetupInv'
  OBVIOUS
<1>1. /\ SetupTypeOK /\ Len(input) \in Nat /\ DOMAIN streams = 1 .. Len(streams)
      /\ Len(streams) = Len(input) /\ i' = 1
  BY InputType DEF SetupInv, SetupTypeOK, StreamsOK, StreamsBuilt
<1>2. SetupTypeOK'
  BY <1>1, SameJob DEF SetupTypeOK, StreamsBuilt, Stages
<1>3. StreamsOK'
  BY <1>1, SameJob DEF SetupInv, StreamsOK, StreamsBuilt, Complete
<1>4. PlansOK'
  BY <1>1, SameJob DEF SetupInv, PlansOK, StreamsBuilt
<1>5. TracksOK'
  <2>1. KeptSoFar' = {} /\ KeptSoFar = {}
    BY <1>1 DEF KeptSoFar, Kept, StreamsBuilt
  <2> QED
    BY <2>1 DEF SetupInv, TracksOK, StreamsBuilt, Complete, Distinct, Elements
<1> QED
  BY <1>2, <1>3, <1>4, <1>5 DEF SetupInv

\* What the output says of a stream, and of the downmix, is a track.
LEMMA TrackTypes ==
  ASSUME SetupTypeOK
  PROVE  /\ \A k \in DOMAIN input : StreamTrack(k) \in Track
         /\ DownmixTrack \in Track /\ ArtTrack \in Track
         /\ DownmixSourceIndex \in Nat
<1>1. ASSUME NEW k \in DOMAIN input PROVE StreamTrack(k) \in Track
  <2>1. input[k] \in StreamType /\ k \in Nat
    BY InputType
  <2>2. OutCodec(input[k], streams[k]) \in SourceCodecs \cup {"h265", "ass"}
    <3>1. input[k].codec \in SourceCodecs
      BY DEF SetupTypeOK, SourceCodecs, input
    <3>2. OutCodec(input[k], streams[k]) \in {"h265", "ass", input[k].codec}
      BY DEF OutCodec
    <3> QED
      BY <3>1, <3>2
  <2>3. OutputDisposition(input[k], k) \in BOOLEAN
    BY <2>1 DEF OutputDisposition, StreamType
  <2>4. input[k].kind \in Kinds
    BY <2>1 DEF StreamType
  <2> QED
    BY <2>1, <2>2, <2>3, <2>4 DEF StreamTrack, Track
<1>2. DownmixSourceIndex \in Nat
  <2> DEFINE retained == Of("audio") \ NonEnglishAudioIndices
             surround == {k \in retained : EffectiveChannelCount(k) >= 4}
  <2>1. surround \in SUBSET Nat
    BY InputType
  <2>2. First(surround) \in Nat
    BY <2>1, FirstIsLeast
  <2> QED
    BY <2>2 DEF DownmixSourceIndex
<1>3. (~HasDefaultAudio) \in BOOLEAN
  BY Zenon DEF HasDefaultAudio
<1>4. DownmixTrack \in Track
  <2> DEFINE default == ~HasDefaultAudio
  <2> HIDE DEF default
  <2>1. default \in BOOLEAN
    BY <1>3 DEF default
  <2>2. [origin |-> "downmix", source |-> DownmixSourceIndex, kind |-> "audio",
         codec |-> "ac3", default |-> default] \in Track
    BY <1>2, <2>1 DEF Track, Kinds
  <2> QED
    BY <2>2 DEF DownmixTrack, default
<1>5. ArtTrack \in Track
  BY DEF ArtTrack, Track, Kinds
<1> QED
  BY <1>1, <1>2, <1>4, <1>5

\* The tracks stay what they are while neither the job nor the streams change.
LEMMA SameTracks ==
  ASSUME job' = job, streams' = streams
  PROVE  /\ \A k : StreamTrack(k)' = StreamTrack(k)
         /\ DownmixTrack' = DownmixTrack /\ ArtTrack' = ArtTrack /\ Kept' = Kept
         /\ Downmixed' = Downmixed /\ (HasDefaultAudio' <=> HasDefaultAudio)
<1>1. Of("audio")' = Of("audio")
  BY SameJob DEF Of
<1>2. HasDefaultAudio' <=> HasDefaultAudio
  BY <1>1, SameJob DEF HasDefaultAudio
<1>3. \A k : StreamTrack(k)' = StreamTrack(k)
  BY SameJob DEF StreamTrack, OutCodec
<1>4. DownmixTrack' = DownmixTrack
  BY <1>2, SameJob DEF DownmixTrack
<1>5. Downmixed' = Downmixed
  BY <1>2, SameJob DEF Downmixed
<1> QED
  BY <1>2, <1>3, <1>4, <1>5 DEF ArtTrack, Kept

\* A track for a stream that is kept: its encoder is set up and it is added once.
LEMMA OutputStreamStep == SetupInv /\ OutputStream => SetupInv'
<1> SUFFICES ASSUME SetupInv, OutputStream PROVE SetupInv'
  OBVIOUS
<1>1. /\ SetupTypeOK /\ i \in DOMAIN streams /\ i \in DOMAIN input /\ i \in Nat \ {0}
      /\ DOMAIN streams = 1 .. Len(streams) /\ DOMAIN plans = DOMAIN streams
      /\ Len(streams) = Len(input) /\ Len(input) \in Nat /\ streams[i] # "dropped"
      /\ job' = job /\ stage = "output" /\ stage' = stage /\ i' = i + 1 /\ streams' = streams
  BY InputType DEF SetupInv, SetupTypeOK, StreamsOK, OutputStream, Advance
<1>2. out' = Append(out, StreamTrack(i))
  BY DEF OutputStream, StreamTrack
<1>3. PICK p : /\ p \in IF streams[i] = "video" THEN SetupEncoder(plans[i], job.machine) ELSE {plans[i]}
               /\ plans' = [plans EXCEPT ![i] = p]
  BY DEF OutputStream
<1>4. p \in {NewPlan} \cup Prepared \cup Encoded /\ (streams[i] = "video" => p \in Encoded)
  <2>1. CASE streams[i] = "video"
    <3>1. plans[i] \in Prepared
      BY <1>1, <2>1 DEF SetupInv, PlansOK
    <3> QED
      BY <1>3, <2>1, <3>1 DEF Encoded
  <2>2. CASE streams[i] # "video"
    BY <1>1, <1>3, <2>2 DEF SetupTypeOK
  <2> QED
    BY <2>1, <2>2
<1>5. plans' \in Seq({NewPlan} \cup Prepared \cup Encoded) /\ Len(plans') = Len(plans)
      /\ \A k \in DOMAIN plans : plans'[k] = IF k = i THEN p ELSE plans[k]
  BY <1>1, <1>3, <1>4 DEF SetupTypeOK
<1>6. StreamTrack(i) \notin Elements(out) /\ Distinct(out) /\ StreamTrack(i) \in Track
  <2>1. Elements(out) = {StreamTrack(k) : k \in KeptSoFar} /\ Distinct(out)
    BY <1>1 DEF SetupInv, TracksOK, Complete
  <2>2. \A k : StreamTrack(k).source = k
    BY DEF StreamTrack
  <2>3. i \notin KeptSoFar
    BY <1>1 DEF KeptSoFar
  <2> QED
    BY <1>1, <2>1, <2>2, <2>3, TrackTypes
<1>7. /\ out' \in Seq(Track) /\ Distinct(out')
      /\ Elements(out') = Elements(out) \cup {StreamTrack(i)}
  <2>1. out \in Seq(Track)
    BY <1>1 DEF SetupTypeOK
  <2>2. Distinct(Append(out, StreamTrack(i)))
        /\ Elements(Append(out, StreamTrack(i))) = Elements(out) \cup {StreamTrack(i)}
        /\ Append(out, StreamTrack(i)) \in Seq(Track)
    BY <1>6, <2>1, AddTrack
  <2> QED
    BY <1>2, <2>2 DEF Distinct, Elements
<1>8. SetupTypeOK'
  BY <1>1, <1>5, <1>7, SameJob DEF SetupTypeOK
<1>9. StreamsOK'
  BY <1>1, <1>5, SameJob DEF SetupInv, StreamsOK, Complete
<1>10. PlansOK'
  <2>1. ASSUME NEW k \in DOMAIN streams, streams[k] = "video"
        PROVE  plans'[k] \in IF k >= i + 1 THEN Prepared ELSE Encoded
    <3>1. plans[k] \in IF k >= i THEN Prepared ELSE Encoded
      BY <1>1, <2>1 DEF SetupInv, PlansOK
    <3>2. k \in Nat
      BY <1>1
    <3>3. CASE k = i
      BY <1>1, <1>4, <1>5, <2>1, <3>3
    <3>4. CASE k # i
      BY <1>1, <1>5, <3>1, <3>2, <3>4
    <3> QED
      BY <3>3, <3>4
  <2> QED
    BY <1>1, <2>1, SameJob DEF PlansOK
<1>11. TracksOK'
  <2>1. KeptSoFar' = KeptSoFar \cup {i}
    BY <1>1 DEF KeptSoFar, Kept
  <2>2. Elements(out) = {StreamTrack(k) : k \in KeptSoFar}
    BY <1>1 DEF SetupInv, TracksOK, Complete
  <2>3. \A k : StreamTrack(k)' = StreamTrack(k)
    BY <1>1, SameTracks
  <2>4. Elements(out)' = {StreamTrack(k)' : k \in KeptSoFar'}
    BY <1>7, <2>1, <2>2, <2>3 DEF Elements
  <2>5. Distinct(out)'
    BY <1>7 DEF Distinct
  <2> QED
    BY <1>1, <2>4, <2>5 DEF TracksOK, Complete
<1> QED
  BY <1>8, <1>9, <1>10, <1>11 DEF SetupInv

\* A stream that was left out gets no track.
LEMMA NextStreamStep == SetupInv /\ NextStream => SetupInv'
<1> SUFFICES ASSUME SetupInv, NextStream PROVE SetupInv'
  OBVIOUS
<1>1. /\ SetupTypeOK /\ i \in DOMAIN streams /\ i \in Nat \ {0}
      /\ DOMAIN streams = 1 .. Len(streams) /\ Len(streams) \in Nat
      /\ Len(streams) = Len(input) /\ Len(input) \in Nat /\ streams[i] = "dropped"
      /\ job' = job /\ stage = "output" /\ stage' = stage /\ i' = i + 1
      /\ streams' = streams /\ plans' = plans /\ out' = out
  BY InputType DEF SetupInv, SetupTypeOK, StreamsOK, NextStream, Advance
<1>2. SetupTypeOK'
  BY <1>1, SameJob DEF SetupTypeOK
<1>3. StreamsOK'
  BY <1>1, SameJob DEF SetupInv, StreamsOK, Complete
<1>4. PlansOK'
  BY <1>1, SameJob DEF SetupInv, PlansOK
<1>5. TracksOK'
  <2>1. KeptSoFar' = KeptSoFar
    BY <1>1 DEF KeptSoFar, Kept
  <2>2. Elements(out) = {StreamTrack(k) : k \in KeptSoFar} /\ Distinct(out)
    BY <1>1 DEF SetupInv, TracksOK, Complete
  <2>3. \A k : StreamTrack(k)' = StreamTrack(k)
    BY <1>1, SameTracks
  <2>4. Elements(out)' = Elements(out) /\ (Distinct(out)' <=> Distinct(out))
    BY <1>1 DEF Elements, Distinct
  <2> QED
    BY <1>1, <2>1, <2>2, <2>3, <2>4 DEF TracksOK, Complete
<1> QED
  BY <1>2, <1>3, <1>4, <1>5 DEF SetupInv

\* The downmix and the cover art are added last, once.
LEMMA FinishOutputStep == SetupInv /\ FinishOutput => SetupInv'
<1> SUFFICES ASSUME SetupInv, FinishOutput PROVE SetupInv'
  OBVIOUS
<1>1. /\ SetupTypeOK /\ Len(streams) = Len(input) /\ Len(input) \in Nat /\ i = Len(input) + 1
      /\ DOMAIN streams = 1 .. Len(streams) /\ out \in Seq(Track)
      /\ job' = job /\ stage = "output" /\ stage' = "header" /\ i' = i
      /\ streams' = streams /\ plans' = plans
  BY InputType DEF SetupInv, SetupTypeOK, StreamsOK, FinishOutput
<1>2. SetupTypeOK /\ Distinct(out) /\ Elements(out) = {StreamTrack(k) : k \in KeptSoFar}
  BY <1>1 DEF SetupInv, TracksOK, Complete
<1>3. KeptSoFar = Kept /\ KeptSoFar' = Kept
  BY <1>1 DEF KeptSoFar, Kept
<1>4. /\ \A t \in Elements(out) : t.origin = "stream"
      /\ DownmixTrack.origin = "downmix" /\ ArtTrack.origin = "art"
  BY <1>2 DEF StreamTrack, DownmixTrack, ArtTrack
<1> DEFINE mid == out \o Downmixed
           sound == IF DownmixSourceIndex # 0 THEN {DownmixTrack} ELSE {}
           art == IF job.art THEN {ArtTrack} ELSE {}
<1>5. mid \in Seq(Track) /\ Distinct(mid) /\ Elements(mid) = Elements(out) \cup sound
  <2>1. CASE DownmixSourceIndex = 0
    <3>1. mid = out
      BY <1>1, <2>1, ConcatEmptySeq DEF Downmixed
    <3> QED
      BY <1>1, <1>2, <2>1, <3>1
  <2>2. CASE DownmixSourceIndex # 0
    <3>1. mid = out \o <<DownmixTrack>>
      BY <2>2 DEF Downmixed, DownmixTrack
    <3>2. mid = Append(out, DownmixTrack)
      BY <1>1, <3>1, TrackTypes
    <3>3. DownmixTrack \notin Elements(out) /\ DownmixTrack \in Track
      BY <1>1, <1>4, TrackTypes
    <3> HIDE DEF mid
    <3>4. mid \in Seq(Track) /\ Distinct(mid) /\ Elements(mid) = Elements(out) \cup {DownmixTrack}
      BY <1>1, <1>2, <3>2, <3>3, AddTrack
    <3> QED
      BY <2>2, <3>4
  <2> QED
    BY <2>1, <2>2
<1>6. out' = mid \o CoverArt
  BY DEF FinishOutput
<1> HIDE DEF mid
<1>7. out' \in Seq(Track) /\ Distinct(out') /\ Elements(out') = Elements(out) \cup sound \cup art
  <2>1. CASE ~ job.art
    <3>1. out' = mid
      BY <1>5, <1>6, <2>1, ConcatEmptySeq DEF CoverArt
    <3> QED
      BY <1>5, <2>1, <3>1
  <2>2. CASE job.art
    <3>1. out' = Append(mid, ArtTrack)
      BY <1>1, <1>5, <1>6, <2>2, TrackTypes DEF CoverArt, ArtTrack
    <3>2. ArtTrack \notin Elements(mid) /\ ArtTrack \in Track
      BY <1>1, <1>4, <1>5, TrackTypes
    <3>3. /\ Append(mid, ArtTrack) \in Seq(Track) /\ Distinct(Append(mid, ArtTrack))
          /\ Elements(Append(mid, ArtTrack)) = Elements(mid) \cup {ArtTrack}
      BY <1>5, <3>2, AddTrack
    <3> QED
      BY <1>5, <2>2, <3>1, <3>3
  <2> QED
    BY <2>1, <2>2
<1>8. SetupTypeOK'
  BY <1>1, <1>7, SameJob DEF SetupTypeOK, Stages
<1>9. StreamsOK'
  BY <1>1, SameJob DEF SetupInv, StreamsOK, Complete
<1>10. PlansOK'
  BY <1>1, SameJob DEF SetupInv, PlansOK
<1>11. TracksOK'
  <2>1. Complete'
    BY <1>1 DEF Complete
  <2>2. Elements(out)' = Elements(out') /\ (Distinct(out)' <=> Distinct(out'))
    BY DEF Elements, Distinct
  <2>3. /\ \A k : StreamTrack(k)' = StreamTrack(k)
        /\ DownmixTrack' = DownmixTrack /\ ArtTrack' = ArtTrack
        /\ DownmixSourceIndex' = DownmixSourceIndex /\ job'.art = job.art
    BY <1>1, SameTracks, SameJob
  <2> QED
    BY <1>2, <1>3, <1>7, <2>1, <2>2, <2>3 DEF TracksOK
<1> QED
  BY <1>8, <1>9, <1>10, <1>11 DEF SetupInv

\* The header, a failure and the end change no stream, plan or track.
LEMMA LastSteps == SetupInv /\ (WriteHeader \/ Fail \/ Done \/ UNCHANGED vars) => SetupInv'
<1> SUFFICES ASSUME SetupInv, WriteHeader \/ Fail \/ Done \/ UNCHANGED vars PROVE SetupInv'
  OBVIOUS
<1>1. /\ UNCHANGED <<job, i, streams, plans, out>> /\ stage' \in Stages
      /\ \/ stage' = stage
         \/ stage' = "failed"
         \/ stage = "header" /\ stage' = "ready"
  BY DEF WriteHeader, Fail, Done, vars, SetupInv, SetupTypeOK, Stages
<1>2. SetupTypeOK'
  BY <1>1, SameJob DEF SetupInv, SetupTypeOK
<1>3. StreamsOK'
  BY <1>1, SameJob DEF SetupInv, StreamsOK, Complete
<1>4. PlansOK'
  BY <1>1, SameJob DEF SetupInv, PlansOK
<1>5. TracksOK'
  <2>1. stage' # "failed" => KeptSoFar' = KeptSoFar /\ (Complete' <=> Complete)
    BY <1>1, SameTracks DEF KeptSoFar, Complete
  <2> QED
    BY <1>1, <2>1, SameJob, SameTracks DEF SetupInv, TracksOK, Elements, Distinct
<1> QED
  BY <1>2, <1>3, <1>4, <1>5 DEF SetupInv

\* The setup keeps, stream by stream, its account of the streams, the plans and the tracks.
THEOREM SetupInvariance == Spec => []SetupInv
<1>1. SetupInv /\ [Next]_vars => SetupInv'
  BY BuildSteps, StreamsBuiltStep, OutputStreamStep, NextStreamStep, FinishOutputStep, LastSteps
     DEF Next
<1> QED
  BY InitSetupInv, <1>1, PTL DEF Spec

-----------------------------------------------------------------------------
(* The tracks of a complete output.                                        *)

\* A complete output has a track for every stream that was not dropped, and only the downmix
\* and the cover art besides.
LEMMA CompleteTracks ==
  ASSUME SetupInv, Complete
  PROVE  /\ DOMAIN streams = DOMAIN input /\ Kept = {k \in DOMAIN input : ~ Dropped(k)}
         /\ \A k \in Kept : streams[k] = StreamState(input[k])
         /\ \A k \in Kept : \E n \in DOMAIN out : out[n] = StreamTrack(k)
         /\ DownmixSourceIndex # 0 => \E n \in DOMAIN out : out[n] = DownmixTrack
         /\ \A n \in DOMAIN out :
              \/ \E k \in Kept : out[n] = StreamTrack(k)
              \/ DownmixSourceIndex # 0 /\ out[n] = DownmixTrack
              \/ out[n] = ArtTrack
         /\ \A l, n \in DOMAIN out : out[l] = out[n] => l = n
<1>1. /\ SetupTypeOK /\ Len(streams) = Len(input) /\ i = Len(input) + 1 /\ Len(input) \in Nat
      /\ DOMAIN streams = 1 .. Len(input) /\ DOMAIN input = 1 .. Len(input)
  BY InputType DEF SetupInv, SetupTypeOK, StreamsOK
<1>2. \A k \in DOMAIN input : streams[k] = IF Dropped(k) THEN "dropped" ELSE StreamState(input[k])
  BY <1>1 DEF SetupInv, StreamsOK
<1>3. \A t : StreamState(t) # "dropped"
  BY DEF StreamState
<1>4. Kept = {k \in DOMAIN input : ~ Dropped(k)} /\ KeptSoFar = Kept
  BY <1>1, <1>2, <1>3 DEF Kept, KeptSoFar, Complete
<1>5. /\ Elements(out) =
           {StreamTrack(k) : k \in Kept}
           \cup (IF DownmixSourceIndex # 0 THEN {DownmixTrack} ELSE {})
           \cup (IF job.art THEN {ArtTrack} ELSE {})
      /\ Distinct(out)
  BY <1>4 DEF SetupInv, TracksOK, Complete
<1>6. \A t \in Elements(out) : \E n \in DOMAIN out : out[n] = t
  BY DEF Elements
<1>7. \A n \in DOMAIN out : out[n] \in Elements(out)
  BY DEF Elements
<1>8. \A k \in Kept : \E n \in DOMAIN out : out[n] = StreamTrack(k)
  BY <1>5, <1>6
<1>9. DownmixSourceIndex # 0 => \E n \in DOMAIN out : out[n] = DownmixTrack
  BY <1>5, <1>6
<1>10. \A n \in DOMAIN out :
         \/ \E k \in Kept : out[n] = StreamTrack(k)
         \/ DownmixSourceIndex # 0 /\ out[n] = DownmixTrack
         \/ out[n] = ArtTrack
  BY <1>5, <1>7
<1>11. \A l, n \in DOMAIN out : out[l] = out[n] => l = n
  BY <1>5 DEF Distinct
<1> QED
  BY <1>1, <1>2, <1>4, <1>8, <1>9, <1>10, <1>11

\* RunTranscode leaves out no picture, no attachment and no data.
LEMMA WantedKinds ==
  ASSUME SetupTypeOK, NEW k \in DOMAIN input
  PROVE  /\ input[k].kind \notin {"audio", "subtitle"} => k \in Wanted
         /\ input[k].kind = "audio" => (k \in Wanted <=> k \notin NonEnglishAudioIndices)
         /\ input[k].kind = "audio" /\ input[k].lang = "eng" => k \in Wanted
         /\ input[k].kind = "subtitle" /\ input[k].lang = "eng" => k \in Wanted
  BY DEF Wanted, ExcludeStreams, NonEnglishAudioIndices, NonEnglishSubtitleIndices, Of, Tagged

\* A sound or a subtitle RunTranscode wants is kept.
LEMMA SoundKept ==
  ASSUME SetupTypeOK, NEW k \in DOMAIN input, input[k].kind \in {"audio", "subtitle"}
  PROVE  Dropped(k) <=> k \notin Wanted
  BY DEF Dropped, DroppedFromMKV, Reencoded

\* What the track of a stream says.
LEMMA TrackFields ==
  \A k : /\ StreamTrack(k).origin = "stream" /\ StreamTrack(k).source = k
         /\ StreamTrack(k).kind = input[k].kind
         /\ StreamTrack(k).codec = OutCodec(input[k], streams[k])
         /\ StreamTrack(k).default = OutputDisposition(input[k], k)
  BY DEF StreamTrack

\* What the track of the downmix says.
LEMMA DownmixFields ==
  /\ DownmixTrack.kind = "audio" /\ DownmixTrack.origin = "downmix"
  /\ DownmixTrack.default <=> ~ HasDefaultAudio
<1> DEFINE default == ~HasDefaultAudio
<1>1. DownmixTrack = [origin |-> "downmix", source |-> DownmixSourceIndex, kind |-> "audio",
                      codec |-> "ac3", default |-> default]
  BY DEF DownmixTrack
<1>2. default <=> ~ HasDefaultAudio
  OBVIOUS
<1> HIDE DEF default
<1>3. DownmixTrack.default = default /\ DownmixTrack.kind = "audio" /\ DownmixTrack.origin = "downmix"
  BY <1>1
<1> QED
  BY <1>2, <1>3

\* No film loses its picture (the drop rules of buildStreamStates).
THEOREM PicturesSurvive == Spec => []PictureKept
<1>1. ASSUME SetupInv PROVE PictureKept
  <2> SUFFICES ASSUME Complete PROVE PictureKept
    BY DEF PictureKept
  <2> DEFINE kept == {out[n].source : n \in Tracks("video")}
             pictures == {k \in Of("video") : ~input[k].pic}
  <2>1. SetupTypeOK
    BY <1>1 DEF SetupInv
  <2>2. ASSUME NEW k \in pictures, ~ HasRealVideoStream \/ ~ IsStillImageCodec(input[k].codec)
        PROVE  k \in kept
    <3>1. k \in DOMAIN input /\ input[k].kind = "video" /\ ~ input[k].pic
      BY DEF Of
    <3>2. ~ Dropped(k)
      BY <2>1, <2>2, <3>1, WantedKinds DEF Dropped, DroppedFromMKV
    <3>3. PICK n \in DOMAIN out : out[n] = StreamTrack(k)
      BY <1>1, <3>1, <3>2, CompleteTracks
    <3>4. n \in Tracks("video") /\ out[n].source = k
      BY <3>1, <3>3, TrackFields DEF Tracks
    <3> QED
      BY <3>4
  <2>3. {k \in pictures : ~IsStillImageCodec(input[k].codec)} \subseteq kept
    BY <2>2
  <2>4. pictures # {} => kept # {}
    <3>1. CASE HasRealVideoStream
      <4>1. PICK k \in Of("video") : ~input[k].pic /\ ~IsStillImageCodec(input[k].codec)
        BY <3>1 DEF HasRealVideoStream
      <4> QED
        BY <2>2, <4>1
    <3>2. CASE ~ HasRealVideoStream
      BY <2>2, <3>2
    <3> QED
      BY <3>1, <3>2
  <2> QED
    BY <2>3, <2>4 DEF PictureKept
<1> QED
  BY <1>1, SetupInvariance, PTL

\* What the muxer refuses at the header is sound or a bitmap subtitle copied without a tag for its
\* codec (matroskaAcceptsTrackMediaType, the converter of buildStreamStates, SelectVideoCodec).
THEOREM HeadersAccepted == Spec => []HeaderAccepted
<1> DEFINE Unseen(t) == /\ t.origin = "stream" /\ streams[t.source] = "copy"
                        /\ \/ t.kind = "audio"
                           \/ t.kind = "subtitle" /\ ~IsTextSubtitleCodec(t.codec)
<1>1. ASSUME SetupInv, Complete, NEW n \in DOMAIN out
      PROVE  MuxerAccepts(out[n]) \/ Unseen(out[n])
  <2>1. SetupTypeOK
    BY <1>1 DEF SetupInv
  <2>2. CASE out[n] \in {DownmixTrack, ArtTrack}
    BY <2>2, TaglessAssumption DEF DownmixTrack, ArtTrack, MuxerAccepts, MatroskaSupportsCodec
  <2>3. ASSUME NEW k \in Kept, out[n] = StreamTrack(k)
        PROVE  MuxerAccepts(out[n]) \/ Unseen(out[n])
    <3>1. k \in DOMAIN input /\ ~ Dropped(k) /\ streams[k] = StreamState(input[k])
      BY <1>1, CompleteTracks
    <3>2. input[k].kind \in {"video", "audio", "subtitle", "attachment"}
      <4>1. input[k].kind \in Kinds
        BY <2>1, <3>1, InputType DEF StreamType
      <4>2. input[k].kind # "data"
        BY <3>1 DEF Dropped, Reencoded
      <4> QED
        BY <4>1, <4>2 DEF Kinds
    <3>3. /\ out[n].origin = "stream" /\ out[n].source = k /\ out[n].kind = input[k].kind
          /\ out[n].codec = OutCodec(input[k], streams[k])
      BY <2>3, TrackFields
    <3>4. CASE streams[k] = "video"
      BY <3>2, <3>3, <3>4, TaglessAssumption DEF OutCodec, MuxerAccepts, MatroskaSupportsCodec
    <3>5. CASE streams[k] = "subtitle"
      BY <3>2, <3>3, <3>5, TaglessAssumption DEF OutCodec, MuxerAccepts, MatroskaSupportsCodec
    <3>6. CASE streams[k] = "copy"
      <4>1. out[n].codec = input[k].codec
        BY <3>3, <3>6 DEF OutCodec
      <4>2. CASE input[k].kind = "video"
        <5>1. job.mkv
          BY <3>1, <3>6, <4>2 DEF StreamState, Reencoded, SelectVideoCodec
        <5>2. MatroskaSupportsCodec(input[k].codec)
          BY <2>1, <3>1, <4>2, <5>1, JobsAssumption
             DEF SetupTypeOK, input, MatroskaSupportsCodec
        <5> QED
          BY <3>3, <4>1, <4>2, <5>2 DEF MuxerAccepts
      <4>3. CASE input[k].kind = "subtitle"
        <5>1. MatroskaSupportsCodec(input[k].codec) \/ ~IsTextSubtitleCodec(input[k].codec)
          BY <3>1, <3>6, <4>3 DEF StreamState
        <5> QED
          BY <3>3, <3>6, <4>1, <4>3, <5>1 DEF MuxerAccepts
      <4> QED
        BY <3>2, <3>3, <3>6, <4>2, <4>3 DEF MuxerAccepts
    <3> QED
      BY <3>1, <3>4, <3>5, <3>6 DEF StreamState
  <2> QED
    BY <1>1, <2>2, <2>3, CompleteTracks
<1>2. SetupInv => HeaderAccepted
  BY <1>1 DEF HeaderAccepted
<1> QED
  BY <1>2, SetupInvariance, PTL

\* Where the output has sound, a stereo player can play one of its tracks (DownmixSourceIndex).
THEOREM StereoIsPlayable == Spec => []StereoPlayable
<1>1. ASSUME SetupInv, Complete, NEW m \in Tracks("audio")
      PROVE  \E n \in Tracks("audio") :
               out[n].origin = "downmix" \/ input[out[n].source].ch \in 1 .. 3
  <2> DEFINE retained == Of("audio") \ NonEnglishAudioIndices
             surround == {k \in retained : EffectiveChannelCount(k) >= 4}
  <2>1. SetupTypeOK /\ m \in DOMAIN out /\ out[m].kind = "audio"
    BY <1>1 DEF SetupInv, Tracks
  <2>2. CASE DownmixSourceIndex # 0
    <3>1. PICK n \in DOMAIN out : out[n] = DownmixTrack
      BY <1>1, <2>2, CompleteTracks
    <3>2. n \in Tracks("audio") /\ out[n].origin = "downmix"
      BY <3>1 DEF Tracks, DownmixTrack
    <3> QED
      BY <3>2
  <2>3. CASE DownmixSourceIndex = 0
    <3>1. \A k \in retained : EffectiveChannelCount(k) \in Nat
      <4> SUFFICES ASSUME NEW k \in retained PROVE EffectiveChannelCount(k) \in Nat
        OBVIOUS
      <4>1. input[k] \in StreamType
        BY <2>1, InputType DEF Of
      <4> QED
        BY <4>1 DEF EffectiveChannelCount, StreamType
    <3>2. PICK k \in retained : EffectiveChannelCount(k) <= 3
      <4>1. CASE \E k \in retained : EffectiveChannelCount(k) <= 3
        BY <4>1
      <4>2. CASE ~ \E k \in retained : EffectiveChannelCount(k) <= 3
        <5>1. First(surround) = 0
          BY <2>3, <4>2 DEF DownmixSourceIndex
        <5>2. surround \in SUBSET Nat /\ 0 \notin surround
          BY <2>1, InputType
        <5>3. surround = {}
          BY <5>1, <5>2, FirstIsLeast
        <5>4. PICK l \in Kept : out[m] = StreamTrack(l)
          BY <1>1, <2>1, <2>3, CompleteTracks DEF ArtTrack
        <5>5. l \in DOMAIN input /\ ~ Dropped(l) /\ input[l].kind = "audio"
          BY <1>1, <2>1, <5>4, CompleteTracks, TrackFields
        <5>6. l \in retained
          BY <2>1, <5>5, WantedKinds, SoundKept DEF Of
        <5> QED
          BY <3>1, <4>2, <5>3, <5>6
      <4> QED
        BY <4>1, <4>2
    <3>3. k \in DOMAIN input /\ input[k].kind = "audio" /\ input[k].ch \in Nat
      BY <2>1, InputType DEF Of, StreamType
    <3>4. input[k].ch \in 1 .. 3
      BY <3>2, <3>3 DEF EffectiveChannelCount
    <3>5. k \in Kept
      BY <1>1, <2>1, <3>3, WantedKinds, SoundKept, CompleteTracks
    <3>6. PICK n \in DOMAIN out : out[n] = StreamTrack(k)
      BY <1>1, <3>5, CompleteTracks
    <3>7. n \in Tracks("audio") /\ out[n].source = k
      BY <3>3, <3>6, TrackFields DEF Tracks
    <3> QED
      BY <3>4, <3>7
  <2> QED
    BY <2>2, <2>3
<1>2. SetupInv => StereoPlayable
  BY <1>1 DEF StereoPlayable
<1> QED
  BY <1>2, SetupInvariance, PTL

\* The first English track is the only default of its kind; without one, a downmix still leaves
\* a default sound (OutputDisposition, setupDownmixOutput).
THEOREM DefaultIsUnique == Spec => []OneDefault
<1>1. ASSUME SetupInv, Complete, NEW kind \in {"audio", "subtitle"}, Tagged(kind) # {}
      PROVE  \E n \in Tracks(kind) :
               /\ out[n].source = First(Tagged(kind)) /\ out[n].origin = "stream"
               /\ {l \in Tracks(kind) : out[l].default} = {n}
  <2> DEFINE k == First(Tagged(kind))
  <2>1. SetupTypeOK
    BY <1>1 DEF SetupInv
  <2>2. Tagged(kind) \in SUBSET Nat /\ k \in Tagged(kind)
    BY <1>1, <2>1, InputType, FirstIsLeast DEF Tagged
  <2> HIDE DEF k
  <2>3. k \in DOMAIN input /\ input[k].kind = kind /\ input[k].lang = "eng" /\ k \in Nat \ {0}
    BY <2>1, <2>2, InputType DEF Tagged, Of
  <2>4. k \in Kept
    BY <1>1, <2>1, <2>3, WantedKinds, SoundKept, CompleteTracks
  <2>5. \A l \in DOMAIN input : input[l].kind = kind => (OutputDisposition(input[l], l) <=> l = k)
    BY <2>3 DEF OutputDisposition, DefaultStream, k
  <2>6. PICK n \in DOMAIN out : out[n] = StreamTrack(k)
    BY <1>1, <2>4, CompleteTracks
  <2>7. n \in Tracks(kind) /\ out[n].source = k /\ out[n].origin = "stream" /\ out[n].default
    BY <2>3, <2>5, <2>6, TrackFields DEF Tracks
  <2>8. ASSUME NEW l \in Tracks(kind), out[l].default PROVE l = n
    <3>1. l \in DOMAIN out /\ out[l].kind = kind
      BY DEF Tracks
    <3>2. out[l] # ArtTrack
      BY <3>1 DEF ArtTrack
    <3>3. CASE out[l] = DownmixTrack
      <4>1. kind = "audio" /\ ~ HasDefaultAudio
        BY <2>8, <3>1, <3>3, DownmixFields
      <4>2. k \in Of("audio") /\ streams[k] # "dropped" /\ OutputDisposition(input[k], k)
        BY <2>3, <2>4, <2>5, <4>1 DEF Of, Kept
      <4> QED
        BY <4>1, <4>2 DEF HasDefaultAudio
    <3>4. ASSUME NEW j \in Kept, out[l] = StreamTrack(j) PROVE l = n
      <4>1. j \in DOMAIN input /\ input[j].kind = kind /\ OutputDisposition(input[j], j)
        BY <1>1, <2>8, <3>1, <3>4, CompleteTracks, TrackFields
      <4>2. out[l] = out[n]
        BY <2>5, <2>6, <3>4, <4>1
      <4> QED
        BY <1>1, <3>1, <4>2, CompleteTracks
    <3> QED
      BY <1>1, <3>1, <3>2, <3>3, <3>4, CompleteTracks
  <2>9. {l \in Tracks(kind) : out[l].default} = {n}
    BY <2>7, <2>8
  <2> QED
    BY <2>7, <2>9 DEF k
<1>2. ASSUME SetupInv, Complete, NEW n \in Tracks("audio"), out[n].origin = "downmix"
      PROVE  \E l \in Tracks("audio") : out[l].default
  <2>1. n \in DOMAIN out /\ out[n].kind = "audio"
    BY DEF Tracks
  <2>2. out[n] = DownmixTrack
    BY <1>2, <2>1, CompleteTracks, TrackFields DEF ArtTrack
  <2>3. CASE ~ HasDefaultAudio
    <3>1. out[n].default
      BY <2>2, <2>3, DownmixFields
    <3> QED
      BY <3>1
  <2>4. CASE HasDefaultAudio
    <3>1. PICK k \in Of("audio") : streams[k] # "dropped" /\ OutputDisposition(input[k], k)
      BY <2>4 DEF HasDefaultAudio
    <3>2. k \in DOMAIN input /\ input[k].kind = "audio" /\ k \in Kept
      BY <1>2, <3>1, CompleteTracks DEF Of, Kept
    <3>3. PICK l \in DOMAIN out : out[l] = StreamTrack(k)
      BY <1>2, <3>2, CompleteTracks
    <3> QED
      BY <3>1, <3>2, <3>3, TrackFields DEF Tracks
  <2> QED
    BY <2>3, <2>4
<1>3. SetupInv => OneDefault
  BY <1>1, <1>2 DEF OneDefault
<1> QED
  BY <1>3, SetupInvariance, PTL

-----------------------------------------------------------------------------
(* The plans.                                                              *)

\* The jobs of the pipeline: RunTranscode asks for HWAccelAuto.
PipelineJobs == \A j \in Jobs : j.machine.asked = "auto"

\* The accelerator resolved is none, or one libav can encode with.
LEMMA EncoderChoice ==
  ASSUME NEW encoders \in SUBSET Accels, NEW preferred \in Accels \cup {"none", "auto"}
  PROVE  LET a == GetHardwareEncoder(encoders, preferred)
         IN /\ a = "none" \/ a \in encoders
            /\ preferred # "none" /\ encoders # {} => a # "none"
            /\ preferred \in encoders => a = preferred
<1> DEFINE usable == {k \in DOMAIN HWAccelPriority : HWAccelPriority[k] \in encoders}
           least == CHOOSE k \in usable : \A l \in usable : k <= l
<1>1. DOMAIN HWAccelPriority = {1, 2} /\ HWAccelPriority[1] = "qsv" /\ HWAccelPriority[2] = "vaapi"
  BY DEF HWAccelPriority
<1>2. usable # {} => least \in usable
  BY <1>1
<1>3. usable = {} <=> encoders = {}
  BY <1>1 DEF Accels
<1> HIDE DEF least
<1>4. usable # {} => HWAccelPriority[least] \in encoders
  BY <1>2
<1> QED
  BY <1>3, <1>4 DEF GetHardwareEncoder, least, Accels

\* The fields of a plan: devices, pixel formats and the frame pools.
Names == Accels \cup {"none", "cpu", "yuv", "p10", "nv12", "dynamic", "fixed"}
Plan == [device : Names, decoder : Names, pixFmt : Names, frames : BOOLEAN,
         filter : BOOLEAN, filterIn : Names, filterOut : Names,
         encoder : Names, encFmt : Names, receivesHW : BOOLEAN,
         pool : Names, scaleFrom : Names, scaleTo : Names,
         upload : BOOLEAN, failed : BOOLEAN]

\* A plan whose encoder is not set up yet.
NoEncoder(p) ==
  /\ p \in Plan /\ p.encFmt = "none" /\ ~ p.receivesHW /\ p.pool = "none"
  /\ p.scaleFrom = "none" /\ p.scaleTo = "none" /\ ~ p.upload /\ ~ p.failed

\* The plan after the decoder: hardware frames only on the accelerator resolved.
Decoding(p, m) ==
  /\ NoEncoder(p) /\ ~ p.filter /\ p.filterOut = "none"
  /\ \/ p.device = "none" /\ p.decoder = "cpu" /\ p.pixFmt = "none"
     \/ /\ p.device = ResolveHWAccel(m) /\ p.device \in Accels /\ p.decoder = p.device
        /\ p.pixFmt = IF m.offers = "opening" THEN m.source ELSE p.device

\* What the encoder may count on: the frames that reach it are in memory, in the format of the
\* source, or on the device at hand, which is the accelerator resolved.
Feeding(p, m) ==
  LET a == ResolveHWAccel(m)
  IN /\ NoEncoder(p)
     /\ p.device = "none" \/ (p.device = a /\ a \in Accels)
     /\ ~ p.filter => /\ p.filterOut = "none"
                      /\ \/ p.pixFmt = p.device /\ p.device \in Accels /\ DecodedFormat(p, m) = p.device
                         \/ p.pixFmt \notin Accels /\ DecodedFormat(p, m) = m.source
     /\ p.filter => /\ DecodedFormat(p, m) = p.filterIn
                    /\ \/ p.filterOut = p.device /\ p.device \in Accels
                       \/ p.filterOut = "none" /\ p.filterIn = m.source

\* Frames on the device, where the decoder may yet turn them down, are what the filter is made for
\* or what the encoder will be.
Awaiting(p, m) ==
  /\ m.offers # "always" /\ p \in Plan /\ p.decoder \in Accels
  /\ \/ p.filterIn = p.decoder
     \/ /\ p.pixFmt = p.decoder /\ p.device = p.decoder /\ ~ p.filter
        /\ p.decoder = ResolveHWAccel(m)

\* The encoder is looked for on the accelerator resolved.
LEMMA Resolved ==
  ASSUME NEW m \in Machines, m.asked = "auto"
  PROVE  /\ ResolveHWAccel(m) \in Accels \cup {"none"}
         /\ GetHardwareEncoder(m.encoders, ResolveHWAccel(m)) = ResolveHWAccel(m)
<1>1. m.encoders \in SUBSET Accels
  BY DEF Machines
<1>2. ResolveHWAccel(m) = GetHardwareEncoder(m.encoders, "auto")
  BY DEF ResolveHWAccel
<1>3. ResolveHWAccel(m) = "none" \/ ResolveHWAccel(m) \in m.encoders
  BY <1>1, <1>2, EncoderChoice
<1>4. CASE ResolveHWAccel(m) = "none"
  BY <1>4 DEF GetHardwareEncoder
<1>5. CASE ResolveHWAccel(m) \in m.encoders
  BY <1>1, <1>5, EncoderChoice
<1> QED
  BY <1>3, <1>4, <1>5

\* SetupDecoder decodes in software or on the accelerator resolved.
LEMMA DecoderPlans ==
  ASSUME NEW m \in Machines, m.asked = "auto",
         NEW crop \in BOOLEAN, NEW p \in SetupDecoder(NewPlan, m, crop)
  PROVE  Decoding(p, m)
<1> DEFINE a == ResolveHWAccel(m)
           pix(d) == IF d = "none" THEN "none" ELSE IF m.offers = "opening" THEN m.source ELSE d
           dec(d) == IF d = "none" THEN "cpu" ELSE d
<1>1. PICK d \in DecoderDevices(m), f \in FramesContexts(crop) : p = DecodeOn(NewPlan, m, d, f)
  BY DEF SetupDecoder
<1>2. d = "none" \/ (d = a /\ d \in Accels)
  BY <1>1 DEF DecoderDevices, OpenDevice, Machines
<1>3. f \in BOOLEAN /\ dec(d) \in Names /\ pix(d) \in Names /\ d \in Names
  BY <1>1, <1>2 DEF FramesContexts, Names, Accels, Machines
<1>4. p = [device |-> d, decoder |-> dec(d), pixFmt |-> pix(d), frames |-> f,
           filter |-> FALSE, filterIn |-> "none", filterOut |-> "none",
           encoder |-> "none", encFmt |-> "none", receivesHW |-> FALSE,
           pool |-> "none", scaleFrom |-> "none", scaleTo |-> "none",
           upload |-> FALSE, failed |-> FALSE]
  BY <1>1 DEF NewPlan, DecodeOn
<1>5. p \in Plan
  BY <1>3, <1>4 DEF Plan, Names
<1> QED
  BY <1>2, <1>4, <1>5 DEF Decoding, NoEncoder, dec, pix, Accels

\* Without a crop the encoder is fed by the decoder.
LEMMA DecodingFeeds ==
  ASSUME NEW m \in Machines, m.asked = "auto", NEW p, Decoding(p, m)
  PROVE  Feeding(p, m) \/ Awaiting(p, m)
<1>1. m.source \notin Accels /\ m.offers \in {"always", "opening", "decoding"}
  BY DEF Machines, Accels
<1>2. CASE m.offers = "decoding" /\ p.device # "none"
  BY <1>2 DEF Decoding, NoEncoder, Awaiting
<1>3. CASE m.offers # "decoding" \/ p.device = "none"
  BY <1>1, <1>3 DEF Decoding, Feeding, DecodedFormat, Accels
<1> QED
  BY <1>2, <1>3

\* With a crop it is fed by the filter, which takes the frames the decoder was asked for.
LEMMA FilterPlans ==
  ASSUME NEW m \in Machines, m.asked = "auto",
         NEW p, Decoding(p, m), NEW q \in SetupCropFilter(p, m)
  PROVE  Feeding(q, m) \/ Awaiting(q, m)
<1> DEFINE a == ResolveHWAccel(m)
           active == p.device # "none"
           used(d) == IF a = "vaapi" /\ d = "none" THEN "none" ELSE a
           cfg(d) == SelectCropFilterConfig(used(d), active, m.source)
           pix(d) == IF active THEN p.pixFmt ELSE d
<1>1. PICK d \in IF a = "vaapi" /\ ~active THEN OpenDevice(m, a) ELSE {p.device} :
        q = [p EXCEPT !.device = d, !.pixFmt = pix(d), !.filter = TRUE,
                      !.filterIn = cfg(d).in, !.filterOut = cfg(d).out]
  BY DEF SetupCropFilter
<1>2. /\ a \in {"none", "qsv", "vaapi"} /\ m.source \in {"yuv", "p10"} /\ p \in Plan
      /\ p.device \in {"none", a}
      /\ active => a # "none" /\ p.decoder = a
      /\ ~ active => p.decoder = "cpu"
      /\ p.pixFmt \in Names
  <2>1. p \in Plan
    BY DEF Decoding, NoEncoder
  <2>2. p.pixFmt \in Names
    BY <2>1 DEF Plan
  <2> QED
    BY <2>1, <2>2, Resolved DEF Decoding, NoEncoder, Machines, Accels
<1>3. d \in {"none", a} /\ (active => d = a)
  BY <1>1, <1>2 DEF OpenDevice
<1>4. /\ cfg(d).out = "none" => cfg(d).in = m.source /\ ~ active
      /\ cfg(d).out # "none" => cfg(d).out = d /\ d = a /\ a # "none"
                                /\ cfg(d).in = IF active THEN a ELSE m.source
  BY <1>2, <1>3 DEF SelectCropFilterConfig
<1>5. cfg(d).in \in Names /\ cfg(d).out \in Names /\ pix(d) \in Names /\ d \in Names
  BY <1>2, <1>3, <1>4 DEF Names, Accels
<1> DEFINE in == cfg(d).in
           out1 == cfg(d).out
           pix1 == pix(d)
<1> HIDE DEF in, out1, pix1
<1>6. q = [p EXCEPT !.device = d, !.pixFmt = pix1, !.filter = TRUE, !.filterIn = in, !.filterOut = out1]
  BY <1>1 DEF in, out1, pix1
<1>7. in \in Names /\ out1 \in Names /\ pix1 \in Names /\ d \in Names
  BY <1>5 DEF in, out1, pix1
<1>8. q \in Plan
  BY <1>2, <1>6, <1>7 DEF Plan
<1>9. /\ q.device = d /\ q.filter = TRUE /\ q.filterIn = in /\ q.filterOut = out1
      /\ q.decoder = p.decoder /\ q.encFmt = p.encFmt /\ q.receivesHW = p.receivesHW
      /\ q.pool = p.pool /\ q.scaleFrom = p.scaleFrom /\ q.scaleTo = p.scaleTo
      /\ q.upload = p.upload /\ q.failed = p.failed
  BY <1>2, <1>6, <1>7 DEF Plan
<1>10. NoEncoder(q)
  BY <1>8, <1>9 DEF Decoding, NoEncoder
<1>11. /\ out1 = "none" => in = m.source /\ ~ active
       /\ out1 # "none" => out1 = d /\ d = a /\ a # "none" /\ in = IF active THEN a ELSE m.source
  BY <1>4 DEF in, out1
<1>12. CASE active /\ m.offers # "always"
  <2>1. q.decoder = a /\ q.filterIn = a /\ a \in Accels
    BY <1>2, <1>9, <1>11, <1>12 DEF Accels
  <2> QED
    BY <1>8, <1>12, <2>1 DEF Awaiting
<1>13. CASE ~ active \/ m.offers = "always"
  <2>1. DecodedFormat(q, m) = IF active THEN a ELSE m.source
    BY <1>2, <1>9, <1>13 DEF DecodedFormat
  <2> QED
    BY <1>2, <1>3, <1>9, <1>10, <1>11, <2>1 DEF Feeding, Accels
<1> QED
  BY <1>12, <1>13

\* The encoder is a software one, or it runs on the device at hand.
LEMMA EncoderPlans ==
  ASSUME NEW m \in Machines, m.asked = "auto",
         NEW p, Feeding(p, m), NEW q \in SelectVideoEncoder(p, m)
  PROVE  /\ Feeding(q, m)
         /\ \/ q.encoder = "cpu" /\ q.filterOut = "none" /\ (~ q.filter => DecodedFormat(q, m) = m.source)
            \/ q.encoder = q.device /\ q.encoder = ResolveHWAccel(m) /\ q.encoder \in Accels
<1> DEFINE a == ResolveHWAccel(m)
<1>1. /\ a \in {"none", "qsv", "vaapi"} /\ p \in Plan /\ NoEncoder(p)
      /\ p.device = "none" \/ (p.device = a /\ a # "none")
      /\ GetHardwareEncoder(m.encoders, a) = a
  BY Resolved DEF Feeding, NoEncoder, Accels
<1> DEFINE devices == IF a = "none" THEN {"none"}
                      ELSE IF p.device # "none" THEN {p.device} ELSE OpenDevice(m, a)
<1> HIDE DEF a
<1>2. PICK d \in devices :
        q = IF d = "none" THEN [p EXCEPT !.encoder = "cpu"]
            ELSE [p EXCEPT !.encoder = a, !.device = d]
  BY <1>1 DEF SelectVideoEncoder, a
<1>3. \/ d = "none" /\ p.device = "none"
      \/ d = a /\ a # "none" /\ p.device \in {"none", d}
  BY <1>1 DEF OpenDevice
<1>4. /\ q.filter = p.filter /\ q.filterIn = p.filterIn /\ q.filterOut = p.filterOut
      /\ q.decoder = p.decoder /\ q.encFmt = p.encFmt /\ q.receivesHW = p.receivesHW
      /\ q.pool = p.pool /\ q.scaleFrom = p.scaleFrom /\ q.scaleTo = p.scaleTo
      /\ q.upload = p.upload /\ q.failed = p.failed /\ q.pixFmt = p.pixFmt
  BY <1>1, <1>2 DEF Plan
<1>5. q \in Plan /\ q.device = d /\ q.encoder = IF d = "none" THEN "cpu" ELSE a
  <2>1. CASE d = "none"
    <3>1. q = [p EXCEPT !.encoder = "cpu"] /\ "cpu" \in Names
      BY <1>2, <2>1 DEF Names
    <3> QED
      BY <1>1, <1>3, <2>1, <3>1 DEF Plan
  <2>2. CASE d # "none"
    <3>1. q = [p EXCEPT !.encoder = a, !.device = d] /\ a \in Names /\ d \in Names
      BY <1>1, <1>2, <1>3, <2>2 DEF Names, Accels
    <3> QED
      BY <1>1, <2>2, <3>1 DEF Plan
  <2> QED
    BY <2>1, <2>2
<1>6. NoEncoder(q) /\ DecodedFormat(q, m) = DecodedFormat(p, m)
  BY <1>1, <1>4, <1>5 DEF NoEncoder, DecodedFormat
<1>7. /\ ~ p.filter => /\ p.filterOut = "none"
                       /\ \/ p.pixFmt = p.device /\ p.device \in Accels /\ DecodedFormat(p, m) = p.device
                          \/ p.pixFmt \notin Accels /\ DecodedFormat(p, m) = m.source
      /\ p.filter => /\ DecodedFormat(p, m) = p.filterIn
                     /\ \/ p.filterOut = p.device /\ p.device \in Accels
                        \/ p.filterOut = "none" /\ p.filterIn = m.source
  BY DEF Feeding
<1>8. p.device \in Accels => d = p.device
  BY <1>1, <1>3 DEF Accels
<1>9. Feeding(q, m)
  BY <1>1, <1>3, <1>4, <1>5, <1>6, <1>7, <1>8 DEF Feeding, Accels, a
<1> QED
  BY <1>1, <1>3, <1>4, <1>5, <1>6, <1>7, <1>8, <1>9 DEF Accels, a

\* Whatever the encoder is, the frames are converted to what it takes.
LEMMA PlansFit ==
  ASSUME NEW m \in Machines, m.asked = "auto",
         NEW p, Feeding(p, m), NEW r \in SetupEncoder(p, m)
  PROVE  Consistent(r, m)
<1>1. PICK q \in SelectVideoEncoder(p, m) : r = SetupVideoConversion(ConfigureEncoderPixelFormat(q), m)
  BY DEF SetupEncoder
<1> DEFINE a == ResolveHWAccel(m)
           c == ConfigureEncoderPixelFormat(q)
<1>2. /\ Feeding(q, m) /\ q \in Plan /\ NoEncoder(q) /\ m.source \in {"yuv", "p10"}
      /\ \/ q.encoder = "cpu" /\ q.filterOut = "none" /\ (~ q.filter => DecodedFormat(q, m) = m.source)
         \/ q.encoder = q.device /\ q.encoder = a /\ q.encoder \in Accels
  BY EncoderPlans DEF Feeding, NoEncoder, Machines
<1>3. CASE q.encoder = "cpu"
  <2>1. c = [q EXCEPT !.encFmt = "yuv"]
    BY <1>3 DEF ConfigureEncoderPixelFormat
  <2>2. DecodedFormat(q, m) = m.source /\ (q.filter => q.filterIn = m.source) /\ q.filterOut = "none"
    BY <1>2, <1>3 DEF Feeding, Accels
  <2> HIDE DEF c
  <2>3. /\ c \in Plan /\ c.encoder = "cpu" /\ c.encFmt = "yuv" /\ ~ c.receivesHW /\ ~ c.failed /\ ~ c.upload
        /\ c.filter = q.filter /\ c.filterIn = q.filterIn /\ c.filterOut = "none"
        /\ c.decoder = q.decoder /\ c.scaleFrom = "none" /\ c.scaleTo = "none"
    BY <1>2, <1>3, <2>1, <2>2 DEF Plan, NoEncoder, Names
  <2>4. r = [(IF m.source = "yuv" THEN c ELSE [c EXCEPT !.scaleFrom = m.source, !.scaleTo = "yuv",
                                                 !.failed = @ \/ m.source \in Accels])
             EXCEPT !.upload = FALSE]
    BY <1>1, <2>3 DEF SetupVideoConversion, c
  <2>5. /\ r.encFmt = "yuv" /\ ~ r.receivesHW /\ ~ r.failed /\ ~ r.upload
        /\ r.filter = q.filter /\ r.filterIn = q.filterIn /\ r.filterOut = "none" /\ r.decoder = q.decoder
        /\ IF m.source = "yuv" THEN r.scaleTo = "none"
           ELSE r.scaleTo = "yuv" /\ r.scaleFrom = m.source
    <3>1. CASE m.source = "yuv"
      BY <2>3, <2>4, <3>1 DEF Plan
    <3>2. CASE m.source # "yuv"
      BY <1>2, <2>3, <2>4, <3>2 DEF Plan, Accels
    <3> QED
      BY <3>1, <3>2
  <2>6. DecodedFormat(r, m) = m.source
    BY <2>2, <2>5 DEF DecodedFormat
  <2> QED
    BY <1>2, <2>2, <2>5, <2>6 DEF Consistent, EncodeVideoFrame
<1>4. CASE q.encoder = q.device /\ q.encoder = a /\ q.encoder \in Accels
  <2>1. q.encoder # "cpu" /\ q.encoder # "none" /\ q.encoder \in Names
    BY <1>4 DEF Accels, Names
  <2>2. CASE (q.pixFmt = q.encoder /\ ~q.filter) \/ q.filterOut = q.encoder
    <3>1. c = [[q EXCEPT !.pool = "dynamic", !.failed = @ \/ q.device # q.encoder]
               EXCEPT !.encFmt = q.encoder, !.receivesHW = TRUE]
      BY <2>1, <2>2 DEF ConfigureEncoderPixelFormat, SetupHWFramesContext
    <3> HIDE DEF c
    <3>2. /\ c.receivesHW /\ ~ c.failed /\ c.encFmt = q.encoder /\ c.filter = q.filter
          /\ c.filterIn = q.filterIn /\ c.filterOut = q.filterOut /\ c.decoder = q.decoder
      BY <1>2, <1>4, <3>1 DEF Plan, NoEncoder
    <3>3. r = c
      BY <1>1, <3>2 DEF SetupVideoConversion, c
    <3>4. DecodedFormat(r, m) = DecodedFormat(q, m)
      BY <3>2, <3>3 DEF DecodedFormat
    <3>5. CASE ~ q.filter
      <4>1. DecodedFormat(q, m) = q.encoder
        BY <1>2, <1>4, <2>1, <2>2, <3>5 DEF Feeding
      <4> QED
        BY <3>2, <3>3, <3>4, <3>5, <4>1 DEF Consistent, EncodeVideoFrame
    <3>6. CASE q.filter
      <4>1. DecodedFormat(q, m) = q.filterIn /\ q.filterOut = q.encoder
        BY <1>2, <2>2, <3>6 DEF Feeding
      <4> QED
        BY <2>1, <3>2, <3>3, <3>4, <3>6, <4>1 DEF Consistent, EncodeVideoFrame
    <3> QED
      BY <1>2, <3>5, <3>6 DEF Plan
  <2>3. CASE ~ ((q.pixFmt = q.encoder /\ ~q.filter) \/ q.filterOut = q.encoder)
    <3>1. c = [[q EXCEPT !.pool = "fixed", !.failed = @ \/ q.device # q.encoder]
               EXCEPT !.encFmt = q.encoder]
      BY <2>1, <2>3 DEF ConfigureEncoderPixelFormat, SetupHWFramesContext
    <3>2. DecodedFormat(q, m) = m.source /\ (q.filter => q.filterIn = m.source) /\ q.filterOut = "none"
      BY <1>2, <1>4, <2>3 DEF Feeding
    <3> HIDE DEF c
    <3>3. /\ c \in Plan /\ ~ c.receivesHW /\ ~ c.failed /\ c.encFmt = q.encoder /\ c.filter = q.filter
          /\ c.filterIn = q.filterIn /\ c.filterOut = "none" /\ c.decoder = q.decoder
          /\ c.pool = "fixed" /\ c.encoder = q.encoder
      <4> DEFINE b == [q EXCEPT !.pool = "fixed", !.failed = @ \/ q.device # q.encoder]
      <4>1. "fixed" \in Names
        BY DEF Names
      <4>2. /\ b \in Plan /\ ~ b.failed /\ b.pool = "fixed" /\ b.filter = q.filter
            /\ b.filterIn = q.filterIn /\ b.filterOut = q.filterOut /\ b.decoder = q.decoder
            /\ b.encoder = q.encoder /\ b.receivesHW = q.receivesHW
        BY <1>2, <1>4, <4>1 DEF Plan, NoEncoder
      <4>3. c = [b EXCEPT !.encFmt = q.encoder]
        BY <3>1
      <4> HIDE DEF b
      <4>4. /\ c \in Plan /\ c.failed = b.failed /\ c.pool = b.pool /\ c.filter = b.filter
            /\ c.filterIn = b.filterIn /\ c.filterOut = b.filterOut /\ c.decoder = b.decoder
            /\ c.encoder = b.encoder /\ c.receivesHW = b.receivesHW /\ c.encFmt = q.encoder
        BY <2>1, <4>2, <4>3 DEF Plan
      <4> QED
        BY <1>2, <3>2, <4>2, <4>4 DEF NoEncoder
    <3>4. r = [[c EXCEPT !.scaleFrom = m.source, !.scaleTo = "nv12", !.failed = @ \/ m.source \in Accels]
               EXCEPT !.upload = TRUE]
      BY <1>1, <1>2, <2>1, <3>3 DEF SetupVideoConversion, c
    <3>5. /\ r.encFmt = q.encoder /\ ~ r.receivesHW /\ ~ r.failed /\ r.upload /\ r.filter = q.filter
          /\ r.filterIn = q.filterIn /\ r.filterOut = "none" /\ r.decoder = q.decoder
          /\ r.pool = "fixed" /\ r.encoder = q.encoder /\ r.scaleFrom = m.source /\ r.scaleTo = "nv12"
      BY <1>2, <3>3, <3>4 DEF Plan, Accels
    <3>6. DecodedFormat(r, m) = m.source
      BY <3>2, <3>5 DEF DecodedFormat
    <3> QED
      BY <1>2, <3>2, <3>5, <3>6 DEF Consistent, EncodeVideoFrame
  <2> QED
    BY <2>2, <2>3
<1> QED
  BY <1>2, <1>3, <1>4

\* Where the frames are awaited on the device, the plan counts on them there to the end.
LEMMA AwaitingPlans ==
  ASSUME NEW m \in Machines, m.asked = "auto",
         NEW p, Awaiting(p, m), NEW r \in SetupEncoder(p, m)
  PROVE  ExpectsHW(r)
<1>1. PICK q \in SelectVideoEncoder(p, m) : r = SetupVideoConversion(ConfigureEncoderPixelFormat(q), m)
  BY DEF SetupEncoder
<1> DEFINE a == ResolveHWAccel(m)
           c == ConfigureEncoderPixelFormat(q)
<1>2. /\ p \in Plan /\ p.decoder \in Accels /\ p.decoder # "cpu"
      /\ a \in Accels \cup {"none"} /\ GetHardwareEncoder(m.encoders, a) = a
  BY Resolved DEF Awaiting, Accels
<1>3. PICK e \in Names, d \in Names :
        /\ q = [p EXCEPT !.encoder = e, !.device = d]
        /\ p.device = a /\ a \in Accels => e = a
  <2> DEFINE devices == IF a = "none" THEN {"none"}
                        ELSE IF p.device # "none" THEN {p.device} ELSE OpenDevice(m, a)
  <2>1. PICK d \in devices : q = IF d = "none" THEN [p EXCEPT !.encoder = "cpu"]
                                 ELSE [p EXCEPT !.encoder = a, !.device = d]
    BY <1>2 DEF SelectVideoEncoder
  <2>2. p.device \in Names /\ "cpu" \in Names /\ a \in Names /\ d \in Names
    BY <1>2, <2>1 DEF Plan, Names, OpenDevice, Accels
  <2>3. CASE d = "none"
    <3>1. q = [p EXCEPT !.encoder = "cpu", !.device = p.device]
      BY <1>2, <2>1, <2>3 DEF Plan
    <3>2. ~ (p.device = a /\ a \in Accels)
      BY <2>1, <2>3 DEF Accels
    <3> QED
      BY <2>2, <3>1, <3>2
  <2>4. CASE d # "none"
    BY <2>1, <2>2, <2>4
  <2> QED
    BY <2>3, <2>4
<1>4. /\ q \in Plan /\ q.filter = p.filter /\ q.filterIn = p.filterIn
      /\ q.decoder = p.decoder /\ q.pixFmt = p.pixFmt /\ q.encoder = e
  BY <1>2, <1>3 DEF Plan
<1>5. /\ c.filterIn = q.filterIn /\ c.decoder = q.decoder /\ DOMAIN c = DOMAIN q
      /\ q.encoder # "cpu" /\ q.pixFmt = q.encoder /\ ~ q.filter => c.receivesHW
  <2>1. CASE q.encoder = "cpu"
    BY <1>4, <2>1 DEF ConfigureEncoderPixelFormat, Plan
  <2>2. CASE q.encoder # "cpu" /\ ((q.pixFmt = q.encoder /\ ~q.filter) \/ q.filterOut = q.encoder)
    <3>1. c = [[q EXCEPT !.pool = "dynamic", !.failed = @ \/ q.device # q.encoder]
               EXCEPT !.encFmt = q.encoder, !.receivesHW = TRUE]
      BY <2>2 DEF ConfigureEncoderPixelFormat, SetupHWFramesContext
    <3> QED
      BY <1>4, <3>1 DEF Plan
  <2>3. CASE q.encoder # "cpu" /\ ~ ((q.pixFmt = q.encoder /\ ~q.filter) \/ q.filterOut = q.encoder)
    <3>1. c = [[q EXCEPT !.pool = "fixed", !.failed = @ \/ q.device # q.encoder]
               EXCEPT !.encFmt = q.encoder]
      BY <2>3 DEF ConfigureEncoderPixelFormat, SetupHWFramesContext
    <3> QED
      BY <1>4, <2>3, <3>1 DEF Plan
  <2> QED
    BY <2>1, <2>2, <2>3
<1>6. DOMAIN q = DOMAIN NewPlan
  BY <1>4 DEF Plan, NewPlan
<1> HIDE DEF c
<1>7. r.filterIn = c.filterIn /\ r.decoder = c.decoder /\ (c.receivesHW => r = c)
  <2>1. r = SetupVideoConversion(c, m)
    BY <1>1 DEF c
  <2>2. CASE c.receivesHW
    BY <2>1, <2>2 DEF SetupVideoConversion
  <2>3. CASE ~ c.receivesHW
    BY <1>5, <1>6, <2>1, <2>3 DEF SetupVideoConversion, NewPlan
  <2> QED
    BY <2>2, <2>3
<1>8. CASE p.filterIn = p.decoder
  BY <1>2, <1>4, <1>5, <1>7, <1>8 DEF ExpectsHW
<1>9. CASE p.pixFmt = p.decoder /\ p.device = p.decoder /\ ~ p.filter /\ p.decoder = a
  <2>1. q.encoder # "cpu" /\ q.pixFmt = q.encoder /\ ~ q.filter
    BY <1>2, <1>3, <1>4, <1>9
  <2> QED
    BY <1>2, <1>4, <1>5, <1>7, <2>1 DEF ExpectsHW
<1> QED
  BY <1>8, <1>9 DEF Awaiting

\* Under HWAccelAuto, decoder, crop filter, scaler, upload and encoder of every re-encoded stream
\* agree on the format of its frames, on every machine, unless the decoder turns the hardware format
\* down after the filter or the encoder was set up for it (stream_video.go).
THEOREM PlansAreConsistent ==
  ASSUME PipelineJobs
  PROVE  Spec => []PlanConsistent
<1>1. ASSUME SetupInv, NEW p \in Prepared
      PROVE  Feeding(p, job.machine) \/ Awaiting(p, job.machine)
  <2>1. job \in Jobs /\ job.machine \in Machines /\ job.crop \in BOOLEAN
    BY <1>1, InputType DEF SetupInv, SetupTypeOK
  <2>2. job.machine.asked = "auto"
    BY <2>1 DEF PipelineJobs
  <2>3. PICK d \in SetupDecoder(NewPlan, job.machine, job.crop) :
          p \in IF job.crop THEN SetupCropFilter(d, job.machine) ELSE {d}
    BY DEF Prepared
  <2>4. Decoding(d, job.machine)
    BY <2>1, <2>2, DecoderPlans
  <2> QED
    BY <2>1, <2>2, <2>3, <2>4, DecodingFeeds, FilterPlans
<1>2. ASSUME SetupInv, NEW r \in Encoded
      PROVE  \/ Consistent(r, job.machine)
             \/ job.machine.offers # "always" /\ ExpectsHW(r)
  <2>1. job \in Jobs /\ job.machine \in Machines /\ job.machine.asked = "auto"
    BY <1>2, InputType DEF SetupInv, SetupTypeOK, PipelineJobs
  <2>2. PICK p \in Prepared : r \in SetupEncoder(p, job.machine)
    BY DEF Encoded
  <2>3. CASE Feeding(p, job.machine)
    BY <2>1, <2>2, <2>3, PlansFit
  <2>4. CASE Awaiting(p, job.machine)
    <3>1. job.machine.offers # "always"
      BY <2>4 DEF Awaiting
    <3> QED
      BY <2>1, <2>2, <2>4, <3>1, AwaitingPlans
  <2> QED
    BY <1>1, <1>2, <2>2, <2>3, <2>4
<1>3. ASSUME SetupInv, Complete, NEW k \in DOMAIN streams, streams[k] = "video"
      PROVE  plans[k] \in Encoded
  <2>1. SetupTypeOK /\ k \in Nat /\ k < i /\ stage # "build" /\ stage # "failed"
    <3>1. SetupTypeOK /\ Len(input) \in Nat /\ DOMAIN streams = 1 .. Len(input) /\ i = Len(input) + 1
      BY <1>3, InputType DEF SetupInv, SetupTypeOK, StreamsOK
    <3> QED
      BY <1>3, <3>1 DEF Complete
  <2>2. ~ (k >= i)
    BY <2>1 DEF SetupTypeOK
  <2> QED
    BY <1>3, <2>1, <2>2 DEF SetupInv, PlansOK
<1>4. SetupInv => PlanConsistent
  BY <1>2, <1>3 DEF PlanConsistent
<1> QED
  BY <1>4, SetupInvariance, PTL

=============================================================================
