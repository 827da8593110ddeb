-------------------------- MODULE MCTranscodeSetup --------------------------
EXTENDS TranscodeSetup

Stream(kind, codec, pic, lang, ch, default) ==
  [kind |-> kind, codec |-> codec, pic |-> pic, lang |-> lang, ch |-> ch, default |-> default]

Film == Stream("video", "h264", FALSE, "und", 0, TRUE)
OldFilm == Stream("video", "mpeg4", FALSE, "und", 0, TRUE)
Motion == Stream("video", "mjpeg", FALSE, "und", 0, FALSE)
Screen == Stream("video", "binkvideo", FALSE, "und", 0, TRUE)
Cover == Stream("video", "mjpeg", TRUE, "und", 0, FALSE)
Font == Stream("attachment", "ttf", FALSE, "und", 0, FALSE)
Timecode == Stream("data", "bin", FALSE, "und", 0, FALSE)
AudioCodec(ch) == IF ch = 6 THEN "ac3" ELSE IF ch = 2 THEN "pcm_bluray" ELSE "dts"
Audio(lang, ch, default) == Stream("audio", AudioCodec(ch), FALSE, lang, ch, default)
Subtitle(lang, codec, default) == Stream("subtitle", codec, FALSE, lang, 0, default)

Pictures == {<<Film>>, <<OldFilm>>, <<Motion>>, <<Film, Cover>>, <<Motion, Film>>,
             <<Film, Motion>>, <<Motion, Cover>>, <<Cover, OldFilm>>}
Sounds ==
  LET S == {Audio(l, c, d) : l \in {"eng", "fre"}, c \in {0, 2, 6}, d \in BOOLEAN}
  IN {<<>>} \cup {<<s>> : s \in S} \cup {<<s, t>> : s, t \in S}
Others ==
  LET T == {Subtitle(l, c, d) : l \in {"eng", "fre"}, c \in {"mov_text", "pgs", "xsub"}, d \in BOOLEAN}
  IN {<<Font, Timecode>>} \cup {<<s>> : s \in T} \cup {<<s, t>> : s, t \in T}

Cpu == [asked |-> "auto", decoders |-> {}, encoders |-> {}, devices |-> {},
        offers |-> "always", source |-> "yuv"]
Job(in, mkv, crop, art, m) == [input |-> in, mkv |-> mkv, crop |-> crop, art |-> art, machine |-> m]

(* The pipeline asks for HWAccelAuto.                                      *)
AutoMachines == {m \in Machines : m.asked = "auto"}

(* No video in Matroska is tagless; the rest is as libav has it.           *)
MCTagless == {"mov_text", "xsub", "pcm_bluray", "binkvideo"}

MCJobs ==
  {Job(v \o a, m, c, FALSE, Cpu) : v \in Pictures, a \in Sounds, m, c \in BOOLEAN}
  \cup {Job(v \o o, FALSE, FALSE, art, Cpu) : v \in Pictures \cup {<<Screen>>},
                                              o \in Others, art \in BOOLEAN}
  \cup {Job(v, FALSE, c, FALSE, m) : v \in {<<Film>>, <<Film, OldFilm>>},
                                     c \in BOOLEAN, m \in AutoMachines}

=============================================================================
