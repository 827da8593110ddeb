----------------------------- MODULE VideoPlan -----------------------------
(***************************************************************************)
(* How a re-encoded video stream is wired up (stream_video.go): decoder,   *)
(* crop filter, encoder and the conversions between them, each in software *)
(* or on a GPU.  A plan is a record; every setup phase maps a plan to the  *)
(* set of plans it can end in, one for each answer of the machine.         *)
(*                                                                         *)
(* A machine says which accelerator was asked for, for which of them libav *)
(* has a decoder of the source and an encoder of the target codec, which   *)
(* devices can be opened, and whether a hardware decoder offers hardware   *)
(* frames: always, or it turns them down when it is opened ("opening") or  *)
(* only when it decodes the first frame ("decoding").  Pixel formats:      *)
(* "yuv" and "p10" in memory, "nv12" for uploads, and one per accelerator. *)
(***************************************************************************)
EXTENDS Sequences, Naturals

Accels == {"qsv", "vaapi"}
Machines == [asked : Accels \cup {"none", "auto"}, decoders : SUBSET Accels,
             encoders : SUBSET Accels, devices : SUBSET Accels,
             offers : {"always", "opening", "decoding"}, source : {"yuv", "p10"}]

(* hwAccelPriority *)
HWAccelPriority == <<"qsv", "vaapi">>

(* The preferred accelerator if libav can encode with it, else the first   *)
(* of the others that can.                                                 *)
GetHardwareEncoder(encoders, preferred) ==
  LET usable == {k \in DOMAIN HWAccelPriority : HWAccelPriority[k] \in encoders}
  IN IF preferred = "none" \/ usable = {} THEN "none"
     ELSE IF preferred \in encoders THEN preferred
     ELSE HWAccelPriority[CHOOSE k \in usable : \A l \in usable : k <= l]

ResolveHWAccel(m) ==
  IF m.asked # "auto" THEN m.asked ELSE GetHardwareEncoder(m.encoders, "auto")

(* A device that can be opened may still fail to.                          *)
OpenDevice(m, accel) == IF accel \in m.devices THEN {accel, "none"} ELSE {"none"}

NewPlan == [device |-> "none", decoder |-> "cpu", pixFmt |-> "none", frames |-> FALSE,
            filter |-> FALSE, filterIn |-> "none", filterOut |-> "none",
            encoder |-> "none", encFmt |-> "none", receivesHW |-> FALSE,
            pool |-> "none", scaleFrom |-> "none", scaleTo |-> "none",
            upload |-> FALSE, failed |-> FALSE]

(* A software decoder, or a hardware one on the device.  Opening it may    *)
(* turn the hardware format down: the callback then records that frames    *)
(* come from memory.                                                       *)
DecodeOn(p, m, device, allocated) ==
  [p EXCEPT !.device = device,
            !.decoder = IF device = "none" THEN "cpu" ELSE device,
            !.pixFmt = IF device = "none" THEN "none"
                       ELSE IF m.offers = "opening" THEN m.source ELSE device,
            !.frames = allocated]

(* In hardware where a decoder is registered and the device opens.         *)
DecoderDevices(m) ==
  IF ResolveHWAccel(m) \in m.decoders THEN OpenDevice(m, ResolveHWAccel(m)) ELSE {"none"}

(* With a crop to come, the decoder's frames context is allocated in       *)
(* advance, which may fail.                                                *)
FramesContexts(crop) == IF crop THEN BOOLEAN ELSE {FALSE}

SetupDecoder(p, m, crop) ==
  {DecodeOn(p, m, d, f) : d \in DecoderDevices(m), f \in FramesContexts(crop)}

(* Input and output format of the crop graph; "none" out: as it came in.   *)
SelectCropFilterConfig(accel, hwDecodeActive, source) ==
  IF accel = "vaapi"
    THEN [in |-> IF hwDecodeActive THEN "vaapi" ELSE source, out |-> "vaapi"]
  ELSE IF accel = "qsv" /\ hwDecodeActive
    THEN [in |-> "qsv", out |-> "qsv"]
  ELSE [in |-> source, out |-> "none"]

(* VAAPI after a software decoder needs a device for the upload, and crops *)
(* in software when there is none.  A graph for hardware frames without a  *)
(* frames context is refused by libav.                                     *)
SetupCropFilter(p, m) ==
  LET accel == ResolveHWAccel(m)
      active == p.device # "none"
      devices == IF accel = "vaapi" /\ ~active THEN OpenDevice(m, accel) ELSE {p.device}
      Filtered(d) ==
        LET used == IF accel = "vaapi" /\ d = "none" THEN "none" ELSE accel
            cfg == SelectCropFilterConfig(used, active, m.source)
        IN [p EXCEPT !.device = d, !.pixFmt = IF active THEN @ ELSE d,
                     !.filter = TRUE, !.filterIn = cfg.in, !.filterOut = cfg.out]
  IN {Filtered(d) : d \in {d \in devices : active => p.frames}}

(* The device of the decoder or the filter is used again; without any the  *)
(* encoder is a software one.                                              *)
SelectVideoEncoder(p, m) ==
  LET effective == GetHardwareEncoder(m.encoders, ResolveHWAccel(m))
      devices == IF effective = "none" THEN {"none"}
                 ELSE IF p.device # "none" THEN {p.device} ELSE OpenDevice(m, effective)
  IN {IF d = "none" THEN [p EXCEPT !.encoder = "cpu"]
      ELSE [p EXCEPT !.encoder = effective, !.device = d] : d \in devices}

(* The encoder's frames context is made on the device at hand.             *)
SetupHWFramesContext(p, size) ==
  [p EXCEPT !.pool = size, !.failed = @ \/ p.device # p.encoder]

(* What the filter does to the frames is not looked at.                    *)
ConfigureEncoderPixelFormat_NoFilter(p) ==
  IF p.encoder = "cpu" THEN [p EXCEPT !.encFmt = "yuv"]
  ELSE IF p.pixFmt = p.encoder /\ ~p.filter
    THEN [SetupHWFramesContext(p, "dynamic") EXCEPT !.encFmt = p.encoder, !.receivesHW = TRUE]
  ELSE [SetupHWFramesContext(p, "fixed") EXCEPT !.encFmt = p.encoder]

ConfigureEncoderPixelFormat(p) ==
  IF p.encoder = "cpu" THEN [p EXCEPT !.encFmt = "yuv"]
  ELSE IF (p.pixFmt = p.encoder /\ ~p.filter) \/ p.filterOut = p.encoder
    THEN [SetupHWFramesContext(p, "dynamic") EXCEPT !.encFmt = p.encoder, !.receivesHW = TRUE]
  ELSE [SetupHWFramesContext(p, "fixed") EXCEPT !.encFmt = p.encoder]

(* Scaling happens in memory; swscale takes no hardware format.            *)
SetupVideoConversion(p, m) ==
  IF p.receivesHW THEN p
  ELSE LET from == IF p.filterOut # "none" THEN p.filterOut ELSE m.source
           to == IF p.encoder = "cpu" THEN p.encFmt ELSE "nv12"
           scaled == IF from = to THEN p
                     ELSE [p EXCEPT !.scaleFrom = from, !.scaleTo = to,
                                    !.failed = @ \/ from \in Accels]
       IN [scaled EXCEPT !.upload = p.encoder # "cpu"]

SetupEncoder(p, m) ==
  {SetupVideoConversion(ConfigureEncoderPixelFormat(q), m) : q \in SelectVideoEncoder(p, m)}

(* encodeVideoFrame: the format of a frame on its way to the encoder, or   *)
(* "bad" where it does not fit what was set up for it.                     *)
DecodedFormat(p, m) == IF p.decoder # "cpu" /\ m.offers = "always" THEN p.decoder ELSE m.source

EncodeVideoFrame(p, m) ==
  LET decoded == DecodedFormat(p, m)
      cropped == IF ~p.filter THEN decoded
                 ELSE IF decoded # p.filterIn THEN "bad"
                 ELSE IF p.filterOut = "none" THEN decoded ELSE p.filterOut
      scaled == IF p.scaleTo = "none" THEN cropped
                ELSE IF cropped = p.scaleFrom THEN p.scaleTo ELSE "bad"
  IN IF p.receivesHW THEN cropped
     ELSE IF ~p.upload THEN scaled
     ELSE IF scaled = "nv12" /\ p.pool = "fixed" THEN p.encoder ELSE "bad"

(* The frames of a hardware decoder are to reach the filter, or the        *)
(* encoder, on the device.                                                 *)
ExpectsHW(p) == p.decoder # "cpu" /\ (p.receivesHW \/ p.filterIn = p.decoder)

Consistent(p, m) == ~p.failed /\ EncodeVideoFrame(p, m) = p.encFmt

=============================================================================
