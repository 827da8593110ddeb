--------------------------- MODULE MCTranscodeRun ---------------------------
EXTENDS TranscodeRun

CONSTANTS aac, pgs, h265, ac3, art, ass

(* Two copied streams, one of them bare AAC that is also downmixed, a      *)
(* re-encoded video and a converted subtitle.  The input counts in units   *)
(* of 1 or 2, the output in units of 2 or 3, so that distinct timestamps   *)
(* meet after rescaling.                                                   *)
MCTimeBase == [s \in Input \cup {Downmix} |-> IF s = pgs THEN 2 ELSE 1]
MCOutTimeBase == [t \in Tracks |-> IF t = aac THEN 3 ELSE 2]
MCPts == {NoPts, 5}
MCDts == {NoPts, 4, 6}
MCEncoderDts == {NoPts, 1}

=============================================================================
