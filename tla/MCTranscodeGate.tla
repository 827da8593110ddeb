--------------------------- MODULE MCTranscodeGate ---------------------------
(* Instances of TranscodeGate for TLC. *)
EXTENDS TranscodeGate

CONSTANTS p1, p2, p3, p4
=============================================================================
