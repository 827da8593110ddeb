--------------------------- MODULE MCCropDetection ---------------------------
EXTENDS CropDetection

(* Black, letterboxed on both axes, off centre, and the full width.        *)
MCFrames == {{}, {"c"}, {"c", "b"}, {"c", "l", "r"}}
MCMinima == {-1, 1, 2}

=============================================================================
