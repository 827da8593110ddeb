--------------------------- MODULE MCMediaPipeline ---------------------------
(* Instances of MediaPipeline for TLC. *)
EXTENDS MediaPipeline, TLC

CONSTANTS f1, f2, o1, o2

\* Two episodes of one season: one output directory, two outputs.
OwnOutputs == (f1 :> o1) @@ (f2 :> o2)

\* One file on its own.
OneOutput == (f1 :> o1)

\* Two sources with the same stem ("film.mkv" and "film.mp4").
SharedOutput == (f1 :> o1) @@ (f2 :> o1)
=============================================================================
