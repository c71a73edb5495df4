--------------------------- MODULE MCMediaPipeline ---------------------------
(* Small instances of MediaPipeline. *)
EXTENDS MediaPipeline, TLC

MediaSymmetry == Permutations(Media) \cup Permutations(Requests)
=============================================================================
