--------------------------- MODULE MCTokenRotation ---------------------------
(* Small instances of TokenRotation. *)
EXTENDS TokenRotation, TLC

\* Tokens, and requests, are interchangeable in the safety runs.
TokenSymmetry == Permutations(Tokens) \cup Permutations(Requests)
=============================================================================
