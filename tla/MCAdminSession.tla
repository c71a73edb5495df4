--------------------------- MODULE MCAdminSession ---------------------------
(* Small instances of AdminSession. *)
EXTENDS AdminSession, TLC

SessionSymmetry == Permutations(Browsers) \cup Permutations(Procs)
                   \cup Permutations(Requests) \cup Permutations(Tokens)
=============================================================================
