-------------------------- MODULE MCContactIdentity --------------------------
(* Small instances of ContactIdentity. *)
EXTENDS ContactIdentity, TLC

ContactSymmetry == Permutations(Phones) \cup Permutations(Emails)
                   \cup Permutations(Contacts) \cup Permutations(Requests)
=============================================================================
