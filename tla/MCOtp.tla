-------------------------------- MODULE MCOtp --------------------------------
(* Small instances of Otp. *)
EXTENDS Otp, TLC

OtpSymmetry == Permutations(Challenges) \cup Permutations(Requests)
=============================================================================
