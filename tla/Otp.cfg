SPECIFICATION Spec
CONSTANTS
    Challenges = {c1, c2}
    Requests = {r1, r2}
    OTP_MAX_ATTEMPTS = 2
    OTP_TTL = 2
    OTP_RESEND_COOLDOWN = 2
    MaxTime = 3
    MaxGuesses = 3
    None = None
SYMMETRY OtpSymmetry
INVARIANTS
    SingleUse
    AttemptCap
    SupersededNeverSucceeds
    SendsInTurn
