SPECIFICATION Spec
CONSTANTS
    Browsers = {b1, b2}
    Procs = {p1, p2}
    Requests = {r1, r2}
    Tokens = {t1, t2, t3}
    Grace = 2
    AccessAge = 2
    MaxDelay = 1
    None = None
SYMMETRY SessionSymmetry
INVARIANTS
    SessionSurvives
    OwnTokensOnly
    NoBounce
    LogoutIsFinal
