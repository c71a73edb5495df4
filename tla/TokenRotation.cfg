SPECIFICATION Spec
CONSTANTS
    Staff = {alice}
    Contacts = {bob}
    Tokens = {t1, t2, t3}
    Requests = {r1, r2}
    Endpoints = {"staff", "contact"}
    Grace = 1
    Ttl = 2
    MaxTime = 2
    None = None
SYMMETRY TokenSymmetry
INVARIANTS
    TypeOK
    RefusedExchangeLeavesNoToken
    RevocationIsComplete
    SpentHasSuccessor
    GraceWindowBounded
PROPERTIES
    FamiliesAreSessions
