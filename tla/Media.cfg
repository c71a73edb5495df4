SPECIFICATION Spec
CONSTANTS
    Media = {m1, m2, m3}
    Contents = {a, b}
    VARIANTS = {"thumb", "card"}
    Requests = {r1, r2}
    None = None
SYMMETRY MediaSymmetry
INVARIANTS
    ReadyIsComplete
    RemovedPhotoIsGone
    OneReadyPerContent
