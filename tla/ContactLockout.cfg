SPECIFICATION Spec
CONSTANTS
    Phones = {p1, p2}
    Emails = {e1, e2}
    Contacts = {c1, c2}
    Requests = {r1}
    MaxEnquiries = 2
    None = None
SYMMETRY ContactSymmetry
INVARIANTS
    PhonesCanSignIn
