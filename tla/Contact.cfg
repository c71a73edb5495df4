SPECIFICATION Spec
CONSTANTS
    Phones = {p1, p2}
    Emails = {e1, e2}
    Contacts = {c1, c2}
    Requests = {r1, r2}
    MaxEnquiries = 1
    None = None
SYMMETRY ContactSymmetry
INVARIANTS
    IdentityIsItsContact
    LeadsReachTheirPerson
    PasswordIsItsOwners
