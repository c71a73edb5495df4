SPECIFICATION FairSpec
CONSTANTS
    Staff = {}
    Contacts = {bob}
    Tokens = {t1, t2, t3}
    Requests = {r1, r2}
    Endpoints = {"staff", "contact"}
    Grace = 0
    Ttl = 2
    MaxTime = 1
    None = None
PROPERTIES
    RequestsAnswered
