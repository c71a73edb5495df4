SPECIFICATION FairSpec
CHECK_DEADLOCK FALSE
CONSTANTS
    Forms = {f1}
    Calls = {c1, c2}
    f1 = f1
    c1 = c1
    c2 = c2
    s1 = s1
    s2 = s2
    l1 = l1
    host1 = host1
    partner = partner
    None = None
    Contents <- MCContents
    Listings = {l1}
    Owner <- MCOwner
    Host = host1
    Staff = {s1, s2}
    Employer <- MCEmployer
    Statuses = {"NEW", "CONTACTED", "WON"}
    Deployments <- MCDeployments
    OUTBOUND_MAX_ATTEMPTS = 2
    ThrottleLimit = 1
    Scenes <- MCScenes
INVARIANTS
    ThanksMeansStored
    DuplicatesWereReportedLost
    NoMessageWithoutConsent
    TrailIsHonest
    TrailMatchesStatus
    RowsShowTheLead
PROPERTIES
    EnquiriesSettle
