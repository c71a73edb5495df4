SPECIFICATION StaffSpec
CONSTANTS
    l1 = l1
    l2 = l2
    r1 = r1
    r2 = r2
    States = {punjab, chandigarh}
    Listings = {l1, l2}
    PlotOf <- OnePlot
    StateOf <- InPunjab
    Requests = {r1, r2}
    Prices = {1, 2}
    MaxDay = 1
    None = None
    Scenes <- MCScenes
    Forms <- MCForms
    Payloads <- MCPayloads
    Start <- MCStart
    MaxListings = 2
SYMMETRY RequestSymmetry
INVARIANTS
    ActiveWhereRegistered
    ClosedAtTracksStatus
    PriceHistoryIsCurrent
    OnePropertyPerPlot
    ShownAsEntered
