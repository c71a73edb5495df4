SPECIFICATION FairSpec
CHECK_DEADLOCK FALSE
CONSTANTS
    e1 = e1
    e2 = e2
    None = None
    PageSize = 2
    MapSize = 4
    MaxPageSize = 3
    MaxPage = 3
    MaxPrice = 5
    MaxArea = 5
    Today = 4
    Areas <- MCAreas
    Guides <- MCGuides
    Cards = 2
    MinSample = 2
    Window = 2
    Editors = {e1, e2}
    MaxSaves = 2
    Photos = {1, 2, 3}
    Slots = {1, 2}
    Scenes <- MCScenes
INVARIANTS
    SearchShowsWhatMatches
    WalkSeesEverything
    UntouchedFormChangesNothing
    FirstLookIsCurrent
    GridShowsTheGallery
    PagesAgree
PROPERTIES
    SiteCatchesUp
