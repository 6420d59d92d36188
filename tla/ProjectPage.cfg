SPECIFICATION Spec
CONSTANTS
    s1 = s1  All = All  Nowhere = Nowhere  Gone = Gone  NaN = NaN
    Media = {1, 2}
    Types = {1, 2}
    TypeOf <- KindOf
    Folders = {s1}
    Hits = {2}
    Sizes = {1, 2}
    DefaultSize = 1
    SeedPlace <- Places
    MaxActs = 4
    MaxRequests = 2
    MaxFaults = 1
INVARIANTS
    TypeOK
    CardsAreCurrent
    SelectionIsShown
    UrlTellsView
    LoadingEnds
    DimmerGoes
CHECK_DEADLOCK FALSE
