CONSTANTS
    Sweepers = {s1, s2}
    Listings <- MCListings
    Skipped <- MCSkipped
    Foils <- MCFoils
    Games <- MCGames
    GameOf <- MCGameOf
    SetSize <- MCSetSize
    FirstMarket <- MCShort
    PageSize = 2
    MaxPages = 2
    StopAfter = 2
    MaxCrashes = 1
    MaxOffset = 6
    Faults = {}
SPECIFICATION Spec
INVARIANTS TypeOK CursorCovered EndMeansAllPriced
PROPERTIES ImplementsScan
