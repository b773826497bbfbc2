CONSTANTS
    Sweepers = {s1}
    Listings <- MCListings
    Skipped <- MCSkipped
    Foils <- MCFoils
    Games <- MCGames
    GameOf <- MCGameOf
    SetSize <- MCSetSize
    FirstMarket <- MCShort
    PageSize = 2
    MaxPages = 2
    StopAfter = 3
    MaxCrashes = 0
    MaxOffset = 6
    Faults = {"deleteAll"}
SPECIFICATION Spec
INVARIANT CursorCovered
