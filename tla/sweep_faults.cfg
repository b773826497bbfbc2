CONSTANTS
    Sweepers = {s1}
    Listings <- MCListings
    Skipped <- MCSkipped
    Foils <- MCFoils
    Games <- MCGames
    GameOf <- MCGameOf
    SetSize <- MCSetSize
    FirstMarket <- MCMarket
    PageSize = 2
    MaxPages = 2
    StopAfter = 2
    MaxCrashes = 1
    MaxOffset = 7
    Faults = {"emptyPage", "delist", "deleteAll"}
SPECIFICATION FairSpec
INVARIANTS ResultResumable PricedCardsKnown
PROPERTIES SweepReachesEnd
