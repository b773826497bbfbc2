CONSTANTS
    None = None
    Games <- GapGames
    RealCards <- GapReal
    Owned <- MCOwned
    LevelOf <- GapLevels
    TargetLevel = 5
    MaxGames = 2
    MinListings = 2
    MinDemand = 5
    SeedSizes <- GapSizes
    SeedCards <- GapSeeded
    SeedPrices <- GapPrices
    DeadGames = {}
    Restricted = {}
    MaxSetSize = 3
    QuotesOf <- MCQuotes
    PackPrices = {6}
    EnrichTop = 1
    MaxFaults = 0
SPECIFICATION Spec
INVARIANTS FullyPricedIsRanked
