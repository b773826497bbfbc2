CONSTANTS
    None = None
    Games <- MCGames
    RealCards <- MCReal
    Owned <- MCOwned
    LevelOf <- MCLevels
    TargetLevel = 5
    MaxGames = 2
    MinListings = 2
    MinDemand = 5
    SeedSizes <- MCSizes
    SeedCards <- MCSeeded
    SeedPrices <- MCPrices
    DeadGames = {3}
    Restricted = {11}
    MaxSetSize = 3
    QuotesOf <- MCQuotes
    PackPrices = {6}
    EnrichTop = 1
    MaxFaults = 2
SPECIFICATION FairSpec
INVARIANTS TypeOK NothingOverpromised ViewsAgree PassDelivers
PROPERTIES ImplementsCatalog CandidatesRunOut
