CONSTANTS
    None = None
    Copies <- MCCopies
    FirstHeld <- MCFirst
    DescOf <- MCDesc
    AmountOf <- MCAmount
    Names <- MCNames
    Games <- MCGames
    GameOrder <- MCGameOrder
    SetOf <- MCSets
    Decoys <- MCDecoys
    PageSize = 2
    MaxPages = 2
    MaxChanges = 1
    MaxFaults = 1
    Asks <- MCAsks
    GooOf <- MCGoo
    CardOrder <- MCOrder
    SackPrices = {50}
    MaxCards = 2
SPECIFICATION FairSpec
INVARIANTS TypeOK PagingExact NothingOverstated
PROPERTIES HeldGetsRecorded YieldsGetCached
