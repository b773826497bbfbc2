\* Two discoveries at once, run again and again, on a market that stays still.
CONSTANTS
    Discoverers = {"d", "e"}
    Importers = {}
    Games <- OneGame
    Names <- OneNames
    Foils <- OneFoils
    GameOf <- OneGameOf
    CatalogSize <- OneSizes
    FirstMarket <- OneMarket
    PageSize = 2
    MaxPages = 5
    MaxSetSize = 4
    MaxFaults = 2
    Faults = {}
SPECIFICATION FairSpec
PROPERTIES ImplementsCatalog CompleteStays ListsGetComplete
