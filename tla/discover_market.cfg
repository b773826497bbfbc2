\* A discovery and a catalog import on a market that shifts and answers
\* with empty pages.
CONSTANTS
    Discoverers = {"d"}
    Importers = {"c"}
    Games <- MCGames
    Names <- MCNames
    Foils <- MCFoils
    GameOf <- MCGameOf
    CatalogSize <- MCSizes
    FirstMarket <- MCMarket
    PageSize = 2
    MaxPages = 2
    MaxSetSize = 3
    MaxFaults = 1
    Faults = {"emptyPage", "shift"}
SPECIFICATION Spec
INVARIANTS TypeOK SetsAreHonest
