CONSTANTS
    Refreshers = {"usd", "eur"}
    Sweepers = {"sweep"}
    Forced = {"eur"}
    Items <- MCItems
    ListsOf <- MCListsOf
    Currencies = {"USD", "EUR"}
    CurrencyOf <- MCCurrencyOf
    LongTTL = 1
    ShortTTL = 0
    MaxClock = 4
SPECIFICATION Spec
INVARIANTS TypeOK CacheSpares ServedIsFresh
PROPERTIES NewestStands
