CONSTANTS
    Urls <- MCUrls
    Allowed <- MCAllowed
    MinInterval = 2
    MaxAttempts = 3
    MaxCalls = 2
    Kinds <- AllKinds
SPECIFICATION ClientFairSpec
INVARIANTS ClientTypeOK NothingLeaks Polite
PROPERTIES RetriesOnlyTransport CallsEnd
CHECK_DEADLOCK FALSE
