SPECIFICATION FairSpec
CONSTANTS
    None = None
    w1 = w1
    w2 = w2
    bankA = bankA
    bankB = bankB
    Workers = {w1, w2}
    Tokens = {bankA, bankB}
    FirstToken = bankA
    Offers <- MCOffers
    Operations <- MCOperations
    Items <- MCOperations
    Captures <- MCOperations
    MaximumUnresolved = 2
    MaxAttempts = 2
    MaxVersion = 2
    MaxTime = 1
    MaxFaults = 1
CHECK_DEADLOCK FALSE
INVARIANTS StoredAccountLoads PeriodsPaidOnce SourceMatchesCollection
PROPERTY CollectionsConclude
