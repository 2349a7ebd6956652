SPECIFICATION FairSpec
CONSTANTS
    None = None
    w1 = w1
    m1 = m1
    m2 = m2
    l1 = l1
    y1 = y1
    y2 = y2
    c1 = c1
    bankA = bankA
    bankB = bankB
    Workers = {w1}
    Lots = {l1}
    Members = {m1}
    Corrections = {}
    Years = {y1}
    Tokens = {bankA, bankB}
    FirstToken = bankA
    Amount <- MCAmount
    Policy <- MCPolicy
    BasisPoints <- MCBasisPoints
    Start <- MCStart
    Cutoff <- MCCutoff
    DueAt <- MCCutoff
    Operations <- MCOperations
    Items <- MCItems
    MaturityDelay = 0
    MinimumTenure = 0
    MinimumDays = 1
    Skew = 1
    MaxAttempts = 2
    MaxChanges = 1
    MaxRebinds = 1
    MaxTime = 1
    MaxFaults = 1
CHECK_DEADLOCK FALSE
PROPERTY DistributionsPaid
INVARIANTS PaidOnce StoredProgramLoads
