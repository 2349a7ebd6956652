CONSTANTS
    r1 = r1
    r2 = r2
    e1 = e1
    e2 = e2
    e3 = e3
    Requests <- MCRequests
    EventIds <- MCEventIds
    ProcessingCharge <- MCProcessingCharge
    Collateral <- MCCollateral
SPECIFICATION Spec
SYMMETRY EventSymmetry
INVARIANTS
    StoredRecordLoads
    OutcomeSetsRefund
    BooksMatchStatus
    ReversedForfeitHeld
PROPERTIES SettlementIsFinal
