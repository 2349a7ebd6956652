SPECIFICATION FairSpec
CONSTANTS
    Requests = {r1}
    Captures = {r1}
    Workers = {w1, w2}
    Idle = Idle
    EventIds <- EventPairs
    ProcessingCharge <- Charge
    Collateral <- Bond
    MaximumUnresolved = 1
    MaxFaults = 1
INVARIANTS
    RecordsMatchProcessor
    ObligationHasWork
    SourceAgrees
PROPERTIES
    PaymentsSpec
    ObligationsExecuted
CHECK_DEADLOCK FALSE
