SPECIFICATION FairSpec
CONSTANTS
    Requests = {r1}
    Captures = {r1}
    Workers = {w1}
    Idle = Idle
    EventIds <- EventPairs
    ProcessingCharge <- Charge
    Collateral <- Bond
    MaximumUnresolved = 1
    MaxFaults = 1
PROPERTIES
    ReversalsRecorded
CHECK_DEADLOCK FALSE
