SPECIFICATION FairSpec
CONSTANTS
    r1 = r1  r2 = r2  r3 = r3  w1 = w1  w2 = w2  o1 = o1  o2 = o2
    kq = kq  kc = kc  ks = ks  kd = kd  ke = ke
    Requests = {r1}
    Owners = {o1, o2}
    OwnersOf <- OwnOwners
    ClientCommands <- OneDecision
    Workers = {w1, w2}
    None = None
    SubmissionWindow = 1
    DecisionWindow = 1
    Skew = 1
    MaxTime = 4
    LastSend = 2
    MaxFaults = 1
INVARIANTS DecisionsNotOvertaken ScheduledNeverRefused OwnersInOrder
PROPERTY RequestsEnd
CHECK_DEADLOCK FALSE
