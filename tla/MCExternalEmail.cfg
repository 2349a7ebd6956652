SPECIFICATION MCSpec
CONSTANTS
    None = None
    k1 = k1
    k2 = k2
    m1 = m1
    m2 = m2
    i1 = i1
    i2 = i2
    Conversations = {k1, k2}
    Outgoing = {m1, m2}
    InConversation <- MCInConversation
    Mails = {i1, i2}
    Thread <- MCThread
    ToAddress = {i2}
    Events = {e1}
    e1 = e1
    w1 = w1
    w2 = w2
    s1 = s1
    s2 = s2
    Workers = {w1, w2}
    Sessions = {s1, s2}
    Limit = 1
    PageSize = 1
    MaxCommands = 3
    MaxFaults = 1
CHECK_DEADLOCK FALSE
INVARIANTS HandoffsMatchCarrier RepliesAdmittedOnce ObservationsCurrent
PROPERTY HandoffsSeen
