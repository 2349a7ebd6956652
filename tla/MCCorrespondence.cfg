SPECIFICATION MCSpec
CONSTANTS
    None = None
    ann = ann
    bob = bob
    cat = cat
    a1 = a1
    b1 = b1
    b2 = b2
    b3 = b3
    c1 = c1
    k1 = k1
    k2 = k2
    k3 = k3
    Members = {ann, bob, cat}
    AliasIds = {a1, b1, b2, b3, c1}
    Enrolled = {a1, b1, b2, c1}
    Conversations = {k1, k2, k3}
    Managed = {b1, b2, b3}
    Begun <- TwoBegun
    OwnerOf <- MCOwnerOf
    PolicyOf <- MCPolicyOf
    Directions <- AnnsContacts
    Established <- NeverMetOrMet
    Modes = {"Expiring", "Persistent"}
    Granted <- AnnToBob
    Ages = {0, 1}
    Waits = {0}
    Lifetime = 1
    Validity = 3
    Limit = 1
    Interval = 1
    Commands <- AllCommands
    MaxCommands = 3
    MaxMessages = 3
    MaxTime = 3
INVARIANTS StoredRecordsLoad AllowanceKept RestrictedContentStays
PROPERTIES MessagesStillInvited
CHECK_DEADLOCK FALSE
