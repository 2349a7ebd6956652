SPECIFICATION FollowupsSpec
CONSTANTS
    None = None
    ann = ann
    bob = bob
    cat = cat
    a1 = a1
    b1 = b1
    b2 = b2
    b3 = b3
    c1 = c1
    k1 = k1
    k2 = k2
    k3 = k3
    Members = {ann, bob}
    AliasIds = {a1, b1}
    Enrolled = {a1, b1}
    Conversations = {k1}
    Managed = {}
    Begun <- NoneBegun
    OwnerOf <- MCOwnerOf
    PolicyOf <- MCPolicyOf
    Directions <- BothWays
    Established = {{}}
    Modes = {}
    Granted = {}
    Ages = {0, 1}
    Waits = {0}
    Lifetime = 1
    Validity = 3
    Limit = 1
    Interval = 1
    Commands <- FollowupCommands
    MaxCommands = 3
    MaxMessages = 3
    MaxTime = 0
INVARIANT AnswersReceivedWhileOpen
CHECK_DEADLOCK FALSE
