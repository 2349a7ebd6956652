SPECIFICATION MCSpec
CONSTANTS
    r1 = r1
    r2 = r2
    e1 = e1
    q1 = q1
    q2 = q2
    x1 = x1
    x2 = x2
    y1 = y1
    y2 = y2
    h1 = h1
    h2 = h2
    h3 = h3
    NoOpposite = NoOpposite
    NoRequest = NoRequest
    Requests = {r1, r2}
    EventIds = {e1}
    QuoteIds = {q1, q2}
    Relationships = {x1, x2, y1, y2}
    Histories = {h1, h2, h3}
    HistoryOf <- MCHistoryOf
    Opposite <- MCOpposite
    ProcessingCharge <- UnitCharge
    Collateral <- UnitCollateral
    Backoff <- OneBackoff
    QuoteLifetime = 1
    SubmissionWindow = 1
    DecisionWindow = 1
    ExpiryCooldown = 3
    RejectionCooldown = 2
    LastQuoteTime = 2
    MaxTime = 3
    MaxVersion <- MCMaxVersion
SYMMETRY AliasSymmetry
INVARIANTS OneRequestAtATime LifecycleAgrees EscalationKept ReplyLaneStillOffered
PROPERTIES VersionsCoverChanges PaymentsSpec
CHECK_DEADLOCK FALSE
