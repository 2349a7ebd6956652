SPECIFICATION MCSpec
CONSTANTS
    None = None
    d1 = d1
    d2 = d2
    q1 = q1
    DraftIds = {d1, d2}
    Requests = {q1}
    Kinds = {"Unaddressed", "Native", "External", "Request", "Followup"}
    Controls = {"external", "pending", "editing", "setup"}
    MaxWriting = 2
    MaxRevision = 2
    MaxCommands = 5
CHECK_DEADLOCK FALSE
INVARIANTS JournalMatchesWorkspace SentOnce
PROPERTIES WritingKept SubmissionsResolve
