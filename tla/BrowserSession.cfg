SPECIFICATION MCSpec
CHECK_DEADLOCK FALSE
SYMMETRY MCSymmetry
CONSTANTS
    None = None
    Accounts = {a1, a2}
    Requests = {r1, r2}
    MaxTransitions = 5
    Nobody = Nobody
    Users = {a1, a2}
    Pages = {p, q}
    Reporting = {p}
    Limit = 2
    MaxEntries = 3
    MaxTokens = 3
    MaxHandles = 2
    NoSession = NoSession
    Attempts = {r1, r2}
    Pipelines = {1, 2}
    Joiners = {j1}
    MaxReadings = 2
INVARIANTS
    NoFalseRefusal
    ReleasedOnce
    FollowsItsAccount
PROPERTIES
    ServesTheLatest
    ContextIsKept
    AttemptsTakeTurns
