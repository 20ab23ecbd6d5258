\* One research task, or one bounded request: two tool calls in a response,
\* and up to two failures, revisions, crashes or batches.
SPECIFICATION Spec
CONSTANTS
    c1 = c1
    c2 = c2
    w = w
    Calls = {c1, c2}
    Lookers = {c1, c2, w}
    MaxActions = 19
    MaxReviews = 10
    Patience = 1
    Limits = {0}
    Issues = {"wrong"}
    Changes = {"fix"}
    Routes <- TwoRoutes
    MaxMishaps = 2
INVARIANTS
    TypeOK
    StageStatusIsBacked
    ReportIsCoherent
    CoherenceInv
    BudgetHolds
    BudgetInv
PROPERTIES
    BlockIsLiftedForCause
    KeepsGate
SYMMETRY CallSymmetry
CHECK_DEADLOCK FALSE
