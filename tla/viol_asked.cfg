\* One call at a time and a single mishap.
SPECIFICATION Spec
CONSTANTS
    c1 = c1
    c2 = c2
    w = w
    Calls = {c1}
    Lookers = {c1}
    MaxActions = 19
    MaxReviews = 10
    Patience = 2
    Limits = {0, 1}
    Issues = {"wrong"}
    Changes = {}
    Routes <- FullRoute
    MaxMishaps = 1
INVARIANT AnsweredIsNotAskedAgain
CHECK_DEADLOCK FALSE
