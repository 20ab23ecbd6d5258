CONSTANTS
    agent = agent
    other = other
    Callers = {agent, other}
    NumStages = 1
    MaxTotalAttempts = 1
    MaxStageAttempts = 1
    ArtifactStages = {1}
    TerminalTargets <- PlainTargets
    GivenOutcomes = {}
    Operations <- ParallelOperations
    MaxDeaths = 0
    MaxStops = 0
CHECK_DEADLOCK FALSE
SPECIFICATION Spec
INVARIANTS
    LaunchedAtMostOnce
