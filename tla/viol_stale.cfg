\* One stage with repairs left, and a death inside finalize.
SPECIFICATION Spec
CONSTANTS
    agent = agent
    other = other
    Callers = {agent}
    NumStages = 1
    MaxTotalAttempts = 3
    MaxStageAttempts = 3
    ArtifactStages = {1}
    TerminalTargets <- PlainTargets
    GivenOutcomes = {}
    Operations <- SerialOperations
    MaxDeaths = 1
    MaxStops = 0
INVARIANTS
    FinalizedRecordIsCurrent
CHECK_DEADLOCK FALSE
