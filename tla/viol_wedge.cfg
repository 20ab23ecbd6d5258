CONSTANTS
    agent = agent
    other = other
    Callers = {agent}
    NumStages = 1
    MaxTotalAttempts = 3
    MaxStageAttempts = 3
    ArtifactStages = {1}
    TerminalTargets <- FailingTargets
    GivenOutcomes = {}
    Operations <- SerialOperations
    MaxDeaths = 0
    MaxStops = 0
CHECK_DEADLOCK FALSE
SPECIFICATION FairSpec
PROPERTIES
    InterruptedRunIsReported
