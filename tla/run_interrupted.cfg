SPECIFICATION FairSpec
CONSTANTS
    agent = agent
    other = other
    Callers = {agent}
    NumStages = 2
    MaxTotalAttempts = 3
    MaxStageAttempts = 2
    ArtifactStages = {1}
    TerminalTargets <- PlainTargets
    GivenOutcomes = {}
    Operations <- SerialOperations
    MaxDeaths = 0
    MaxStops = 0
PROPERTIES
    MeetsContract
CHECK_DEADLOCK FALSE
