\* The agent works while another process may prepare and stop the same run.
SPECIFICATION Spec
CONSTANTS
    agent = agent
    other = other
    Callers = {agent, other}
    NumStages = 1
    MaxTotalAttempts = 2
    MaxStageAttempts = 2
    ArtifactStages = {}
    TerminalTargets <- OneTarget
    GivenOutcomes = {}
    Operations <- RacingOperations
    MaxDeaths = 0
    MaxStops = 1
INVARIANTS
    BudgetsHold
    NamedAttemptIsComplete
    OneWriterPerAttempt
    RecordRestsOnFacts
    IInv
CHECK_DEADLOCK FALSE
