\* One caller at a time, two stages, two attempts each stage may take, and a
\* death anywhere inside a call.
SPECIFICATION Spec
CONSTANTS
    agent = agent
    other = other
    Callers = {agent}
    NumStages = 2
    MaxTotalAttempts = 3
    MaxStageAttempts = 3
    ArtifactStages = {1, 2}
    TerminalTargets <- PlainTargets
    GivenOutcomes = {}
    Operations <- SerialOperations
    MaxDeaths = 1
    MaxStops = 0
INVARIANTS
    TypeOK
    SerialInv
    BundleIsConsistent
    LaunchedAtMostOnce
    HistoryIsBacked
    StageCountsAddUp
PROPERTIES
    FinalizedIsFrozen
    KeepsContract
CHECK_DEADLOCK FALSE
