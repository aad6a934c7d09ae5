CONSTANTS
    Manifests <- MCManifests
    Servers <- MCServers
    Answers <- MCAnswers
    ResponseTimeout = 1
    MaxRequests = 9
    MaxSent = 2
    PipeCap = 1
    MaxQueuedFrames = 1
    MaxNotifications = 1
    MaxAnswered = 1
    EmptyRoots = FALSE
    MaxUpdates = 1
    MaxAsks = 1
SPECIFICATION EitherSpec
\* The evaluation ends, and a dropped client has stopped; the properties say where.
CHECK_DEADLOCK FALSE
INVARIANTS
    VerdictMeansContract
    NoVerdictAfterExhaustion
    NoFalseMismatch
PROPERTIES
    EvaluationEnds
    UpdatesKept
    OperationsEnd
