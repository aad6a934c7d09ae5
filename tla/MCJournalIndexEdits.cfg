CONSTANTS
    AnnotationFiles = 1
    CallFiles = 2
    Scenarios <- MCEditsAndConflicts
    MaxRefreshes = 2
SPECIFICATION Spec
\* The bounds on writes and refreshes stop the model.
CHECK_DEADLOCK FALSE
INVARIANTS
    SameAsReconstruction
    KnownCallsLinked
PROPERTIES
    OneMoment
