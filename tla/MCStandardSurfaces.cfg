CONSTANTS
    LogCurve <- MCLogCurve
    Surfaces <- MCSurfaces
    Latencies <- MCLatencies
    CommandsOn <- MCCommandsOn
    MaxSchemaDepth = 3
    MaxInputBytes = 50
    MaxInputNodes = 12
    MaxArrayItems = 2
    MaxStringBytes = 19
SPECIFICATION MCSpec
\* The battery ends.
CHECK_DEADLOCK FALSE
INVARIANTS
    DeclaredSurfacesJudged
