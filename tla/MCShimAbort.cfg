CONSTANTS
    id1 = id1
    id2 = id2
    Keys = {id1}
    PipeCap = 1
    CancelVisible = FALSE
    Habits <- AbortHabits
SPECIFICATION Spec
INVARIANTS
    AbortedWritesSuppressed
