CONSTANTS
    id1 = id1
    id2 = id2
    Keys = {id1, id2}
    PipeCap = 2
    CancelVisible = TRUE
    Habits <- OrderHabits
SPECIFICATION Spec
INVARIANTS
    CausalOrder
    CallsPaired
    EventsAccepted
