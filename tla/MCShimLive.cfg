CONSTANTS
    id1 = id1
    id2 = id2
    Keys = {id1}
    PipeCap = 1
    CancelVisible = FALSE
    Habits <- LiveHabits
SPECIFICATION FairSpec
INVARIANTS
    StatusMeansRecorded
PROPERTIES
    Terminates
    OutputDelivered
