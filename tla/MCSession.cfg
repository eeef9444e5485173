SPECIFICATION FairSpec
CONSTANTS
    Ops = {"enumerateEnrollments", "removeEnrollments",
           "authenticate", "detectInteraction", "resetLockout"}
    MaxTasks = 3
    QueueSize = 2
    MaxMessages = 1
    MayCancel = TRUE
    MayClose = TRUE
INVARIANTS
    NothingLeft
PROPERTIES
    OwnAnswers
    WaitEnds
CHECK_DEADLOCK FALSE
