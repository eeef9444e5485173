SPECIFICATION LockoutFairSpec
CONSTANTS
    TimedThreshold = 2
    PermanentThreshold = 5
    Duration = 2
    MaxFailures = 6
    MayBe = {"resets", "closes", "insists", "hurries", "dirtyHeap"}
INVARIANTS
    OneTimer
    ToldIsMode
    AttemptLeft
PROPERTIES
    LockoutLasts
    TimedEnds
CHECK_DEADLOCK FALSE
