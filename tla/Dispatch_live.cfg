SPECIFICATION DispatchFairSpec
CONSTANTS
    DispatchJobs = {"j1", "j2"}
    FollowUps = {"j2"}
    LongJobs = {"j1"}
    Slots = {"s1"}
    FirstSlot = "s1"
    MaxFaults = 1
PROPERTY JobsGetDone
CHECK_DEADLOCK FALSE
