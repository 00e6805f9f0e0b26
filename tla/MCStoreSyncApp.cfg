SPECIFICATION FairSpec
CONSTANTS
    Null = Null
    GraceDays = 1
    Pods = {p1}
    AppPods = {p1}
    Products = {"pro", "organization"}
    OneGroup = TRUE
    Period = 1
    MaxTime = 1
    MaxEvents = 3
    MaxFaults = 0
CHECK_DEADLOCK FALSE
PROPERTIES
    EventuallyAgrees
