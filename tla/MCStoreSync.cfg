SPECIFICATION Spec
CONSTANTS
    Null = Null
    GraceDays = 1
    Pods = {p1, p2}
    AppPods = {}
    Products = {"pro"}
    OneGroup = TRUE
    Period = 1
    MaxTime = 3
    MaxEvents = 2
    MaxFaults = 2
CHECK_DEADLOCK FALSE
INVARIANTS
    ExclusiveProcessing
    AppliedOnce
PROPERTIES
    RowFollowsLifecycle
