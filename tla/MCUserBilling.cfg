SPECIFICATION FairSpec
CONSTANTS
    Null = Null
    Nobody = Nobody
    GraceDays = 1
    ann = ann
    bob = bob
    Users = {ann, bob}
    Procs = {p1, p2}
    Teams <- EachInTheOthers
    RcEvents <- TeamExpires
    RcViews <- TeamActive
    LsEvents <- None
    MaxTime = 1
    MaxHandlers = 4
CHECK_DEADLOCK FALSE
PROPERTIES
    WebhooksStrandNoWorkspace
    RowsImplementLifecycle
    HandlersFinish
    CascadeComplete
