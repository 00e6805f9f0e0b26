SPECIFICATION Spec
CONSTANTS
    Null = Null
    Nobody = Nobody
    GraceDays = 1
    ann = ann
    bob = bob
    Users = {ann, bob}
    Procs = {p1}
    Teams <- AnnsTeam
    RcEvents <- RcSubscription
    RcViews <- TeamActive
    LsEvents <- LsSubscription
    MaxTime = 2
    MaxHandlers = 4
CHECK_DEADLOCK FALSE
PROPERTIES
    PayingMemberKept
