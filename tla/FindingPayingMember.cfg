SPECIFICATION Spec
CONSTANTS
    Null = Null
    Nobody = Nobody
    GraceDays = 1
    ann = ann
    bob = bob
    Users = {ann, bob}
    Procs = {p1, p2}
    Teams <- AnnsTeam
    RcEvents <- TeamExpires
    RcViews <- None
    LsEvents <- None
    MaxTime = 1
    MaxHandlers = 3
CHECK_DEADLOCK FALSE
PROPERTIES
    PayingMemberKept
