SPECIFICATION Spec
CONSTANTS
    Null = Null
    GraceDays = 2
    MaxTime = 3
    BannerDays = 1
    PeriodEnds = {1, 2}
    Events <- MCEvents
INVARIANTS
    TypeOK
    RejectionsAreKnown
    MarkersAgree
    RedeliveryIsIdempotent
    AnswersFit
PROPERTIES
    PaidPlanEndsOnPurpose
    AccessEndsOnPurpose
