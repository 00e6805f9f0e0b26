SPECIFICATION FairSpec
CONSTANTS
    Events = {e1, e2, e3}
    Pods = {pod1, pod2}
    BatchSize = 2
    MaxAttempts = 2
    MaxBackoff = 1
    MaxLate = 1
    Faults = {"crash", "db"}
INVARIANTS
    ExclusiveHandling
    OutcomesHold
PROPERTIES
    FailedIsFinal
    SettledUnlessStranded
