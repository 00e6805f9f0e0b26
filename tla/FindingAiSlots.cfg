SPECIFICATION Spec
CONSTANTS
 Requests={r1,r2,r3}
 MaxConcurrency=2
 Estimates={2}
 Budget=3
 Minute=2
 MaxAttempts=2
INVARIANTS WaitsOnlyWhenBusy
CHECK_DEADLOCK FALSE
