SPECIFICATION MCSpec
CONSTANTS
    CronPods = {pod1, pod2}
    Days = 2
    Tokens = {t1, t2}
    None = None
    Never = Never
    Scenes <- MCScenes
    Requests = {r1, r2}
    CronRuns = {run1, run2}
    Callers = {c1, c2}
    Nobody = Nobody
INVARIANTS
    NoticesSpaced
    TrialAnnouncedOnce
PROPERTIES
    OnlyRefusedCleared
    NudgedWhenQuiet
    RatesRecover
