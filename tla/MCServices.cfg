SPECIFICATION MCSpec
CONSTANTS
    Pods = {p1}
    Users = {u1, u2}
    Requests = {r1, r2}
    Ttl = 1
    CacheMax = 1
    Drop = 1
    MaxVersion = 1
    MaxTime = 2
    Nobody = Nobody
    Searches = {s1, s2}
    Regions = {us}
    Slugs = {q, ai}
    QuerySlug = q
    MaxExpiries = 1
    Keys = {k1, k2}
    Limits = {1, 2}
    MaxRows = 3
    MaxStarted = 3
    StartDates = {1, 28, 31}
    StartMonths = {1, 3}
    BillingDays <- MCBillingDays
    TodayMonths = {1, 2, 3, 4, 5, 6, 7, 8, 9, 10, 11, 12, 13, 14}
    Todays = {1, 15, 28, 31}
    Scans = {scan1, scan2}
    Grants = {g1, g2}
    Cap = 1
    None = None
SYMMETRY Symmetric
CHECK_DEADLOCK FALSE
INVARIANTS
    AnswersAreFresh
    ResearchPaysOff
    CreationsFit
    NextIsTheFirstAfterToday
    ScansWithinQuota
