SPECIFICATION MCSpec
CONSTANTS
    Null = Null
    Users = {a, b, c}
    Requests = {p, q}
    Codes = {k1, k2}
    MaxMembers = 2
    MaxCodes = 2
    MaxRows = 4
    MaxStarted = 5
    MaxFaults = 1
    SlowJoins = FALSE
    Ops = {"create", "invite", "remove", "code", "join", "leave", "delete", "rename", "role", "transfer"}
    Bills = {s1, s2}
    Payers = {u1}
    Periods = {"QUARTERLY", "LIFETIME"}
    Currencies = {"USD", "EUR"}
    Categories = {c1, c2}
    Amounts = {1000}
    Starts = {1, 4}
    Days = 2
    MaxDay = 5
    AccountIds = {i1, i2, i3}
    Addresses = {e1}
    Apples = {apple}
    SignIns = {l1, l2}
    MaxFails = 1
    Overlap = FALSE
    Asks = {r1, r2}
    MaxConcurrency = 1
    Estimates = {2}
    Budget = 3
    Minute = 2
    MaxAttempts = 2
    Reports = {pdf1}
    Callers = {n1, n2}
    Workers = {w1, w2}
    MaxStalls = 1
    Told <- MCTold
CHECK_DEADLOCK FALSE
INVARIANTS
    NoOverfill
    CodesAreSingleUse
    TotalsAddUp
    SlotsAreAccounted
    ReadyHasPdf
PROPERTIES
    
    AppleUserKeepsAccount
