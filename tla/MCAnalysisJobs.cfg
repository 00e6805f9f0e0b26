SPECIFICATION FairSpec
CONSTANTS
    Null = Null
    Callers = {c1}
    profile = profile
    override = override
    Inputs = {profile, override}
    Asked <- AppAndCron
    Stages <- LastStage
    MaxJobs = 2
    MaxPerWeek = 1
    Cooldown = 1
    ResultTtl = 0
    WeekLength = 1
    MaxTime = 1
    MaxAttempts = 2
    MaxStalls = 1
    Faults = {"db", "openai", "crash"}
    MaxFaults = 1
    Faulty = {1}
CHECK_DEADLOCK FALSE
INVARIANTS
    NeverOvercharged
    CompletedHasResult
PROPERTIES
    JobsSettle
