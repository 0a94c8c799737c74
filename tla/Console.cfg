SPECIFICATION WebSpec
CONSTANTS
    r1 = r1
    r2 = r2
    s1 = s1
    s2 = s2
    w1 = w1
    w2 = w2
    Requests = {r1}
    Clerks = {s1, s2}
    Agent = Agent
    NoOne = NoOne
    LlmMode = "rules"
    Answers <- AllAnswers
    MaxTicks = 1
    MaxResets = 1
    MaxFailures = 1
    Threads = {w1, w2}
    RealClock = RealClock
    MaxBatches = 0
    Undecided = Undecided
INVARIANTS
    ChainValidUnlessTampered
    TamperPointNamed
    LogTellsTheStatus
    ConflictsNeedOverlap
CHECK_DEADLOCK FALSE
