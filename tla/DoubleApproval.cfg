SPECIFICATION WebSpec
CONSTANTS
    r1 = r1
    r2 = r2
    s1 = s1
    s2 = s2
    w1 = w1
    w2 = w2
    Requests = {r1}
    Clerks = {s1, s2}
    Agent = Agent
    NoOne = NoOne
    LlmMode = "rules"
    Answers = {"paid", "announced", "no money"}
    MaxTicks = 0
    MaxResets = 0
    MaxFailures = 0
    Threads = {w1, w2}
    RealClock = RealClock
    MaxBatches = 0
    Undecided = Undecided
INVARIANTS
    ApprovedExecutedOnce
CHECK_DEADLOCK FALSE
