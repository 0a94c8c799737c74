SPECIFICATION HarnessSpec
CONSTANTS
    c1 = c1
    c2 = c2
    c3 = c3
    Cases <- Corpus
    MaxDays = 4
    DayLen = 4
    OpenHour = 1
    CloseHour = 3
    Cooldown <- MCCooldown
    FraudWindow = 6
    HighValue = 9
    Mode = "autonomous"
    Amount <- MCAmount
    Due <- MCDue
    Flags <- MCFlags
    Messaged <- Correspondents
    Promised <- MCPromised
    BaseRisk <- MCBaseRisk
    DayWeight = 50
    ActionRiskMin = 420
    Events <- MCEvents
    LlmAnswers <- Readings
    Provider = "sandbox"
    HintDelays = {1, 2, 5, 30}
    BudgetAnswers <- BudgetFree
    Timeout = 2
    MaxTime = 0
    MaxCrashes = 0
    MaxBatch = 2
    MaxCalls = 2
    Start <- MCStart
    Horizon = 24
    Offset <- MCOffset
    SeededFails <- MCSeededFails
    SeededPaid <- MCSeededPaid
    Nobody = Nobody
PROPERTIES
    PromiseRespected
    PunctualDriver
    SimulationEnds
    EventuallyClosed
    AnnouncedMoneyArrives
CHECK_DEADLOCK FALSE
