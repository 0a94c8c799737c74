SPECIFICATION Spec
CONSTANTS
    c1 = c1
    Cases <- OneCase
    MaxDays = 2
    DayLen = 4
    OpenHour = 1
    CloseHour = 3
    Cooldown <- MCCooldown
    FraudWindow = 6
    HighValue = 9
    Mode = "supervised"
    Amount <- Amount2
    Due <- Due1
    Flags <- NoFlags
    Messaged = {}
    Promised <- NobodyPromised
    BaseRisk <- Risky
    DayWeight = 50
    ActionRiskMin = 420
    Events <- NoEvents
    LlmAnswers <- RulesOnly
    Provider = "sandbox"
    HintDelays = {2}
    BudgetAnswers <- BudgetFree
    Timeout = 2
    MaxTime = 10
    MaxCrashes = 0
    MaxBatch = 1
    MaxCalls = 2
INVARIANTS
    HandlersNeverRaise
