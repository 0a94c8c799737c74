SPECIFICATION Spec
CONSTANTS
    c1 = c1
    Cases <- OneCase
    MaxDays = 2
    DayLen = 2
    OpenHour = 0
    CloseHour = 1
    Cooldown <- MCCooldown
    FraudWindow = 2
    HighValue = 9
    Mode = "autonomous"
    Amount <- Amount2
    Due <- Due1
    Flags <- NoFlags
    Messaged = {}
    Promised <- NobodyPromised
    BaseRisk <- Unremarkable
    DayWeight = 50
    ActionRiskMin = 420
    Events <- FraudSignals
    LlmAnswers <- RulesOnly
    Provider = "razorpay"
    HintDelays = {2}
    BudgetAnswers <- BudgetFree
    Timeout = 2
    MaxTime = 3
    MaxCrashes = 0
    MaxBatch = 3
    MaxCalls = 1
INVARIANTS
    WatchedCasesUntouched
PROPERTIES
    FraudNeverActedOn
