SPECIFICATION Spec
CONSTANTS
    c1 = c1
    Cases <- OneCase
    MaxDays = 2
    DayLen = 3
    OpenHour = 1
    CloseHour = 3
    Cooldown <- MCCooldown
    FraudWindow = 6
    HighValue = 2
    Mode = "autonomous"
    Amount <- Amount3
    Due <- Due1
    Flags <- NoFlags
    Messaged = {}
    Promised <- NobodyPromised
    BaseRisk <- Risky
    DayWeight = 50
    ActionRiskMin = 420
    Events <- FailureAndParts
    LlmAnswers <- RulesOnly
    Provider = "sandbox"
    HintDelays = {5}
    BudgetAnswers <- BudgetFree
    Timeout = 2
    MaxTime = 9
    MaxCrashes = 1
    MaxBatch = 1
    MaxCalls = 2
INVARIANTS
    TypeOK
    BooksBalance
    SinglePendingAction
    ProviderCalledOnce
    CooldownKept
    UnattendedActionsCompliant
    HintCoversBalance
    NoDunningAfterPayment
PROPERTIES
    MoneyAppliedOnce
    MovesAllowed
    ImplementsLedger
    LargeAmountsNeedAHuman
