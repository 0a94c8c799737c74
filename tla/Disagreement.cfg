SPECIFICATION Spec
CONSTANTS
    MaxDays = 1
    DayLen = 4
    OpenHour = 1
    CloseHour = 3
    Cooldown <- MCCooldown
    FraudWindow = 3
    HighValue = 9
    Mode = "autonomous"
    Opinions <- AllOpinions
    SnapshotLimit = 2
    Letters <- AllLetters
    Codes = {"FUNDS", "UNLISTED"}
    Due = 1
    Amount = 2
    MaxFails = 2
    MaxActions = 1
    MaxTime = 6
INVARIANTS
    DisagreementNeverActs
CHECK_DEADLOCK FALSE
