SPECIFICATION BudgetSpec
CONSTANTS
    c1 = c1
    c2 = c2
    c3 = c3
    k1 = k1
    k2 = k2
    Cases <- MCCases
    CustomerOf <- MCCustomerOf
    Amount <- OneLarge
    CustomerCap = 1
    DailyBudget = 1
    MonthLen = 2
    DayLen = 3
    OpenHour = 1
    CloseHour = 3
    Cooldown <- MCCooldown
    FraudWindow = 28
    HighValue = 9
    Mode = "autonomous"
    MaxDays = 5
    Timeout = 3
    MaxTime = 11
INVARIANTS
    BudgetTypeOK
    UnattendedWithinBudgets
