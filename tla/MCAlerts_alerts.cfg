SPECIFICATION Spec
CONSTANTS
    Ids = {"a"}
    Recipients = {"r", "s"}
    Bodies <- MCBodies
    Notifiers = {n1, n2}
    LastDay = 2
    TradingDays <- MCTradingDays
    WeekEnds <- MCWeekEnds
    MonthEnds <- MCWeekEnds
    FireDays <- MCFireDays
    MaxRuns = 2
    MaxEdits = 1
    MaxFaults = 1
INVARIANT TypeOK
INVARIANT MailedOncePerDay
INVARIANT UnsubscribedStaysOut
CHECK_DEADLOCK FALSE
SYMMETRY Perms
