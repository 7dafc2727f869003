SPECIFICATION FairSpec
CONSTANTS
    Portfolios = {p1, p2}
    TradingDays = {1, 2}
    LastDay = 2
    Workers = 1
    QueueCap = 1
    BatchSize = 2
    Retention = 2
    MaxManual = 1
    MaxFaults = 1
    HardErrors = TRUE
INVARIANTS
    TypeOK
    DailyRunServed
PROPERTIES
    OncePerDay
    PassEnds
CHECK_DEADLOCK FALSE
