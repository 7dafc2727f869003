SPECIFICATION Spec
CONSTANTS
    Tickers = {"VTI"}
    Cash = "$CASH"
    Prices = {19, 20, 21}
    Deposits = {40}
    Lots = {1}
    Ratios = {2}
    Payments = {1}
    MaxDays = 4
    MaxTx = 4
INVARIANTS
    LedgerReplayed
    HistoryAddsUp
    ImpactComplete
    DrawdownsExact
CHECK_DEADLOCK FALSE
