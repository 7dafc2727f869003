SPECIFICATION GCFairSpec
CONSTANTS
    Portfolios = {p1}
    Clients = {c1}
    Workers = {w1}
    MaxRuns = 2
    QueueCap = 1
    Retentions = {1, 2}
    DBOutcomes = {"ok"}
    NoPortfolio = NoPortfolio
    RemoveFails = FALSE
PROPERTIES
    OrphansCollected
