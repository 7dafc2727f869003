SPECIFICATION FairSpec
CONSTANTS
    Portfolios = {p1, p2}
    Clients = {c1}
    Workers = {w1}
    MaxRuns = 2
    QueueCap = 1
    Retentions = {1}
    DBOutcomes = {"ok"}
    NoPortfolio = NoPortfolio
PROPERTIES
    RunEnds
