SPECIFICATION Spec
CONSTANTS
    Portfolios = {p1}
    Clients = {c1}
    Workers = {w1, w2}
    MaxRuns = 2
    QueueCap = 1
    Retentions = {1}
    DBOutcomes = {"ok"}
    NoPortfolio = NoPortfolio
SYMMETRY Symmetry
INVARIANTS
    ActiveSnapshotKept
