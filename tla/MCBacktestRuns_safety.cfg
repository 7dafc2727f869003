SPECIFICATION Spec
CONSTANTS
    Portfolios = {p1}
    Clients = {c1, c2}
    Workers = {w1, w2}
    MaxRuns = 3
    QueueCap = 1
    Retentions = {1}
    DBOutcomes = {"ok", "error", "lost_ack"}
    NoPortfolio = NoPortfolio
SYMMETRY Symmetry
INVARIANTS
    TypeOK
    OneInflight
    RunningIsBacked
    ExclusiveExecution
    SnapshotOnDisk
    ReadyOrSuperseded
PROPERTIES
    PruneKeepsInflight
    EndedStaysEnded
    RunServiceKept
