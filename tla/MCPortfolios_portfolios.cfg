SPECIFICATION Spec
CONSTANTS
    Clients = {c1, c2}
    Upgraders = {u1}
    Versions <- MCVersions
    Line <- MCLine
    Declares <- MCDeclares
    Defaults <- MCDefaults
    Presets <- MCPresets
    Values = {1, 2}
    Bodies <- MCBodies
    Retentions = {2, 3}
    MaxRuns = 3
    MaxRequests = 3
    MaxFaults = 1
SYMMETRY Perms
INVARIANTS
    RowCoherent
    UserParamsKept
    SnapshotOfRow
    PendingServed
    NoThirdRun
PROPERTY VersionAdvances
CHECK_DEADLOCK FALSE
