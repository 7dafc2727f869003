SPECIFICATION FairSpec
CONSTANTS
    Repos <- MCRepos
    Name <- MCName
    ShortCodes <- MCShortCodes
    MaxVer = 2
    Concurrency = 1
    Jobs = {j1}
    MaxCrashes = 1
    MaxSwitches = 1
    MaxFaults = 1
INVARIANT InstalledIsBuilt
INVARIANT ResolvedIsPinned
PROPERTY InstalledAdvances
PROPERTY VersionDecided
PROPERTY StatsConverge
