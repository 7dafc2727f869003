SPECIFICATION FairSpec
CONSTANTS
    Repos <- MCRepos
    Name <- MCName
    ShortCodes <- MCShortCodes
    MaxVer = 1
    Concurrency = 2
    Jobs = {}
    MaxCrashes = 1
    MaxSwitches = 1
    MaxFaults = 0
PROPERTY RebuiltAfterSwitch
