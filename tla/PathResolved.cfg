SPECIFICATION Spec
CONSTANTS
    Fold <- MCFold
    Rank <- MCRank
    Asked <- MCAsked
    Configs <- MCConfigs
    Profiles <- MCProfiles
    FixedEntries <- MCFixed
    EnvEntries <- MCEnv
    Cwd <- MCCwd
    Disks <- MCDisks
    MaxChanges = 0
INVARIANTS
    ClearIsOutsideResolved
CHECK_DEADLOCK FALSE
