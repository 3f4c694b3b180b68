SPECIFICATION Spec
CONSTANTS
    Fold <- MCFold
    Rank <- MCRank
    Asked <- MCAsked
    Configs <- MCConfigs
    Profiles <- MCProfiles
    FixedEntries <- MCFixed
    EnvEntries <- MCEnv
    Cwd <- MCCwd
    Disks <- MCDisks
    MaxChanges = 1
INVARIANTS
    PathPolicyInvariant
    CandidateIsMeant
    MergeLosesNothing
    ClearWasOutside
    
CHECK_DEADLOCK FALSE
