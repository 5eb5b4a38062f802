SPECIFICATION FairSpec
CONSTANTS
    Backend <- MCBackend
    SeedLists <- MCSeedLists
    Reps = 1
    Jobs = 2
    Flaws = {"none", "filler", "broken"}
    MaxSessions <- MCMaxSessions
    BuildCuts = 1
    TrimCuts = 1
    None = None
INVARIANTS
    TimedAsBuilt
    RejectedNeverTimed
    RoundsWhole
    PositionsBalanced
    NoSampleLost
    InterruptNotFailure
PROPERTIES
    ImplementsExperiment
    ExperimentEnds
CHECK_DEADLOCK FALSE
