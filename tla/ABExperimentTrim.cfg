SPECIFICATION Spec
CONSTANTS
    Backend <- MCBackend
    SeedLists <- MCOneRound
    Reps = 1
    Jobs = 1
    Flaws = {"none"}
    MaxSessions <- MCMaxSessions
    BuildCuts = 1
    TrimCuts = 1
    None = None
INVARIANTS
    LosesAtMostTheRow
CHECK_DEADLOCK FALSE
