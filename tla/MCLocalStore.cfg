\* Four threads on one file; every wait may time out.
CONSTANTS
    Nobody = Nobody
    MaxReadings = 3
    MaxDiskErrors = 1
    MaxCrashes = 1
SPECIFICATION FairSpec
INVARIANTS
    HistoryFollowsQueue
    LatestKeepsUp
    NobodyStuck
PROPERTIES
    LostOnlyToPrune
    PollLoopGoesOn
