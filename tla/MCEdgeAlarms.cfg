\* Three rule lists, of which two come into force after each other, and a
\* restart with any of them.
CONSTANTS
    level = level
    status = status
    None = None
    Tags = {level, status}
    Values = {0, 1}
    Rulebooks <- MCRulebooks
    MaxClock = 2
    MaxReadings = 3
    MaxRulebooks = 2
    MaxLostPushes = 1
    MaxCrashes = 1
SPECIFICATION FairSpec
CHECK_DEADLOCK FALSE
INVARIANTS
    CloudAgrees
PROPERTIES
    LossMeansSilence
    AlarmsSettle
