\* Deaths, wedged children and nested stop signals at every step.
CONSTANTS
    NumComponents = 2
    MaxSignals = 2
    MaxSpawns = 2
SPECIFICATION FairSpec
CHECK_DEADLOCK FALSE
INVARIANTS
    OneProcessPerComponent
    OrphansOnlyFromInterruptedStart
PROPERTIES
    StopIsBounded
    WatchdogRestarts
    StopCompletes
