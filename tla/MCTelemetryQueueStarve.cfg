\* Unregistered pairs may fill whole batches: the uploads behind them starve.
CONSTANTS
    temp = temp
    flow = flow
    Pairs <- TwoPairs
    Stable <- OnePair
    BatchSize = 2
    KeepLatest = 1
    MaxReadings = 3
    MaxDamaged = 0
    MaxAborts = 0
    AttemptsCap = 0
SPECIFICATION FairSpec
CHECK_DEADLOCK FALSE
PROPERTY ReadingsUploaded
