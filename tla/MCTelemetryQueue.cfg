\* Safety and progress, with faults at every step: one pair is always
\* registered with the cloud, the other may come and go.
CONSTANTS
    temp = temp
    flow = flow
    Pairs <- TwoPairs
    Stable <- OnePair
    BatchSize = 2
    KeepLatest = 1
    MaxReadings = 3
    MaxDamaged = 1
    MaxAborts = 1
    AttemptsCap = 1
SPECIFICATION FairSpec
CHECK_DEADLOCK FALSE
INVARIANTS
    NoReadingLost
    FirstDeliveryInOrder
    ResendOnlyAfterFault
    NewestSentRetained
    OvertakenRowsShowAttempts
PROPERTIES
    BlockedCostOnePlace
    ImplementsContract
    UploadedWithRoomInBatch
