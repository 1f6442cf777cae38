\* Locks, the tracking of abandoned closes, and the progress of both threads
\* while closes hang in the driver for good, on every kind of device.
CONSTANTS
    rtu1 = rtu1
    rtu2 = rtu2
    tcp = tcp
    odd = odd
    DeviceList <- FourDevices
    Serial <- TwoSerial
    Unsupported <- OddOne
    Clients = {k1, k2, k3}
    NoClient = NoClient
    NoDevice = NoDevice
SPECIFICATION FairSpec
INVARIANTS
    NoCrossTalk
    NoHandleForgotten
    NobodyStuck
PROPERTIES
    SilentOverlapOnlyWithCommand
    PollerNeverFrozen
    CommandsServed
