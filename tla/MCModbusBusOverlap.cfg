\* What the docstring of close_client_with_timeout says of the race.
CONSTANTS
    rtu1 = rtu1
    rtu2 = rtu2
    tcp = tcp
    odd = odd
    DeviceList <- FourDevices
    Serial <- TwoSerial
    Unsupported <- OddOne
    Clients = {k1, k2}
    NoClient = NoClient
    NoDevice = NoDevice
SPECIFICATION Spec
PROPERTY OverlapVisible
