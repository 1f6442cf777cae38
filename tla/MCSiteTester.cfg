\* Two ports, a scan within a scan, and tags of every make.
CONSTANTS
    Missing = Missing
    Null = Null
    Scaled <- ScaledOnBench
    Unit <- Units
    NaN = NaN
    Infinity = Infinity
    Huge = Huge
    Ports = {com5, com6}
    NoPort = NoPort
    Slaves = {1, 2}
    Tags <- DeviceTags
    NoTag = NoTag
    PlainSlave = 1
    Meter <- MeterOnBench
    MaxScans = 2
SPECIFICATION Spec
INVARIANTS
    PortGivenBack
    SilenceIsReal
    ToolShowsStored
