\* Two devices that come and go, in a configuration that does.
CONSTANTS
    Devices = {meter, plc}
    NoFile = NoFile
    MaxChanges = 1
    MaxFaults = 1
SPECIFICATION FairSpec
PROPERTIES
    SnapshotOfItsRound
    ReportsSettle
