\* A coil is written through a register tag.
CONSTANTS
    Registers = {setpoint}
    Inputs = {measured}
    Coils = {}
    Kinds = {"write_register", "write_coil", "unsupported"}
    MaxVersions = 2
    MaxCommands = 1
    MaxCacheFails = 1
    MaxLostAcks = 1
    MaxCrashes = 1
SPECIFICATION Spec
CHECK_DEADLOCK FALSE
INVARIANTS
    TypeMatchesTag
