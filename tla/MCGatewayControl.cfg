\* One tag, an input register: write_register is refused for it, write_coil, of
\* which nothing checks the tag, goes through, and an entry that is no object has
\* its batch given up. An unsupported type goes the way of a tag that is not
\* writable. Crashes, and failures of the cache file and of acknowledgements, at
\* any step.
CONSTANTS
    Registers = {}
    Inputs = {measured}
    Coils = {}
    Kinds = {"write_register", "write_coil", "malformed"}
    MaxVersions = 2
    MaxCommands = 2
    MaxCacheFails = 1
    MaxLostAcks = 1
    MaxCrashes = 1
SPECIFICATION FairSpec
CHECK_DEADLOCK FALSE
INVARIANTS
    RewrittenOnlyUnacknowledged
    SuccessMeansWritten
    WithdrawnTagNotWritten
    FallsBackOnlyUncached
    RulesLagOnlyUncached
PROPERTIES
    ImplementsLedger
    CommandsAnswered
    ConfigurationSettles
