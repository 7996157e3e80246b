\* Every variation of a sound setup, one fault, and restarts until it serves.
CONSTANTS
    W4 = 2
    W6 = 4
    MappedPrefix = {2}
    MaxLinks = 2
    MaxHops = 2
    MaxFaults = 1
    Component <- MCComponent
    Env <- MCEnv
    MinBytes <- MCMinBytes
    Setups <- MCSetups
SPECIFICATION Spec
INVARIANTS
    BootTypeOK
    SecretsAreReal
    RangesArePrefixes
    GuardIsExact
    ReopensWhatItOpened
    OpenedIsOutside
PROPERTIES
    GoodSetupsServe
