\* Directories named by ".." out of a name that doesn't exist yet.
CONSTANTS
    W4 = 2
    W6 = 4
    MappedPrefix = {2}
    MaxLinks = 2
    MaxHops = 2
    MaxFaults = 1
    Component <- MCComponent
    Env <- MCEnv
    MinBytes <- MCMinBytes
    Setups <- BackOutSetups
SPECIFICATION Spec
INVARIANT NeverOpensNested
