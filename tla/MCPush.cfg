CONSTANTS
    N = 4
    MaxBatch = 2
    Slots = 3
    MaxFaults = 2
    ConflictAttempts = 2
    Denied <- MCDenied
    Reads <- MCReads
    Throws = {}
    Backends <- MCBackends
SPECIFICATION FairSpec
CHECK_DEADLOCK FALSE
INVARIANTS NeverAhead EffectsInOrder ResolvedIsDurable
PROPERTY Drains
