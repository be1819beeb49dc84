SPECIFICATION Spec
CONSTANTS
    W = 2
    Cap = 2
    Wrap = 4
    Stamps = 4
    MaxBuf = 3
INVARIANT NoSlotRace
PROPERTIES ImplementsChannels NobodyStarves
CHECK_DEADLOCK FALSE
