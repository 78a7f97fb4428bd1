SPECIFICATION Spec
CONSTANTS
    Environments <- MCWritten
    MaxSignals = 1
    MaxPublished = 1
    MaxEnds = 0
PROPERTIES
    ChaosBlocksEntries
