SPECIFICATION Spec
CONSTANTS
    Environments <- MCPausing
    MaxSignals = 1
    MaxPublished = 1
    MaxEnds = 0
PROPERTIES
    PausedBlocksEntries
