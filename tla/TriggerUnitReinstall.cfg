CONSTANTS
    MaxTriggers = 4
    MaxInstalls = 2
    MaxProcessingDepth = 1
    MaxSameLineGenerations = 1
    MaxSameLineCreationsPerLine = 2
    ExpiryCounts <- MCNoExpiry
SPECIFICATION Spec
INVARIANTS CleanupFreesOnce

