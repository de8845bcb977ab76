CONSTANTS
    MaxTriggers = 3
    MaxInstalls = 1
    MaxProcessingDepth = 3
    MaxSameLineGenerations = 1
    MaxSameLineCreationsPerLine = 1
    ExpiryCounts <- MCExpiryCounts
SPECIFICATION Spec
INVARIANTS TypeOK NoDanglingPointers NothingPendingIsActive CleanupFreesOnce
PROPERTIES EveryRootOfferedOnce RunawayUnwinds

