\* An idle profile with every bounded request made has nothing left to do.
CHECK_DEADLOCK FALSE
CONSTANTS
    MaxRequests = 3
    MaxReads = 0
    MaxCloses = 0
SPECIFICATION Spec
INVARIANTS FailureLeavesNoForeignToken
