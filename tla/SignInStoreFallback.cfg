\* An idle profile with every bounded request made has nothing left to do.
CHECK_DEADLOCK FALSE
CONSTANTS
    MaxRequests = 2
    MaxReads = 1
    MaxCloses = 0
SPECIFICATION Spec
INVARIANTS ReachedIsStored
