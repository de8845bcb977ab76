CONSTANTS
    MaxTimers = 3
    MaxInstalls = 1
    MaxDepth = 2
    PermPayloads <- MCPermPayloads
    PackagePayloads <- MCPackagePayloads
SPECIFICATION Spec
INVARIANTS TypeOK FreedOnceAndLast PendingNeverArmed EnabledTimersRun
