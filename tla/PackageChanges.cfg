\* A profile in which nobody installs anything more has nothing left to do.
CHECK_DEADLOCK FALSE
CONSTANTS
    Packages <- MCPackages
    MaxInstalls = 2
    MaxSaves = 2
    MaxGiveUps = 1
    MaxDepth = 3
SPECIFICATION Spec
INVARIANTS TypeOK
PROPERTIES NothingRemovedUnderASave AnnouncedIsInstalled ChangesSettle
