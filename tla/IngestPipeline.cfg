\* A pipeline that was destroyed does nothing more.
CHECK_DEADLOCK FALSE
CONSTANTS
    Units <- MCUnits
    Configs <- MCConfigs
    MaxLines = 2
    MinimumLines = 1
    MinimumResume = 1
    MaxUnits = 2
    MaxChanges = 1
SPECIFICATION FairSpec
INVARIANTS TypeOK MainOwnsJob CancelIsForItsJob
PROPERTIES ImplementsSerial ResumeDiscardsNothing CallsReturn
