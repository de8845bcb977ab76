\* An idle profile with every bounded request made has nothing left to do.
CHECK_DEADLOCK FALSE
CONSTANTS
    MaxRequests = 3
    MaxReads = 2
    MaxCloses = 1
CONSTRAINT FewCalls
VIEW WhatMatters
SPECIFICATION FairSpec
INVARIANTS TypeOK TokenHasItsMetadata EveryRequestAccounted
  ReachedInOnePlace ReadSeesWhatWasReached
PROPERTIES EveryAnswerComes
