\* With no connections left to make there may be nothing left to do.
CHECK_DEADLOCK FALSE
CONSTANTS
    GameOffers <- MCOffers
    SavedBefore <- MCSavedBefore
    MaxConnections = 2
    MaxOffers = 2
    MaxTokens = 2
    MaxFailures = 1
VIEW WhatMatters
SPECIFICATION FairSpec
INVARIANTS TypeOK NothingStrays ForgottenStaysForgotten FinishedFlowHoldsNothing
PROPERTIES OffersAreAnswered
