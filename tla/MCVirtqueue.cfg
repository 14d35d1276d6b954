CONSTANTS
    Setups <- MCSetups
    MaxData = 2
    Room = 2
    StandardLayout = FALSE
SPECIFICATION FairSpec
INVARIANTS EveryRequestOnce NoLostCompletion
PROPERTIES ImplementsRequestQueue RequestsFinish
