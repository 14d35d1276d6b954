CONSTANTS
    Setups <- MCStandard
    MaxData = 2
    Room = 2
    StandardLayout = TRUE
SPECIFICATION Spec
INVARIANT NoLostCompletion
