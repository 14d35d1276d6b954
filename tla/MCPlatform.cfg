CONSTANTS
    NHarts = 1
    Harts <- MCHarts
    Contexts <- MCContexts
    Sources <- MCSources
    MaxPrio = 1
    WordBits = 32
    MaxRaises = 1
    TimeMod = 3
    MsipValues <- MCMsipValues
SPECIFICATION Spec
PROPERTIES PlicStepResyncs ExpiredTimerReturns
