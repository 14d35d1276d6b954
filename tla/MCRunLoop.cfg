CONSTANTS
    NHarts = 1
    NPc = 2
    MicroChunk = 3
    MaxSteps = 5
    StepSizes = {1}
    HitLimits = {2}
    MaxToken = 3
    MaxHits = 2
SPECIFICATION FairSpec
INVARIANTS OneDriver
PROPERTIES ImplementsRunner StaleCallbacksDrain RunStopsAtBreakpoint
