CONSTANTS
    Harts <- MCHarts
    TimeMod = 4
    MsipValues <- MCMsipValues
SPECIFICATION FairClintSpec
INVARIANTS NoTimerMissed EarlyOnlyAfterWrap
PROPERTY ArmedTimerFires
