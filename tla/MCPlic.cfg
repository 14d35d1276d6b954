CONSTANTS
    Contexts <- MCContexts
    Sources <- MCSources
    MaxPrio = 2
    WordBits = 32
    MaxRaises = 2
SPECIFICATION PlicSpec
INVARIANTS LineMirrorsBest AtMostOneClaimPerRaise
