CONSTANTS
    Selection = "traps"
    NPc = 2
    InstretMod = 2
    Values = {0, 1}
    IntCauses = {}
    FaultCauses = {13}
    SbiShim = FALSE
    CsrWrites <- MCCsrWrites
    CsrReads <- MCCsrReads
SPECIFICATION Spec
INVARIANTS ContextsKept
PROPERTIES TrapsArePrecise ReturnsResume
