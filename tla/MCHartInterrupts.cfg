CONSTANTS
    Selection = "interrupts"
    NPc = 2
    InstretMod = 1
    Values = {0}
    IntCauses = {7, 9}
    FaultCauses = {}
    SbiShim = TRUE
    CsrWrites <- MCCsrWrites
    CsrReads <- MCCsrReads
SPECIFICATION FairSpec
PROPERTIES InterruptsRespectMasks MachineStateProtected SleeperWakes
