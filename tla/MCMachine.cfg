CONSTANTS
    DefaultArgs = "tty"
    AddrMod = 16
    DramBase = 2
    DramSize = 10
    FwBase = 2
    PayloadAddr = 3
    InitrdAddr = 4
    FbAddr = 6
    FbSize = 1
    DynamicAddr = 8
    DtbAddr = 9
    HighArea = 2
    Boards = {2}
    ArgTexts = {""}
    Firmware <- MCFirmware
    Payloads <- MCPayloads
    Initrds <- MCInitrds
    Trees <- MCTrees
    Disks <- MCDisks
    PresetArgs <- MCPresetArgs
    LoadAddrs = {7, 9, 15}
    GuestUnits = {9}
    MaxCalls = 4
SPECIFICATION Spec
INVARIANTS TreeDescribesMachine InitrdIntact ManifestMatchesMachine
PROPERTY RestartsAreComplete
CHECK_DEADLOCK FALSE
