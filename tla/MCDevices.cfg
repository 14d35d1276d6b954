CONSTANTS
    Scenarios <- MCScenarios
    Capacity = 3
    Header = 2
    NetHeader = 1
    Event = 2
    IdLen = 2
    DescSize = 2
    MaxTable = 4
    LenMod = 64
    MaxRequest = 2
    Fb <- MCFb
SPECIFICATION Spec
CHECK_DEADLOCK FALSE
INVARIANTS ReadsSeeWrites StreamsInOrder
PROPERTIES DeviceKeepsToChains DiskKeepsWrites
