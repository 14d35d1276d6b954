CONSTANTS
    NPmp = 2
    GroupSize = 2
    PmpBits = 5
    Fan = 2
    VaMod = 32
    Ppns <- MCPpns
    RingSize = 2
    HitSize = 2
    AddrMod = 32
    DramBase = 4
    DramSize = 12
    Regions <- MCRegions
    WordMod = 1024
    WordBits = 10
    MaxSeq = 3
    Setups <- MCSetups
SPECIFICATION Spec
INVARIANTS RingsShowNewest PmpCacheSound AccessesFollowTables FaultsChangeNoData WrittenPagesAreDirty AddsNotLost
PROPERTY LockedRegionsHold
