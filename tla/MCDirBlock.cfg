CONSTANTS
    UFS_NDADDR = 2
    DIRBLKSIZ = 6
    ChunksPerBlock = 2
    MaxChunks = 5
    MaxOps = 3
    Name <- MCName
    First <- MCFirst
    FirstStarts <- MCStarts
    Junk <- MCJunk
    Damages <- MCDamages
SPECIFICATION Spec
INVARIANTS
    LiveListingExact
    DeletedSlotsExact
    SlotsInsideBounds
    CutShortensOneName
PROPERTIES
    WalkReturns
