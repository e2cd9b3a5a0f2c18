CONSTANTS
    Ipg = 4
    Ncg = 2
    RootIno = 2
    Block <- MCBlock
    FileName <- MCFileName
    MaxGen = 3
    Allocated <- MCAllocated
    None = None
SPECIFICATION Spec
INVARIANT DocNeverFabricates
