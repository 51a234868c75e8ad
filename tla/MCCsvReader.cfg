SPECIFICATION Spec
CONSTANTS
    Delims <- MCDelims
    MaxSplit = 65536
    HeadSize = 24
    ByteBits = 2
    Files <- MCFiles
    OpcodeColumn <- MCOpcodeColumn
    CostColumn <- MCCostColumn
    PageSize = 9
    FirstBytes = 24
    ChunkBytes = 36
    BufferMax = 24
    FlushNum = 1
    FlushDen = 2
INVARIANTS
    CsvTypeOK
    BufferFits
    RowsUnshared
    ParsedAsOneFeed
    RowsStay
    LoadedAsOneFeed
PROPERTIES
    ImplementsCostTable
    ReaderTerminates
CHECK_DEADLOCK FALSE
