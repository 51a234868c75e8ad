SPECIFICATION MCSpec
CONSTANTS
    Token = {".loc", "add", "mul", "nop", ".label"}
    CostModel <- MCCostModel
    MaxCost = 3
    MaxGenerated = 2
    MaxAsm = 5
    TotalCost <- MCTotalCost
    Inst = {"i1", "i2", "i3"}
    NoInst = "null"
    MaxLine = 2
    Block = {"b1", "b2"}
    BlockOf <- MCBlockOf
    AsmFiles <- MCAsmFiles
    Modules <- MCModules
    AsmMaps <- MCAsmMaps
INVARIANTS
    MapTypeOK
    ScanAttribution
    MappingExact
    ChargedOnce
    CalcTypeOK
    BlockCostExact
    InstCostExact
    BlockCostComplete
    MetadataExact
CHECK_DEADLOCK FALSE
