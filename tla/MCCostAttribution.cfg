SPECIFICATION Spec
CONSTANTS
    Token = {".loc", "add", "jmp"}
    CostModel <- MCCostModel
    MaxCost = 7
    MaxAsm = 7
    TotalCost <- MCTotalCost
    Programs <- MCPrograms
    Asserts = TRUE
    MachineOps = {"add", "jmp"}
    Nobody = Nobody
    Block <- MCBlock
    Inst <- MCInst
    MaxLine = 6
    BlockOf <- MCBlockOf
    NoInst = NoInst
    Modules = {}
    AsmFiles = {}
    AsmMaps = {}
INVARIANTS
    MappedToOwner
    NeverThrows
    BilledExact
    PrintedCostsAddUp
    TicksBeforeTerminators
CHECK_DEADLOCK FALSE
