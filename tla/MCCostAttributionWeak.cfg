SPECIFICATION Spec
CONSTANTS
    Token = {".loc", "add", "jmp"}
    CostModel <- MCCostModel
    MaxCost = 7
    MaxAsm = 6
    TotalCost <- MCTotalCost
    Programs <- MCWeakPrograms
    Asserts = TRUE
    MachineOps = {"add", "jmp"}
    Nobody = Nobody
    Block <- MCBlock
    Inst <- MCInst
    MaxLine = 6
    BlockOf <- MCBlockOf
    NoInst = NoInst
    Modules = {}
    AsmFiles = {}
    AsmMaps = {}
INVARIANT
    MappedToOwner
CHECK_DEADLOCK FALSE
