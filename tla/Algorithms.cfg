SPECIFICATION AlgorithmsSpec
CONSTANTS
    MaxAddress = 11
    MaxSize = 7
    PageSize = 3
    Unmapped = Unmapped
    lowerAscii <- MClowerAscii
    moduleBaseName <- MCmoduleBaseName
    Occurs <- MCOccurs
    Scanned <- MCScanned
    Leftover <- MCLeftover
    Memories <- MCMemories
    Mappings <- MCMappings
    ModuleLists <- MCModuleLists
    Queries <- MCQueries
    MaxLen = 7
    Lists <- MCLists
    MaxPage = 3
    Batches <- MCBatches
    PointerMaps <- MCPointerMaps
    BaseAddresses <- MCBaseAddresses
    BaseOffsets = {0, 1}
    Offsets <- MCOffsets
    Requests <- MCRequests
    Heads <- MCHeads
    LuaCalls <- MCLuaCalls
    ToolCalls <- MCToolCalls
    Scalars <- MCScalars
    Bits <- MCBits
    Mantissa = 5
    Scopes <- MCScopes
    Pauses = {0, 700, 4000}
CHECK_DEADLOCK FALSE
INVARIANTS
    ReadsAreLongestPrefix
    ListsArriveWhole
    ResolutionIsOfOneModule
    BatchesMatchExactly
    ChainsNeverWrap
    
    BudgetsNest
