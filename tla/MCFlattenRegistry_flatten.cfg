SPECIFICATION Spec
CHECK_DEADLOCK FALSE
CONSTANTS
    Paths <- MCPaths
    Names <- MCNames
    ColumnNameFor <- MCColumnNameFor
    Suffixed <- MCSuffixed
    Reserved <- MCReserved
    Unmapped <- MCUnmapped
    BodyColumn <- MCBodyColumn
    MaxColumns = 3
    CellLimit = 3
    Messages <- MCMessages
    BatchSize = 2
    MaxReceived = 3
    MaxRuns = 3
INVARIANTS OneFieldPerName ColumnKeepsItsPath ImportFits UnmappedBecomesColumn
