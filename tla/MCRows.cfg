SPECIFICATION Spec
CONSTANTS
    Columns <- MCColumns
    Texts = {"x", "NULL"}
    Opaque = {"x"}
    Undecodable = {"b"}
    PrimaryKeys <- MCKeys
    OtherCells <- MCOtherCells
    MaxCtid = 3
    MaxOthers = 1
    Score <- MCScore
    BatchSize = 1
    TopK = 2
    Threshold = 1
    DirectMl = TRUE
    Statements <- MCStatements
    Prompts = {"p"}
    TitleColumns = {"none", "a"}
    Tables <- MCTables
    MaxRequests = 3
CHECK_DEADLOCK FALSE
PROPERTIES
    MutationHitsShownRow
    RankingIsExact
