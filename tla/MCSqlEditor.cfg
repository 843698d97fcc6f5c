SPECIFICATION Spec
CONSTANTS
    Letters <- MCLetters
    Wide <- MCWide
    Marks <- MCQuotes
    IndentWidth = 2
    Pastes <- MCPastes
    Batches <- MCBatches
    Placeholder <- MCPlaceholder
    Preview <- MCPreview
    SelectTopSql <- MCSelectTopSql
    Limit = 3
    MaxBytes = 4
    MaxLines = 3
    MaxHeld = 1
    DragStarts <- MCDragStarts
CHECK_DEADLOCK FALSE
INVARIANTS
    OverlayRestoresText
    EditsReplaceSelection
    CompletionReplacesComponent
