SPECIFICATION Spec
CONSTANTS
    MaxRequest = 4
    MaxUserRequest = 3
    Offered = {"sql", "search", "edit", "delete", "move"}
    Row = {k1, k2}
    MaxRows = 2
SYMMETRY Symmetry
CHECK_DEADLOCK FALSE
INVARIANTS
    MutationsHitTheirRow
    DeleteConfirmsArmedRow
