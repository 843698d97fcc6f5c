SPECIFICATION Spec
CONSTANTS
    MaxRequest = 4
    MaxUserRequest = 4
    Offered = {"sql", "edit", "delete"}
    Row = {k1}
    MaxRows = 1
CHECK_DEADLOCK FALSE
PROPERTIES
    DeleteIsAsPreviewed
