SPECIFICATION Spec
CONSTANTS
    Client = {c1, c2}
    MaxKey = 3
    MaxBatch = 2
    MaxCalls = 3
    Backend <- SmallBackends
    Inventive = {"mysql"}
    Automatic = Automatic
    Byte = 3
    Limit = 2
    Null = Null
    Refused = Refused
    Absent = Absent
    Untouched = Untouched
SYMMETRY Symmetric
INVARIANTS StatementsFit KeysAreOwn ColumnsFit
PROPERTIES ImplementsTable
CHECK_DEADLOCK FALSE
