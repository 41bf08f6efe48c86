SPECIFICATION Spec
CONSTANTS
    c1 = c1  c2 = c2  i1 = i1  i2 = i2  none = none  off = off
    text = text
    Client = {c1, c2}
    Id = {i1, i2}
    Data = {text, other}
    Absent = none
    Off = off
    Operation = {"create", "save", "load", "delete"}
    Lifetime = {1}
    MaxTime = 1
    Pk = {1, 2, 3, 4, 5, 6, 7}
    Isolation = "read committed"
    FileData = {text}
    Length <- TextLength
    File = {1, 2}
    MayAbandon = TRUE
    MaxRemovals = 1
    MaxFlight = 1
    Expiring = {expiring}
    MaxRetries = 1
SYMMETRY Symmetric
INVARIANTS CommitsInPlace ReturnsHold
PROPERTIES ImplementsMap QuietStaysAbsent CreateSpares
