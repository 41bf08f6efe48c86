SPECIFICATION Spec
CONSTANTS
    Client = {c1, c2}
    Id = {i1}
    Data = {d}
    Absent = none
    Operation = {"save", "load"}
    Pk = {1, 2, 3, 4}
    Isolation = "consistent reads"
    MaxRetries = 1
INVARIANTS NoPanic
