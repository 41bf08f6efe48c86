SPECIFICATION Spec
CONSTANTS
    Request = {r1, r2}
    User = {u1}
    Password = {p1, p2}
    Id = {1, 2}
    Absent = none
    Nobody = nobody
    Salt = {1, 2}
    MaxKey = 3
INVARIANTS IdServesOneUser SessionsMigrate
PROPERTIES SessionProvesPassword DeletedStaysDeleted
SYMMETRY Symmetric
