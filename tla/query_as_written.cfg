SPECIFICATION Spec
CONSTANTS
    None = None
    BadKey = BadKey
    Staff = {a1, a2}
    MaxKey = 2
    MaxText = 2
    Letters <- SmallLetters
    MaxPage = 2
    Models <- OneModel
INVARIANTS QueryAsWritten
SYMMETRY People
CHECK_DEADLOCK FALSE
