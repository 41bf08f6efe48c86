SPECIFICATION Spec
CONSTANTS
    None = None
    BadKey = BadKey
    Staff = {a1, a2}
    MaxKey = 2
    MaxText = 2
    Letters <- SmallLetters
    MaxPage = 2
    Models <- SmallModels
INVARIANTS PagesCover QueriesMean
PROPERTIES ChangesAsAsked UntouchedKeeps RefusedKeepsInputs
SYMMETRY People
CHECK_DEADLOCK FALSE
