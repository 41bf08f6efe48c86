SPECIFICATION FairGraphSpec
CONSTANTS
    Size = 3
    Inputs <- MCInputs
    MaxLength = 5
CHECK_DEADLOCK FALSE
INVARIANTS SortsOrRefuses FindsPlan
PROPERTIES Terminates
