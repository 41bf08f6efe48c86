SPECIFICATION Spec
CONSTANTS
    Model = {a, b, c}
    Foreign = {x}
    Plain = Plain
    Suffix = {"initial"}
    Time = {t1, t2}
    MaxFields = 2
    MaxEdits = 1
    MaxNumber = 2
    MaxCrashes = 1
    Absent = Absent
INVARIANTS DependenciesCover UpToDate SourceMeant
PROPERTIES OperationsRun
SYMMETRY Symmetric
CHECK_DEADLOCK FALSE
