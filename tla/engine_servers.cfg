SPECIFICATION Spec
CONSTANTS
    p1 = p1  p2 = p2  none = none
    Proc <- TwoProcs
    N = 4
    App <- MCApp
    Deps <- MCDepsOneWay
    Ops <- MCOpsOneWay
    Table <- MCTable
    Absent = none
    Custom <- MCCustom
    ForeignKeys <- MCForeignKeys
    FkStrict = TRUE
    Alone = {"rollback"}
    MaxCalls = 2
    MaxFaults = 1
INVARIANTS DependenciesApplied
PROPERTIES ImplementsLedger LedgerScope
