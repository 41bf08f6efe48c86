SPECIFICATION FairSpec
CONSTANTS
    p1 = p1  p2 = p2  none = none
    Proc <- OneProc
    N = 4
    App <- MCApp
    Deps <- MCDeps
    Ops <- MCOps
    Table <- MCTable
    Absent = none
    Custom <- MCCustom
    ForeignKeys <- MCForeignKeys
    FkStrict = TRUE
    Alone = {"run", "rollback"}
    MaxCalls = 2
    MaxFaults = 2
INVARIANTS SchemaMatchesLedger
PROPERTIES CallsComplete EventuallyMigrated
