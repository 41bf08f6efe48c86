-------------------------- MODULE MCMigrationEngine --------------------------
(***************************************************************************)
(* Two apps for TLC.  "a" creates a table, then swaps a column of it and   *)
(* calls custom code; "b" creates a table with a foreign key to a's, then  *)
(* calls custom code that needs both.  In sorted order: a1, a2, b1, b2.    *)
(***************************************************************************)
EXTENDS MigrationEngine

CONSTANTS p1, p2, none

Op(kind, table, fields) ==
    [kind |-> kind, table |-> table, fields |-> fields, ifNotExists |-> FALSE,
     reversible |-> TRUE]
Irreversible(op) == [op EXCEPT !.reversible = FALSE]

MCApp  == <<"a", "a", "b", "b">>
MCDeps == {<<1, 2>>, <<1, 3>>, <<3, 4>>, <<2, 4>>}
MCOps  == << <<Op("create", "ta", {"id", "x"})>>,
             <<Op("remove", "ta", {"x"}), Op("add", "ta", {"y"}), Op("call", "c1", {})>>,
             <<Op("create", "tb", {"id", "fk"})>>,
             <<Op("call", "c2", {})>> >>

\* b's code depends on a's table only, and cannot be undone
MCDepsOneWay == {<<1, 2>>, <<1, 3>>, <<3, 4>>}
MCOpsOneWay  == [MCOps EXCEPT ![4] = <<Irreversible(@[1])>>]

MCTable == {"ta", "tb"}
MCCustom == {"c1", "c2"}
MCForeignKeys == {<<"tb", "fk", "ta">>}

\* What the migrations keep to that the schema of engine_alone is about.
ASSUME HistoryAssumption == Alone = {"run", "rollback"} => CleanHistory /\ Linked

OneProc == {p1}
TwoProcs == {p1, p2}
==============================================================================
