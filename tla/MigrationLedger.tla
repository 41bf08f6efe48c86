--------------------------- MODULE MigrationLedger ---------------------------
(***************************************************************************)
(* What the migration engine of cot promises about its ledger, the rows of *)
(* the table cot__migrations: it is a set of migrations that only ever     *)
(* grows by one whose dependencies are all in it, and only ever shrinks by *)
(* one no member of it depends on.  MigrationEngine implements this.       *)
(***************************************************************************)
EXTENDS Integers

CONSTANTS
    Migrations,   \* the migrations of every registered app
    Deps          \* <<d, m>> \in Deps: migration m depends on migration d

VARIABLE applied  \* the migrations recorded as applied

Dependencies(m) == {d \in Migrations : <<d, m>> \in Deps}
Dependents(m)   == {x \in Migrations : <<m, x>> \in Deps}

Init == applied = {}

Apply(m) ==
    /\ m \notin applied
    /\ Dependencies(m) \subseteq applied
    /\ applied' = applied \union {m}

Unapply(m) ==
    /\ m \in applied
    /\ Dependents(m) \intersect applied = {}
    /\ applied' = applied \ {m}

Next == \E m \in Migrations : Apply(m) \/ Unapply(m)

Spec == Init /\ [][Next]_applied
==============================================================================
