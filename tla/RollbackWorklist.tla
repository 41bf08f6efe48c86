-------------------------- MODULE RollbackWorklist --------------------------
(***************************************************************************)
(* The loop of MigrationEngine::rollback_plan: from the later migrations   *)
(* of an app it follows the edges of the dependency graph to everything    *)
(* that depends on one of them.  The worklist starts with a HashSet's      *)
(* elements in whatever order it yields them, so the model takes any       *)
(* element of it next.                                                     *)
(***************************************************************************)
EXTENDS Integers

CONSTANT N    \* how many migrations there are

Migrations == 1 .. N
Graphs == SUBSET {e \in Migrations \X Migrations : e[1] < e[2]}

VARIABLES
    edges,     \* generate_graph: <<d, m>> if m depends on d
    seed,      \* the later migrations of the app
    indices,   \* rollback_indices
    queue      \* the worklist

vars == <<edges, seed, indices, queue>>

Dependents(m) == {x \in Migrations : <<m, x>> \in edges}

Init ==
    /\ edges \in Graphs
    /\ seed \in SUBSET Migrations
    /\ indices = seed
    /\ queue = seed

\* while let Some(index) = queue.pop_front()
\* Mutant: dependents are inserted but not queued.
PopOnce(m) ==
    /\ m \in queue
    /\ indices' = indices \union Dependents(m)
    /\ queue' = queue \ {m}
    /\ UNCHANGED <<edges, seed>>
Pop(m) ==
    /\ m \in queue
    /\ indices' = indices \union Dependents(m)
    /\ queue' = (queue \ {m}) \union (Dependents(m) \ indices)
    /\ UNCHANGED <<edges, seed>>

Next == \E m \in Migrations : Pop(m)

Spec == Init /\ [][Next]_vars

------------------------------------------------------------------------------
\* Everything stays among the migrations, and what is queued is in the plan.
TypeOK ==
    /\ edges \in Graphs
    /\ seed \subseteq Migrations
    /\ indices \subseteq Migrations
    /\ queue \subseteq indices

Closed(S) == \A e \in edges : e[1] \in S => e[2] \in S

\* MigrationEngine!RollbackPlan
LeastClosed(S) ==
    {m \in Migrations : \A C \in SUBSET Migrations : S \subseteq C /\ Closed(C) => m \in C}

(***************************************************************************)
(* When the loop ends, it has found exactly the migrations of the app it   *)
(* started from and all their direct and indirect dependents.              *)
(***************************************************************************)
FindsPlan == queue = {} => indices = LeastClosed(seed)

==============================================================================
