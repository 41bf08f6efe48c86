--------------------------- MODULE MigrationGraph ---------------------------
(***************************************************************************)
(* The dependency graph over the life of a MigrationEngine: `new` sorts    *)
(* the migrations (MigrationSorter); later `rollback_plan` builds the      *)
(* graph again, from the sorted slice, and works off the dependents of the *)
(* migrations it starts from (RollbackWorklist).                           *)
(***************************************************************************)
EXTENDS MigrationSorter

CONSTANT MaxLength   \* the longest slice among Inputs

ASSUME LengthAssumption == MaxLength \in Nat /\ \A s \in Inputs : Len(s) <= MaxLength

VARIABLES
    planEdges,   \* rollback_plan: the graph of the sorted slice
    seed,        \* rollback_plan: the later migrations of the app
    indices,     \* rollback_plan: rollback_indices
    queue,       \* rollback_plan: the worklist
    planning     \* has rollback_plan been called?

planVars == <<planEdges, seed, indices, queue, planning>>

Worklist == INSTANCE RollbackWorklist WITH N <- MaxLength, edges <- planEdges

GraphInit ==
    /\ Init
    /\ planEdges = {} /\ seed = {} /\ indices = {} /\ queue = {}
    /\ planning = FALSE

Sort == Next /\ UNCHANGED planVars

\* rollback_plan up to its loop.  The migrations it starts from depend on the
\* names of apps and targets, which are no concern of the graph.
BeginPlan ==
    /\ phase = "done" /\ ~planning
    /\ planning' = TRUE
    /\ planEdges' = GraphOf(Result)
    /\ \E S \in SUBSET Vertices : seed' = S /\ indices' = S /\ queue' = S
    /\ UNCHANGED vars

WorkOff == planning /\ Worklist!Next /\ UNCHANGED <<vars, planning>>

GraphNext == Sort \/ BeginPlan \/ WorkOff

GraphSpec == GraphInit /\ [][GraphNext]_<<vars, planVars>>

\* One thread runs both algorithms to their ends.
FairGraphSpec == GraphSpec /\ WF_<<vars, planVars>>(GraphNext)

-----------------------------------------------------------------------------
\* The graph of the sorted slice leads from earlier to later positions only,
\* so that the engine may take positions for an order of the migrations, and
\* the worklist finds exactly what depends on those it started from, in
\* whatever order the HashSet yields them.
FindsPlan == planning => Worklist!TypeOK /\ Worklist!FindsPlan

\* The search, the permutation and the worklist end for every input: with an
\* error, or with a plan.
Terminates == <>(phase \in Errors \/ (planning /\ queue = {}))

=============================================================================
