--------------------------- MODULE MigrationSorter ---------------------------
(***************************************************************************)
(* cot::db::migrations::sorter and cot::utils::graph: the order in which   *)
(* MigrationEngine keeps its migrations.  `sort` orders them by app and    *)
(* name, builds the dependency graph from a lookup table, sorts it by a    *)
(* depth-first search and permutes the slice in place.                     *)
(*                                                                         *)
(* A migration is a record: `key` stands for (app, name) in their order,   *)
(* `creates` for the models its operations create and `deps` for what it   *)
(* depends on, <<"migration", key>> or <<"model", model>>.                 *)
(***************************************************************************)
EXTENDS Integers, Sequences, FiniteSets, SequencesExt

CONSTANT Inputs   \* the slices given to MigrationSorter::new

\* The names of migrations are ordered like integers.
IsSlice(s) ==
    /\ Len(s) \in Nat /\ DOMAIN s = 1 .. Len(s)
    /\ \A i \in DOMAIN s : s[i].key \in Int

ASSUME InputsAssumption == \A s \in Inputs : IsSlice(s)

VARIABLES
    input,    \* the slice as given
    phase,    \* where the algorithm is, or how it ended
    edges,    \* Graph.vertex_edges
    root,     \* the outer loop of Graph::toposort
    visited,  \* VisitedStatus of every vertex
    stack,    \* frames of toposort_visit: a vertex, neighbors still to visit
    out,      \* sorted_indices_stack
    order,    \* apply_permutation: the permutation, consumed on the way
    items,    \* the slice being permuted, by position in the sorted slice
    outer,    \* apply_permutation: i
    current   \* apply_permutation: current

vars == <<input, phase, edges, root, visited, stack, out, order, items, outer, current>>

Vertices == DOMAIN input
Errors == {"duplicate", "invalid", "cycle"}

(***************************************************************************)
(* self.migrations.sort_by(|a, b| (app, name)): stable.                    *)
(***************************************************************************)
SortedByKey(s) ==
    LET before(i, j) == s[i].key < s[j].key \/ (s[i].key = s[j].key /\ i <= j)
        rank(i) == Cardinality({j \in DOMAIN s : before(j, i)})
    IN  [k \in DOMAIN s |-> s[CHOOSE i \in DOMAIN s : rank(i) = k]]

(***************************************************************************)
(* create_lookup_table and generate_graph on the sorted slice.             *)
(***************************************************************************)
Provides(mig) == {<<"migration", mig.key>>} \union {<<"model", x>> : x \in mig.creates}

HasDuplicates(s) ==
    \E i, j \in DOMAIN s : i # j /\ Provides(s[i]) \intersect Provides(s[j]) # {}

HasInvalid(s) ==
    \E i \in DOMAIN s : \E d \in s[i].deps : \A j \in DOMAIN s : d \notin Provides(s[j])

\* An edge leads from a migration to one that depends on it.
GraphOf(s) ==
    {e \in (DOMAIN s) \X (DOMAIN s) : s[e[2]].deps \intersect Provides(s[e[1]]) # {}}

Neighbors(v) == {w \in Vertices : <<v, w>> \in edges}

------------------------------------------------------------------------------
Init ==
    /\ input \in Inputs
    /\ phase = "prepare"
    /\ edges = {}
    /\ root = Len(input)
    /\ visited = [v \in Vertices |-> "not_visited"]
    /\ stack = <<>>
    /\ out = <<>>
    /\ order = <<>>
    /\ items = [v \in Vertices |-> v]
    /\ outer = 1
    /\ current = 1

\* Sorting by key, the lookup table and the graph.
Prepare ==
    /\ phase = "prepare"
    /\ input' = SortedByKey(input)
    /\ phase' = IF HasDuplicates(input) THEN "duplicate"
                ELSE IF HasInvalid(input) THEN "invalid" ELSE "search"
    /\ edges' = GraphOf(SortedByKey(input))
    /\ UNCHANGED <<root, visited, stack, out, order, items, outer, current>>

\* toposort_visit is entered for v, from a loop whose state is `rest`.
\* Mutant: a vertex that is being visited counts as visited.
EnterUnguarded(v, rest) ==
    /\ IF visited[v] = "not_visited"
       THEN /\ visited' = [visited EXCEPT ![v] = "visiting"]
            /\ stack' = Append(rest, [vertex |-> v, todo |-> Neighbors(v)])
       ELSE stack' = rest /\ UNCHANGED visited
    /\ UNCHANGED phase

Enter(v, rest) ==
    CASE visited[v] = "visited"  -> stack' = rest /\ UNCHANGED <<visited, phase>>
      [] visited[v] = "visiting" -> phase' = "cycle" /\ stack' = rest /\ UNCHANGED visited
      [] visited[v] = "not_visited" ->
            /\ visited' = [visited EXCEPT ![v] = "visiting"]
            /\ stack' = Append(rest, [vertex |-> v, todo |-> Neighbors(v)])
            /\ UNCHANGED phase

\* for index in (0..self.vertex_num()).rev()
VisitRoot ==
    /\ phase = "search" /\ stack = <<>> /\ root >= 1
    /\ Enter(root, <<>>)
    /\ root' = root - 1
    /\ UNCHANGED <<input, edges, out, order, items, outer, current>>

\* for &neighbor in &self.vertex_edges[index]: edges were added in the order
\* of the dependents.
\* Mutant: the loop over the neighbors does not advance.
VisitNeighborAgain ==
    /\ phase = "search" /\ stack # <<>>
    /\ \E w \in Last(stack).todo :
        /\ \A x \in Last(stack).todo : w <= x
        /\ Enter(w, stack)
    /\ UNCHANGED <<input, edges, root, out, order, items, outer, current>>
VisitNeighbor ==
    /\ phase = "search" /\ stack # <<>>
    /\ \E w \in Last(stack).todo :
        /\ \A x \in Last(stack).todo : w <= x
        /\ Enter(w, [stack EXCEPT ![Len(stack)].todo = @ \ {w}])
    /\ UNCHANGED <<input, edges, root, out, order, items, outer, current>>

\* visited[index] = Visited; sorted_indices_stack.push(index)
Leave ==
    /\ phase = "search" /\ stack # <<>> /\ Last(stack).todo = {}
    /\ visited' = [visited EXCEPT ![Last(stack).vertex] = "visited"]
    /\ out' = Append(out, Last(stack).vertex)
    /\ stack' = Front(stack)
    /\ UNCHANGED <<input, phase, edges, root, order, items, outer, current>>

\* sorted_indices_stack.reverse()
SearchDone ==
    /\ phase = "search" /\ stack = <<>> /\ root = 0
    /\ order' = Reverse(out)
    /\ phase' = IF Len(input) = 0 THEN "done" ELSE "permute"
    /\ UNCHANGED <<input, edges, root, visited, stack, out, items, outer, current>>

\* apply_permutation follows a cycle of the permutation: items.swap.
Follow ==
    LET next == order[current]
    IN  /\ phase = "permute" /\ next # outer
        /\ items' = [items EXCEPT ![current] = items[next], ![next] = items[current]]
        /\ order' = [order EXCEPT ![current] = current]
        /\ current' = next
        /\ UNCHANGED <<input, phase, edges, root, visited, stack, out, outer>>

\* The cycle is closed; the outer loop moves on.
Close ==
    /\ phase = "permute" /\ order[current] = outer
    /\ order' = [order EXCEPT ![current] = current]
    /\ outer' = outer + 1
    /\ current' = outer + 1
    /\ phase' = IF outer = Len(input) THEN "done" ELSE phase
    /\ UNCHANGED <<input, edges, root, visited, stack, out, items>>

Next == Prepare \/ VisitRoot \/ VisitNeighbor \/ Leave \/ SearchDone \/ Follow \/ Close

Spec == Init /\ [][Next]_vars

------------------------------------------------------------------------------
\* Types, and what each loop variable ranges over.
TypeOK ==
    /\ phase \in {"prepare", "search", "permute", "done"} \union Errors
    /\ edges \subseteq Vertices \X Vertices
    /\ root \in 0 .. Len(input)
    /\ visited \in [Vertices -> {"not_visited", "visiting", "visited"}]
    /\ \A k \in DOMAIN stack : stack[k].vertex \in Vertices /\ stack[k].todo \subseteq Vertices
    /\ \A k \in DOMAIN out : out[k] \in Vertices
    /\ items \in [Vertices -> Vertices]
    /\ outer \in 1 .. Len(input) + 1
    /\ current \in 1 .. Len(input) + 1

(***************************************************************************)
(* What the engine relies on: a sequence of migrations is legal if no two  *)
(* provide the same thing and each follows all it depends on.              *)
(***************************************************************************)
Legal(s) ==
    /\ ~HasDuplicates(s)
    /\ \A j \in DOMAIN s : \A d \in s[j].deps : \E i \in DOMAIN s : i < j /\ d \in Provides(s[i])

Result == [k \in DOMAIN items |-> input[items[k]]]

(***************************************************************************)
(* When sort returns Ok the slice is a legal order of the migrations it    *)
(* was given, whatever their number, names and dependencies.               *)
(***************************************************************************)
SortedIsLegal ==
    phase = "done" => /\ Legal(Result)
                      /\ {items[k] : k \in DOMAIN items} = Vertices

Permuted(s, f) == [k \in DOMAIN s |-> s[f[k]]]

(***************************************************************************)
(* sort refuses a slice only if no order of it is legal: the errors        *)
(* DuplicateMigration, DuplicateModel, InvalidDependency, CycleDetected    *)
(* are never raised for migrations that could be applied.                  *)
(***************************************************************************)
RefusesOnlyIllegal ==
    phase \in Errors =>
        \A f \in {g \in [Vertices -> Vertices] : \A i, j \in Vertices : g[i] = g[j] => i = j} :
            ~Legal(Permuted(input, f))

OnStack == {stack[k].vertex : k \in DOMAIN stack}

(***************************************************************************)
(* The search visits the vertices of one path at a time, and has put every *)
(* dependent of a vertex it left before that vertex in                     *)
(* sorted_indices_stack; and no loop variable leaves its range.            *)
(***************************************************************************)
SearchInv ==
    /\ TypeOK
    /\ phase = "search" =>
          /\ \A v \in Vertices : visited[v] = "visiting" <=> v \in OnStack
          /\ \A v \in Vertices : visited[v] = "visited" <=> \E k \in DOMAIN out : out[k] = v
          /\ \A k \in 1 .. Len(stack) - 1 : <<stack[k].vertex, stack[k + 1].vertex>> \in edges
          /\ \A e \in edges, j \in DOMAIN out : out[j] = e[1] =>
                 \E i \in DOMAIN out : i < j /\ out[i] = e[2]

(***************************************************************************)
(* sort orders what can be ordered and refuses what cannot, and on the way *)
(* there the search and the permutation keep to their shapes.              *)
(***************************************************************************)
SortsOrRefuses == SearchInv /\ SortedIsLegal /\ RefusesOnlyIllegal

==============================================================================
