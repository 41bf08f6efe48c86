----------------------------- MODULE MCModelRows -----------------------------
(* Two callers of one model.                                               *)
EXTENDS ModelRows, TLC

\* Slices of two that fit into a statement and such that do not; and a model
\* with nothing but its key.
SmallBackends ==
    { [kind |-> "sqlite",   limit |-> 1, fields |-> 1],
      [kind |-> "sqlite",   limit |-> 2, fields |-> 1],
      [kind |-> "postgres", limit |-> 1, fields |-> 1],
      [kind |-> "postgres", limit |-> 2, fields |-> 1],
      [kind |-> "postgres", limit |-> 2, fields |-> 0],
      [kind |-> "mysql",    limit |-> 1, fields |-> 1] }

Symmetric == Permutations(Client)

=============================================================================
