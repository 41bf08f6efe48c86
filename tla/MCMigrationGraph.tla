-------------------------- MODULE MCMigrationGraph --------------------------
EXTENDS MigrationGraph

CONSTANT Size

Keys == 1 .. Size

\* Every graph on Size migrations with distinct names, any dependency on
\* each other; given in an order that is not the alphabetical one.
Graphs ==
    {[i \in 1 .. Size |-> [key |-> Size + 1 - i, creates |-> {},
                           deps |-> {<<"migration", k>> : k \in f[i]}]] :
        f \in [1 .. Size -> SUBSET Keys]}

\* Slices with repeated names and models, dependencies on models and on
\* migrations that do not exist.
Migration ==
    [key : Keys, creates : {{}, {1}},
     deps : {{}} \union {{<<"migration", k>>} : k \in 1 .. Size + 1} \union {{<<"model", 1>>}}]
Slices == [1 .. Size -> Migration]

\* A cycle that the search enters from outside, and a diamond.
Deps(i, ks) == [key |-> i, creates |-> {}, deps |-> {<<"migration", k>> : k \in ks}]
Larger == { << Deps(4, {3}), Deps(1, {}), Deps(3, {1, 2}), Deps(2, {1}) >>,
            << Deps(2, {}), Deps(3, {2, 5}), Deps(5, {4}), Deps(4, {3}), Deps(1, {3}) >>,
            << Deps(5, {2, 3}), Deps(2, {4}), Deps(3, {4}), Deps(4, {}), Deps(1, {5}) >>,
            << Deps(1, {5}), Deps(2, {1}), Deps(3, {4, 2}), Deps(4, {5}), Deps(5, {}) >> }

MCInputs == Graphs \union Slices \union Larger
=============================================================================
