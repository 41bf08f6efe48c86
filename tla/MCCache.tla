------------------------------- MODULE MCCache -------------------------------
(* Two Cache values on one store; half a second to the tick.               *)
EXTENDS Cache, TLC

TwoPrefixes == {NoPrefix, <<"v1">>, <<"v2">>}

OneKey == {<<"k">>}

\* No end; a second and a half; a date in the first second of all.
Timeouts == {Never, At(1), [kind |-> "after", ticks |-> 3]}

Symmetric == Permutations(Handle)

=============================================================================
