------------------------------ MODULE SessionMap ------------------------------
(***************************************************************************)
(* What the session stores of cot promise to the session middleware: a map *)
(* from session ids to session data.  Every call that succeeds takes       *)
(* effect at one moment between its invocation and its return.  One that   *)
(* fails does so too or has no effect at all, and its caller cannot tell:  *)
(* the answer may be what was lost.  A store that honours expiry dates may *)
(* lose an entry at any moment.                                            *)
(***************************************************************************)
CONSTANTS
    Client,    \* requests in flight, each with one call at a time
    Id,        \* session ids
    Data,      \* what a session record holds
    Absent,    \* no record
    Operation  \* those of "create", "save", "load", "delete" that callers use

VARIABLES
    map,       \* map[i]: the data stored under session id i
    call,      \* call[c]: the call of client c
    lapses     \* does this store honour expiry dates?  It never changes.

vars == <<map, call, lapses>>

Idle == [at |-> "idle", op |-> "none", id |-> Absent, data |-> Absent]

\* `create` finds an id itself; `load` and `delete` bring no data.
Invoked(op, i, d) ==
    [at |-> "pending", op |-> op,
     id |-> IF op = "create" THEN Absent ELSE i,
     data |-> IF op \in {"create", "save"} THEN d ELSE Absent]

Init == /\ map = [i \in Id |-> Absent]
        /\ call = [c \in Client |-> Idle]
        /\ lapses \in BOOLEAN

Invoke(c) ==
    /\ call[c] = Idle
    /\ \E op \in Operation, i \in Id, d \in Data :
            call' = [call EXCEPT ![c] = Invoked(op, i, d)]
    /\ UNCHANGED map

Pending(c, op) == call[c].at = "pending" /\ call[c].op = op

\* What a write leaves: the data, unless its expiry date has passed already.
Written(d) == IF lapses THEN {d, Absent} ELSE {d}

\* The answer of a call that took effect may not arrive.
Answered(c, answer) == call' \in {[call EXCEPT ![c] = answer],
                                  [call EXCEPT ![c].at = "failed"]}

\* A new session gets an id under which nothing is stored.
Create(c) ==
    /\ Pending(c, "create")
    /\ \E i \in Id :
        /\ map[i] = Absent
        /\ \E d \in Written(call[c].data) : map' = [map EXCEPT ![i] = d]
        /\ Answered(c, [call[c] EXCEPT !.at = "done", !.id = i])

Save(c) ==
    /\ Pending(c, "save")
    /\ \E d \in Written(call[c].data) : map' = [map EXCEPT ![call[c].id] = d]
    /\ Answered(c, [call[c] EXCEPT !.at = "done"])

Load(c) ==
    /\ Pending(c, "load")
    /\ call' = [call EXCEPT ![c].at = "done", ![c].data = map[call[c].id]]
    /\ UNCHANGED map

Delete(c) ==
    /\ Pending(c, "delete")
    /\ map' = [map EXCEPT ![call[c].id] = Absent]
    /\ Answered(c, [call[c] EXCEPT !.at = "done"])

Fail(c) ==
    /\ call[c].at = "pending"
    /\ call' = [call EXCEPT ![c].at = "failed"]
    /\ UNCHANGED map

Return(c) ==
    /\ call[c].at \in {"done", "failed"}
    /\ call' = [call EXCEPT ![c] = Idle]
    /\ UNCHANGED map

Lapse ==
    /\ lapses
    /\ \E lost \in SUBSET Id : map' = [i \in Id |-> IF i \in lost THEN Absent ELSE map[i]]
    /\ UNCHANGED call

Next ==
    /\ \/ \E c \in Client :
            \/ Invoke(c) \/ Fail(c) \/ Return(c)
            \/ Create(c) \/ Save(c) \/ Load(c) \/ Delete(c)
       \/ Lapse
    /\ UNCHANGED lapses

Spec == Init /\ [][Next]_vars

=============================================================================
