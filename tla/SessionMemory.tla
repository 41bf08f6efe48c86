---------------------------- MODULE SessionMemory ----------------------------
(***************************************************************************)
(* cot::session::store::memory::MemoryStore: a HashMap behind a mutex.     *)
(* Each operation holds the lock for its whole body, so it is one action.  *)
(* Expired records stay in the map; only `load` leaves them out.           *)
(***************************************************************************)
EXTENDS Integers

CONSTANTS
    Client, Id, Data, Absent, Operation,
    Lifetime,  \* seconds between a record's writing and its expiry date
    MaxTime    \* bound on the clock

VARIABLES
    store,   \* store[i]: the record in the map, or NoRecord
    call,    \* call[c]: the call of client c
    now      \* the wall clock

vars == <<store, call, now>>

NoRecord == [data |-> Absent, expiry |-> 0]

Idle == [at |-> "idle", op |-> "none", id |-> Absent, data |-> Absent, expiry |-> 0]

Init == /\ store = [i \in Id |-> NoRecord]
        /\ call = [c \in Client |-> Idle]
        /\ now = 0

\* The middleware computes the expiry date before it calls the store.
Invoke(c) ==
    /\ call[c].at = "idle"
    /\ \E op \in Operation, i \in Id, d \in Data, t \in Lifetime :
         LET writes == op \in {"create", "save"} IN
         call' = [call EXCEPT ![c] =
                    [at |-> "pending", op |-> op, id |-> i,
                     data |-> IF writes THEN d ELSE Absent,
                     expiry |-> IF writes THEN now + t ELSE 0]]
    /\ UNCHANGED <<store, now>>

Pending(c, op) == call[c].at = "pending" /\ call[c].op = op

Record(c) == [data |-> call[c].data, expiry |-> call[c].expiry]

Done(c) == [call EXCEPT ![c].at = "done"]

\* Mutant: an expiry date that is now still counts.
IsActiveNow(record) == record # NoRecord /\ record.expiry >= now

IsActive(record) == record # NoRecord /\ record.expiry > now

\* The caller's id if the map does not contain it, else a new random one:
\* the loop runs under the lock until it finds an id the map lacks.
Create(c) ==
    /\ Pending(c, "create")
    /\ \E i \in Id :
         /\ store[i] = NoRecord
         /\ store[call[c].id] = NoRecord => i = call[c].id
         /\ store' = [store EXCEPT ![i] = Record(c)]
         /\ call' = [Done(c) EXCEPT ![c].id = i]
    /\ UNCHANGED now

Save(c) ==
    /\ Pending(c, "save")
    /\ store' = [store EXCEPT ![call[c].id] = Record(c)]
    /\ call' = Done(c)
    /\ UNCHANGED now

Load(c) ==
    LET record == store[call[c].id] IN
    /\ Pending(c, "load")
    /\ call' = [Done(c) EXCEPT ![c].data = IF IsActive(record) THEN record.data ELSE Absent]
    /\ UNCHANGED <<store, now>>

Delete(c) ==
    /\ Pending(c, "delete")
    /\ store' = [store EXCEPT ![call[c].id] = NoRecord]
    /\ call' = Done(c)
    /\ UNCHANGED now

\* The caller drops the future while it waits for the lock.
Abandon(c) ==
    /\ call[c].at = "pending"
    /\ call' = [call EXCEPT ![c].at = "failed"]
    /\ UNCHANGED <<store, now>>

Return(c) ==
    /\ call[c].at \in {"done", "failed"}
    /\ call' = [call EXCEPT ![c] = Idle]
    /\ UNCHANGED <<store, now>>

Tick ==
    /\ now < MaxTime
    /\ now' = now + 1
    /\ UNCHANGED <<store, call>>

Next ==
    \/ \E c \in Client :
        \/ Invoke(c) \/ Abandon(c) \/ Return(c)
        \/ Create(c) \/ Save(c) \/ Load(c) \/ Delete(c)
    \/ Tick

Spec == Init /\ [][Next]_vars

-----------------------------------------------------------------------------
(* What SessionStores compares with SessionMap: a record is in the map while *)
(* it has not expired.                                                     *)

Live(i) == IF store[i].data # Absent /\ store[i].expiry > now THEN store[i].data ELSE Absent

AbstractCall(c) ==
    [at |-> call[c].at, op |-> call[c].op, data |-> call[c].data,
     id |-> IF call[c].op = "create" /\ call[c].at # "done" THEN Absent ELSE call[c].id]

=============================================================================
