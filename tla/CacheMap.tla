------------------------------- MODULE CacheMap -------------------------------
(***************************************************************************)
(* What a cache of cot promises its callers: a map that may lose any entry *)
(* at any moment, never brings one back, and never shows one whose time is *)
(* over.  Every call but get_or_insert takes effect at one moment;         *)
(* get_or_insert is a read and, on a miss, a write later on, which         *)
(* replaces what others stored in between.                                 *)
(***************************************************************************)
EXTENDS Integers, FiniteSets

CONSTANTS
    Handle,      \* callers, each with one call at a time
    FullKey,     \* keys of the store, prefixes included
    Data,        \* JSON values
    Decodable,   \* those of them that are of the type the callers ask for
    Absent,      \* no value, no key
    Timeout,     \* config::Timeout
    Forever      \* the deadline of Timeout::Never

VARIABLES
    entry,   \* entry[k]: the value under k and its deadline
    now,     \* the clock
    call     \* call[c]: the call of handle c

vars == <<entry, now, call>>

NoEntry == [value |-> Absent, due |-> Forever]

Idle == [at |-> "idle", op |-> "none", key |-> Absent, value |-> Absent,
         timeout |-> Absent, result |-> Absent, count |-> 0]

\* The moment from which a value inserted now under timeout t is expired.
Due(t) == CASE t.kind = "never" -> Forever
            [] t.kind = "after" -> now + t.ticks
            [] t.kind = "at"    -> t.ticks

Over(due, time) == due # Forever /\ due <= time

Pending(c, ops) == call[c].at = "pending" /\ call[c].op \in ops

Done(c, result, count) ==
    [call EXCEPT ![c] = [Idle EXCEPT !.at = "done", !.result = result, !.count = count]]

Failed(c) == [call EXCEPT ![c] = [Idle EXCEPT !.at = "failed"]]

Writers == {"insert", "insert_with", "get_or_insert_with"}

Init == /\ entry = [k \in FullKey |-> NoEntry]
        /\ now = 0
        /\ call = [c \in Handle |-> Idle]

\* A call of any operation, with what it brings.
Invoked == [at : {"pending"},
            op : Writers \union {"get", "contains_key", "remove", "clear", "approx_size"},
            key : FullKey \union {Absent}, value : Data \union {Absent},
            timeout : Timeout \union {Absent}, result : {Absent}, count : {0}]

Invoke(c) ==
    /\ call[c] = Idle
    /\ call'[c] \in Invoked
    /\ call' = [call EXCEPT ![c] = call'[c]]
    /\ UNCHANGED <<entry, now>>

\* A get answers at once, a get_or_insert only when it hits.
Read(c) ==
    LET v == entry[call[c].key].value IN
    /\ \/ Pending(c, {"get"}) /\ v \in Decodable \union {Absent}
       \/ Pending(c, {"get_or_insert_with"}) /\ v \in Decodable
    /\ call' = Done(c, v, 0)
    /\ UNCHANGED <<entry, now>>

\* An entry may be lost at once, and is if its time is over.
Written(v, due) == {NoEntry} \union (IF Over(due, now) THEN {} ELSE {[value |-> v, due |-> due]})

\* Write: what insert brings, or what a closure computed.  The answer to the
\* write may be lost.
Put(c) ==
    /\ Pending(c, Writers)
    /\ \E v \in IF call[c].op = "insert" THEN {call[c].value} ELSE Decodable :
        /\ \E e \in Written(v, Due(call[c].timeout)) :
                entry' = [entry EXCEPT ![call[c].key] = e]
        /\ call' \in {Done(c, IF call[c].op = "get_or_insert_with" THEN v ELSE Absent, 0),
                      Failed(c)}
    /\ UNCHANGED now

ContainsKey(c) ==
    /\ Pending(c, {"contains_key"})
    /\ call' = Done(c, Absent, IF entry[call[c].key] = NoEntry THEN 0 ELSE 1)
    /\ UNCHANGED <<entry, now>>

\* The size is an upper bound of the entries that a get would find.
ApproxSize(c) ==
    /\ Pending(c, {"approx_size"})
    /\ call'[c].count \in Nat
    /\ call'[c].count >= Cardinality({k \in FullKey : entry[k] # NoEntry})
    /\ call' = Done(c, Absent, call'[c].count)
    /\ UNCHANGED <<entry, now>>

Remove(c) ==
    /\ Pending(c, {"remove"})
    /\ entry' = [entry EXCEPT ![call[c].key] = NoEntry]
    /\ call' \in {Done(c, Absent, 0), Failed(c)}
    /\ UNCHANGED now

Clear(c) ==
    /\ Pending(c, {"clear"})
    /\ entry' = [k \in FullKey |-> NoEntry]
    /\ call' \in {Done(c, Absent, 0), Failed(c)}
    /\ UNCHANGED now

Fail(c) ==
    /\ call[c].at = "pending"
    /\ call' = Failed(c)
    /\ UNCHANGED <<entry, now>>

Return(c) ==
    /\ call[c].at \in {"done", "failed"}
    /\ call' = [call EXCEPT ![c] = Idle]
    /\ UNCHANGED <<entry, now>>

\* Time passes; what is over goes, and anything else may.
Pass ==
    /\ now' \in {now, now + 1}
    /\ DOMAIN entry' = FullKey
    /\ \A k \in FullKey : entry'[k] \in {NoEntry} \union
                            (IF Over(entry[k].due, now') THEN {} ELSE {entry[k]})
    /\ UNCHANGED call

Next ==
    \/ \E c \in Handle :
        \/ Invoke(c) \/ Fail(c) \/ Return(c)
        \/ Read(c) \/ Put(c) \/ ContainsKey(c) \/ ApproxSize(c) \/ Remove(c) \/ Clear(c)
    \/ Pass

Spec == Init /\ [][Next]_vars

=============================================================================
