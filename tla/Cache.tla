-------------------------------- MODULE Cache --------------------------------
(***************************************************************************)
(* cot::cache::Cache over its two stores.  Several Cache values share one  *)
(* store: servers with different configurations on one Redis, or clones    *)
(* and modules of one server.  Each puts its prefix before its keys and    *)
(* adds the operations that call back into user code.  A store operation   *)
(* is atomic (a lock, or one Redis command); between two of them, and      *)
(* while a closure computes, other calls run.                              *)
(*                                                                         *)
(* A key is the sequence of the parts between its colons, so that          *)
(* format!("{prefix}:{key}") is concatenation.  Time is counted in ticks,  *)
(* Second of them to a second.  Redis is external: it drops keys whose     *)
(* time is over, refuses a time to live of zero or past the range of its   *)
(* integers, and a connection can break before or after a command.         *)
(***************************************************************************)
EXTENDS Integers, FiniteSets, Sequences

CONSTANTS
    Handle,       \* the Cache values, each with one call at a time
    NoPrefix,     \* prefix: None
    Prefixes,     \* the prefixes that configurations give
    Key,          \* keys as callers write them
    Data, Decodable, Absent,   \* as in CacheMap
    Timeout,      \* records [kind, ticks]
    Second,       \* ticks in a second
    MaxDuration,  \* the longest std Duration that chrono's Duration can hold
    Forever,
    MaxTime, MaxEntries   \* bounds of the model: the clock, the keys stored at once

ASSUME PrefixAssumption == Prefixes \subseteq {NoPrefix} \union Seq(STRING)
ASSUME KeyAssumption == Key \subseteq Seq(STRING)
ASSUME DataAssumption == Decodable \subseteq Data /\ Absent \notin Data
ASSUME TimeoutAssumption ==
    /\ Timeout \subseteq [kind : {"never", "after", "at"}, ticks : Int]
    /\ \A t \in Timeout : t.kind = "after" => t.ticks \in Nat
ASSUME TimeAssumption ==
    Second \in Nat \ {0} /\ MaxDuration \in Nat /\ Forever \notin Int /\ MaxTime \in Nat

VARIABLES
    kind,      \* CacheStoreTypeConfig: "memory" or "redis"
    prefix,    \* prefix[c]: the configured prefix of c
    map,       \* map[k]: what the store holds under k
    now,       \* Utc::now(), and the clock of Redis
    call       \* call[c]: the call of c

vars == <<kind, prefix, map, now, call>>

-----------------------------------------------------------------------------
(* Keys and timeouts                                                       *)

\* Mutant: the prefix is forgotten.
FormatKeyBare(p, k) == k

FormatKey(p, k) == IF p = NoPrefix THEN k ELSE p \o k

FullKey == {FormatKey(p, k) : p \in Prefixes, k \in Key}

Never == [kind |-> "never", ticks |-> 0]
At(time) == [kind |-> "at", ticks |-> time]

\* Timeout::is_expired(None); After panics there and must not be stored.
IsExpired(t) == t.kind = "at" /\ now >= t.ticks

\* Timeout::canonicalize: a duration chrono cannot hold counts as zero.
Canonicalize(t) ==
    IF t.kind # "after" THEN t
    ELSE At(now + IF t.ticks > MaxDuration THEN 0 ELSE t.ticks)

-----------------------------------------------------------------------------
(* The stores.  Entries carry, as history, the deadline that was asked     *)
(* for.                                                                    *)

NoEntry == [value |-> Absent, timeout |-> Never, due |-> Forever]

Due(t) == CASE t.kind = "never" -> Forever
            [] t.kind = "after" -> now + t.ticks
            [] t.kind = "at"    -> t.ticks

Entry(v, kept, t) == [value |-> v, timeout |-> kept, due |-> Due(t)]

Live(k) == map[k] # NoEntry /\ ~IsExpired(map[k].timeout)

Held == {k \in FullKey : map[k] # NoEntry}

\* A read drops the entry it finds expired.
Touched(k) == IF Live(k) THEN map ELSE [map EXCEPT ![k] = NoEntry]

\* Memory::insert keeps the moment, not the duration.
MemoryInsert(k, v, t) == map' = [map EXCEPT ![k] = Entry(v, Canonicalize(t), t)]

\* as_secs of a duration, unsigned_abs of the timestamp of a date.
Seconds(t) == LET s == t.ticks \div Second IN IF s < 0 THEN -s ELSE s

Refused(t) == t.kind # "never" /\ (Seconds(t) = 0 \/ t.ticks > MaxDuration)

\* Mutant: a started second counts as a whole one.
RedisTimeoutUp(t) ==
    CASE t.kind = "never" -> Never
      [] t.kind = "after" -> At(now + (Seconds(t) + 1) * Second)
      [] t.kind = "at"    -> At((Seconds(t) + 1) * Second)

\* SET with EX or EXAT: whole seconds, rounded down.
RedisTimeout(t) ==
    CASE t.kind = "never" -> Never
      [] t.kind = "after" -> At(now + Seconds(t) * Second)
      [] t.kind = "at"    -> At(Seconds(t) * Second)

RedisInsert(k, v, t) ==
    /\ ~Refused(t)
    /\ map' = [map EXCEPT ![k] = Entry(v, RedisTimeout(t), t)]

Insert(k, v, t) == \/ kind = "memory" /\ MemoryInsert(k, v, t)
                   \/ kind = "redis"  /\ RedisInsert(k, v, t)

-----------------------------------------------------------------------------
(* The calls                                                               *)

Idle == [at |-> "idle", op |-> "none", key |-> Absent, value |-> Absent,
         timeout |-> Absent, result |-> Absent, count |-> 0]

\* The first step of each operation.  insert and insert_expiring differ only
\* in the timeout they bring, as the two forms of get_or_insert do.
Start == [get |-> "lookup", get_or_insert_with |-> "lookup", insert |-> "insert",
          insert_with |-> "insert", remove |-> "remove", clear |-> "clear",
          contains_key |-> "contains_key", approx_size |-> "approx_size"]

Writers == {"insert", "insert_with", "get_or_insert_with"}

Invoked(c, op, k, v, t) ==
    [Idle EXCEPT !.at = Start[op], !.op = op,
                 !.key = IF op \in {"clear", "approx_size"} THEN Absent
                         ELSE FormatKey(prefix[c], k),
                 !.value = IF op = "insert" THEN v ELSE Absent,
                 !.timeout = IF op \in Writers THEN t ELSE Absent]

Running(c) == call[c].at \notin {"idle", "done", "failed"}

To(c, step) == [call EXCEPT ![c].at = step]

Done(c, result, count) ==
    [call EXCEPT ![c] = [Idle EXCEPT !.at = "done", !.result = result, !.count = count]]

Failed(c) == [call EXCEPT ![c] = [Idle EXCEPT !.at = "failed"]]

\* What the caller learns of a command that writes: the connection to Redis
\* may break when the command has been executed.
Answers(c, done) == IF kind = "redis" THEN {done, Failed(c)} ELSE {done}

Init == /\ kind \in {"memory", "redis"}
        /\ prefix \in [Handle -> Prefixes]
        /\ map = [k \in FullKey |-> NoEntry]
        /\ now = 0
        /\ call = [c \in Handle |-> Idle]

Invoke(c) ==
    /\ call[c].at = "idle"
    /\ \E op \in DOMAIN Start, k \in Key, v \in Data, t \in Timeout :
            call' = [call EXCEPT ![c] = Invoked(c, op, k, v, t)]
    /\ UNCHANGED <<map, now>>

\* Cache::get, on its own or at the start of get_or_insert: what is there may
\* not decode; what is missing is the answer of one and the other's task.
Lookup(c) ==
    LET k == call[c].key
        v == IF Live(k) THEN map[k].value ELSE Absent
    IN
    /\ call[c].at = "lookup"
    /\ map' = Touched(k)
    /\ call' = IF v = Absent /\ call[c].op # "get" THEN To(c, "insert")
               ELSE IF v \in Decodable \union {Absent} THEN Done(c, v, 0)
               ELSE Failed(c)
    /\ UNCHANGED now

\* What the caller brought or the closure computed is stored, whatever has
\* been stored since the lookup.
Store(c) ==
    /\ call[c].at = "insert"
    /\ Cardinality(Held \union {call[c].key}) <= MaxEntries
    /\ \E v \in IF call[c].op = "insert" THEN {call[c].value} ELSE Decodable :
        /\ Insert(call[c].key, v, call[c].timeout)
        /\ call' \in Answers(c, Done(c, IF call[c].op = "get_or_insert_with" THEN v
                                        ELSE Absent, 0))
    /\ UNCHANGED now

\* Redis refuses the timeout.
Refuse(c) ==
    /\ call[c].at = "insert"
    /\ kind = "redis"
    /\ Refused(call[c].timeout)
    /\ call' = Failed(c)
    /\ UNCHANGED <<map, now>>

Remove(c) ==
    /\ call[c].at = "remove"
    /\ map' = [map EXCEPT ![call[c].key] = NoEntry]
    /\ call' \in Answers(c, Done(c, Absent, 0))
    /\ UNCHANGED now

\* The whole store: the map of Memory, the database of Redis (FLUSHDB).
Clear(c) ==
    /\ call[c].at = "clear"
    /\ map' = [k \in FullKey |-> NoEntry]
    /\ call' \in Answers(c, Done(c, Absent, 0))
    /\ UNCHANGED now

ContainsKey(c) ==
    /\ call[c].at = "contains_key"
    /\ map' = Touched(call[c].key)
    /\ call' = Done(c, Absent, IF Live(call[c].key) THEN 1 ELSE 0)
    /\ UNCHANGED now

\* map.len() or DBSIZE: everything held, expired or not, under any prefix.
ApproxSize(c) ==
    /\ call[c].at = "approx_size"
    /\ call' = Done(c, Absent, Cardinality(Held))
    /\ UNCHANGED <<map, now>>

\* The closure fails, the caller drops the call, or Redis cannot be reached.
Break(c) ==
    /\ Running(c)
    /\ call' = Failed(c)
    /\ UNCHANGED <<map, now>>

Return(c) ==
    /\ call[c].at \in {"done", "failed"}
    /\ call' = [call EXCEPT ![c] = Idle]
    /\ UNCHANGED <<map, now>>

Tick ==
    /\ now < MaxTime
    /\ now' = now + 1
    /\ UNCHANGED <<map, call>>

\* Redis drops a key whose time is over, read or not.
Lapse ==
    /\ kind = "redis"
    /\ \E k \in Held : ~Live(k) /\ map' = [map EXCEPT ![k] = NoEntry]
    /\ UNCHANGED <<now, call>>

Next ==
    /\ \/ \E c \in Handle :
            \/ Invoke(c) \/ Lookup(c) \/ Store(c) \/ Refuse(c) \/ Remove(c)
            \/ Clear(c) \/ ContainsKey(c) \/ ApproxSize(c) \/ Break(c) \/ Return(c)
       \/ Tick
       \/ Lapse
    /\ UNCHANGED <<kind, prefix>>

Spec == Init /\ [][Next]_vars

-----------------------------------------------------------------------------
(* Properties                                                              *)

\* A running call knows its key, which is under its prefix; what Memory keeps
\* never makes is_expired panic: it is no After.
TypeOK ==
    /\ kind \in {"memory", "redis"}
    /\ prefix \in [Handle -> Prefixes]
    /\ map \in [FullKey -> [value : Data \union {Absent}, due : Int \union {Forever},
                            timeout : [kind : {"never", "at"}, ticks : Int]]]
    /\ now \in 0 .. MaxTime
    /\ call \in [Handle -> [at : {"idle", "lookup", "insert", "remove", "clear",
                                  "contains_key", "approx_size", "done", "failed"},
                            op : DOMAIN Start \union {"none"},
                            key : FullKey \union {Absent}, value : Data \union {Absent},
                            timeout : Timeout \union {Absent},
                            result : Decodable \union {Absent}, count : Nat]]
    /\ \A c \in Handle :
        /\ call[c].at \in {"lookup", "insert", "remove", "contains_key"}
              => \E k \in Key : call[c].key = FormatKey(prefix[c], k)
        /\ call[c].at = "clear" => call[c].op = "clear"
        /\ call[c].at = "insert" \/ (call[c].at = "lookup" /\ call[c].op # "get")
              => call[c].timeout \in Timeout
        /\ call[c].op = "insert" => call[c].value \in Data

\* The abstract cache hides how far a call has come and what is expired.
AbstractCall(c) ==
    [call[c] EXCEPT !.at = IF @ \in {"idle", "done", "failed"} THEN @ ELSE "pending"]

Map == INSTANCE CacheMap
         WITH entry <- [k \in FullKey |->
                            IF Live(k) THEN [value |-> map[k].value, due |-> map[k].due]
                            ELSE [value |-> Absent, due |-> Forever]],
              call  <- [c \in Handle |-> AbstractCall(c)]

\* No reader of either store is shown an entry when the time it was inserted
\* for is over, and what it is shown is what was stored last: the calls of all
\* handles, closures and lost connections included, do what CacheMap allows.
ImplementsCache == Map!Spec

\* Two prefixes of which neither begins with the other: "v1" and "v2", but
\* not "v1" and "v1:beta".
Unrelated(p, q) ==
    /\ p # NoPrefix /\ q # NoPrefix
    /\ \E i \in 1 .. Len(p) : i <= Len(q) /\ p[i] # q[i]

\* What a step of handle c leaves alone in the caches of unrelated prefixes.
Spares(c) ==
    \A q \in Prefixes, k \in Key :
        Unrelated(prefix[c], q) => map'[FormatKey(q, k)] = map[FormatKey(q, k)]

\* A call changes nothing under a prefix that is not related to its own, only
\* clear does.
PrefixesApart ==
    [][\A c \in Handle : call'[c] # call[c] /\ call[c].op # "clear" => Spares(c)]_vars

=============================================================================
