----------------------------- MODULE Cache_proofs -----------------------------
(***************************************************************************)
(* Proofs about Cache, for any handles, prefixes, keys, values, timeouts   *)
(* and bounds.                                                             *)
(***************************************************************************)
EXTENDS Cache, FiniteSetTheorems, TLAPS

CallType ==
    [at : {"idle", "lookup", "insert", "remove", "clear", "contains_key", "approx_size",
           "done", "failed"},
     op : DOMAIN Start \union {"none"}, key : FullKey \union {Absent},
     value : Data \union {Absent}, timeout : Timeout \union {Absent},
     result : Decodable \union {Absent}, count : Nat]

EntryType == [value : Data \union {Absent}, due : Int \union {Forever},
              timeout : [kind : {"never", "at"}, ticks : Int]]

\* The second half of TypeOK, for one handle.
CallInv(c) ==
    /\ call[c].at \in {"lookup", "insert", "remove", "contains_key"}
          => \E k \in Key : call[c].key = FormatKey(prefix[c], k)
    /\ call[c].at = "clear" => call[c].op = "clear"
    /\ call[c].at = "insert" \/ (call[c].at = "lookup" /\ call[c].op # "get")
          => call[c].timeout \in Timeout
    /\ call[c].op = "insert" => call[c].value \in Data

\* The operations.
Op == {"get", "get_or_insert_with", "insert", "insert_with", "remove", "clear",
       "contains_key", "approx_size"}

LEMMA Operations == DOMAIN Start = Op
BY DEF Start, Op

-----------------------------------------------------------------------------
(* What a step leaves of the state                                         *)

LEMMA ReplyType ==
    ASSUME TypeOK, NEW c \in Handle, NEW v \in Decodable \union {Absent}, NEW n \in Nat
    PROVE  /\ Done(c, v, n) \in [Handle -> CallType] /\ Failed(c) \in [Handle -> CallType]
           /\ Done(c, v, n)[c].at = "done" /\ Done(c, v, n)[c].op = "none"
           /\ Failed(c)[c].at = "failed" /\ Failed(c)[c].op = "none"
           /\ \A d \in Handle : d # c => Done(c, v, n)[d] = call[d] /\ Failed(c)[d] = call[d]
BY DEF TypeOK, CallType, Done, Failed, Idle

\* Calls that are over satisfy CallInv, whatever the rest of the state.
LEMMA CallEnds ==
    ASSUME TypeOK, NEW c \in Handle, NEW v \in Decodable \union {Absent}, NEW n \in Nat,
           call' \in {Done(c, v, n), Failed(c)}, UNCHANGED prefix
    PROVE  /\ call' \in [Handle -> CallType]
           /\ \A d \in Handle : CallInv(d)'
<1>1. /\ call' \in [Handle -> CallType]
      /\ call'[c].at \in {"done", "failed"} /\ call'[c].op = "none"
      /\ \A d \in Handle : d # c => call'[d] = call[d]
  <2>1. CASE call' = Done(c, v, n)
    BY <2>1, ReplyType
  <2>2. CASE call' = Failed(c)
    BY <2>2, ReplyType
  <2>. QED BY <2>1, <2>2
<1>2. \A d \in Handle : CallInv(d)
  BY DEF TypeOK, CallInv
<1>3. ASSUME NEW d \in Handle PROVE CallInv(d)'
  <2>1. CASE d = c
    BY <1>1, <2>1 DEF CallInv
  <2>2. CASE d # c
    <3>1. call'[d] = call[d] /\ prefix' = prefix
      BY <1>1, <2>2
    <3>. QED BY <1>2, <3>1 DEF CallInv
  <2>. QED BY <2>1, <2>2
<1>. QED BY <1>1, <1>3

LEMMA Reachable ==
    ASSUME TypeOK, NEW c \in Handle,
           call[c].at \in {"lookup", "insert", "remove", "contains_key"}
    PROVE  call[c].key \in FullKey
BY DEF TypeOK, FullKey

LEMMA EmptyEntry == NoEntry \in EntryType
BY DEF NoEntry, EntryType, Never

LEMMA TouchedType == ASSUME TypeOK, NEW k \in FullKey PROVE Touched(k) \in [FullKey -> EntryType]
BY EmptyEntry DEF TypeOK, EntryType, Touched

LEMMA SecondsType == ASSUME NEW t \in Timeout PROVE Seconds(t) \in Int
<1>1. t.ticks \in Int /\ Second \in Nat \ {0}
  BY TimeoutAssumption, TimeAssumption
<1>2. t.ticks \div Second \in Int
  BY <1>1
<1>. QED BY <1>2 DEF Seconds

\* Both stores keep a moment or no limit, never a duration.
LEMMA KeptType ==
    ASSUME TypeOK, NEW t \in Timeout
    PROVE  /\ Canonicalize(t) \in [kind : {"never", "at"}, ticks : Int]
           /\ RedisTimeout(t) \in [kind : {"never", "at"}, ticks : Int]
           /\ Due(t) \in Int \union {Forever}
<1>1. /\ t \in [kind : {"never", "after", "at"}, ticks : Int]
      /\ now \in Int /\ Second \in Nat \ {0}
  BY TimeoutAssumption, TimeAssumption DEF TypeOK
<1>2. Seconds(t) * Second \in Int
  BY <1>1, SecondsType
<1>3. Canonicalize(t) \in [kind : {"never", "at"}, ticks : Int]
  BY <1>1 DEF Canonicalize, At
<1>4. RedisTimeout(t) \in [kind : {"never", "at"}, ticks : Int]
  BY <1>1, <1>2 DEF RedisTimeout, At, Never
<1>5. Due(t) \in Int \union {Forever}
  BY <1>1 DEF Due
<1>. QED BY <1>3, <1>4, <1>5

\* An insert changes one key.
LEMMA InsertType ==
    ASSUME TypeOK, NEW k \in FullKey, NEW v \in Data, NEW t \in Timeout, Insert(k, v, t)
    PROVE  /\ map' \in [FullKey -> EntryType]
           /\ \A j \in FullKey : j # k => map'[j] = map[j]
<1>1. PICK kept \in [kind : {"never", "at"}, ticks : Int] :
           map' = [map EXCEPT ![k] = Entry(v, kept, t)]
  BY KeptType DEF Insert, MemoryInsert, RedisInsert
<1>2. Entry(v, kept, t) \in EntryType
  BY KeptType DEF Entry, EntryType
<1>. QED BY <1>1, <1>2 DEF TypeOK, EntryType

-----------------------------------------------------------------------------
LEMMA TypeInit == Init => TypeOK
<1>. SUFFICES ASSUME Init PROVE TypeOK
  OBVIOUS
<1>1. map \in [FullKey -> EntryType]
  BY EmptyEntry DEF Init
<1>2. call \in [Handle -> CallType]
  BY DEF Init, Idle, CallType
<1>3. now \in 0 .. MaxTime
  BY TimeAssumption DEF Init
<1>. QED BY <1>1, <1>2, <1>3 DEF Init, TypeOK, CallType, EntryType, Idle

\* A step that ends call c and leaves the rest well typed.
LEMMA EndStep ==
    ASSUME TypeOK, NEW c \in Handle, NEW v \in Decodable \union {Absent}, NEW n \in Nat,
           call' \in {Done(c, v, n), Failed(c)}, UNCHANGED <<kind, prefix, now>>,
           map' \in [FullKey -> EntryType]
    PROVE  TypeOK'
<1>1. call' \in [Handle -> CallType] /\ \A d \in Handle : CallInv(d)'
  BY CallEnds
<1>2. /\ kind' \in {"memory", "redis"} /\ prefix' \in [Handle -> Prefixes]
      /\ now' \in 0 .. MaxTime
  BY DEF TypeOK
<1>. QED BY <1>1, <1>2 DEF TypeOK, CallType, EntryType, CallInv

LEMMA TypeStep == TypeOK /\ IsFiniteSet(Held) /\ [Next]_vars => TypeOK'
<1>. SUFFICES ASSUME TypeOK, IsFiniteSet(Held), [Next]_vars PROVE TypeOK'
  OBVIOUS
<1>0. map \in [FullKey -> EntryType] /\ \A c \in Handle : call[c] \in CallType
  BY DEF TypeOK, EntryType, CallType
<1>1. CASE UNCHANGED vars
  BY <1>1 DEF vars, TypeOK
<1>. SUFFICES ASSUME Next PROVE TypeOK'
  BY <1>1
<1>u. UNCHANGED <<kind, prefix>>
  BY DEF Next
<1>2. ASSUME NEW c \in Handle, Invoke(c) PROVE TypeOK'
  <2>1. PICK op \in Op, k \in Key, v \in Data, t \in Timeout :
             call' = [call EXCEPT ![c] = Invoked(c, op, k, v, t)]
    BY <1>2, Operations DEF Invoke
  <2>2. FormatKey(prefix[c], k) \in FullKey
    BY DEF TypeOK, FullKey
  <2>3. Start[op] \in {"lookup", "insert", "remove", "clear", "contains_key", "approx_size"}
    BY DEF Start, Op
  <2>4. Invoked(c, op, k, v, t) \in CallType
    BY <2>2, <2>3, Operations, DataAssumption DEF Invoked, Idle, CallType
  <2>5. call' \in [Handle -> CallType]
    BY <2>1, <2>4 DEF TypeOK, CallType
  <2>6. ASSUME NEW d \in Handle PROVE CallInv(d)'
    <3>1. CASE d # c
      BY <1>u, <2>1, <3>1 DEF TypeOK, CallInv
    <3>2. CASE d = c
      <4>1. call'[c] = Invoked(c, op, k, v, t)
        BY <2>1 DEF TypeOK
      <4>2. /\ call'[c].at = Start[op] /\ call'[c].op = op
            /\ call'[c].key = IF op \in {"clear", "approx_size"} THEN Absent
                              ELSE FormatKey(prefix[c], k)
            /\ call'[c].value = IF op = "insert" THEN v ELSE Absent
            /\ call'[c].timeout = IF op \in Writers THEN t ELSE Absent
        BY <4>1 DEF Invoked, Idle
      <4>3. /\ Start[op] \in {"lookup", "insert", "remove", "contains_key"}
                  => op \notin {"clear", "approx_size"}
            /\ Start[op] = "clear" => op = "clear"
            /\ Start[op] = "insert" \/ (Start[op] = "lookup" /\ op # "get") => op \in Writers
        BY DEF Start, Op, Writers
      <4>. QED BY <1>u, <3>2, <4>2, <4>3 DEF CallInv
    <3>. QED BY <3>1, <3>2
  <2>. QED BY <1>2, <1>u, <2>5, <2>6 DEF Invoke, TypeOK, CallInv, CallType
<1>3. ASSUME NEW c \in Handle, Lookup(c) PROVE TypeOK'
  <2>. DEFINE k == call[c].key
              v == IF Live(k) THEN map[k].value ELSE Absent
  <2>1. k \in FullKey
    BY <1>3, Reachable DEF Lookup
  <2>2. map' \in [FullKey -> EntryType] /\ now' = now
    BY <1>3, <2>1, TouchedType DEF Lookup
  <2>3. CASE call' = To(c, "insert") /\ call[c].op # "get"
    <3>1. call[c].at = "lookup" /\ call[c].timeout \in Timeout
      BY <1>3, <2>3 DEF Lookup, TypeOK
    <3>2. /\ call' \in [Handle -> CallType]
          /\ call'[c] = [call[c] EXCEPT !.at = "insert"]
          /\ \A d \in Handle : d # c => call'[d] = call[d]
      BY <2>3 DEF To, TypeOK, CallType
    <3>3. ASSUME NEW d \in Handle PROVE CallInv(d)'
      BY <1>u, <3>1, <3>2 DEF TypeOK, CallInv
    <3>. QED BY <1>u, <2>2, <3>2, <3>3 DEF TypeOK, CallInv, CallType, EntryType
  <2>4. CASE v \in Decodable \union {Absent} /\ call' = Done(c, v, 0)
    BY <1>u, <2>2, <2>4, EndStep
  <2>5. CASE call' = Failed(c)
    <3>1. call' \in {Done(c, Absent, 0), Failed(c)}
      BY <2>5
    <3>. QED BY <1>u, <2>2, <3>1, EndStep
  <2>. QED BY <1>3, <2>3, <2>4, <2>5 DEF Lookup
<1>4. ASSUME NEW c \in Handle, Store(c) PROVE TypeOK'
  <2>1. call[c].key \in FullKey
    BY <1>4, Reachable DEF Store
  <2>2. PICK v \in Data :
          /\ call[c].op # "insert" => v \in Decodable
          /\ Insert(call[c].key, v, call[c].timeout)
          /\ call' \in Answers(c, Done(c, IF call[c].op = "get_or_insert_with" THEN v
                                          ELSE Absent, 0))
    BY <1>4, DataAssumption DEF Store, TypeOK
  <2>3. call[c].timeout \in Timeout
    BY <1>4 DEF Store, TypeOK
  <2>4. map' \in [FullKey -> EntryType]
    BY <2>1, <2>2, <2>3, InsertType
  <2>. DEFINE w == IF call[c].op = "get_or_insert_with" THEN v ELSE Absent
  <2>5. w \in Decodable \union {Absent} /\ call' \in {Done(c, w, 0), Failed(c)}
    BY <2>2 DEF Answers
  <2>6. now' = now
    BY <1>4 DEF Store
  <2>. HIDE DEF w
  <2>. QED BY <1>u, <2>4, <2>5, <2>6, EndStep
<1>5. ASSUME NEW c \in Handle, Refuse(c) PROVE TypeOK'
  BY <1>0, <1>5, <1>u, EndStep DEF Refuse
<1>6. ASSUME NEW c \in Handle, Remove(c) PROVE TypeOK'
  <2>1. map' \in [FullKey -> EntryType]
    BY <1>0, <1>6, EmptyEntry, Reachable DEF Remove
  <2>2. call' \in {Done(c, Absent, 0), Failed(c)} /\ now' = now
    BY <1>6 DEF Remove, Answers
  <2>. QED BY <1>u, <2>1, <2>2, EndStep
<1>7. ASSUME NEW c \in Handle, Clear(c) PROVE TypeOK'
  <2>1. map' \in [FullKey -> EntryType]
    BY <1>7, EmptyEntry DEF Clear
  <2>2. call' \in {Done(c, Absent, 0), Failed(c)} /\ now' = now
    BY <1>7 DEF Clear, Answers
  <2>. QED BY <1>u, <2>1, <2>2, EndStep
<1>8. ASSUME NEW c \in Handle, ContainsKey(c) PROVE TypeOK'
  <2>1. map' \in [FullKey -> EntryType]
    BY <1>8, Reachable, TouchedType DEF ContainsKey
  <2>. DEFINE n == IF Live(call[c].key) THEN 1 ELSE 0
  <2>2. n \in Nat /\ call' \in {Done(c, Absent, n), Failed(c)} /\ now' = now
    BY <1>8 DEF ContainsKey
  <2>. HIDE DEF n
  <2>. QED BY <1>u, <2>1, <2>2, EndStep
<1>9. ASSUME NEW c \in Handle, ApproxSize(c) PROVE TypeOK'
  <2>. DEFINE n == Cardinality(Held)
  <2>1. n \in Nat
    BY FS_CardinalityType
  <2>2. call' \in {Done(c, Absent, n), Failed(c)} /\ map' = map /\ now' = now
    BY <1>9 DEF ApproxSize
  <2>. HIDE DEF n
  <2>. QED BY <1>0, <1>u, <2>1, <2>2, EndStep
<1>10. ASSUME NEW c \in Handle, Break(c) PROVE TypeOK'
  BY <1>0, <1>10, <1>u, EndStep DEF Break
<1>11. ASSUME NEW c \in Handle, Return(c) PROVE TypeOK'
  <2>1. /\ call' \in [Handle -> CallType] /\ call'[c] = Idle
        /\ \A d \in Handle : d # c => call'[d] = call[d]
    BY <1>11 DEF Return, TypeOK, CallType, Idle
  <2>2. ASSUME NEW d \in Handle PROVE CallInv(d)'
    BY <1>u, <2>1 DEF TypeOK, CallInv, Idle
  <2>. QED BY <1>11, <1>u, <2>1, <2>2 DEF Return, TypeOK, CallInv, CallType
<1>12. CASE Tick
  BY <1>12, <1>u, TimeAssumption DEF Tick, TypeOK
<1>13. CASE Lapse
  <2>1. map' \in [FullKey -> EntryType]
    BY <1>0, <1>13, EmptyEntry DEF Lapse, Held
  <2>. QED BY <1>13, <1>u, <2>1 DEF Lapse, TypeOK, EntryType
<1>. QED
  BY <1>2, <1>3, <1>4, <1>5, <1>6, <1>7, <1>8, <1>9, <1>10, <1>11, <1>12, <1>13 DEF Next

\* A step adds at most one key to the store.
LEMMA HeldGrows ==
    ASSUME TypeOK, [Next]_vars
    PROVE  \E k : Held' \subseteq Held \union {k}
<1>. USE DEF Held
<1>t. map \in [FullKey -> EntryType]
  BY DEF TypeOK, EntryType
<1>1. CASE map' = map
  BY <1>1
<1>2. ASSUME NEW c \in Handle, Lookup(c) \/ Remove(c) \/ Clear(c) \/ ContainsKey(c) \/ Lapse
      PROVE  Held' \subseteq Held
  BY <1>2, <1>t DEF Lookup, Remove, Clear, ContainsKey, Lapse, Touched
<1>3. ASSUME NEW c \in Handle, Store(c) PROVE Held' \subseteq Held \union {call[c].key}
  <2>1. PICK v \in Data : Insert(call[c].key, v, call[c].timeout)
    BY <1>3, DataAssumption DEF Store, TypeOK
  <2>2. call[c].key \in FullKey /\ call[c].timeout \in Timeout
    BY <1>3, Reachable DEF Store, TypeOK
  <2>. QED BY <2>1, <2>2, InsertType
<1>4. CASE Lapse
  BY <1>4, <1>t DEF Lapse
<1>. QED
  BY <1>1, <1>2, <1>3, <1>4
  DEF Next, vars, Invoke, Refuse, ApproxSize, Break, Return, Tick

LEMMA HeldFinite == TypeOK /\ IsFiniteSet(Held) /\ [Next]_vars => IsFiniteSet(Held)'
<1>. SUFFICES ASSUME TypeOK, IsFiniteSet(Held), [Next]_vars PROVE IsFiniteSet(Held')
  OBVIOUS
<1>1. PICK k : Held' \subseteq Held \union {k}
  BY HeldGrows
<1>. QED BY <1>1, FS_AddElement, FS_Subset

LEMMA HeldInit == Init => IsFiniteSet(Held)
BY FS_EmptySet DEF Init, Held

\* The state keeps its shape; in particular is_expired never sees an After.
THEOREM TypeCorrect == Spec => []TypeOK
<1>1. TypeOK /\ IsFiniteSet(Held) /\ [Next]_vars => (TypeOK /\ IsFiniteSet(Held))'
  BY TypeStep, HeldFinite
<1>. QED BY <1>1, TypeInit, HeldInit, PTL DEF Spec

-----------------------------------------------------------------------------
(* Prefixes                                                                *)

\* Keys under unrelated prefixes differ, however many colons they contain.
LEMMA KeysApart ==
    ASSUME NEW p \in Prefixes, NEW q \in Prefixes, NEW k \in Key, NEW l \in Key,
           Unrelated(p, q)
    PROVE  FormatKey(p, k) # FormatKey(q, l)
<1>1. p \in Seq(STRING) /\ q \in Seq(STRING) /\ k \in Seq(STRING) /\ l \in Seq(STRING)
  BY PrefixAssumption, KeyAssumption DEF Unrelated
<1>2. PICK i \in 1 .. Len(p) : i <= Len(q) /\ p[i] # q[i]
  BY DEF Unrelated
<1>3. (p \o k)[i] = p[i] /\ (q \o l)[i] = q[i]
  BY <1>1, <1>2
<1>. QED BY <1>2, <1>3 DEF FormatKey, Unrelated

\* A call that is not clear changes its own key and nothing else.
LEMMA ChangesOwnKey ==
    ASSUME TypeOK, [Next]_vars, NEW c \in Handle, call'[c] # call[c],
           call[c].op # "clear", NEW j \in FullKey, map'[j] # map[j]
    PROVE  \E k \in Key : j = FormatKey(prefix[c], k)
<1>1. PICK d \in Handle :
        \/ Invoke(d) \/ Lookup(d) \/ Store(d) \/ Refuse(d) \/ Remove(d) \/ Clear(d)
        \/ ContainsKey(d) \/ ApproxSize(d) \/ Break(d) \/ Return(d)
  BY DEF Next, vars, Tick, Lapse
<1>2. d = c
  <2>1. SUFFICES ASSUME d # c PROVE call'[c] = call[c]
    OBVIOUS
  <2>2. ASSUME NEW v, NEW n PROVE Done(d, v, n)[c] = call[c] /\ Failed(d)[c] = call[c]
    BY <2>1 DEF Done, Failed, TypeOK
  <2>3. To(d, "insert")[c] = call[c]
    BY <2>1 DEF To, TypeOK
  <2>. QED BY <1>1, <2>1, <2>2, <2>3
    DEF Invoke, Lookup, Store, Refuse, Remove, Clear, ContainsKey, ApproxSize, Break, Return,
        Answers, TypeOK
<1>3. ~Clear(c)
  BY DEF Clear, TypeOK
<1>4. /\ j = call[c].key
      /\ call[c].at \in {"lookup", "insert", "remove", "contains_key"}
  <2>1. CASE Lookup(c) \/ Remove(c) \/ ContainsKey(c)
    BY <2>1 DEF Lookup, Remove, ContainsKey, Touched, TypeOK
  <2>2. CASE Store(c)
    <3>1. PICK v \in Data : Insert(call[c].key, v, call[c].timeout)
      BY <2>2, DataAssumption DEF Store, TypeOK
    <3>2. call[c].at = "insert" /\ call[c].key \in FullKey /\ call[c].timeout \in Timeout
      BY <2>2, Reachable DEF Store, TypeOK
    <3>. QED BY <3>1, <3>2, InsertType
  <2>. QED BY <1>1, <1>2, <1>3, <2>1, <2>2
    DEF Invoke, Refuse, ApproxSize, Break, Return
<1>. QED BY <1>4 DEF TypeOK

\* With any prefixes and keys: no call but clear changes a key under a prefix
\* that is unrelated to the caller's.
THEOREM CachesStayApart == Spec => PrefixesApart
<1>1. ASSUME TypeOK, [Next]_vars, NEW c \in Handle, call'[c] # call[c], call[c].op # "clear"
      PROVE  Spares(c)
  <2>. SUFFICES ASSUME NEW q \in Prefixes, NEW l \in Key, Unrelated(prefix[c], q),
                       map'[FormatKey(q, l)] # map[FormatKey(q, l)]
                PROVE  FALSE
    BY DEF Spares
  <2>1. FormatKey(q, l) \in FullKey
    BY DEF FullKey
  <2>2. PICK k \in Key : FormatKey(q, l) = FormatKey(prefix[c], k)
    BY <1>1, <2>1, ChangesOwnKey
  <2>. QED BY <1>1, <2>2, KeysApart DEF TypeOK
<1>2. TypeOK /\ [Next]_vars
        => [\A c \in Handle : call'[c] # call[c] /\ call[c].op # "clear" => Spares(c)]_vars
  BY <1>1
<1>. QED BY <1>2, TypeCorrect, PTL DEF Spec, PrefixesApart

-----------------------------------------------------------------------------
(* The cache implements CacheMap                                           *)

\* Where a call is tells what it is for.
OpInv(c) ==
    /\ call[c].at = "idle" => call[c] = Idle
    /\ Running(c) => /\ call[c].op \in Op
                     /\ \/ call[c].at = Start[call[c].op]
                        \/ call[c].op = "get_or_insert_with" /\ call[c].at = "insert"
                     /\ call[c].result = Absent /\ call[c].count = 0

\* What a store keeps is over when the time asked for is, or earlier.
EntryInv(k) ==
    map[k] # NoEntry =>
        /\ map[k].value \in Data
        /\ map[k].due # Forever => map[k].timeout.kind = "at" /\ map[k].timeout.ticks <= map[k].due

RefInv == /\ TypeOK /\ IsFiniteSet(Held)
          /\ \A c \in Handle : OpInv(c)
          /\ \A k \in FullKey : EntryInv(k)

\* No date is before 1970: Redis would be given its distance from 1970 as one
\* after it.
DatesSinceEpoch == \A t \in Timeout : t.kind = "at" => t.ticks \in Nat

\* Whole seconds, rounded down, are no more than the time asked for.
LEMMA SecondsBelow ==
    ASSUME NEW n \in Nat, NEW t, t.ticks = n
    PROVE  Seconds(t) * Second \in Nat /\ Seconds(t) * Second <= n
<1>1. Second \in Nat \ {0}
  BY TimeAssumption
<1>2. /\ n \div Second \in Nat
      /\ n = Second * (n \div Second) + (n % Second) /\ n % Second \in 0 .. (Second - 1)
  BY <1>1
<1>3. Seconds(t) = n \div Second
  BY <1>2 DEF Seconds
<1>. QED BY <1>1, <1>2, <1>3

LEMMA KeptBelowDue ==
    ASSUME TypeOK, DatesSinceEpoch, NEW t \in Timeout, Due(t) # Forever,
           NEW kept \in {Canonicalize(t), RedisTimeout(t)}
    PROVE  kept.kind = "at" /\ kept.ticks <= Due(t)
<1>1. /\ t \in [kind : {"never", "after", "at"}, ticks : Int]
      /\ now \in Nat /\ MaxDuration \in Nat
      /\ t.kind # "never"
  BY TimeoutAssumption, TimeAssumption DEF TypeOK, Due
<1>2. t.ticks \in Nat
  BY <1>1, TimeoutAssumption DEF DatesSinceEpoch
<1>3. Seconds(t) * Second \in Nat /\ Seconds(t) * Second <= t.ticks
  BY <1>2, SecondsBelow
<1>4. CASE kept = Canonicalize(t)
  BY <1>1, <1>2, <1>4 DEF Canonicalize, At, Due
<1>5. CASE kept = RedisTimeout(t)
  BY <1>1, <1>2, <1>3, <1>5 DEF RedisTimeout, At, Due
<1>. QED BY <1>4, <1>5

\* An insert stores an entry that is in order.
LEMMA InsertEntry ==
    ASSUME TypeOK, DatesSinceEpoch, NEW k \in FullKey, NEW v \in Data, NEW t \in Timeout,
           Insert(k, v, t)
    PROVE  EntryInv(k)' /\ map'[k].value = v /\ map'[k].due = Due(t)
<1>1. PICK kept \in {Canonicalize(t), RedisTimeout(t)} :
           map' = [map EXCEPT ![k] = Entry(v, kept, t)]
  BY DEF Insert, MemoryInsert, RedisInsert
<1>2. map'[k] = Entry(v, kept, t)
  BY <1>1 DEF TypeOK
<1>3. Due(t) # Forever => kept.kind = "at" /\ kept.ticks <= Due(t)
  BY KeptBelowDue
<1>. QED BY <1>2, <1>3 DEF Entry, EntryInv

LEMMA RefInit == Init => RefInv
<1>. SUFFICES ASSUME Init PROVE RefInv
  OBVIOUS
<1>. QED BY TypeInit, HeldInit DEF Init, RefInv, OpInv, EntryInv, Idle, Running

\* A call that is over is in order.
LEMMA OpEnds ==
    ASSUME TypeOK, \A d \in Handle : OpInv(d), NEW c \in Handle,
           NEW v \in Decodable \union {Absent}, NEW n \in Nat, call' \in {Done(c, v, n), Failed(c)}
    PROVE  \A d \in Handle : OpInv(d)'
<1>1. /\ call'[c].at \in {"done", "failed"}
      /\ \A d \in Handle : d # c => call'[d] = call[d]
  <2>1. CASE call' = Done(c, v, n)
    BY <2>1, ReplyType
  <2>2. CASE call' = Failed(c)
    BY <2>2, ReplyType
  <2>. QED BY <2>1, <2>2
<1>. QED BY <1>1 DEF OpInv, Running

\* Entries that stay or go are in order.
LEMMA EntriesKept ==
    ASSUME \A k \in FullKey : EntryInv(k), \A k \in FullKey : map'[k] \in {map[k], NoEntry}
    PROVE  \A k \in FullKey : EntryInv(k)'
BY DEF EntryInv

LEMMA OpStep == RefInv /\ [Next]_vars => \A c \in Handle : OpInv(c)'
<1>. SUFFICES ASSUME RefInv, [Next]_vars PROVE \A c \in Handle : OpInv(c)'
  OBVIOUS
<1>. USE DEF RefInv
<1>1. CASE UNCHANGED call
  BY <1>1 DEF OpInv, Running
<1>2. ASSUME NEW c \in Handle, Invoke(c) PROVE \A d \in Handle : OpInv(d)'
  <2>1. PICK op \in Op, k \in Key, v \in Data, t \in Timeout :
             call' = [call EXCEPT ![c] = Invoked(c, op, k, v, t)]
    BY <1>2, Operations DEF Invoke
  <2>2. call'[c] = Invoked(c, op, k, v, t) /\ \A d \in Handle : d # c => call'[d] = call[d]
    BY <2>1 DEF TypeOK
  <2>3. /\ call'[c].at = Start[op] /\ call'[c].op = op
        /\ call'[c].result = Absent /\ call'[c].count = 0
    BY <2>2 DEF Invoked, Idle
  <2>4. Start[op] # "idle"
    BY DEF Start, Op
  <2>. QED BY <2>2, <2>3, <2>4 DEF OpInv, Running
<1>3. ASSUME NEW c \in Handle, Lookup(c) PROVE \A d \in Handle : OpInv(d)'
  <2>1. CASE call' = To(c, "insert") /\ call[c].op # "get"
    <3>1. call[c].at = "lookup" /\ OpInv(c)
      BY <1>3 DEF Lookup
    <3>2. call[c].op = "get_or_insert_with"
      BY <2>1, <3>1 DEF OpInv, Running, Start, Op
    <3>3. /\ call'[c].at = "insert" /\ call'[c].op = call[c].op
          /\ call'[c].result = call[c].result /\ call'[c].count = call[c].count
          /\ \A d \in Handle : d # c => call'[d] = call[d]
      BY <2>1 DEF To, TypeOK
    <3>. QED BY <3>1, <3>2, <3>3 DEF OpInv, Running, Op
  <2>2. CASE \E v \in Decodable \union {Absent} : call' \in {Done(c, v, 0), Failed(c)}
    BY <2>2, OpEnds
  <2>. QED BY <1>3, <2>1, <2>2 DEF Lookup
<1>4. ASSUME NEW c \in Handle, Store(c) PROVE \A d \in Handle : OpInv(d)'
  <2>1. PICK v : /\ call[c].op # "insert" => v \in Decodable
                 /\ call' \in Answers(c, Done(c, IF call[c].op = "get_or_insert_with" THEN v
                                                 ELSE Absent, 0))
    BY <1>4 DEF Store
  <2>. DEFINE w == IF call[c].op = "get_or_insert_with" THEN v ELSE Absent
  <2>2. w \in Decodable \union {Absent} /\ call' \in {Done(c, w, 0), Failed(c)}
    BY <2>1 DEF Answers
  <2>. HIDE DEF w
  <2>. QED BY <2>2, OpEnds
<1>5. ASSUME NEW c \in Handle,
             Refuse(c) \/ Remove(c) \/ Clear(c) \/ ContainsKey(c) \/ ApproxSize(c) \/ Break(c)
      PROVE  \A d \in Handle : OpInv(d)'
  <2>1. Cardinality(Held) \in Nat
    BY FS_CardinalityType
  <2>2. \E n \in Nat : call' \in {Done(c, Absent, n), Failed(c)}
    BY <1>5, <2>1 DEF Refuse, Remove, Clear, ContainsKey, ApproxSize, Break, Answers
  <2>. QED BY <2>2, OpEnds
<1>6. ASSUME NEW c \in Handle, Return(c) PROVE \A d \in Handle : OpInv(d)'
  <2>1. call'[c] = Idle /\ \A d \in Handle : d # c => call'[d] = call[d]
    BY <1>6 DEF Return, TypeOK
  <2>. QED BY <2>1 DEF OpInv, Running, Idle
<1>. QED
  BY <1>1, <1>2, <1>3, <1>4, <1>5, <1>6 DEF Next, vars, Tick, Lapse

LEMMA EntryStep == RefInv /\ DatesSinceEpoch /\ [Next]_vars => \A k \in FullKey : EntryInv(k)'
<1>. SUFFICES ASSUME RefInv, DatesSinceEpoch, [Next]_vars PROVE \A k \in FullKey : EntryInv(k)'
  OBVIOUS
<1>. USE DEF RefInv
<1>1. CASE \A k \in FullKey : map'[k] \in {map[k], NoEntry}
  BY <1>1, EntriesKept
<1>2. ASSUME NEW c \in Handle, Lookup(c) \/ Remove(c) \/ Clear(c) \/ ContainsKey(c)
      PROVE  \A k \in FullKey : map'[k] \in {map[k], NoEntry}
  BY <1>2 DEF Lookup, Remove, Clear, ContainsKey, Touched, TypeOK
<1>3. ASSUME NEW c \in Handle, Store(c) PROVE \A k \in FullKey : EntryInv(k)'
  <2>1. PICK v \in Data : Insert(call[c].key, v, call[c].timeout)
    BY <1>3, DataAssumption DEF Store, TypeOK
  <2>2. call[c].key \in FullKey /\ call[c].timeout \in Timeout
    BY <1>3, Reachable DEF Store, TypeOK
  <2>. QED BY <2>1, <2>2, InsertType, InsertEntry DEF EntryInv
<1>4. ASSUME Lapse PROVE \A k \in FullKey : map'[k] \in {map[k], NoEntry}
  BY <1>4 DEF Lapse, TypeOK
<1>5. CASE UNCHANGED map
  BY <1>1, <1>5
<1>. QED
  BY <1>1, <1>2, <1>3, <1>4, <1>5 DEF Next, vars, Invoke, Refuse, ApproxSize, Break, Return, Tick

LEMMA RefStep == RefInv /\ DatesSinceEpoch /\ [Next]_vars => RefInv'
BY TypeStep, HeldFinite, OpStep, EntryStep DEF RefInv

-----------------------------------------------------------------------------
(* What the abstract cache shows of the state                              *)

Entries == [k \in FullKey |-> IF Live(k) THEN [value |-> map[k].value, due |-> map[k].due]
                              ELSE [value |-> Absent, due |-> Forever]]

Calls == [c \in Handle |-> AbstractCall(c)]

\* How the abstract cache shows a call that is recorded as `new`.
Shown(new) == [new EXCEPT !.at = IF @ \in {"idle", "done", "failed"} THEN @ ELSE "pending"]

LEMMA ShownReplaced ==
    ASSUME TypeOK, NEW c \in Handle, NEW new, Shown(new) = new, call' = [call EXCEPT ![c] = new]
    PROVE  Calls' = [Calls EXCEPT ![c] = new]
<1>1. \A d \in Handle : call'[d] = IF d = c THEN new ELSE call[d]
  BY DEF TypeOK
<1>2. /\ Calls = [d \in Handle |-> Shown(call[d])]
      /\ Calls' = [d \in Handle |-> Shown(call'[d])]
  BY DEF Calls, AbstractCall, Shown
<1>3. Calls' = [d \in Handle |-> IF d = c THEN new ELSE Shown(call[d])]
  BY <1>1, <1>2
<1>. QED BY <1>2, <1>3

\* The answers of the abstract cache are those of the calls.
LEMMA AbstractReplies ==
    ASSUME TypeOK, NEW c \in Handle, NEW v \in Decodable \union {Absent}, NEW n \in Nat
    PROVE  /\ call' = Done(c, v, n) => Calls' = Map!Done(c, v, n)
           /\ call' = Failed(c) => Calls' = Map!Failed(c)
<1>. DEFINE done   == [Idle EXCEPT !.at = "done", !.result = v, !.count = n]
            failed == [Idle EXCEPT !.at = "failed"]
<1>1. Shown(done) = done
  BY DEF Idle, Shown
<1>2. Shown(failed) = failed
  BY DEF Idle, Shown
<1>3. Done(c, v, n) = [call EXCEPT ![c] = done] /\ Failed(c) = [call EXCEPT ![c] = failed]
  BY DEF Done, Failed
<1>4. Map!Idle = Idle
  BY DEF Idle, Map!Idle
<1>5. /\ Map!Done(c, v, n) = [Calls EXCEPT ![c] = done]
      /\ Map!Failed(c) = [Calls EXCEPT ![c] = failed]
  BY <1>4 DEF Map!Done, Map!Failed, Calls
<1>. HIDE DEF done, failed
<1>. QED BY <1>1, <1>2, <1>3, <1>5, ShownReplaced

\* A running call is pending, with all it brings.
LEMMA AbstractPending ==
    ASSUME RefInv, NEW c \in Handle, Running(c)
    PROVE  /\ Calls[c].at = "pending" /\ Calls[c].op = call[c].op /\ Calls[c].key = call[c].key
           /\ Calls[c].value = call[c].value /\ Calls[c].timeout = call[c].timeout
<1>1. call[c] \in CallType
  BY DEF RefInv, TypeOK, CallType
<1>. QED BY <1>1 DEF Calls, AbstractCall, Running, CallType

\* An entry that is live is shown, and its time is not over.
LEMMA LiveShown ==
    ASSUME RefInv, NEW k \in FullKey
    PROVE  /\ Live(k) => /\ Entries[k] = [value |-> map[k].value, due |-> map[k].due]
                         /\ map[k].value \in Data
                         /\ Entries[k] # Map!NoEntry
                         /\ ~Map!Over(map[k].due, now)
           /\ ~Live(k) => Entries[k] = Map!NoEntry
<1>1. map[k] \in EntryType /\ EntryInv(k) /\ now \in Nat
  BY TimeAssumption DEF RefInv, TypeOK, EntryType
<1>2. CASE Live(k)
  <2>1. map[k].value \in Data /\ map[k].value # Absent
    BY <1>1, <1>2, DataAssumption DEF Live, EntryInv
  <2>2. ~Map!Over(map[k].due, now)
    BY <1>1, <1>2 DEF Live, EntryInv, IsExpired, Map!Over, EntryType
  <2>. QED BY <1>2, <2>1, <2>2 DEF Entries, Map!NoEntry
<1>3. CASE ~Live(k)
  BY <1>3 DEF Entries, Map!NoEntry
<1>. QED BY <1>2, <1>3

\* What is dropped because it is expired was not shown.
LEMMA TouchedShown ==
    ASSUME RefInv, NEW k \in FullKey, map' = Touched(k), UNCHANGED now
    PROVE  UNCHANGED Entries
<1>1. \A j \in FullKey : /\ Live(j)' <=> Live(j)
                         /\ Live(j) => map'[j] = map[j]
  BY DEF Touched, Live, IsExpired, RefInv, TypeOK, NoEntry
<1>. QED BY <1>1 DEF Entries

LEMMA AbstractInit == Init => Map!Init
<1>. SUFFICES ASSUME Init PROVE Map!Init
  OBVIOUS
<1>1. Entries = [k \in FullKey |-> Map!NoEntry]
  BY DEF Init, Entries, Live, Map!NoEntry
<1>2. Calls = [c \in Handle |-> Map!Idle]
  BY DEF Init, Calls, AbstractCall, Idle, Map!Idle
<1>. QED BY <1>1, <1>2 DEF Init, Map!Init, Entries, Calls

-----------------------------------------------------------------------------
(* The steps                                                               *)

LEMMA SimInvoke ==
    ASSUME RefInv, NEW c \in Handle, Invoke(c), UNCHANGED prefix
    PROVE  Map!Invoke(c)
<1>. USE DEF RefInv
<1>1. PICK op \in Op, k \in Key, v \in Data, t \in Timeout :
           call' = [call EXCEPT ![c] = Invoked(c, op, k, v, t)]
  BY Operations DEF Invoke
<1>2. /\ call'[c] = Invoked(c, op, k, v, t)
      /\ \A d \in Handle : d # c => call'[d] = call[d]
  BY <1>1 DEF TypeOK
<1>3. FormatKey(prefix[c], k) \in FullKey
  BY DEF TypeOK, FullKey
<1>4. Start[op] \notin {"idle", "done", "failed"}
  BY DEF Start, Op
<1>5. Calls'[c] = [Idle EXCEPT !.at = "pending", !.op = op,
                              !.key = IF op \in {"clear", "approx_size"} THEN Absent
                                      ELSE FormatKey(prefix[c], k),
                              !.value = IF op = "insert" THEN v ELSE Absent,
                              !.timeout = IF op \in Writers THEN t ELSE Absent]
  BY <1>2, <1>4 DEF Calls, AbstractCall, Invoked, Idle
<1>6. Calls'[c] \in Map!Invoked
  BY <1>3, <1>5 DEF Map!Invoked, Idle, Op, Map!Writers
<1>7. Calls' = [Calls EXCEPT ![c] = Calls'[c]]
  BY <1>2 DEF Calls, AbstractCall
<1>8. Calls[c] = Map!Idle
  BY DEF Invoke, OpInv, Calls, AbstractCall, Idle, Map!Idle
<1>9. UNCHANGED <<Entries, now>>
  BY DEF Invoke, Entries, Live, IsExpired
<1>. QED BY <1>6, <1>7, <1>8, <1>9 DEF Map!Invoke, Calls, Entries

LEMMA SimFail ==
    ASSUME RefInv, NEW c \in Handle, Running(c), call' = Failed(c), UNCHANGED <<Entries, now>>
    PROVE  Map!Fail(c)
<1>1. Calls' = Map!Failed(c)
  BY AbstractReplies DEF RefInv
<1>2. Calls[c].at = "pending"
  BY AbstractPending
<1>. QED BY <1>1, <1>2 DEF Map!Fail, Calls, Entries

\* A hit, or the miss of a get, is a Read; the miss of a get_or_insert is a
\* step of which the abstract cache sees nothing.
LEMMA SimLookup ==
    ASSUME RefInv, NEW c \in Handle, Lookup(c)
    PROVE  Map!Read(c) \/ Map!Fail(c) \/ UNCHANGED <<Entries, now, Calls>>
<1>k. PICK k \in FullKey : k = call[c].key
  BY Reachable DEF RefInv, Lookup
<1>. DEFINE v == IF Live(k) THEN map[k].value ELSE Absent
<1>1. /\ Running(c) /\ OpInv(c) /\ call[c].at = "lookup"
      /\ map' = Touched(k) /\ now' = now
  BY <1>k DEF RefInv, Lookup, Running
<1>2. call[c].op \in {"get", "get_or_insert_with"}
  BY <1>1 DEF OpInv, Start, Op
<1>3. UNCHANGED Entries
  BY <1>1, TouchedShown
<1>4. Entries[k].value = v
  <2>1. CASE Live(k)
    <3>1. v = map[k].value
      BY <2>1
    <3>2. Entries[k] = [value |-> map[k].value, due |-> map[k].due]
      BY <2>1, LiveShown
    <3>. QED BY <3>1, <3>2
  <2>2. CASE ~Live(k)
    <3>1. v = Absent
      BY <2>2
    <3>2. Entries[k] = Map!NoEntry
      BY <2>2, LiveShown
    <3>. QED BY <3>1, <3>2 DEF Map!NoEntry
  <2>. QED BY <2>1, <2>2
<1>5. /\ Calls[c].at = "pending" /\ Calls[c].op = call[c].op /\ Calls[c].key = k
  BY <1>k, <1>1, AbstractPending
<1>6. CASE call' = To(c, "insert")
  <2>1. \A d \in Handle : call'[d] = IF d = c THEN [call[c] EXCEPT !.at = "insert"] ELSE call[d]
    BY <1>6 DEF To, RefInv, TypeOK
  <2>2. call[c] \in CallType
    BY DEF RefInv, TypeOK, CallType
  <2>3. [call[c] EXCEPT !.at = "insert"].at = "insert"
    BY <2>2 DEF CallType
  <2>4. UNCHANGED Calls
    BY <1>1, <2>1, <2>2, <2>3 DEF Calls, AbstractCall, CallType
  <2>. QED BY <1>1, <1>3, <2>4
<1>7. CASE call' = Done(c, v, 0) /\ v \in Decodable \union {Absent} /\ (v = Absent => call[c].op = "get")
  <2>1. Calls' = Map!Done(c, v, 0)
    BY <1>7, AbstractReplies DEF RefInv
  <2>2. \/ Calls[c].op = "get" /\ v \in Decodable \union {Absent}
        \/ Calls[c].op = "get_or_insert_with" /\ v \in Decodable
    BY <1>2, <1>5, <1>7
  <2>3. Map!Read(c)
    BY <1>1, <1>3, <1>4, <1>5, <2>1, <2>2 DEF Map!Read, Map!Pending, Calls, Entries
  <2>. QED BY <2>3
<1>8. CASE call' = Failed(c)
  BY <1>1, <1>3, <1>8, SimFail
<1>. QED BY <1>k, <1>6, <1>7, <1>8 DEF Lookup

\* The entry that is inserted is shown, or is over already.
LEMMA SimStore ==
    ASSUME RefInv, RefInv', NEW c \in Handle, Store(c), DatesSinceEpoch
    PROVE  Map!Put(c)
<1>. DEFINE t == call[c].timeout
<1>k. PICK k \in FullKey : k = call[c].key
  BY Reachable DEF RefInv, Store
<1>1. /\ t \in Timeout /\ Running(c) /\ OpInv(c) /\ now' = now /\ TypeOK
      /\ call[c].at = "insert"
  BY DEF RefInv, Store, Running, TypeOK
<1>2. call[c].op \in Writers
  BY <1>1 DEF OpInv, Start, Op, Writers
<1>3. PICK v \in IF call[c].op = "insert" THEN {call[c].value} ELSE Decodable :
        /\ Insert(k, v, t)
        /\ call' \in Answers(c, Done(c, IF call[c].op = "get_or_insert_with" THEN v
                                        ELSE Absent, 0))
  BY <1>k DEF Store
<1>4. v \in Data
  BY <1>1, <1>3, DataAssumption DEF TypeOK
<1>5. /\ map'[k].value = v /\ map'[k].due = Due(t)
      /\ \A j \in FullKey : j # k => map'[j] = map[j]
  BY <1>1, <1>3, <1>4, InsertEntry, InsertType
<1>6. \A j \in FullKey : j # k => Entries'[j] = Entries[j]
  BY <1>1, <1>5 DEF Entries, Live, IsExpired
<1>7. Due(t) = Map!Due(t)
  BY DEF Due, Map!Due
<1>8. Entries'[k] \in Map!Written(v, Map!Due(t))
  <2>1. CASE Live(k)'
    <3>1. /\ map'[k] \in EntryType /\ EntryInv(k)' /\ now' \in Nat
      BY TimeAssumption DEF RefInv, TypeOK, EntryType
    <3>2. ~Map!Over(Due(t), now)
      BY <1>1, <1>5, <2>1, <3>1 DEF Live, EntryInv, IsExpired, Map!Over, EntryType
    <3>3. Entries'[k] = [value |-> v, due |-> Due(t)]
      BY <1>5, <2>1 DEF Entries
    <3>. QED BY <1>7, <3>2, <3>3 DEF Map!Written
  <2>2. CASE ~Live(k)'
    BY <2>2 DEF Entries, Map!Written, Map!NoEntry
  <2>. QED BY <2>1, <2>2
<1>9. Entries' = [Entries EXCEPT ![k] = Entries'[k]]
  BY <1>6 DEF Entries
<1>. DEFINE w == IF call[c].op = "get_or_insert_with" THEN v ELSE Absent
<1>10. w \in Decodable \union {Absent} /\ call' \in {Done(c, w, 0), Failed(c)}
  BY <1>3 DEF Answers
<1>11. Calls' \in {Map!Done(c, w, 0), Map!Failed(c)}
  BY <1>1, <1>10, AbstractReplies
<1>12. /\ Calls[c].at = "pending" /\ Calls[c].op = call[c].op /\ Calls[c].key = k
       /\ Calls[c].value = call[c].value /\ Calls[c].timeout = t
  BY <1>1, <1>k, AbstractPending
<1>13. Map!Pending(c, Map!Writers)
  BY <1>2, <1>12 DEF Map!Pending, Map!Writers, Writers, Calls
<1>14. /\ v \in IF Calls[c].op = "insert" THEN {Calls[c].value} ELSE Decodable
       /\ \E e \in Map!Written(v, Map!Due(Calls[c].timeout)) :
            Entries' = [Entries EXCEPT ![Calls[c].key] = e]
       /\ Calls' \in {Map!Done(c, IF Calls[c].op = "get_or_insert_with" THEN v ELSE Absent, 0),
                      Map!Failed(c)}
  BY <1>3, <1>8, <1>9, <1>11, <1>12
<1>. QED BY <1>1, <1>13, <1>14 DEF Map!Put, Calls, Entries

LEMMA SimRemove ==
    ASSUME RefInv, NEW c \in Handle, Remove(c)
    PROVE  Map!Remove(c)
<1>k. PICK k \in FullKey : k = call[c].key
  BY Reachable DEF RefInv, Remove
<1>1. /\ Running(c) /\ OpInv(c) /\ now' = now /\ call[c].at = "remove"
      /\ \A j \in FullKey : map'[j] = IF j = k THEN NoEntry ELSE map[j]
  BY <1>k DEF RefInv, Remove, Running, TypeOK
<1>2. call[c].op = "remove"
  BY <1>1 DEF OpInv, Start, Op
<1>3. Entries' = [Entries EXCEPT ![k] = Map!NoEntry]
  BY <1>1 DEF Entries, Live, IsExpired, Map!NoEntry
<1>4. Calls' \in {Map!Done(c, Absent, 0), Map!Failed(c)}
  BY AbstractReplies DEF RefInv, Remove, Answers
<1>5. Calls[c].at = "pending" /\ Calls[c].op = "remove" /\ Calls[c].key = k
  BY <1>1, <1>2, <1>k, AbstractPending
<1>. QED BY <1>1, <1>3, <1>4, <1>5 DEF Map!Remove, Map!Pending, Calls, Entries

LEMMA SimClear ==
    ASSUME RefInv, NEW c \in Handle, Clear(c)
    PROVE  Map!Clear(c)
<1>1. /\ Running(c) /\ OpInv(c) /\ now' = now /\ call[c].at = "clear"
      /\ \A j \in FullKey : map'[j] = NoEntry
  BY DEF RefInv, Clear, Running
<1>2. call[c].op = "clear"
  BY <1>1 DEF OpInv, Start, Op
<1>3. Entries' = [k \in FullKey |-> Map!NoEntry]
  BY <1>1 DEF Entries, Live, Map!NoEntry
<1>4. Calls' \in {Map!Done(c, Absent, 0), Map!Failed(c)}
  BY AbstractReplies DEF RefInv, Clear, Answers
<1>5. Calls[c].at = "pending" /\ Calls[c].op = "clear"
  BY <1>1, <1>2, AbstractPending
<1>. QED BY <1>1, <1>3, <1>4, <1>5 DEF Map!Clear, Map!Pending, Calls, Entries

LEMMA SimContainsKey ==
    ASSUME RefInv, NEW c \in Handle, ContainsKey(c)
    PROVE  Map!ContainsKey(c)
<1>k. PICK k \in FullKey : k = call[c].key
  BY Reachable DEF RefInv, ContainsKey
<1>1. /\ Running(c) /\ OpInv(c) /\ now' = now /\ call[c].at = "contains_key"
      /\ map' = Touched(k)
      /\ call' = Done(c, Absent, IF Live(k) THEN 1 ELSE 0)
  BY <1>k DEF RefInv, ContainsKey, Running
<1>2. call[c].op = "contains_key"
  BY <1>1 DEF OpInv, Start, Op
<1>3. UNCHANGED Entries
  BY <1>1, TouchedShown
<1>. DEFINE n == IF Live(k) THEN 1 ELSE 0
<1>4. n = IF Entries[k] = Map!NoEntry THEN 0 ELSE 1
  <2>1. CASE Live(k)
    <3>1. n = 1
      BY <2>1
    <3>. QED BY <2>1, <3>1, LiveShown
  <2>2. CASE ~Live(k)
    <3>1. n = 0
      BY <2>2
    <3>. QED BY <2>2, <3>1, LiveShown
  <2>. QED BY <2>1, <2>2
<1>5. Calls' = Map!Done(c, Absent, n)
  <2>1. n \in Nat /\ call' = Done(c, Absent, n)
    BY <1>1
  <2>. HIDE DEF n
  <2>. QED BY <2>1, AbstractReplies DEF RefInv
<1>6. Calls[c].at = "pending" /\ Calls[c].op = "contains_key" /\ Calls[c].key = k
  BY <1>1, <1>2, <1>k, AbstractPending
<1>. HIDE DEF n
<1>. QED BY <1>1, <1>3, <1>4, <1>5, <1>6 DEF Map!ContainsKey, Map!Pending, Calls, Entries

\* Everything held is counted, shown or not.
LEMMA SimApproxSize ==
    ASSUME RefInv, NEW c \in Handle, ApproxSize(c)
    PROVE  Map!ApproxSize(c)
<1>. DEFINE n == Cardinality(Held)
            shown == {k \in FullKey : Entries[k] # Map!NoEntry}
<1>1. /\ Running(c) /\ OpInv(c) /\ call[c].at = "approx_size"
      /\ call' = Done(c, Absent, n)
      /\ UNCHANGED <<map, now>>
  BY DEF RefInv, ApproxSize, Running
<1>2. call[c].op = "approx_size"
  BY <1>1 DEF OpInv, Start, Op
<1>3. UNCHANGED Entries
  BY <1>1 DEF Entries, Live, IsExpired
<1>4. shown \subseteq Held
  BY LiveShown DEF Held, Live
<1>5. n \in Nat /\ Cardinality(shown) <= n
  BY <1>4, FS_CardinalityType, FS_Subset DEF RefInv
<1>. HIDE DEF n, shown
<1>6. Calls' = Map!Done(c, Absent, n)
  BY <1>1, <1>5, AbstractReplies DEF RefInv
<1>7. Calls[c].at = "pending" /\ Calls[c].op = "approx_size"
  BY <1>1, <1>2, AbstractPending
<1>8. Calls'[c].count = n
  BY <1>6 DEF Map!Done, Calls, Map!Idle
<1>9. /\ Calls'[c].count \in Nat /\ Calls'[c].count >= Cardinality(shown)
      /\ Calls' = Map!Done(c, Absent, Calls'[c].count)
  BY <1>5, <1>6, <1>8
<1>10. Map!Pending(c, {"approx_size"})
  BY <1>7 DEF Map!Pending, Calls
<1>11. Map!Cardinality(shown) = Cardinality(shown)
  BY DEF Map!Cardinality, Cardinality
<1>. QED
  BY <1>1, <1>3, <1>9, <1>10, <1>11 DEF Map!ApproxSize, Calls, Entries, shown

LEMMA SimReturn ==
    ASSUME RefInv, NEW c \in Handle, Return(c)
    PROVE  Map!Return(c)
<1>1. call[c].at \in {"done", "failed"} /\ call[c] \in CallType /\ UNCHANGED <<map, now>>
  BY DEF Return, RefInv, TypeOK, CallType
<1>2. Calls[c].at \in {"done", "failed"}
  BY <1>1 DEF Calls, AbstractCall, CallType
<1>3. UNCHANGED Entries
  BY <1>1 DEF Entries, Live, IsExpired
<1>4. Shown(Idle) = Idle /\ Map!Idle = Idle
  BY DEF Shown, Idle, Map!Idle
<1>5. Calls' = [Calls EXCEPT ![c] = Map!Idle]
  BY <1>4, ShownReplaced DEF Return, RefInv
<1>. QED BY <1>1, <1>2, <1>3, <1>5 DEF Map!Return, Calls, Entries

\* Time passes: an entry stays as it is shown, or is not shown any more.
LEMMA SimPass ==
    ASSUME RefInv, RefInv', UNCHANGED call, now' \in {now, now + 1},
           \A k \in FullKey : map'[k] = map[k] \/ (map'[k] = NoEntry /\ ~Live(k))
    PROVE  Map!Pass
<1>1. UNCHANGED Calls /\ DOMAIN Entries' = FullKey
  BY DEF Calls, AbstractCall, Entries
<1>2. ASSUME NEW k \in FullKey
      PROVE  Entries'[k] \in {Map!NoEntry} \union
                               (IF Map!Over(Entries[k].due, now') THEN {} ELSE {Entries[k]})
  <2>1. CASE ~Live(k)'
    BY <2>1 DEF Entries, Map!NoEntry
  <2>2. CASE Live(k)'
    <3>1. /\ map'[k] \in EntryType /\ EntryInv(k)' /\ now' \in Nat /\ now \in Nat
          /\ map[k] \in EntryType
      BY TimeAssumption DEF RefInv, TypeOK, EntryType
    <3>2. map'[k] = map[k] /\ map[k] # NoEntry
      BY <2>2 DEF Live
    <3>3. Live(k)
      BY <2>2, <3>1, <3>2 DEF Live, IsExpired, EntryType
    <3>4. ~Map!Over(map[k].due, now')
      BY <2>2, <3>1, <3>2 DEF Live, EntryInv, IsExpired, Map!Over, EntryType
    <3>5. /\ Entries[k] = [value |-> map[k].value, due |-> map[k].due]
          /\ Entries'[k] = Entries[k]
      BY <2>2, <3>2, <3>3 DEF Entries
    <3>. QED BY <3>4, <3>5
  <2>. QED BY <2>1, <2>2
<1>. QED BY <1>1, <1>2 DEF Map!Pass, Calls, Entries

LEMMA SimStep ==
    ASSUME RefInv, RefInv', [Next]_vars, DatesSinceEpoch
    PROVE  [Map!Next]_(Map!vars)
<1>1. CASE UNCHANGED vars
  <2>1. UNCHANGED <<Entries, now, Calls>>
    BY <1>1 DEF vars, Entries, Live, IsExpired, Calls, AbstractCall
  <2>. QED BY <2>1 DEF Map!vars, Entries, Calls
<1>2. ASSUME NEW c \in Handle, Invoke(c), UNCHANGED prefix PROVE Map!Next
  BY <1>2, SimInvoke DEF Map!Next
<1>3. ASSUME NEW c \in Handle, Lookup(c) PROVE [Map!Next]_(Map!vars)
  <2>1. Map!Read(c) \/ Map!Fail(c) \/ UNCHANGED <<Entries, now, Calls>>
    BY <1>3, SimLookup
  <2>2. UNCHANGED <<Entries, now, Calls>> => UNCHANGED Map!vars
    BY DEF Map!vars, Entries, Calls
  <2>. QED BY <2>1, <2>2 DEF Map!Next
<1>4. ASSUME NEW c \in Handle, Store(c) PROVE Map!Next
  BY <1>4, SimStore DEF Map!Next
<1>5. ASSUME NEW c \in Handle, Refuse(c) \/ Break(c) PROVE Map!Next
  <2>1. Running(c) /\ call' = Failed(c) /\ UNCHANGED <<Entries, now>>
    BY <1>5 DEF Refuse, Break, Running, Entries, Live, IsExpired
  <2>. QED BY <2>1, SimFail DEF Map!Next
<1>6. ASSUME NEW c \in Handle, Remove(c) PROVE Map!Next
  BY <1>6, SimRemove DEF Map!Next
<1>7. ASSUME NEW c \in Handle, Clear(c) PROVE Map!Next
  BY <1>7, SimClear DEF Map!Next
<1>8. ASSUME NEW c \in Handle, ContainsKey(c) PROVE Map!Next
  BY <1>8, SimContainsKey DEF Map!Next
<1>9. ASSUME NEW c \in Handle, ApproxSize(c) PROVE Map!Next
  BY <1>9, SimApproxSize DEF Map!Next
<1>10. ASSUME NEW c \in Handle, Return(c) PROVE Map!Next
  BY <1>10, SimReturn DEF Map!Next
<1>11. CASE Tick
  BY <1>11, SimPass DEF Tick, Map!Next
<1>12. CASE Lapse
  <2>1. \A k \in FullKey : map'[k] = map[k] \/ (map'[k] = NoEntry /\ ~Live(k))
    BY <1>12 DEF Lapse, RefInv, TypeOK
  <2>. QED BY <1>12, <2>1, SimPass DEF Lapse, Map!Next
<1>. QED
  BY <1>1, <1>2, <1>3, <1>4, <1>5, <1>6, <1>7, <1>8, <1>9, <1>10, <1>11, <1>12 DEF Next

(***************************************************************************)
(* Both stores, with any handles, prefixes, keys, values and timeouts, do  *)
(* what the abstract cache allows: no call is shown an entry whose time is *)
(* over, or anything but what was stored last, as long as no timeout is a  *)
(* date before 1970.                                                       *)
(***************************************************************************)
THEOREM CacheImplementsMap == DatesSinceEpoch => (Spec => ImplementsCache)
<1>. SUFFICES ASSUME DatesSinceEpoch PROVE Spec => ImplementsCache
  OBVIOUS
<1>1. RefInv /\ [Next]_vars => RefInv'
  BY RefStep
<1>2. RefInv /\ RefInv' /\ [Next]_vars => [Map!Next]_(Map!vars)
  BY SimStep
<1>. QED
  BY <1>1, <1>2, RefInit, AbstractInit, PTL DEF Spec, ImplementsCache, Map!Spec
=============================================================================
