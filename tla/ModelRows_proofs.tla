--------------------------- MODULE ModelRows_proofs ---------------------------
(***************************************************************************)
(* Proofs about ModelRows, for any callers, keys, slices and databases.    *)
(***************************************************************************)
EXTENDS ModelRows, FiniteSetTheorems, WellFoundedInduction, TLAPS

Slices == Seq([key : Key \union {Automatic}, data : Data])
Inserts   == Bulk \union {"insert", "save"}

CallType ==
    [at : At, on : {"database", "transaction"},
     op : {"none", "update", "delete"} \union Inserts,
     batch : Slices, done : Nat, nested : BOOLEAN, mine : Overlay,
     wrote : Seq(Key), keys : Seq(Key \union {Automatic})]

Typed ==
    /\ backend \in Backend
    /\ rows \in [Key -> Data \union {Absent}]
    /\ next \in 1 .. MaxKey + 1
    /\ calls \in Nat
    /\ call \in [Client -> CallType]

\* A call has answers when it has written all of its slice.
Answered == {"release", "opDone", "effected"}

\* How a call came where it is: what was planned for its slice, how much of it
\* is written, and what the instances know.
PlanInv(l) ==
    /\ l.nested => l.op \in Bulk /\ l.at \in {"statement", "select", "release"}
    /\ l.at = "release" => l.nested
    /\ l.at \in {"statement", "select"} =>
          /\ l.batch # <<>>
          /\ l.op \notin Bulk => Len(l.batch) = 1
          /\ l.op \in Bulk =>
                /\ NumValues(l.batch) \in 1 .. backend.limit
                /\ ~l.nested => Len(l.batch) <= BatchSize(l.batch)

KeysInv(l) ==
    /\ Len(l.keys) = Len(l.batch)
    /\ l.at \in Answered => l.keys = l.wrote
    /\ l.at \in {"statement", "select"} =>
          /\ l.done < Len(l.batch)
          /\ ~l.nested => l.done = 0
          /\ \A i \in 1 .. l.done : l.keys[i] = l.wrote[i]
          /\ ~DrawsKeys(l.batch) => \A i \in DOMAIN l.batch : l.keys[i] = l.batch[i].key
    /\ l.at = "statement" =>
          /\ l.op # "none"
          /\ Len(l.wrote) = l.done
          /\ l.op \in {"update", "delete"} => l.batch[1].key \in Key
    /\ l.at = "select" =>
          /\ backend.kind = "mysql"
          /\ l.op \in Inserts /\ DrawsKeys(l.batch)
          /\ Len(l.wrote) = l.done + Cardinality(Chunk(l))
          /\ \A i \in Chunk(l) : l.wrote[i] = l.wrote[l.done + 1] + (i - l.done - 1)
    /\ l.at = "idle" => l = Idle
    /\ l.at = "opFailed" => l.mine = Nothing

MineInv(l) ==
    /\ l.mine # Nothing => (l.on = "transaction" \/ l.nested) /\ l.at # "effected"
    /\ l.at \in {"opDone", "opFailed"} => l.on = "transaction"
    /\ Len(l.wrote) <= Len(l.batch) /\ l.done <= Len(l.batch)

CallInv(c) == PlanInv(call[c]) /\ KeysInv(call[c]) /\ MineInv(call[c])

IInv == Typed /\ \A c \in Client : CallInv(c)

-----------------------------------------------------------------------------
(* Numbers, chunks and keys                                                *)

LEMMA LeastNumber ==
    ASSUME NEW S \in SUBSET Nat, S # {}
    PROVE  \E m \in S : \A k \in S : m <= k
<1>. DEFINE R == {ss \in Nat \X Nat : ss[1] < ss[2]}
<1>1. IsWellFoundedOn(R, Nat)
  BY NatLessThanWellFounded DEF OpToRel
<1>. HIDE DEF R
<1>2. PICK m \in S : \A k \in S : ~(<<k, m>> \in R)
  BY <1>1, WFMin
<1>3. ASSUME NEW k \in S, k < m PROVE FALSE
  <2>1. <<k, m>> \in R
    BY <1>3 DEF R
  <2>. QED BY <1>2, <2>1
<1>. QED BY <1>3

LEMMA LargestKey ==
    ASSUME NEW S \in SUBSET Key, S # {}
    PROVE  \E m \in S : \A k \in S : k <= m
<1>. DEFINE T == {MaxKey - k : k \in S}
<1>0. \A k \in S : MaxKey - k \in Nat
  BY BoundsAssumption DEF Key
<1>1. T \in SUBSET Nat /\ T # {}
  BY <1>0
<1>2. PICK t \in T : \A u \in T : t <= u
  BY <1>1, LeastNumber
<1>3. PICK m \in S : t = MaxKey - m
  BY <1>2
<1>4. ASSUME NEW k \in S PROVE k <= m
  <2>1. MaxKey - m <= MaxKey - k
    BY <1>2, <1>3
  <2>. QED BY <2>1, BoundsAssumption DEF Key
<1>. QED BY <1>4

\* The counter never goes back, and passes the keys that it has to pass.
LEMMA NextAfterKeys ==
    ASSUME Typed, NEW keys \in SUBSET Key, NEW drawn
    PROVE  /\ NextAfter(keys, drawn) \in next .. MaxKey + 1
           /\ keys # {} /\ (backend.kind = "postgres" => drawn)
                => \A k \in keys : k < NextAfter(keys, drawn)
<1>1. CASE keys = {} \/ (backend.kind = "postgres" /\ ~drawn)
  BY <1>1, BoundsAssumption DEF NextAfter, Typed
<1>2. CASE ~(keys = {} \/ (backend.kind = "postgres" /\ ~drawn))
  <2>1. \E m \in keys : \A k \in keys : k <= m
    BY <1>2, LargestKey
  <2>2. PICK m : m = CHOOSE k \in keys : \A j \in keys : j <= k
    OBVIOUS
  <2>3. m \in keys /\ \A k \in keys : k <= m
    BY <2>1, <2>2
  <2>4. NextAfter(keys, drawn) = Larger(next, 1 + m)
    BY <1>2, <2>2 DEF NextAfter
  <2>. QED BY <2>3, <2>4, BoundsAssumption DEF Larger, Typed, Key
<1>. QED BY <1>1, <1>2

\* In SQLite the counter stands behind the keys that the transaction has written.
LEMMA NextKeyFree ==
    ASSUME Typed, NEW c \in Client
    PROVE  /\ NextKey(c) \in next .. MaxKey + 1
           /\ backend.kind # "sqlite" => NextKey(c) = next
           /\ backend.kind = "sqlite" => \A j \in Key : j >= NextKey(c) => call[c].mine[j] = Untouched
<1>1. CASE backend.kind # "sqlite"
  BY <1>1, BoundsAssumption DEF NextKey, Typed
<1>2. CASE backend.kind = "sqlite"
  <2>. DEFINE S == {k \in next .. MaxKey + 1 : \A j \in Key : j >= k => call[c].mine[j] = Untouched}
  <2>1. S \in SUBSET Nat /\ MaxKey + 1 \in S
    BY BoundsAssumption DEF Typed, Key
  <2>2. PICK k \in S : \A j \in S : k <= j
    BY <2>1, LeastNumber
  <2>3. k > next => call[c].mine[k - 1] # Untouched
    <3>1. SUFFICES ASSUME k > next, call[c].mine[k - 1] = Untouched PROVE FALSE
      OBVIOUS
    <3>2. k - 1 \in next .. MaxKey + 1
      BY <3>1, BoundsAssumption DEF Typed
    <3>3. ASSUME NEW j \in Key, j >= k - 1 PROVE call[c].mine[j] = Untouched
      <4>1. j = k - 1 \/ j >= k
        BY <3>2, <3>3, BoundsAssumption DEF Typed, Key
      <4>. QED BY <3>1, <4>1
    <3>4. k - 1 \in S
      BY <3>2, <3>3
    <3>. QED BY <2>1, <2>2, <3>4
  <2>4. \E x \in next .. MaxKey + 1 :
            /\ \A j \in Key : j >= x => call[c].mine[j] = Untouched
            /\ x > next => call[c].mine[x - 1] # Untouched
    BY <2>2, <2>3
  <2>5. NextKey(c) = CHOOSE x \in next .. MaxKey + 1 :
            /\ \A j \in Key : j >= x => call[c].mine[j] = Untouched
            /\ x > next => call[c].mine[x - 1] # Untouched
    BY <1>2 DEF NextKey
  <2>. QED BY <1>2, <2>4, <2>5
<1>. QED BY <1>1, <1>2

LEMMA Fits ==
    ASSUME NEW a \in Nat, NEW b \in 1 .. a
    PROVE  a \div b \in Nat /\ a \div b >= 1 /\ (a \div b) * b <= a
OBVIOUS

\* The end of the chunk that the next statement writes.
Last(l) == Smaller(l.done + (IF l.nested THEN BatchSize(l.batch) ELSE Len(l.batch)), Len(l.batch))

LEMMA ChunkOfCall ==
    ASSUME Typed, NEW l \in CallType, PlanInv(l), KeysInv(l), l.at \in {"statement", "select"}
    PROVE  /\ Last(l) \in l.done + 1 .. Len(l.batch) /\ Len(l.batch) \in Nat /\ l.done \in Nat
           /\ Chunk(l) = l.done + 1 .. Last(l)
           /\ Cardinality(Chunk(l)) = Last(l) - l.done
           /\ ~l.nested => Last(l) = Len(l.batch)
           /\ l.op \in Bulk => Cardinality(Chunk(l)) * NumValues(l.batch) <= backend.limit
<1>1. Len(l.batch) \in Nat /\ l.done \in Nat /\ l.done < Len(l.batch)
  BY DEF CallType, KeysInv, Slices
<1>2. backend.limit \in Nat
  BY BackendAssumption DEF Typed
<1>. DEFINE b == BatchSize(l.batch)
            n == NumValues(l.batch)
<1>3. l.op \in Bulk => n \in 1 .. backend.limit /\ b = backend.limit \div n
  BY DEF PlanInv, BatchSize
<1>4. l.op \in Bulk => n \in Nat /\ b \in Nat /\ b >= 1 /\ b * n <= backend.limit
  <2>. HIDE DEF b, n
  <2>. QED BY <1>2, <1>3, Fits
<1>5. (l.nested => l.op \in Bulk) /\ (~l.nested => l.done = 0)
  BY DEF PlanInv, KeysInv
<1>6. l.op \in Bulk /\ ~l.nested => Len(l.batch) <= b
  BY DEF PlanInv
<1>7. Last(l) = Smaller(l.done + (IF l.nested THEN b ELSE Len(l.batch)), Len(l.batch))
  BY DEF Last
<1>8. Chunk(l) = l.done + 1 .. Last(l)
  BY DEF Chunk, Last
<1>. HIDE DEF b, n
<1>9. Last(l) \in l.done + 1 .. Len(l.batch) /\ (~l.nested => Last(l) = Len(l.batch))
  BY <1>1, <1>4, <1>5, <1>7 DEF Smaller
<1>10. Cardinality(Chunk(l)) = Last(l) - l.done
  <2>1. l.done + 1 \in Int /\ Last(l) \in Int /\ ~(l.done + 1 > Last(l))
    BY <1>1, <1>9
  <2>2. Cardinality(l.done + 1 .. Last(l)) = Last(l) - (l.done + 1) + 1
    BY <2>1, FS_Interval
  <2>. QED BY <1>1, <1>8, <1>9, <2>2
<1>11. l.op \in Bulk => Last(l) - l.done <= b
  BY <1>1, <1>4, <1>5, <1>6, <1>7, <1>9 DEF Smaller
<1>12. ASSUME l.op \in Bulk PROVE (Last(l) - l.done) * n <= backend.limit
  <2>1. PICK m \in Nat : m = Last(l) - l.done
    BY <1>1, <1>9
  <2>2. m <= b /\ b \in Nat /\ n \in Nat /\ b * n <= backend.limit
    BY <1>4, <1>11, <1>12, <2>1
  <2>3. m * n <= b * n
    BY <2>1, <2>2
  <2>4. m * n \in Nat /\ b * n \in Nat
    BY <2>1, <2>2
  <2>. QED BY <1>2, <2>1, <2>2, <2>3, <2>4
<1>. QED BY <1>1, <1>8, <1>9, <1>10, <1>12 DEF n

-----------------------------------------------------------------------------
(* The records of calls                                                    *)

\* What the updates of a call leave alone.
SamePlan(r, l) == r.on = l.on /\ r.op = l.op /\ r.batch = l.batch

LEMMA IdleFields == Idle \in CallType /\ PlanInv(Idle) /\ KeysInv(Idle) /\ MineInv(Idle)
<1>1. << >> \in Slices /\ << >> \in Seq(Key) /\ << >> \in Seq(Key \union {Automatic})
  BY DEF Slices
<1>2. Nothing \in Overlay
  BY DEF Nothing, Overlay
<1>3. Idle \in CallType
  BY <1>1, <1>2 DEF Idle, CallType, At
<1>4. /\ Idle.at = "idle" /\ Idle.done = 0 /\ Idle.nested = FALSE /\ Idle.mine = Nothing
      /\ Idle.batch = << >> /\ Idle.wrote = << >> /\ Idle.keys = << >>
  BY DEF Idle
<1>. QED BY <1>3, <1>4 DEF PlanInv, KeysInv, MineInv, Answered

LEMMA SucceededFields ==
    ASSUME NEW l \in CallType, NEW r, r = Succeeded(l)
    PROVE  /\ r \in CallType /\ SamePlan(r, l)
           /\ r.at = IF l.on = "database" THEN "effected" ELSE "opDone"
           /\ r.done = l.done /\ r.nested = l.nested /\ r.mine = l.mine
           /\ r.wrote = l.wrote /\ r.keys = l.keys
BY DEF Succeeded, CallType, SamePlan, At

LEMMA FailedFields ==
    ASSUME NEW l \in CallType, NEW r, r = Failed(l)
    PROVE  \/ l.on = "database" /\ r = Idle
           \/ /\ l.on = "transaction" /\ r \in CallType /\ SamePlan(r, l)
              /\ r.at = "opFailed" /\ r.mine = Nothing /\ ~r.nested
              /\ r.done = l.done /\ r.wrote = l.wrote /\ r.keys = l.keys
<1>1. Nothing \in Overlay
  BY DEF Nothing, Overlay
<1>2. CASE l.on = "database"
  BY <1>2 DEF Failed
<1>3. CASE l.on = "transaction"
  <2>1. r = [l EXCEPT !.at = "opFailed", !.nested = FALSE, !.mine = Nothing]
    BY <1>3 DEF Failed
  <2>2. r \in CallType /\ r.at = "opFailed" /\ r.mine = Nothing /\ ~r.nested
        /\ r.on = l.on /\ r.op = l.op /\ r.batch = l.batch
        /\ r.done = l.done /\ r.wrote = l.wrote /\ r.keys = l.keys
    BY <1>1, <2>1 DEF CallType, At
  <2>. QED BY <1>3, <2>2 DEF SamePlan
<1>. QED BY <1>2, <1>3 DEF CallType

LEMMA FailedInv ==
    ASSUME NEW l \in CallType, KeysInv(l), MineInv(l), NEW r, r = Failed(l)
    PROVE  r \in CallType /\ PlanInv(r) /\ KeysInv(r) /\ MineInv(r)
<1>1. CASE l.on = "database" /\ r = Idle
  BY <1>1, IdleFields
<1>2. CASE /\ l.on = "transaction" /\ r \in CallType /\ SamePlan(r, l)
           /\ r.at = "opFailed" /\ r.mine = Nothing /\ ~r.nested
           /\ r.done = l.done /\ r.wrote = l.wrote /\ r.keys = l.keys
  BY <1>2 DEF SamePlan, PlanInv, KeysInv, MineInv, Answered
<1>3. \/ l.on = "database" /\ r = Idle
      \/ /\ l.on = "transaction" /\ r \in CallType /\ SamePlan(r, l)
         /\ r.at = "opFailed" /\ r.mine = Nothing /\ ~r.nested
         /\ r.done = l.done /\ r.wrote = l.wrote /\ r.keys = l.keys
  BY FailedFields
<1>. QED BY <1>1, <1>2, <1>3

LEMMA LearnedFields ==
    ASSUME NEW l \in CallType, NEW ks, \A i \in DOMAIN ks : ks[i] \in Key,
           NEW r, r = Learned(l, ks)
    PROVE  /\ r \in CallType /\ SamePlan(r, l)
           /\ r.at = l.at /\ r.done = l.done /\ r.nested = l.nested /\ r.mine = l.mine
           /\ r.wrote = l.wrote /\ Len(r.keys) = Len(l.keys)
           /\ \A i \in 1 .. Len(l.keys) :
                  r.keys[i] = IF i \in DOMAIN ks THEN ks[i] ELSE l.keys[i]
<1>. DEFINE k == [i \in DOMAIN l.keys |-> IF i \in DOMAIN ks THEN ks[i] ELSE l.keys[i]]
<1>1. l.keys \in Seq(Key \union {Automatic}) /\ DOMAIN l.keys = 1 .. Len(l.keys)
  BY DEF CallType
<1>2. k \in Seq(Key \union {Automatic}) /\ Len(k) = Len(l.keys)
  BY <1>1
<1>3. \A i \in 1 .. Len(l.keys) : k[i] = IF i \in DOMAIN ks THEN ks[i] ELSE l.keys[i]
  BY <1>1
<1>4. r = [l EXCEPT !.keys = k]
  BY DEF Learned
<1>. HIDE DEF k
<1>5. /\ r \in CallType /\ r.keys = k /\ r.on = l.on /\ r.op = l.op /\ r.batch = l.batch
      /\ r.at = l.at /\ r.done = l.done /\ r.nested = l.nested /\ r.mine = l.mine
      /\ r.wrote = l.wrote
  BY <1>2, <1>4 DEF CallType
<1>. QED BY <1>2, <1>3, <1>5 DEF SamePlan

LEMMA MineFields ==
    ASSUME NEW l \in CallType, NEW m \in Overlay, NEW r, r = [l EXCEPT !.mine = m]
    PROVE  /\ r \in CallType /\ SamePlan(r, l) /\ r.mine = m
           /\ r.at = l.at /\ r.done = l.done /\ r.nested = l.nested
           /\ r.wrote = l.wrote /\ r.keys = l.keys
BY DEF CallType, SamePlan

LEMMA WroteFields ==
    ASSUME NEW l \in CallType, NEW w \in Seq(Key), NEW r, r = [l EXCEPT !.wrote = w]
    PROVE  /\ r \in CallType /\ SamePlan(r, l) /\ r.mine = l.mine
           /\ r.at = l.at /\ r.done = l.done /\ r.nested = l.nested
           /\ r.wrote = w /\ r.keys = l.keys
BY DEF CallType, SamePlan

LEMMA AtFields ==
    ASSUME NEW l \in CallType, NEW at \in At, NEW r, r = [l EXCEPT !.at = at]
    PROVE  /\ r \in CallType /\ SamePlan(r, l) /\ r.mine = l.mine
           /\ r.at = at /\ r.done = l.done /\ r.nested = l.nested
           /\ r.wrote = l.wrote /\ r.keys = l.keys
BY DEF CallType, SamePlan

\* A statement of a call has written a chunk, and its instances know.
Written(l) ==
    /\ l.at \in {"statement", "select"} /\ l.op \in Inserts
    /\ PlanInv(l)
    /\ l.done < Len(l.batch)
    /\ ~l.nested => l.done = 0
    /\ Len(l.keys) = Len(l.batch) /\ Len(l.wrote) = Last(l)
    /\ \A i \in 1 .. Last(l) : l.keys[i] = l.wrote[i]
    /\ ~DrawsKeys(l.batch) => \A i \in DOMAIN l.batch : l.keys[i] = l.batch[i].key

LEMMA ChunkWritten ==
    ASSUME Typed, NEW l \in CallType, NEW r \in CallType, PlanInv(l), KeysInv(l),
           l.at \in {"statement", "select"}, SamePlan(r, l), r.done = l.done, r.nested = l.nested
    PROVE  /\ Chunk(r) = Chunk(l) /\ Last(r) = Last(l)
           /\ Chunk(r) = r.done + 1 .. Last(r) /\ Cardinality(Chunk(r)) = Last(r) - r.done
           /\ Last(r) \in r.done + 1 .. Len(r.batch) /\ Len(r.batch) \in Nat /\ r.done \in Nat
           /\ ~r.nested => Last(r) = Len(r.batch)
<1>1. Chunk(r) = Chunk(l) /\ Last(r) = Last(l)
  BY DEF SamePlan, Chunk, Last
<1>. QED BY <1>1, ChunkOfCall DEF SamePlan

\* The call goes on to the next chunk, or comes to its end.
LEMMA AdvancedFields ==
    ASSUME Typed, NEW l \in CallType, Written(l), NEW r, r = Advanced(l),
           Chunk(l) = l.done + 1 .. Last(l), Cardinality(Chunk(l)) = Last(l) - l.done,
           Last(l) \in l.done + 1 .. Len(l.batch)
    PROVE  /\ r \in CallType /\ SamePlan(r, l)
           /\ r.nested = l.nested /\ r.mine = l.mine /\ r.wrote = l.wrote /\ r.keys = l.keys
           /\ \/ /\ Last(l) = Len(l.batch) /\ l.nested
                 /\ r.at = "release" /\ r.done = l.done
              \/ /\ Last(l) = Len(l.batch) /\ ~l.nested
                 /\ r.at = (IF l.on = "database" THEN "effected" ELSE "opDone") /\ r.done = l.done
              \/ /\ Last(l) < Len(l.batch)
                 /\ r.at = "statement" /\ r.done = Last(l)
<1>0. Len(l.batch) \in Nat /\ l.done \in Nat
  BY DEF CallType, Slices
<1>1. (\E i \in Chunk(l) : i = Len(l.batch)) <=> Last(l) = Len(l.batch)
  BY <1>0
<1>2. l.done + Cardinality(Chunk(l)) = Last(l) /\ Last(l) \in Nat
  BY <1>0
<1>3. CASE Last(l) = Len(l.batch) /\ l.nested
  <2>1. r = [l EXCEPT !.at = "release"]
    BY <1>1, <1>3 DEF Advanced
  <2>2. "release" \in At
    BY DEF At
  <2>3. /\ r \in CallType /\ SamePlan(r, l) /\ r.mine = l.mine
        /\ r.at = "release" /\ r.done = l.done /\ r.nested = l.nested
        /\ r.wrote = l.wrote /\ r.keys = l.keys
    BY <2>1, <2>2, AtFields
  <2>. QED BY <1>3, <2>3
<1>4. CASE Last(l) = Len(l.batch) /\ ~l.nested
  <2>1. r = Succeeded(l)
    BY <1>1, <1>4 DEF Advanced
  <2>. QED BY <1>4, <2>1, SucceededFields
<1>5. CASE Last(l) # Len(l.batch)
  <2>. DEFINE d == l.done + Cardinality(Chunk(l))
  <2>1. r = [l EXCEPT !.at = "statement", !.done = d]
    BY <1>1, <1>5 DEF Advanced
  <2>2. d = Last(l) /\ d \in Nat
    BY <1>2
  <2>. HIDE DEF d
  <2>3. /\ r \in CallType /\ r.at = "statement" /\ r.done = d
        /\ r.on = l.on /\ r.op = l.op /\ r.batch = l.batch
        /\ r.nested = l.nested /\ r.mine = l.mine /\ r.wrote = l.wrote /\ r.keys = l.keys
    BY <2>1, <2>2 DEF CallType, At
  <2>4. Last(l) < Len(l.batch)
    BY <1>0, <1>5
  <2>. QED BY <2>2, <2>3, <2>4 DEF SamePlan
<1>. QED BY <1>3, <1>4, <1>5

LEMMA AdvancedInv ==
    ASSUME Typed, NEW l \in CallType, Written(l), NEW r, r = Advanced(l),
           Chunk(l) = l.done + 1 .. Last(l), Cardinality(Chunk(l)) = Last(l) - l.done,
           Last(l) \in l.done + 1 .. Len(l.batch), ~l.nested => Last(l) = Len(l.batch)
    PROVE  PlanInv(r) /\ KeysInv(r)
<1>1. /\ r \in CallType /\ SamePlan(r, l)
      /\ r.nested = l.nested /\ r.mine = l.mine /\ r.wrote = l.wrote /\ r.keys = l.keys
  BY AdvancedFields
<1>2. /\ Len(l.batch) \in Nat /\ l.wrote \in Seq(Key) /\ l.keys \in Seq(Key \union {Automatic})
      /\ Last(l) \in Nat /\ l.done \in Nat
  BY DEF CallType, Slices
<1>3. ASSUME Last(l) = Len(l.batch) PROVE l.keys = l.wrote
  <2>1. Len(l.keys) = Len(l.wrote) /\ \A i \in 1 .. Len(l.keys) : l.keys[i] = l.wrote[i]
    BY <1>3 DEF Written
  <2>2. /\ DOMAIN l.keys = 1 .. Len(l.keys) /\ DOMAIN l.wrote = 1 .. Len(l.wrote)
        /\ l.keys = [i \in DOMAIN l.keys |-> l.keys[i]]
        /\ l.wrote = [i \in DOMAIN l.wrote |-> l.wrote[i]]
    BY <1>2
  <2>. QED BY <2>1, <2>2
<1>4. CASE Last(l) = Len(l.batch) /\ l.nested /\ r.at = "release" /\ r.done = l.done
  BY <1>1, <1>3, <1>4 DEF SamePlan, PlanInv, KeysInv, Written, Answered
<1>5. CASE /\ Last(l) = Len(l.batch) /\ ~l.nested
           /\ r.at = (IF l.on = "database" THEN "effected" ELSE "opDone") /\ r.done = l.done
  BY <1>1, <1>3, <1>5 DEF SamePlan, PlanInv, KeysInv, Written, Answered
<1>6. CASE Last(l) < Len(l.batch) /\ r.at = "statement" /\ r.done = Last(l)
  <2>1. l.nested /\ l.op \in Inserts
    BY <1>2, <1>6 DEF Written
  <2>2. PlanInv(r)
    BY <1>1, <1>6, <2>1 DEF SamePlan, PlanInv, Written
  <2>3. l.op # "none" /\ l.op \notin {"update", "delete"}
    BY <2>1 DEF Inserts, Bulk
  <2>4. KeysInv(r)
    BY <1>1, <1>6, <2>1, <2>3 DEF SamePlan, KeysInv, Written, Answered
  <2>. QED BY <2>2, <2>4
<1>. QED BY <1>4, <1>5, <1>6, AdvancedFields

-----------------------------------------------------------------------------
(* Steps                                                                   *)

\* An invariant of calls reads the call and the database, which is the same.
LEMMA Moves ==
    ASSUME IInv, NEW c \in Client, NEW l \in CallType, Moved(c, l),
           PlanInv(l), KeysInv(l), MineInv(l), backend' = backend,
           rows' \in [Key -> Data \union {Absent}], next' \in 1 .. MaxKey + 1, calls' \in Nat
    PROVE  IInv'
<1>1. call' = [call EXCEPT ![c] = l] /\ call \in [Client -> CallType]
  BY DEF Moved, IInv, Typed
<1>2. Typed'
  BY <1>1 DEF IInv, Typed
<1>3. ASSUME NEW d \in Client PROVE CallInv(d)'
  <2>1. PICK x : x = call'[d]
    OBVIOUS
  <2>2. x = IF d = c THEN l ELSE call[d]
    BY <1>1, <2>1
  <2>3. PlanInv(x) /\ KeysInv(x) /\ MineInv(x)
    BY <2>2 DEF IInv, CallInv
  <2>. QED
    BY <2>1, <2>3 DEF CallInv, PlanInv, KeysInv, MineInv, NumValues, BatchSize, DrawsKeys,
                      Chunk, Smaller, Answered
<1>. QED BY <1>2, <1>3 DEF IInv

LEMMA OverType ==
    /\ \A new, old \in Overlay : Over(new, old) \in Overlay
    /\ \A new \in Overlay, old \in [Key -> Data \union {Absent}] :
           Over(new, old) \in [Key -> Data \union {Absent}]
BY DEF Over, Overlay

\* A statement that comes to its place in a transaction, or to the table.
LEMMA WritesInv ==
    ASSUME IInv, NEW c \in Client, NEW new \in Overlay, NEW r \in CallType,
           PlanInv(r), KeysInv(r), MineInv(r), r.at \notin {"idle", "opFailed"},
           InTransaction(c) => (r.on = "transaction" \/ r.nested) /\ r.at # "effected",
           r.mine = call[c].mine, Writes(c, new, r),
           backend' = backend, next' \in 1 .. MaxKey + 1, calls' = calls
    PROVE  IInv'
<1>1. calls' \in Nat /\ rows \in [Key -> Data \union {Absent}] /\ r.mine \in Overlay
  BY DEF IInv, Typed, CallType
<1>2. CASE InTransaction(c)
  <2>. DEFINE m == Over(new, r.mine)
              q == [r EXCEPT !.mine = m]
  <2>1. m \in Overlay
    BY <1>1, OverType
  <2>2. Moved(c, q) /\ rows' = rows
    BY <1>2 DEF Writes
  <2>. HIDE DEF m
  <2>3. /\ q \in CallType /\ SamePlan(q, r) /\ q.mine = m
        /\ q.at = r.at /\ q.done = r.done /\ q.nested = r.nested
        /\ q.wrote = r.wrote /\ q.keys = r.keys
    BY <2>1, MineFields
  <2>. HIDE DEF q
  <2>4. PlanInv(q) /\ MineInv(q)
    BY <1>2, <2>3 DEF SamePlan, PlanInv, MineInv
  <2>5. Chunk(q) = Chunk(r)
    BY <2>3 DEF SamePlan, Chunk
  <2>6. KeysInv(q)
    BY <2>3, <2>5 DEF SamePlan, KeysInv
  <2>. QED BY <1>1, <2>2, <2>3, <2>4, <2>6, Moves
<1>3. CASE ~InTransaction(c)
  <2>1. rows' = Over(new, rows) /\ Moved(c, r)
    BY <1>3 DEF Writes
  <2>. QED BY <1>1, <2>1, OverType, Moves
<1>. QED BY <1>2, <1>3

\* What a call knows when the caller has handed its instances over.
Fresh(l) ==
    /\ l.at = "statement" /\ ~l.nested /\ l.done = 0 /\ l.mine = Nothing
    /\ l.wrote = << >> /\ Len(l.keys) = Len(l.batch) /\ l.op # "none"
    /\ \A i \in DOMAIN l.batch : l.keys[i] = l.batch[i].key

LEMMA PlannedInv ==
    ASSUME Typed, NEW l \in CallType, Fresh(l), l.op \in Bulk, NEW r, r = Planned(l)
    PROVE  r \in CallType /\ PlanInv(r) /\ KeysInv(r) /\ MineInv(r)
<1>1. Len(l.batch) \in Nat /\ Len(l.wrote) = 0 /\ l.keys \in Seq(Key \union {Automatic})
      /\ l.batch \in Slices
  BY DEF CallType, Slices, Fresh
<1>2. CASE l.batch = << >>
  <2>1. r = Succeeded(l)
    BY <1>2 DEF Planned
  <2>2. /\ r \in CallType /\ SamePlan(r, l)
        /\ r.at = (IF l.on = "database" THEN "effected" ELSE "opDone")
        /\ r.done = l.done /\ r.nested = l.nested /\ r.mine = l.mine
        /\ r.wrote = l.wrote /\ r.keys = l.keys
    BY <2>1, SucceededFields
  <2>3. l.keys = << >> /\ Len(l.batch) = 0
    BY <1>1, <1>2 DEF Fresh
  <2>4. l.on \in {"database", "transaction"}
    BY DEF CallType
  <2>. QED BY <1>1, <2>2, <2>3, <2>4 DEF Fresh, SamePlan, PlanInv, KeysInv, MineInv, Answered
<1>3. CASE l.batch # << >> /\ (NumValues(l.batch) > backend.limit \/ NumValues(l.batch) = 0)
  <2>1. r = Failed(l)
    BY <1>3 DEF Planned
  <2>2. KeysInv(l) /\ MineInv(l)
    <3>1. Len(l.batch) > 0
      BY <1>1, <1>3
    <3>2. l.op \notin {"update", "delete"}
      BY DEF Bulk
    <3>. QED BY <1>1, <3>1, <3>2 DEF Fresh, KeysInv, MineInv, Answered
  <2>. QED BY <2>1, <2>2, FailedInv
<1>4. CASE l.batch # << >> /\ ~(NumValues(l.batch) > backend.limit \/ NumValues(l.batch) = 0)
  <2>. DEFINE whole == /\ Len(l.batch) <= BatchSize(l.batch)
                       /\ ~DrawsKeys(l.batch) \/ SupportsReturning
  <2>1. PICK n \in BOOLEAN : n = ~whole
    OBVIOUS
  <2>2. r = [l EXCEPT !.nested = n]
    BY <1>4, <2>1 DEF Planned
  <2>3. ~n => Len(l.batch) <= BatchSize(l.batch)
    BY <2>1
  <2>4. /\ r \in CallType /\ r.nested = n
        /\ r.on = l.on /\ r.op = l.op /\ r.batch = l.batch /\ r.at = l.at
        /\ r.done = l.done /\ r.mine = l.mine /\ r.wrote = l.wrote /\ r.keys = l.keys
    BY <2>2 DEF CallType
  <2>5. NumValues(l.batch) \in 1 .. backend.limit
    <3>1. NumValues(l.batch) \in Nat /\ backend.limit \in Nat
      BY BackendAssumption DEF Typed, NumValues
    <3>. QED BY <1>4, <3>1
  <2>6. l.op \notin {"update", "delete"} /\ Len(l.batch) > 0
    BY <1>1, <1>4 DEF Bulk
  <2>. QED BY <1>1, <1>4, <2>3, <2>4, <2>5, <2>6
           DEF Fresh, PlanInv, KeysInv, MineInv, Answered
<1>. QED BY <1>2, <1>3, <1>4

LEMMA InvokeInv ==
    ASSUME IInv, NEW c \in Client, Invoke(c)
    PROVE  IInv'
<1>1. PICK on \in {"database", "transaction"},
           op \in Bulk \union {"insert", "save", "update", "delete"}, n \in 0 .. MaxBatch :
         /\ op \in Bulk \/ n = 1
         /\ \E ks \in [1 .. n -> Key \union {Automatic}] :
              LET l == [Idle EXCEPT
                    !.at = "statement", !.on = on, !.op = op, !.keys = ks,
                    !.batch = [i \in 1 .. n |-> [key |-> ks[i], data |-> i]]]
              IN  /\ LegalKeys(op, ks)
                  /\ Moved(c, IF op \in Bulk THEN Planned(l) ELSE l)
  BY DEF Invoke
<1>2. PICK ks \in [1 .. n -> Key \union {Automatic}] :
         LET l == [Idle EXCEPT
               !.at = "statement", !.on = on, !.op = op, !.keys = ks,
               !.batch = [i \in 1 .. n |-> [key |-> ks[i], data |-> i]]]
         IN  /\ LegalKeys(op, ks)
             /\ Moved(c, IF op \in Bulk THEN Planned(l) ELSE l)
  BY <1>1
<1>. DEFINE b == [i \in 1 .. n |-> [key |-> ks[i], data |-> i]]
            l == [Idle EXCEPT !.at = "statement", !.on = on, !.op = op, !.keys = ks, !.batch = b]
<1>3. LegalKeys(op, ks) /\ Moved(c, IF op \in Bulk THEN Planned(l) ELSE l)
  BY <1>2
<1>4. n \in Nat /\ n <= MaxBatch
  BY BoundsAssumption
<1>5. b \in Slices /\ Len(b) = n /\ DOMAIN b = 1 .. n /\ \A i \in 1 .. n : b[i].key = ks[i]
  BY <1>4, BoundsAssumption DEF Slices, Data
<1>6. ks \in Seq(Key \union {Automatic}) /\ Len(ks) = n /\ DOMAIN ks = 1 .. n
  BY <1>4
<1>. HIDE DEF b
<1>7. /\ l.at = "statement" /\ l.on = on /\ l.op = op /\ l.keys = ks /\ l.batch = b
      /\ l.done = 0 /\ ~l.nested /\ l.mine = Nothing /\ l.wrote = << >>
  BY DEF Idle
<1>8. l \in CallType
  <2>1. << >> \in Seq(Key) /\ Nothing \in Overlay
    BY DEF Nothing, Overlay
  <2>2. op \in {"none", "update", "delete"} \union Inserts
    BY DEF Inserts
  <2>. QED BY <1>5, <1>6, <2>1, <2>2 DEF Idle, CallType, At
<1>. HIDE DEF l
<1>9. Fresh(l)
  BY <1>5, <1>6, <1>7 DEF Fresh, Bulk
<1>10. Typed /\ backend' = backend /\ rows' = rows /\ next' = next /\ calls' \in Nat
  BY DEF IInv, Typed, Invoke
<1>11. rows' \in [Key -> Data \union {Absent}] /\ next' \in 1 .. MaxKey + 1
  BY <1>10 DEF Typed
<1>12. CASE op \in Bulk
  <2>1. PICK r : r = Planned(l)
    OBVIOUS
  <2>2. r \in CallType /\ PlanInv(r) /\ KeysInv(r) /\ MineInv(r)
    BY <1>7, <1>8, <1>9, <1>10, <1>12, <2>1, PlannedInv
  <2>3. Moved(c, r)
    BY <1>3, <1>12, <2>1
  <2>. QED BY <1>10, <1>11, <2>2, <2>3, Moves
<1>13. CASE op \notin Bulk
  <2>1. n = 1 /\ Moved(c, l)
    BY <1>1, <1>3, <1>13
  <2>2. op \in {"update", "delete"} => ks[1] \in Key
    BY <1>3, <1>6, <2>1 DEF LegalKeys
  <2>6. /\ Len(l.batch) = 1 /\ l.batch # << >> /\ DOMAIN l.batch = {1} /\ l.batch[1].key = ks[1]
        /\ Len(l.keys) = 1 /\ l.keys[1] = ks[1] /\ Len(l.wrote) = 0
    <3>1. Len(b) = 1 /\ DOMAIN b = {1} /\ b[1].key = ks[1] /\ Len(ks) = 1
      BY <1>5, <1>6, <2>1
    <3>2. Len(<< >>) = 0
      OBVIOUS
    <3>3. b # << >>
      <4>1. Len(b) # Len(<< >>)
        BY <3>1, <3>2
      <4>. QED BY <4>1, Zenon
    <3>. QED BY <1>7, <3>1, <3>2, <3>3
  <2>3. PlanInv(l)
    BY <1>7, <1>13, <2>6 DEF PlanInv
  <2>7. op # "none"
    BY DEF Bulk
  <2>8. l.at \notin {"select", "idle", "opFailed"} \union Answered
    BY <1>7 DEF Answered
  <2>4. KeysInv(l)
    BY <1>7, <2>2, <2>6, <2>7, <2>8 DEF KeysInv
  <2>5. MineInv(l)
    BY <1>5, <1>7 DEF MineInv
  <2>. QED BY <1>8, <1>10, <1>11, <2>1, <2>3, <2>4, <2>5, Moves
<1>. QED BY <1>12, <1>13

\* The invariants of one call, for the steps.
LEMMA OfCall ==
    ASSUME IInv, NEW c \in Client
    PROVE  /\ Typed /\ call[c] \in CallType
           /\ PlanInv(call[c]) /\ KeysInv(call[c]) /\ MineInv(call[c])
           /\ rows \in [Key -> Data \union {Absent}] /\ next \in 1 .. MaxKey + 1 /\ calls \in Nat
BY DEF IInv, Typed, CallInv

LEMMA IdleInv ==
    ASSUME IInv, NEW c \in Client, Unreachable(c) \/ End(c)
    PROVE  IInv'
<1>1. Moved(c, Idle) /\ backend' = backend /\ rows' = rows /\ next' = next /\ calls' = calls
  BY DEF Unreachable, End
<1>. QED BY <1>1, OfCall, IdleFields, Moves

LEMMA BreakInv ==
    ASSUME IInv, NEW c \in Client, Break(c)
    PROVE  IInv'
<1>1. PICK r : r = Failed(call[c])
  OBVIOUS
<1>2. Moved(c, r) /\ backend' = backend /\ rows' = rows /\ next' = next /\ calls' = calls
  BY <1>1 DEF Break
<1>3. r \in CallType /\ PlanInv(r) /\ KeysInv(r) /\ MineInv(r)
  BY <1>1, OfCall, FailedInv
<1>. QED BY <1>2, <1>3, OfCall, Moves

LEMMA Joined ==
    ASSUME NEW S, NEW u \in Seq(S), NEW v \in Seq(S)
    PROVE  /\ u \o v \in Seq(S) /\ Len(u \o v) = Len(u) + Len(v)
           /\ \A i \in 1 .. Len(u) : (u \o v)[i] = u[i]
           /\ \A i \in Len(u) + 1 .. Len(u) + Len(v) : (u \o v)[i] = v[i - Len(u)]
OBVIOUS

LEMMA Elements ==
    ASSUME NEW S, NEW u \in Seq(S)
    PROVE  \A i \in DOMAIN u : u[i] \in S
OBVIOUS

LEMMA AsSequence ==
    ASSUME NEW S, NEW n \in Nat, NEW f \in [1 .. n -> S]
    PROVE  f \in Seq(S) /\ Len(f) = n
OBVIOUS

\* What an INSERT is about: the chunk, and a key for each of its instances.
LEMMA KeysOfChunk ==
    ASSUME IInv, NEW c \in Client, Inserting(c), NEW l, l = call[c], NEW ks, ks = NewKeys(c),
           Range(ks) \subseteq Key
    PROVE  /\ l \in CallType /\ PlanInv(l) /\ KeysInv(l) /\ MineInv(l) /\ Typed
           /\ l.at = "statement" /\ l.op \in Inserts
           /\ Chunk(l) = l.done + 1 .. Last(l) /\ Cardinality(Chunk(l)) = Last(l) - l.done
           /\ Last(l) \in l.done + 1 .. Len(l.batch) /\ Len(l.batch) \in Nat /\ l.done \in Nat
           /\ ~l.nested => Last(l) = Len(l.batch)
           /\ ks \in [Chunk(l) -> Key]
           /\ DrawsKeys(l.batch) => \A i \in Chunk(l) : ks[i] = NextKey(c) + i - l.done - 1
           /\ ~DrawsKeys(l.batch) => \A i \in Chunk(l) : ks[i] = l.batch[i].key
<1>1. /\ l \in CallType /\ PlanInv(l) /\ KeysInv(l) /\ MineInv(l) /\ Typed
      /\ l.at = "statement" /\ l.op \in Inserts
  BY OfCall DEF Inserting, Inserts
<1>2. /\ Chunk(l) = l.done + 1 .. Last(l) /\ Cardinality(Chunk(l)) = Last(l) - l.done
      /\ Last(l) \in l.done + 1 .. Len(l.batch) /\ Len(l.batch) \in Nat /\ l.done \in Nat
      /\ ~l.nested => Last(l) = Len(l.batch)
  BY <1>1, ChunkOfCall
<1>3. ks = [i \in Chunk(l) |-> IF DrawsKeys(l.batch) THEN NextKey(c) + i - l.done - 1 ELSE l.batch[i].key]
  BY DEF NewKeys
<1>4. DOMAIN ks = Chunk(l) /\ \A i \in Chunk(l) : ks[i] \in Key
  BY <1>3 DEF Range
<1>. QED BY <1>1, <1>2, <1>3, <1>4

LEMMA CollideInv ==
    ASSUME IInv, NEW c \in Client, Collide(c)
    PROVE  IInv'
<1>1. PICK l : l = call[c]
  OBVIOUS
<1>2. PICK ks : ks = NewKeys(c)
  OBVIOUS
<1>3. PICK r : r = Failed(l)
  OBVIOUS
<1>4. /\ Inserting(c) /\ Range(ks) \subseteq Key /\ Moved(c, r)
      /\ next' = IF DrawsKeys(l.batch) /\ backend.kind # "sqlite" THEN next + 1 ELSE next
      /\ backend' = backend /\ rows' = rows /\ calls' = calls
  BY <1>1, <1>2, <1>3 DEF Collide
<1>5. /\ l \in CallType /\ KeysInv(l) /\ MineInv(l) /\ Typed
      /\ Chunk(l) = l.done + 1 .. Last(l)
      /\ Last(l) \in l.done + 1 .. Len(l.batch) /\ Len(l.batch) \in Nat /\ l.done \in Nat
      /\ ks \in [Chunk(l) -> Key]
      /\ DrawsKeys(l.batch) => \A i \in Chunk(l) : ks[i] = NextKey(c) + i - l.done - 1
  BY <1>1, <1>2, <1>4, KeysOfChunk
<1>6. r \in CallType /\ PlanInv(r) /\ KeysInv(r) /\ MineInv(r)
  BY <1>3, <1>5, FailedInv
<1>7. next' \in 1 .. MaxKey + 1
  <2>1. CASE DrawsKeys(l.batch) /\ backend.kind # "sqlite"
    <3>1. NextKey(c) = next /\ next \in 1 .. MaxKey + 1
      BY <1>5, <2>1, NextKeyFree DEF Typed
    <3>2. l.done + 1 \in Chunk(l)
      BY <1>5
    <3>3. ks[l.done + 1] = NextKey(c) + (l.done + 1) - l.done - 1 /\ ks[l.done + 1] \in Key
      BY <1>5, <2>1, <3>2
    <3>4. next \in Key
      BY <1>5, <3>1, <3>3 DEF Key
    <3>. QED BY <1>4, <2>1, <3>4, BoundsAssumption DEF Key
  <2>2. CASE ~(DrawsKeys(l.batch) /\ backend.kind # "sqlite")
    BY <1>4, <1>5, <2>2 DEF Typed
  <2>. QED BY <2>1, <2>2
<1>. QED BY <1>4, <1>6, <1>7, OfCall, Moves

\* Where a call may be after a statement that wrote a chunk.
Follows(r, l) ==
    /\ r.at \in {"statement", "select", "release", "opDone", "effected"}
    /\ r.at \in {"statement", "release"} => l.nested
    /\ r.at = "effected" => l.on = "database" /\ ~l.nested
    /\ r.at = "opDone" => l.on = "transaction" /\ ~l.nested

\* The rows that an INSERT writes, and what the call knows then.
LEMMA InsertWrites ==
    ASSUME IInv, NEW c \in Client, Insert(c), NEW l, l = call[c], NEW ks, ks = NewKeys(c)
    PROVE  /\ next' \in 1 .. MaxKey + 1 /\ backend' = backend /\ calls' = calls
           /\ \E new \in Overlay, r \in CallType :
                /\ Writes(c, new, r)
                /\ \A k \in Key : k \notin Range(ks) => new[k] = Untouched
                /\ \A i \in Chunk(l) :
                       (\A j \in Chunk(l) : ks[j] = ks[i] => j = i) => new[ks[i]] = l.batch[i].data
                /\ PlanInv(r) /\ KeysInv(r) /\ MineInv(r) /\ SamePlan(r, l)
                /\ r.mine = l.mine /\ r.nested = l.nested /\ Follows(r, l)
                /\ Len(r.wrote) = Last(l)
                /\ \A i \in 1 .. l.done : r.wrote[i] = l.wrote[i]
                /\ \A i \in Chunk(l) : r.wrote[i] = ks[i]
<1>. DEFINE new == [k \in Key |-> IF k \in Range(ks)
                                  THEN l.batch[CHOOSE i \in DOMAIN ks : ks[i] = k].data
                                  ELSE Untouched]
            s == [i \in 1 .. Cardinality(DOMAIN ks) |-> ks[l.done + i]]
            w == l.wrote \o s
            wrote == [l EXCEPT !.wrote = w]
            r == IF ~DrawsKeys(l.batch) THEN Advanced(wrote)
                 ELSE IF SupportsReturning THEN Advanced(Learned(wrote, ks))
                 ELSE [wrote EXCEPT !.at = "select"]
<1>3. /\ Inserting(c) /\ Range(ks) \subseteq Key
      /\ next' = IF backend.kind = "sqlite" /\ InTransaction(c) THEN next
                 ELSE NextAfter(Range(ks), DrawsKeys(l.batch))
      /\ Writes(c, new, r) /\ backend' = backend /\ calls' = calls
  BY DEF Insert
<1>4. /\ l \in CallType /\ PlanInv(l) /\ KeysInv(l) /\ MineInv(l) /\ Typed
      /\ l.at = "statement" /\ l.op \in Inserts
      /\ Chunk(l) = l.done + 1 .. Last(l) /\ Cardinality(Chunk(l)) = Last(l) - l.done
      /\ Last(l) \in l.done + 1 .. Len(l.batch) /\ Len(l.batch) \in Nat /\ l.done \in Nat
      /\ ~l.nested => Last(l) = Len(l.batch)
      /\ ks \in [Chunk(l) -> Key]
      /\ DrawsKeys(l.batch) => \A i \in Chunk(l) : ks[i] = NextKey(c) + i - l.done - 1
      /\ ~DrawsKeys(l.batch) => \A i \in Chunk(l) : ks[i] = l.batch[i].key
  BY <1>3, KeysOfChunk
<1>5. new \in Overlay
  <2>1. ASSUME NEW k \in Range(ks)
        PROVE  l.batch[CHOOSE i \in DOMAIN ks : ks[i] = k].data \in Data
    <3>1. PICK i : i = CHOOSE j \in DOMAIN ks : ks[j] = k
      OBVIOUS
    <3>2. \E j \in DOMAIN ks : ks[j] = k
      BY DEF Range
    <3>3. i \in DOMAIN ks
      BY <3>1, <3>2
    <3>4. l.batch \in Slices /\ i \in DOMAIN l.batch
      BY <1>4, <3>3 DEF CallType, Slices
    <3>5. l.batch[i] \in [key : Key \union {Automatic}, data : Data]
      <4>1. \A b \in Slices : \A j \in DOMAIN b : b[j] \in [key : Key \union {Automatic}, data : Data]
        BY Elements DEF Slices
      <4>. QED BY <3>4, <4>1
    <3>. QED BY <3>1, <3>5
  <2>. QED BY <2>1 DEF Overlay
<1>6. next' \in 1 .. MaxKey + 1
  <2>1. NextAfter(Range(ks), DrawsKeys(l.batch)) \in next .. MaxKey + 1
    BY <1>3, <1>4, NextAfterKeys
  <2>2. next \in 1 .. MaxKey + 1
    BY <1>4 DEF Typed
  <2>. QED BY <1>3, <2>1, <2>2
<1>7. /\ w \in Seq(Key) /\ Len(w) = Last(l)
      /\ \A i \in 1 .. l.done : w[i] = l.wrote[i]
      /\ \A i \in Chunk(l) : w[i] = ks[i]
  <2>1. Cardinality(DOMAIN ks) = Last(l) - l.done /\ Last(l) - l.done \in Nat
    BY <1>4
  <2>2. \A i \in 1 .. Last(l) - l.done : l.done + i \in Chunk(l)
    BY <1>4
  <2>3. s \in Seq(Key) /\ Len(s) = Last(l) - l.done
        /\ \A i \in 1 .. Last(l) - l.done : s[i] = ks[l.done + i]
    <3>1. PICK n \in Nat : n = Last(l) - l.done
      BY <2>1
    <3>2. s = [i \in 1 .. n |-> ks[l.done + i]]
      BY <2>1, <3>1
    <3>3. \A i \in 1 .. n : ks[l.done + i] \in Key
      BY <1>4, <2>2, <3>1
    <3>4. s \in [1 .. n -> Key] /\ \A i \in 1 .. n : s[i] = ks[l.done + i]
      BY <3>2, <3>3
    <3>5. s \in Seq(Key) /\ Len(s) = n
      BY <3>4, AsSequence
    <3>. QED BY <3>1, <3>4, <3>5
  <2>4. l.wrote \in Seq(Key) /\ Len(l.wrote) = l.done
    BY <1>4 DEF CallType, KeysInv
  <2>. HIDE DEF s
  <2>5. w \in Seq(Key) /\ Len(w) = l.done + Len(s)
    <3>1. s \in Seq(Key) /\ l.wrote \in Seq(Key)
      BY <2>3, <2>4
    <3>2. w \in Seq(Key) /\ Len(w) = Len(l.wrote) + Len(s)
      BY <3>1, Joined
    <3>. QED BY <2>4, <3>2
  <2>6. Len(w) = Last(l)
    BY <1>4, <2>3, <2>5
  <2>7. \A i \in 1 .. l.done : w[i] = l.wrote[i]
    BY <2>3, <2>4, Joined
  <2>9. \A i \in l.done + 1 .. l.done + Len(s) : w[i] = s[i - l.done]
    BY <2>3, <2>4, Joined
  <2>8. ASSUME NEW i \in Chunk(l) PROVE w[i] = ks[i]
    <3>1. i - l.done \in 1 .. Len(s) /\ i \in l.done + 1 .. Len(w) /\ l.done + (i - l.done) = i
      BY <1>4, <2>3, <2>6
    <3>2. w[i] = s[i - l.done]
      BY <2>5, <2>9, <3>1
    <3>3. s[i - l.done] = ks[l.done + (i - l.done)]
      BY <2>3, <3>1
    <3>. QED BY <3>1, <3>2, <3>3
  <2>. QED BY <2>5, <2>6, <2>7, <2>8
<1>. HIDE DEF new, w
<1>8. /\ wrote \in CallType /\ SamePlan(wrote, l) /\ wrote.mine = l.mine
      /\ wrote.at = l.at /\ wrote.done = l.done /\ wrote.nested = l.nested
      /\ wrote.wrote = w /\ wrote.keys = l.keys
  BY <1>4, <1>7, WroteFields
<1>9. PICK x : x = wrote
  OBVIOUS
<1>. HIDE DEF wrote
<1>10. /\ x \in CallType /\ SamePlan(x, l) /\ x.mine = l.mine /\ x.at = "statement"
       /\ x.done = l.done /\ x.nested = l.nested /\ x.wrote = w /\ x.keys = l.keys
       /\ PlanInv(x)
  BY <1>4, <1>8, <1>9 DEF SamePlan, PlanInv
<1>11. \A i \in 1 .. Last(l) : i \in 1 .. l.done \/ i \in Chunk(l)
  BY <1>4
<1>12. /\ r \in CallType /\ PlanInv(r) /\ KeysInv(r) /\ MineInv(r)
       /\ SamePlan(r, l) /\ r.mine = l.mine /\ r.nested = l.nested /\ r.wrote = w
       /\ Follows(r, l)
  <2>0. l.mine # Nothing => (l.on = "transaction" \/ l.nested)
    BY <1>4 DEF MineInv
  <2>1. ASSUME NEW y \in CallType, SamePlan(y, l), y.at = "statement", y.done = l.done,
               y.nested = l.nested, y.mine = l.mine, y.wrote = w, Len(y.keys) = Len(l.batch),
               \A i \in 1 .. Last(l) : y.keys[i] = w[i],
               ~DrawsKeys(l.batch) => \A i \in DOMAIN l.batch : y.keys[i] = l.batch[i].key,
               r = Advanced(y)
        PROVE  /\ r \in CallType /\ PlanInv(r) /\ KeysInv(r) /\ MineInv(r)
               /\ SamePlan(r, l) /\ r.mine = l.mine /\ r.nested = l.nested /\ r.wrote = w
               /\ Follows(r, l)
    <3>1. PlanInv(y)
      BY <1>4, <2>1 DEF SamePlan, PlanInv
    <3>2. /\ Chunk(y) = Chunk(l) /\ Last(y) = Last(l)
          /\ Chunk(y) = y.done + 1 .. Last(y) /\ Cardinality(Chunk(y)) = Last(y) - y.done
          /\ Last(y) \in y.done + 1 .. Len(y.batch)
          /\ ~y.nested => Last(y) = Len(y.batch)
      BY <1>4, <2>1, ChunkWritten
    <3>3. Written(y)
      BY <1>4, <1>7, <2>1, <3>1, <3>2 DEF SamePlan, Written, KeysInv
    <3>4. PICK z : z = Advanced(y)
      OBVIOUS
    <3>5. PlanInv(z) /\ KeysInv(z)
      BY <1>4, <3>2, <3>3, <3>4, AdvancedInv
    <3>6. /\ z \in CallType /\ SamePlan(z, y)
          /\ z.nested = y.nested /\ z.mine = y.mine /\ z.wrote = y.wrote /\ z.keys = y.keys
          /\ \/ /\ Last(y) = Len(y.batch) /\ y.nested
                /\ z.at = "release" /\ z.done = y.done
             \/ /\ Last(y) = Len(y.batch) /\ ~y.nested
                /\ z.at = (IF y.on = "database" THEN "effected" ELSE "opDone") /\ z.done = y.done
             \/ /\ Last(y) < Len(y.batch)
                /\ z.at = "statement" /\ z.done = Last(y)
      BY <1>4, <3>2, <3>3, <3>4, AdvancedFields
    <3>8. l.on \in {"database", "transaction"}
      BY <1>4 DEF CallType
    <3>9. /\ SamePlan(z, l) /\ z.mine = l.mine /\ z.nested = l.nested /\ z.wrote = w
          /\ Follows(z, l)
      BY <2>1, <3>2, <3>6, <3>8 DEF SamePlan, Follows
    <3>10. MineInv(z)
      BY <1>4, <1>7, <2>0, <2>1, <3>2, <3>6, <3>8 DEF SamePlan, MineInv
    <3>. QED BY <2>1, <3>4, <3>5, <3>6, <3>9, <3>10
  <2>2. CASE ~DrawsKeys(l.batch)
    <3>1. r = Advanced(x)
      BY <1>9, <2>2
    <3>2. \A i \in DOMAIN l.batch : l.keys[i] = l.batch[i].key
      BY <1>4, <2>2 DEF KeysInv
    <3>3. \A i \in Chunk(l) : i \in DOMAIN l.batch
      BY <1>4 DEF CallType, Slices
    <3>4. \A i \in 1 .. l.done : l.keys[i] = l.wrote[i]
      BY <1>4 DEF KeysInv
    <3>5. \A i \in 1 .. Last(l) : x.keys[i] = w[i]
      BY <1>4, <1>7, <1>10, <1>11, <2>2, <3>2, <3>3, <3>4
    <3>6. Len(x.keys) = Len(l.batch)
      BY <1>4, <1>10 DEF KeysInv
    <3>. HIDE DEF r
    <3>. QED BY <1>10, <2>1, <3>1, <3>2, <3>5, <3>6
  <2>3. CASE DrawsKeys(l.batch) /\ SupportsReturning
    <3>1. PICK y : y = Learned(x, ks)
      OBVIOUS
    <3>2. r = Advanced(y)
      BY <1>9, <2>3, <3>1
    <3>3. \A i \in DOMAIN ks : ks[i] \in Key
      BY <1>4
    <3>4. /\ y \in CallType /\ SamePlan(y, x)
          /\ y.at = x.at /\ y.done = x.done /\ y.nested = x.nested /\ y.mine = x.mine
          /\ y.wrote = x.wrote /\ Len(y.keys) = Len(x.keys)
          /\ \A i \in 1 .. Len(x.keys) :
                 y.keys[i] = IF i \in DOMAIN ks THEN ks[i] ELSE x.keys[i]
      BY <1>10, <3>1, <3>3, LearnedFields
    <3>5. Len(l.keys) = Len(l.batch) /\ \A i \in 1 .. l.done : l.keys[i] = l.wrote[i]
      BY <1>4 DEF KeysInv
    <3>6. \A i \in 1 .. Last(l) : i \in 1 .. Len(l.keys) /\ (i \in 1 .. l.done => i \notin DOMAIN ks)
      BY <1>4, <3>5
    <3>7. \A i \in 1 .. Last(l) : y.keys[i] = w[i]
      BY <1>4, <1>7, <1>10, <1>11, <3>4, <3>5, <3>6
    <3>. HIDE DEF r
    <3>8. SamePlan(y, l)
      BY <1>10, <3>4 DEF SamePlan
    <3>. QED BY <1>10, <2>1, <2>3, <3>2, <3>4, <3>5, <3>7, <3>8
  <2>4. CASE DrawsKeys(l.batch) /\ ~SupportsReturning
    <3>1. r = [x EXCEPT !.at = "select"]
      BY <1>9, <2>4
    <3>. HIDE DEF r
    <3>2. "select" \in At
      BY DEF At
    <3>3. /\ r \in CallType /\ SamePlan(r, x) /\ r.mine = x.mine
          /\ r.at = "select" /\ r.done = x.done /\ r.nested = x.nested
          /\ r.wrote = x.wrote /\ r.keys = x.keys
      BY <1>10, <3>1, <3>2, AtFields
    <3>4. SamePlan(r, l)
      BY <1>10, <3>3 DEF SamePlan
    <3>5. PlanInv(r)
      BY <1>4, <1>10, <3>3, <3>4 DEF SamePlan, PlanInv
    <3>6. backend.kind = "mysql"
      BY <2>4 DEF SupportsReturning, DatabaseReturning
    <3>7. Chunk(r) = Chunk(l)
      BY <1>10, <3>3, <3>4 DEF SamePlan, Chunk
    <3>8. \A i \in Chunk(l) : w[i] = w[l.done + 1] + (i - l.done - 1)
      <4>1. NextKey(c) \in Nat
        BY <1>4, NextKeyFree DEF Typed
      <4>2. l.done + 1 \in Chunk(l) /\ \A i \in Chunk(l) : i \in Nat
        BY <1>4
      <4>. QED BY <1>4, <1>7, <2>4, <4>1, <4>2
    <3>9. /\ Len(l.keys) = Len(l.batch) /\ l.done < Len(l.batch) /\ (~l.nested => l.done = 0)
          /\ \A i \in 1 .. l.done : l.keys[i] = w[i]
      BY <1>4, <1>7 DEF KeysInv
    <3>10. Len(w) = l.done + Cardinality(Chunk(l))
      BY <1>4, <1>7
    <3>11. KeysInv(r)
      BY <1>4, <1>10, <2>4, <3>3, <3>4, <3>6, <3>7, <3>8, <3>9, <3>10 DEF SamePlan, KeysInv, Answered
    <3>12. MineInv(r)
      BY <1>4, <1>7, <1>10, <2>0, <3>3, <3>4 DEF SamePlan, MineInv
    <3>. QED BY <1>10, <3>3, <3>4, <3>5, <3>11, <3>12 DEF SamePlan, Follows
  <2>. QED BY <2>2, <2>3, <2>4
<1>13. \A i \in Chunk(l) :
            (\A j \in Chunk(l) : ks[j] = ks[i] => j = i) => new[ks[i]] = l.batch[i].data
  <2>1. SUFFICES ASSUME NEW i \in Chunk(l), \A j \in Chunk(l) : ks[j] = ks[i] => j = i
                 PROVE  new[ks[i]] = l.batch[i].data
    OBVIOUS
  <2>2. ks[i] \in Key /\ ks[i] \in Range(ks) /\ DOMAIN ks = Chunk(l)
    BY <1>4 DEF Range
  <2>3. PICK j : j = CHOOSE m \in DOMAIN ks : ks[m] = ks[i]
    OBVIOUS
  <2>4. j \in DOMAIN ks /\ ks[j] = ks[i]
    BY <2>2, <2>3
  <2>5. j = i
    BY <2>1, <2>2, <2>4
  <2>. QED BY <2>2, <2>3, <2>5 DEF new
<1>14. \A k \in Key : k \notin Range(ks) => new[k] = Untouched
  BY DEF new
<1>. HIDE DEF r
<1>. QED BY <1>3, <1>5, <1>6, <1>7, <1>12, <1>13, <1>14

LEMMA InsertInv ==
    ASSUME IInv, NEW c \in Client, Insert(c)
    PROVE  IInv'
<1>1. PICK l : l = call[c]
  OBVIOUS
<1>2. PICK ks : ks = NewKeys(c)
  OBVIOUS
<1>3. /\ next' \in 1 .. MaxKey + 1 /\ backend' = backend /\ calls' = calls
      /\ \E new \in Overlay, r \in CallType :
            /\ Writes(c, new, r)
            /\ PlanInv(r) /\ KeysInv(r) /\ MineInv(r) /\ SamePlan(r, l)
            /\ r.mine = l.mine /\ r.nested = l.nested /\ Follows(r, l)
  BY <1>1, <1>2, InsertWrites
<1>4. PICK new \in Overlay, r \in CallType :
            /\ Writes(c, new, r)
            /\ PlanInv(r) /\ KeysInv(r) /\ MineInv(r) /\ SamePlan(r, l)
            /\ r.mine = l.mine /\ r.nested = l.nested /\ Follows(r, l)
  BY <1>3
<1>5. /\ r.at \notin {"idle", "opFailed"}
      /\ InTransaction(c) => (r.on = "transaction" \/ r.nested) /\ r.at # "effected"
  BY <1>1, <1>4 DEF Follows, SamePlan, InTransaction
<1>. QED BY <1>1, <1>3, <1>4, <1>5, WritesInv

Nth(found, m) == CHOOSE k \in found : Cardinality({j \in found : j < k}) = m

\* Rows with keys in a run of n that are n are the whole run, in order.
LEMMA WholeRun ==
    ASSUME NEW a \in Nat, NEW n \in Nat \ {0}, NEW found \in SUBSET (a .. a + n - 1),
           Cardinality(found) = n
    PROVE  /\ found = a .. a + n - 1
           /\ \A m \in 0 .. n - 1 : Nth(found, m) = a + m
<1>1. IsFiniteSet(a .. a + n - 1) /\ Cardinality(a .. a + n - 1) = n
  <2>1. a \in Int /\ a + n - 1 \in Int /\ ~(a > a + n - 1)
    OBVIOUS
  <2>2. IsFiniteSet(a .. a + n - 1) /\ Cardinality(a .. a + n - 1) = (a + n - 1) - a + 1
    BY <2>1, FS_Interval
  <2>. QED BY <2>2
<1>2. found = a .. a + n - 1
  BY <1>1, FS_Subset
<1>3. ASSUME NEW k \in found PROVE Cardinality({j \in found : j < k}) = k - a
  <2>1. {j \in found : j < k} = a .. k - 1
    BY <1>2
  <2>2. CASE k = a
    <3>1. a .. k - 1 = {}
      BY <2>2
    <3>2. Cardinality({}) = 0
      BY FS_EmptySet
    <3>. QED BY <2>1, <2>2, <3>1, <3>2
  <2>3. CASE k # a
    <3>1. a \in Int /\ k - 1 \in Int /\ ~(a > k - 1)
      BY <1>2, <2>3
    <3>2. Cardinality(a .. k - 1) = (k - 1) - a + 1
      BY <3>1, FS_Interval
    <3>3. k \in Nat /\ (k - 1) - a + 1 = k - a
      BY <1>2
    <3>. QED BY <2>1, <3>2, <3>3
  <2>. QED BY <2>2, <2>3
<1>4. ASSUME NEW m \in 0 .. n - 1
      PROVE  Nth(found, m) = a + m
  <2>1. a + m \in found
    BY <1>2
  <2>2. \A k \in found : Cardinality({j \in found : j < k}) = m <=> k = a + m
    <3>1. \A k \in found : k - a = m <=> k = a + m
      BY <1>2
    <3>2. SUFFICES ASSUME NEW k \in found PROVE Cardinality({j \in found : j < k}) = m <=> k = a + m
      OBVIOUS
    <3>3. PICK x : x = Cardinality({j \in found : j < k})
      OBVIOUS
    <3>4. x = k - a
      BY <1>3, <3>3
    <3>. QED BY <3>1, <3>3, <3>4
  <2>. QED BY <2>1, <2>2 DEF Nth
<1>. QED BY <1>2, <1>4

\* Select fails, or finds the rows that the database has written.
LEMMA SelectFinds ==
    ASSUME IInv, NEW c \in Client, Select(c)
    PROVE  /\ backend' = backend /\ rows' = rows /\ next' = next /\ calls' = calls
           /\ \E l, r \in CallType :
                /\ l = call[c] /\ l.at = "select" /\ l.op \in Inserts
                /\ Moved(c, r) /\ PlanInv(r) /\ KeysInv(r) /\ MineInv(r)
                /\ \/ r = Failed(l)
                   \/ /\ SamePlan(r, l) /\ r.mine = l.mine /\ r.nested = l.nested
                      /\ r.wrote = l.wrote /\ Follows(r, l)
<1>1. PICK l : l = call[c]
  OBVIOUS
<1>. DEFINE first == l.wrote[l.done + 1]
            n == Cardinality(Chunk(l))
            found == {k \in Key : /\ first <= k /\ k < first + n
                                  /\ View(c)[k] # Absent}
            nth(i) == CHOOSE k \in found : Cardinality({j \in found : j < k}) = i - l.done - 1
            ks == [i \in Chunk(l) |-> nth(i)]
<1>2. /\ l.at = "select"
      /\ Moved(c, IF Cardinality(found) # n THEN Failed(l) ELSE Advanced(Learned(l, ks)))
      /\ backend' = backend /\ rows' = rows /\ next' = next /\ calls' = calls
  BY <1>1 DEF Select
<1>3. /\ l \in CallType /\ PlanInv(l) /\ KeysInv(l) /\ MineInv(l) /\ Typed
  BY <1>1, OfCall
<1>4. /\ Chunk(l) = l.done + 1 .. Last(l) /\ n = Last(l) - l.done
      /\ Last(l) \in l.done + 1 .. Len(l.batch) /\ Len(l.batch) \in Nat /\ l.done \in Nat
      /\ ~l.nested => Last(l) = Len(l.batch)
  BY <1>2, <1>3, ChunkOfCall
<1>7. l.op \in Inserts
  BY <1>2, <1>3 DEF KeysInv
<1>5. CASE Cardinality(found) # n
  <2>1. PICK r : r = Failed(l)
    OBVIOUS
  <2>2. r \in CallType /\ PlanInv(r) /\ KeysInv(r) /\ MineInv(r)
    BY <1>3, <2>1, FailedInv
  <2>3. Moved(c, r)
    BY <1>2, <1>5, <2>1
  <2>. QED BY <1>1, <1>2, <1>3, <1>7, <2>1, <2>2, <2>3
<1>6. CASE Cardinality(found) = n
  <2>1. /\ l.op \in Inserts /\ DrawsKeys(l.batch) /\ Len(l.wrote) = l.done + n
        /\ \A i \in Chunk(l) : l.wrote[i] = first + (i - l.done - 1)
        /\ Len(l.keys) = Len(l.batch) /\ (~l.nested => l.done = 0)
        /\ \A i \in 1 .. l.done : l.keys[i] = l.wrote[i]
    BY <1>2, <1>3 DEF KeysInv
  <2>2. first \in Key /\ n \in Nat \ {0} /\ Len(l.wrote) = Last(l)
    <3>1. l.wrote \in Seq(Key) /\ l.done + 1 \in 1 .. Len(l.wrote)
      BY <1>3, <1>4, <2>1 DEF CallType
    <3>. QED BY <1>4, <2>1, <3>1
  <2>3. \A i \in Chunk(l) : nth(i) = l.wrote[i] /\ l.wrote[i] \in Key
    <3>1. PICK a \in Nat : a = first
      BY <2>2 DEF Key
    <3>2. PICK b \in Nat \ {0} : b = n
      BY <2>2
    <3>3. PICK f : f = found
      OBVIOUS
    <3>4. f \in SUBSET (a .. a + b - 1) /\ f \subseteq Key
      BY <3>1, <3>2, <3>3 DEF Key
    <3>5. Cardinality(f) = b
      BY <1>6, <3>2, <3>3
    <3>6. /\ f = a .. a + b - 1
          /\ \A m \in 0 .. b - 1 : Nth(f, m) = a + m
      BY <3>4, <3>5, WholeRun
    <3>7. ASSUME NEW i \in Chunk(l) PROVE nth(i) = l.wrote[i] /\ l.wrote[i] \in Key
      <4>1. PICK m \in 0 .. b - 1 : m = i - l.done - 1
        BY <1>4, <3>2
      <4>2. nth(i) = Nth(f, m)
        BY <3>3, <4>1 DEF Nth
      <4>3. l.wrote[i] = a + m
        BY <2>1, <3>1, <4>1
      <4>4. a + m \in f
        BY <3>6
      <4>. QED BY <3>4, <3>6, <4>2, <4>3, <4>4
    <3>. QED BY <3>7
  <2>. HIDE DEF nth, first
  <2>4. DOMAIN ks = Chunk(l) /\ \A i \in Chunk(l) : ks[i] = l.wrote[i] /\ ks[i] \in Key
    BY <2>3
  <2>. HIDE DEF ks, found
  <2>5. PICK y : y = Learned(l, ks)
    OBVIOUS
  <2>6. PICK r : r = Advanced(y)
    OBVIOUS
  <2>7. /\ y \in CallType /\ SamePlan(y, l)
        /\ y.at = l.at /\ y.done = l.done /\ y.nested = l.nested /\ y.mine = l.mine
        /\ y.wrote = l.wrote /\ Len(y.keys) = Len(l.keys)
        /\ \A i \in 1 .. Len(l.keys) :
               y.keys[i] = IF i \in DOMAIN ks THEN ks[i] ELSE l.keys[i]
    BY <1>3, <2>4, <2>5, LearnedFields
  <2>8. PlanInv(y)
    BY <1>3, <2>7 DEF SamePlan, PlanInv
  <2>9. \A i \in 1 .. Last(l) : (i \in 1 .. l.done \/ i \in Chunk(l)) /\ i \in 1 .. Len(l.keys)
    BY <1>4, <2>1
  <2>10. \A i \in 1 .. Last(l) : y.keys[i] = y.wrote[i]
    BY <2>1, <2>4, <2>7, <2>9
  <2>11. /\ Chunk(y) = Chunk(l) /\ Last(y) = Last(l)
         /\ Chunk(y) = y.done + 1 .. Last(y) /\ Cardinality(Chunk(y)) = Last(y) - y.done
         /\ Last(y) \in y.done + 1 .. Len(y.batch)
         /\ ~y.nested => Last(y) = Len(y.batch)
    BY <1>2, <1>3, <2>7, ChunkWritten
  <2>12. Written(y)
    BY <1>2, <1>4, <2>1, <2>2, <2>7, <2>8, <2>10, <2>11 DEF SamePlan, Written
  <2>13. PlanInv(r) /\ KeysInv(r)
    BY <1>3, <2>6, <2>7, <2>11, <2>12, AdvancedInv
  <2>14. /\ r \in CallType /\ SamePlan(r, y)
         /\ r.nested = y.nested /\ r.mine = y.mine /\ r.wrote = y.wrote /\ r.keys = y.keys
         /\ \/ /\ Last(y) = Len(y.batch) /\ y.nested
               /\ r.at = "release" /\ r.done = y.done
            \/ /\ Last(y) = Len(y.batch) /\ ~y.nested
               /\ r.at = (IF y.on = "database" THEN "effected" ELSE "opDone") /\ r.done = y.done
            \/ /\ Last(y) < Len(y.batch)
               /\ r.at = "statement" /\ r.done = Last(y)
    BY <1>3, <2>6, <2>7, <2>11, <2>12, AdvancedFields
  <2>15. MineInv(r)
    <3>1. l.on \in {"database", "transaction"}
      BY <1>3 DEF CallType
    <3>2. l.mine # Nothing => (l.on = "transaction" \/ l.nested)
      BY <1>3 DEF MineInv
    <3>. QED BY <1>4, <2>2, <2>7, <2>11, <2>14, <3>1, <3>2 DEF SamePlan, MineInv
  <2>16. Moved(c, r)
    BY <1>2, <1>6, <2>5, <2>6
  <2>17. /\ SamePlan(r, l) /\ r.mine = l.mine /\ r.nested = l.nested
         /\ r.wrote = l.wrote /\ Follows(r, l)
    <3>1. l.on \in {"database", "transaction"}
      BY <1>3 DEF CallType
    <3>. QED BY <2>7, <2>11, <2>14, <3>1 DEF SamePlan, Follows
  <2>. QED BY <1>1, <1>2, <1>3, <1>7, <2>13, <2>14, <2>15, <2>16, <2>17
<1>. QED BY <1>5, <1>6

LEMMA SelectInv ==
    ASSUME IInv, NEW c \in Client, Select(c)
    PROVE  IInv'
<1>2. /\ backend' = backend /\ rows' = rows /\ next' = next /\ calls' = calls
      /\ \E r \in CallType : Moved(c, r) /\ PlanInv(r) /\ KeysInv(r) /\ MineInv(r)
  BY SelectFinds
<1>. QED BY <1>2, OfCall, Moves

\* A call of one instance that has come to its end.
LEMMA SingleInv ==
    ASSUME IInv, NEW c \in Client, NEW l, l = call[c], l.at = "statement",
           l.op \in {"update", "delete"}, NEW k, k = l.batch[1].key,
           NEW r, r = Succeeded([l EXCEPT !.wrote = <<k>>])
    PROVE  /\ k \in Key /\ l.batch[1].data \in Data
           /\ r \in CallType /\ PlanInv(r) /\ KeysInv(r) /\ MineInv(r)
           /\ r.at \notin {"idle", "opFailed"} /\ r.mine = l.mine
           /\ InTransaction(c) => (r.on = "transaction" \/ r.nested) /\ r.at # "effected"
<1>1. l \in CallType /\ PlanInv(l) /\ KeysInv(l) /\ MineInv(l)
  BY OfCall
<1>2. l.op \notin Bulk /\ ~l.nested /\ Len(l.batch) = 1
  BY <1>1 DEF Bulk, PlanInv
<1>3. k \in Key /\ k # Automatic
  BY <1>1, NamesAssumption DEF KeysInv
<1>4. DOMAIN l.batch = {1} /\ l.batch \in Slices
  BY <1>1, <1>2 DEF CallType, Slices
<1>5. l.batch[1].data \in Data
  <2>1. \A b \in Slices : \A j \in DOMAIN b : b[j] \in [key : Key \union {Automatic}, data : Data]
    BY Elements DEF Slices
  <2>. QED BY <1>4, <2>1
<1>6. <<k>> \in Seq(Key) /\ Len(<<k>>) = 1 /\ <<k>>[1] = k
  BY <1>3
<1>10. l.keys = <<k>>
  <2>1. ~DrawsKeys(l.batch)
    BY <1>3 DEF DrawsKeys
  <2>2. Len(l.keys) = 1 /\ l.keys[1] = k
    BY <1>1, <1>2, <1>4, <2>1 DEF KeysInv
  <2>3. l.keys \in Seq(Key \union {Automatic})
    BY <1>1 DEF CallType
  <2>. QED BY <1>6, <2>2, <2>3
<1>18. PICK w \in Seq(Key) : w = <<k>>
  BY <1>6
<1>7. PICK x : x = [l EXCEPT !.wrote = w]
  OBVIOUS
<1>8. /\ x \in CallType /\ SamePlan(x, l) /\ x.mine = l.mine
      /\ x.at = l.at /\ x.done = l.done /\ x.nested = l.nested
      /\ x.wrote = w /\ x.keys = l.keys
  BY <1>1, <1>7, WroteFields
<1>19. r = Succeeded(x)
  BY <1>7, <1>18
<1>20. Len(w) = 1 /\ l.keys = w
  BY <1>6, <1>10, <1>18
<1>9. /\ r \in CallType /\ SamePlan(r, x)
      /\ r.at = (IF x.on = "database" THEN "effected" ELSE "opDone")
      /\ r.done = x.done /\ r.nested = x.nested /\ r.mine = x.mine
      /\ r.wrote = x.wrote /\ r.keys = x.keys
  BY <1>8, <1>19, SucceededFields
<1>11. l.on \in {"database", "transaction"}
  BY <1>1 DEF CallType
<1>12. r.at \in {"effected", "opDone"} /\ r.on = l.on /\ ~r.nested
  BY <1>2, <1>8, <1>9 DEF SamePlan
<1>21. /\ r.wrote = w /\ r.keys = w /\ Len(r.batch) = 1 /\ r.mine = l.mine /\ r.done = l.done
       /\ r.at = (IF l.on = "database" THEN "effected" ELSE "opDone")
  BY <1>2, <1>8, <1>9, <1>20 DEF SamePlan
<1>13. PlanInv(r)
  BY <1>12 DEF PlanInv
<1>14. KeysInv(r)
  BY <1>12, <1>20, <1>21 DEF KeysInv
<1>15. l.mine # Nothing => l.on = "transaction"
  BY <1>1, <1>2 DEF MineInv
<1>16. MineInv(r)
  <2>1. l.done <= 1
    BY <1>1, <1>2 DEF MineInv
  <2>2. r.done <= Len(r.batch) /\ Len(r.wrote) <= Len(r.batch)
    <3>1. Len(r.wrote) = 1
      BY <1>20, <1>21, Zenon
    <3>2. 1 <= 1
      OBVIOUS
    <3>. QED BY <1>21, <2>1, <3>1, <3>2, Zenon
  <2>3. r.mine # Nothing => r.on = "transaction" /\ r.at # "effected"
    BY <1>12, <1>15, <1>21
  <2>4. r.at = "opDone" => r.on = "transaction"
    BY <1>11, <1>12, <1>21
  <2>. QED BY <1>12, <2>2, <2>3, <2>4 DEF MineInv
<1>17. InTransaction(c) => r.on = "transaction" /\ r.at = "opDone"
  BY <1>2, <1>8, <1>9 DEF SamePlan, InTransaction
<1>. QED BY <1>3, <1>5, <1>8, <1>9, <1>12, <1>13, <1>14, <1>16, <1>17

LEMMA UpdateInv ==
    ASSUME IInv, NEW c \in Client, Update(c)
    PROVE  IInv'
<1>1. PICK l : l = call[c]
  OBVIOUS
<1>2. PICK k : k = l.batch[1].key
  OBVIOUS
<1>3. PICK r : r = Succeeded([l EXCEPT !.wrote = <<k>>])
  OBVIOUS
<1>4. /\ l.at = "statement" /\ l.op = "update"
      /\ IF View(c)[k] = Absent
         THEN Moved(c, Failed(l)) /\ rows' = rows
         ELSE Writes(c, [Nothing EXCEPT ![k] = l.batch[1].data], r)
      /\ backend' = backend /\ next' = next /\ calls' = calls
  BY <1>1, <1>2, <1>3 DEF Update
<1>5. /\ k \in Key /\ l.batch[1].data \in Data
      /\ r \in CallType /\ PlanInv(r) /\ KeysInv(r) /\ MineInv(r)
      /\ r.at \notin {"idle", "opFailed"} /\ r.mine = l.mine
      /\ InTransaction(c) => (r.on = "transaction" \/ r.nested) /\ r.at # "effected"
  BY <1>1, <1>2, <1>3, <1>4, SingleInv
<1>6. CASE View(c)[k] = Absent
  <2>1. PICK f : f = Failed(l)
    OBVIOUS
  <2>2. f \in CallType /\ PlanInv(f) /\ KeysInv(f) /\ MineInv(f)
    BY <1>1, <2>1, OfCall, FailedInv
  <2>3. Moved(c, f) /\ rows' = rows
    BY <1>4, <1>6, <2>1
  <2>. QED BY <1>4, <2>2, <2>3, OfCall, Moves
<1>7. CASE View(c)[k] # Absent
  <2>1. PICK new : new = [Nothing EXCEPT ![k] = l.batch[1].data]
    OBVIOUS
  <2>2. new \in Overlay
    BY <1>5, <2>1 DEF Nothing, Overlay
  <2>3. Writes(c, new, r)
    BY <1>4, <1>7, <2>1
  <2>4. next' \in 1 .. MaxKey + 1
    BY <1>4, OfCall
  <2>. QED BY <1>1, <1>4, <1>5, <2>2, <2>3, <2>4, WritesInv
<1>. QED BY <1>6, <1>7

LEMMA DeleteInv ==
    ASSUME IInv, NEW c \in Client, Delete(c)
    PROVE  IInv'
<1>1. PICK l : l = call[c]
  OBVIOUS
<1>2. PICK k : k = l.batch[1].key
  OBVIOUS
<1>3. PICK r : r = Succeeded([l EXCEPT !.wrote = <<k>>])
  OBVIOUS
<1>4. PICK new : new = IF View(c)[k] = Absent THEN Nothing ELSE [Nothing EXCEPT ![k] = Absent]
  OBVIOUS
<1>5. /\ l.at = "statement" /\ l.op = "delete" /\ Writes(c, new, r)
      /\ backend' = backend /\ next' = next /\ calls' = calls
  BY <1>1, <1>2, <1>3, <1>4 DEF Delete
<1>6. new \in Overlay
  BY <1>4 DEF Nothing, Overlay
<1>7. /\ r \in CallType /\ PlanInv(r) /\ KeysInv(r) /\ MineInv(r)
      /\ r.at \notin {"idle", "opFailed"} /\ r.mine = l.mine
      /\ InTransaction(c) => (r.on = "transaction" \/ r.nested) /\ r.at # "effected"
  BY <1>1, <1>2, <1>3, <1>5, SingleInv
<1>8. next' \in 1 .. MaxKey + 1
  BY <1>5, OfCall
<1>. QED BY <1>1, <1>5, <1>6, <1>7, <1>8, WritesInv

\* A transaction that is committed leaves nothing behind.
LEMMA CommitsInv ==
    ASSUME IInv, NEW c \in Client, NEW l \in CallType, Commits(c, l),
           l.at \in {"idle", "effected"}, l.at = "idle" => l = Idle, ~l.nested,
           l.at = "effected" => l.keys = l.wrote,
           Len(l.keys) = Len(l.batch), Len(l.wrote) <= Len(l.batch), l.done <= Len(l.batch),
           backend' = backend, calls' = calls
    PROVE  IInv'
<1>1. Typed /\ call[c] \in CallType
  BY OfCall
<1>2. Nothing \in Overlay
  BY DEF Nothing, Overlay
<1>3. PICK q : q = [l EXCEPT !.mine = Nothing]
  OBVIOUS
<1>4. /\ q \in CallType /\ SamePlan(q, l) /\ q.mine = Nothing
      /\ q.at = l.at /\ q.done = l.done /\ q.nested = l.nested
      /\ q.wrote = l.wrote /\ q.keys = l.keys
  BY <1>2, <1>3, MineFields
<1>5. l.at = "idle" => q = Idle
  <2>1. \A x \in CallType : x.mine = Nothing => [x EXCEPT !.mine = Nothing] = x
    BY DEF CallType
  <2>2. [Idle EXCEPT !.mine = Nothing] = Idle
    BY <2>1, IdleFields DEF Idle
  <2>. QED BY <1>3, <2>2
<1>6. PlanInv(q) /\ KeysInv(q) /\ MineInv(q)
  BY <1>4, <1>5 DEF SamePlan, PlanInv, KeysInv, MineInv, Answered
<1>7. Moved(c, q)
  BY <1>3 DEF Commits
<1>8. rows' \in [Key -> Data \union {Absent}]
  <2>1. rows' = Over(call[c].mine, rows)
    BY DEF Commits
  <2>2. call[c].mine \in Overlay /\ rows \in [Key -> Data \union {Absent}]
    BY <1>1 DEF CallType, Typed
  <2>. QED BY <2>1, <2>2, OverType
<1>9. next' \in 1 .. MaxKey + 1
  <2>. DEFINE keys == {k \in Key : call[c].mine[k] \notin {Untouched, Absent}}
  <2>1. next' = IF backend.kind = "sqlite" THEN NextAfter(keys, TRUE) ELSE next
    BY DEF Commits
  <2>2. keys \in SUBSET Key
    OBVIOUS
  <2>. HIDE DEF keys
  <2>3. NextAfter(keys, TRUE) \in next .. MaxKey + 1
    BY <1>1, <2>2, NextAfterKeys
  <2>4. next \in 1 .. MaxKey + 1
    BY <1>1 DEF Typed
  <2>5. PICK v : v = NextAfter(keys, TRUE)
    OBVIOUS
  <2>6. next' = v \/ next' = next
    BY <2>1, <2>5
  <2>7. v \in next .. MaxKey + 1
    BY <2>3, <2>5
  <2>. QED BY <2>4, <2>6, <2>7, BoundsAssumption
<1>. QED BY <1>4, <1>6, <1>7, <1>8, <1>9, OfCall, Moves

LEMMA ReleaseInv ==
    ASSUME IInv, NEW c \in Client, Release(c)
    PROVE  IInv'
<1>1. PICK l : l = call[c]
  OBVIOUS
<1>2. PICK q : q = [l EXCEPT !.nested = FALSE]
  OBVIOUS
<1>3. PICK r : r = Succeeded(q)
  OBVIOUS
<1>4. /\ l.at = "release" /\ backend' = backend /\ calls' = calls
      /\ IF l.on = "database" THEN Commits(c, r)
         ELSE Moved(c, r) /\ rows' = rows /\ next' = next
  BY <1>1, <1>2, <1>3 DEF Release
<1>5. l \in CallType /\ KeysInv(l) /\ MineInv(l)
  BY <1>1, OfCall
<1>6. /\ q \in CallType /\ ~q.nested /\ q.on = l.on /\ q.batch = l.batch /\ q.op = l.op
      /\ q.at = l.at /\ q.done = l.done /\ q.mine = l.mine /\ q.wrote = l.wrote /\ q.keys = l.keys
  BY <1>2, <1>5 DEF CallType
<1>7. /\ r \in CallType /\ SamePlan(r, q)
      /\ r.at = (IF q.on = "database" THEN "effected" ELSE "opDone")
      /\ r.done = q.done /\ r.nested = q.nested /\ r.mine = q.mine
      /\ r.wrote = q.wrote /\ r.keys = q.keys
  BY <1>3, <1>6, SucceededFields
<1>8. /\ l.keys = l.wrote /\ Len(l.keys) = Len(l.batch)
      /\ Len(l.wrote) <= Len(l.batch) /\ l.done <= Len(l.batch)
  BY <1>4, <1>5 DEF KeysInv, MineInv, Answered
<1>9. CASE l.on = "database"
  <2>1. Commits(c, r)
    BY <1>4, <1>9
  <2>2. r.at = "effected" /\ ~r.nested /\ r.keys = r.wrote /\ Len(r.keys) = Len(r.batch)
        /\ Len(r.wrote) <= Len(r.batch) /\ r.done <= Len(r.batch)
    BY <1>6, <1>7, <1>8, <1>9 DEF SamePlan
  <2>. QED BY <1>4, <1>7, <2>1, <2>2, CommitsInv
<1>10. CASE l.on # "database"
  <2>1. Moved(c, r) /\ rows' = rows /\ next' = next
    BY <1>4, <1>10
  <2>2. l.on = "transaction"
    BY <1>5, <1>10 DEF CallType
  <2>3. r.at = "opDone" /\ ~r.nested /\ r.on = "transaction"
    BY <1>6, <1>7, <1>10, <2>2 DEF SamePlan
  <2>4. PlanInv(r) /\ KeysInv(r) /\ MineInv(r)
    BY <1>6, <1>7, <1>8, <2>3 DEF SamePlan, PlanInv, KeysInv, MineInv
  <2>. QED BY <1>4, <1>7, <2>1, <2>4, OfCall, Moves
<1>. QED BY <1>9, <1>10

LEMMA CommitInv ==
    ASSUME IInv, NEW c \in Client, Commit(c)
    PROVE  IInv'
<1>1. PICK l : l = call[c]
  OBVIOUS
<1>2. l \in CallType /\ PlanInv(l) /\ KeysInv(l) /\ MineInv(l)
  BY <1>1, OfCall
<1>3. PICK r : r = IF l.at = "opDone" THEN [l EXCEPT !.at = "effected"] ELSE Idle
  OBVIOUS
<1>4. l.at \in {"opDone", "opFailed"} /\ Commits(c, r) /\ backend' = backend /\ calls' = calls
  BY <1>1, <1>3 DEF Commit
<1>5. CASE l.at = "opDone"
  <2>1. r = [l EXCEPT !.at = "effected"] /\ "effected" \in At
    BY <1>3, <1>5 DEF At
  <2>2. /\ r \in CallType /\ SamePlan(r, l) /\ r.mine = l.mine
        /\ r.at = "effected" /\ r.done = l.done /\ r.nested = l.nested
        /\ r.wrote = l.wrote /\ r.keys = l.keys
    BY <1>2, <2>1, AtFields
  <2>3. /\ l.keys = l.wrote /\ Len(l.keys) = Len(l.batch) /\ ~l.nested
        /\ Len(l.wrote) <= Len(l.batch) /\ l.done <= Len(l.batch)
    BY <1>2, <1>5 DEF PlanInv, KeysInv, MineInv, Answered
  <2>. QED BY <1>4, <2>2, <2>3, CommitsInv DEF SamePlan
<1>6. CASE l.at = "opFailed"
  <2>1. r = Idle
    BY <1>3, <1>6
  <2>2. /\ Idle.at = "idle" /\ ~Idle.nested /\ Idle.done = 0
        /\ Idle.batch = << >> /\ Idle.wrote = << >> /\ Idle.keys = << >>
    BY DEF Idle
  <2>3. Len(<< >>) = 0
    OBVIOUS
  <2>4. /\ r \in CallType /\ r.at = "idle" /\ ~r.nested
        /\ Len(r.keys) = Len(r.batch) /\ Len(r.wrote) <= Len(r.batch) /\ r.done <= Len(r.batch)
    BY <2>1, <2>2, <2>3, IdleFields
  <2>. QED BY <1>4, <2>1, <2>4, CommitsInv
<1>. QED BY <1>4, <1>5, <1>6

-----------------------------------------------------------------------------
(* The inductive invariant, and what follows                               *)

LEMMA Inductive == Spec => []IInv
<1>1. Init => IInv
  <2>1. SUFFICES ASSUME Init PROVE IInv
    OBVIOUS
  <2>2. Typed
    BY <2>1, IdleFields, BoundsAssumption DEF Init, Typed
  <2>3. \A c \in Client : call[c] = Idle
    BY <2>1 DEF Init
  <2>. QED BY <2>2, <2>3, IdleFields DEF IInv, CallInv
<1>2. IInv /\ [Next]_vars => IInv'
  <2>1. SUFFICES ASSUME IInv, [Next]_vars PROVE IInv'
    OBVIOUS
  <2>2. ASSUME NEW c \in Client, Invoke(c) \/ Step(c) \/ Break(c) \/ End(c) PROVE IInv'
    BY <2>1, <2>2, InvokeInv, IdleInv, CollideInv, InsertInv, SelectInv, UpdateInv, DeleteInv,
       ReleaseInv, CommitInv, BreakInv DEF Step
  <2>3. CASE UNCHANGED vars
    BY <2>1, <2>3 DEF vars, IInv, Typed, CallInv, PlanInv, KeysInv, MineInv, NumValues,
                      BatchSize, DrawsKeys, Chunk, Smaller, Answered
  <2>. QED BY <2>1, <2>2, <2>3 DEF Next
<1>. QED BY <1>1, <1>2, PTL DEF Spec

\* Whoever else draws keys at the same time: when insert, save or a bulk insert
\* returns Ok, each instance has the key of the row that was written for it, with
\* RETURNING and where MySQL is asked for the rows again.
THEOREM InstancesGetTheirKeys == Spec => []KeysAreOwn
<1>1. IInv => KeysAreOwn
  BY DEF IInv, CallInv, KeysInv, Answered, KeysAreOwn
<1>. QED BY <1>1, Inductive, PTL

\* No statement of a bulk insert carries more parameters than the database takes,
\* whatever the limit, the columns of the model and the length of the slice; and
\* what is written and not committed belongs to a transaction that is open.
THEOREM BulkStatementsFit == Spec => []StatementsFit
<1>1. IInv => TypeOK
  <2>1. SUFFICES ASSUME IInv PROVE TypeOK
    OBVIOUS
  <2>2. ASSUME NEW c \in Client
        PROVE  LET l == call[c] IN
               /\ l.at \in At /\ l.on \in {"database", "transaction"}
               /\ l.batch \in Slices /\ l.mine \in Overlay
               /\ DOMAIN l.keys = DOMAIN l.batch
               /\ Len(l.wrote) <= Len(l.batch)
               /\ l.done \in 0 .. Len(l.batch)
               /\ l.mine = Nothing \/ InTransaction(c)
    <3>1. PICK l : l = call[c]
      OBVIOUS
    <3>2. l \in CallType /\ KeysInv(l) /\ MineInv(l)
      BY <2>1, <3>1, OfCall
    <3>3. Len(l.keys) = Len(l.batch) /\ Len(l.wrote) <= Len(l.batch) /\ l.done <= Len(l.batch)
      BY <3>2 DEF KeysInv, MineInv
    <3>4. l.batch \in Slices /\ l.keys \in Seq(Key \union {Automatic}) /\ l.done \in Nat
      BY <3>2 DEF CallType
    <3>5. DOMAIN l.keys = DOMAIN l.batch /\ l.done \in 0 .. Len(l.batch)
      BY <3>3, <3>4 DEF Slices
    <3>6. l.mine = Nothing \/ InTransaction(c)
      BY <3>1, <3>2 DEF MineInv, InTransaction
    <3>. QED BY <3>1, <3>2, <3>3, <3>4, <3>5, <3>6 DEF CallType
  <2>. QED BY <2>1, <2>2 DEF TypeOK, IInv, Typed, Slices
<1>2. ASSUME IInv, NEW c \in Client, call[c].at = "statement", call[c].op \in Bulk
      PROVE  Cardinality(Chunk(call[c])) * NumValues(call[c].batch) <= backend.limit
  BY <1>2, OfCall, ChunkOfCall
<1>3. IInv => StatementsFit
  BY <1>1, <1>2 DEF StatementsFit
<1>. QED BY <1>3, Inductive, PTL

-----------------------------------------------------------------------------
(* The refinement of ModelTable.  The counter of PostgreSQL is not moved by *)
(* keys that programs write, and gives those keys to others later: the      *)
(* theorem is about programs that write no key of their own there.          *)

KeysAreDrawn == "postgres" \notin Inventive

\* The instances of a call whose rows have been written, and what they became.
InMine(l) ==
    /\ \A i \in 1 .. Len(l.wrote) : l.mine[l.wrote[i]] = l.batch[i].data
    /\ \A k \in Key : (\A i \in 1 .. Len(l.wrote) : l.wrote[i] # k) => l.mine[k] = Untouched

\* What the database and the caller may count on while a call is under way,
\* with the rows rs and the counter nx.
Distinct(l) == \A i, j \in 1 .. Len(l.wrote) : l.wrote[i] = l.wrote[j] => i = j
Asked(l)    == \A i \in 1 .. Len(l.wrote) : l.batch[i].key \in {l.wrote[i], Automatic}

\* The keys of the slice are as LegalKeys has let them through.
Legal(l, nx) ==
    /\ \A i, j \in DOMAIN l.batch : l.batch[i].key = l.batch[j].key => i = j \/ l.batch[i].key = Automatic
    /\ DrawsKeys(l.batch) => \A i \in DOMAIN l.batch : l.batch[i].key = Automatic
    /\ \A i \in DOMAIN l.batch :
           \/ l.batch[i].key = Automatic
           \/ l.batch[i].key < nx
           \/ backend.kind \in Inventive

\* An insert has written rows that are still new to everybody else.
Inserted(l, rs) ==
    /\ InMine(l)
    /\ \A i \in 1 .. Len(l.wrote) :
           l.batch[i].key = Automatic \/ l.op \in Table!Inserts => rs[l.wrote[i]] = Absent

Wrote(l, rs, nx) ==
    /\ l.at # "idle" => l.op # "none"
    /\ l.at \in {"statement", "select"} \union Answered => Distinct(l) /\ Asked(l)
    /\ l.at \in {"statement", "select"} => Legal(l, nx) /\ (l.op \notin Inserts => l.mine = Nothing)
    /\ l.at = "release" => l.batch # << >>
    /\ /\ l.op \in Inserts /\ (l.on = "transaction" \/ l.nested)
       /\ l.at \in {"statement", "select", "release", "opDone"}
       => Inserted(l, rs)
    /\ l.at = "opDone" /\ l.op = "update" =>
           /\ InMine(l) /\ Len(l.wrote) = 1 /\ l.batch[1].key = l.wrote[1]
           /\ rs[l.wrote[1]] # Absent
    /\ l.at = "opDone" /\ l.op = "delete" =>
           /\ Len(l.wrote) = 1 /\ l.batch[1].key = l.wrote[1]
           /\ \A k \in Key : k # l.wrote[1] => l.mine[k] = Untouched
           /\ l.mine[l.wrote[1]] \in {Absent, Untouched}

\* Keys that the counter has not reached have no rows; no row is written by two
\* transactions; and the counter passes keys when they are written, or with the
\* transaction, if it is the only one that writes.
Undisturbed ==
    /\ \A k \in Key : k >= next => rows[k] = Absent
    /\ \A c \in Client : \A k \in Key : call[c].mine[k] # Untouched =>
           /\ k \notin Held(c)
           /\ backend.kind = "sqlite" => Held(c) = {}
           /\ backend.kind # "sqlite" => k < next

RInv == Undisturbed /\ \A c \in Client : Wrote(call[c], rows, next)

LEMMA DataOfBatch ==
    ASSUME NEW l \in CallType
    PROVE  /\ DOMAIN l.batch = 1 .. Len(l.batch) /\ Len(l.batch) \in Nat
           /\ \A i \in DOMAIN l.batch :
                  l.batch[i].data \in Data /\ l.batch[i].key \in Key \union {Automatic}
<1>1. l.batch \in Slices
  BY DEF CallType
<1>2. \A b \in Slices : \A j \in DOMAIN b : b[j] \in [key : Key \union {Automatic}, data : Data]
  BY Elements DEF Slices
<1>3. \A i \in DOMAIN l.batch : l.batch[i] \in [key : Key \union {Automatic}, data : Data]
  BY <1>1, <1>2
<1>4. DOMAIN l.batch = 1 .. Len(l.batch) /\ Len(l.batch) \in Nat
  BY <1>1 DEF Slices
<1>. QED BY <1>3, <1>4

\* One step of c; what others count on is not disturbed.
LEMMA KeepsOthers ==
    ASSUME IInv, RInv, NEW c \in Client, NEW r \in CallType, Moved(c, r), backend' = backend,
           next' \in Nat, next <= next',
           \A k \in Key : rows'[k] # rows[k] => k \notin Held(c),
           \A k \in Key : k >= next' => rows'[k] = Absent,
           \A k \in Key : r.mine[k] # Untouched =>
               /\ k \notin Held(c)
               /\ backend.kind = "sqlite" => Held(c) = {}
               /\ backend.kind # "sqlite" => k < next',
           Wrote(r, rows', next')
    PROVE  RInv'
<1>1. call' = [call EXCEPT ![c] = r] /\ call \in [Client -> CallType]
  BY DEF Moved, IInv, Typed
<1>2. \A d \in Client : call'[d] = IF d = c THEN r ELSE call[d]
  BY <1>1
<1>3. next \in Nat /\ MaxKey \in Nat
  BY BoundsAssumption DEF IInv, Typed
<1>4. ASSUME NEW d \in Client, NEW k \in Key, call'[d].mine[k] # Untouched
      PROVE  /\ k \notin Held(d)'
             /\ backend.kind = "sqlite" => Held(d)' = {}
             /\ backend.kind # "sqlite" => k < next'
  <2>1. CASE d = c
    <3>1. Held(d)' = Held(c)
      BY <1>2, <2>1 DEF Held
    <3>. QED BY <1>2, <1>4, <2>1, <3>1
  <2>2. CASE d # c
    <3>1. call[d].mine[k] # Untouched /\ call'[d] = call[d]
      BY <1>2, <1>4, <2>2
    <3>2. k \in Held(c) /\ Held(c) # {}
      BY <2>2, <3>1 DEF Held
    <3>3. r.mine[k] = Untouched
      BY <3>2
    <3>4. backend.kind = "sqlite" => \A j \in Key : r.mine[j] = Untouched
      BY <3>2
    <3>5. k \notin Held(d) /\ (backend.kind = "sqlite" => Held(d) = {})
          /\ (backend.kind # "sqlite" => k < next)
      BY <3>1 DEF RInv, Undisturbed
    <3>6. k \notin Held(d)'
      <4>1. SUFFICES ASSUME NEW e \in Client \ {d}, call'[e].mine[k] # Untouched PROVE FALSE
        BY DEF Held
      <4>2. call[e].mine[k] # Untouched
        BY <1>2, <3>3, <4>1
      <4>. QED BY <3>5, <4>2 DEF Held
    <3>7. ASSUME backend.kind = "sqlite" PROVE Held(d)' = {}
      <4>1. SUFFICES ASSUME NEW j \in Key, NEW e \in Client \ {d}, call'[e].mine[j] # Untouched
                     PROVE  FALSE
        BY DEF Held
      <4>2. call[e].mine[j] # Untouched
        BY <1>2, <3>4, <3>7, <4>1
      <4>. QED BY <3>5, <3>7, <4>2 DEF Held
    <3>8. k \in Nat
      BY DEF Key
    <3>. QED BY <1>3, <3>5, <3>6, <3>7, <3>8
  <2>. QED BY <2>1, <2>2
<1>5. Undisturbed'
  BY <1>4 DEF Undisturbed
<1>6. ASSUME NEW d \in Client PROVE Wrote(call[d], rows, next)'
  <2>1. PICK x : x = call'[d]
    OBVIOUS
  <2>2. CASE d = c
    <3>1. Wrote(x, rows', next') /\ x = call'[d]
      BY <1>2, <2>1, <2>2
    <3>. QED BY <3>1 DEF Wrote, Legal, Inserted, InMine, Distinct, Asked, DrawsKeys
  <2>3. CASE d # c
    <3>1. x = call[d] /\ x \in CallType
      BY <1>1, <1>2, <2>1, <2>3
    <3>2. Wrote(x, rows, next) /\ PlanInv(x) /\ KeysInv(x) /\ MineInv(x)
      BY <3>1, OfCall DEF RInv
    <3>3. \A k \in Key : x.mine[k] # Untouched => rows'[k] = rows[k]
      BY <2>3, <3>1 DEF Held
    <3>4. \A i \in 1 .. Len(x.wrote) : x.wrote[i] \in Key /\ i \in DOMAIN x.batch
      <4>1. x.wrote \in Seq(Key) /\ x.batch \in Slices /\ Len(x.wrote) <= Len(x.batch)
        BY <3>1, <3>2 DEF CallType, MineInv
      <4>. QED BY <4>1 DEF Slices
    <3>5. \A i \in DOMAIN x.batch : x.batch[i].data \in Data /\ x.batch[i].key \in Key \union {Automatic}
      BY <3>1, DataOfBatch
    <3>6. InMine(x) => \A i \in 1 .. Len(x.wrote) : rows'[x.wrote[i]] = rows[x.wrote[i]]
      BY <3>3, <3>4, <3>5, NamesAssumption DEF InMine
    <3>7. Inserted(x, rows) => Inserted(x, rows')
      BY <3>6 DEF Inserted
    <3>8. Legal(x, next) => Legal(x, next')
      <4>1. \A k \in Key : k \in Nat
        BY DEF Key
      <4>. QED BY <1>3, <3>5, <4>1 DEF Legal
    <3>9. InMine(x) /\ Len(x.wrote) = 1 /\ rows[x.wrote[1]] # Absent => rows'[x.wrote[1]] # Absent
      BY <3>6
    <3>10. Wrote(x, rows', next')
      BY <3>2, <3>7, <3>8, <3>9 DEF Wrote
    <3>. QED BY <2>1, <3>10 DEF Wrote, Legal, Inserted, InMine, Distinct, Asked, DrawsKeys
  <2>. QED BY <2>2, <2>3
<1>. QED BY <1>5, <1>6 DEF RInv

\* A step that writes nothing.
LEMMA KeepsQuiet ==
    ASSUME IInv, RInv, NEW c \in Client, NEW r \in CallType, Moved(c, r), backend' = backend,
           rows' = rows, next' \in Nat, next <= next',
           \A k \in Key : r.mine[k] # Untouched => call[c].mine[k] # Untouched,
           Wrote(r, rows, next')
    PROVE  RInv'
<1>1. next \in Nat /\ \A k \in Key : k \in Nat
  BY BoundsAssumption DEF IInv, Typed, Key
<1>2. \A k \in Key : k >= next' => rows'[k] = Absent
  BY <1>1 DEF RInv, Undisturbed
<1>3. \A k \in Key : r.mine[k] # Untouched =>
          /\ k \notin Held(c)
          /\ backend.kind = "sqlite" => Held(c) = {}
          /\ backend.kind # "sqlite" => k < next'
  BY <1>1 DEF RInv, Undisturbed
<1>4. Wrote(r, rows', next')
  OBVIOUS
<1>. QED BY <1>2, <1>3, <1>4, KeepsOthers

\* A statement that writes.
LEMMA KeepsWrites ==
    ASSUME IInv, RInv, NEW c \in Client, NEW new \in Overlay, NEW r \in CallType,
           NEW q \in CallType, Moved(c, q), r.mine = call[c].mine, backend' = backend,
           next' \in Nat, next <= next',
           IF InTransaction(c) THEN q.mine = Over(new, r.mine) /\ rows' = rows
           ELSE q.mine = r.mine /\ rows' = Over(new, rows),
           \A k \in Key : new[k] # Untouched =>
               /\ k \notin Held(c)
               /\ backend.kind = "sqlite" => Held(c) = {}
               /\ k < next' \/ (backend.kind = "sqlite" /\ InTransaction(c)),
           Wrote(q, rows', next')
    PROVE  RInv'
<1>1. next \in Nat /\ \A k \in Key : k \in Nat
  BY BoundsAssumption DEF IInv, Typed, Key
<1>2. \A k \in Key : rows'[k] # rows[k] => new[k] # Untouched
  BY DEF Over
<1>3. \A k \in Key : k >= next' => rows'[k] = Absent
  <2>1. SUFFICES ASSUME NEW k \in Key, k >= next' PROVE rows'[k] = Absent
    OBVIOUS
  <2>2. rows[k] = Absent
    BY <1>1, <2>1 DEF RInv, Undisturbed
  <2>3. CASE InTransaction(c)
    BY <2>2, <2>3
  <2>4. CASE ~InTransaction(c)
    <3>1. new[k] = Untouched
      BY <1>1, <2>1, <2>4
    <3>2. rows'[k] = rows[k]
      BY <1>2, <3>1
    <3>. QED BY <2>2, <3>2
  <2>. QED BY <2>3, <2>4
<1>4. ASSUME NEW k \in Key, q.mine[k] # Untouched
      PROVE  /\ k \notin Held(c)
             /\ backend.kind = "sqlite" => Held(c) = {}
             /\ backend.kind # "sqlite" => k < next'
  <2>1. CASE call[c].mine[k] # Untouched
    BY <1>1, <2>1 DEF RInv, Undisturbed
  <2>2. CASE call[c].mine[k] = Untouched
    <3>1. new[k] # Untouched
      BY <1>4, <2>2 DEF Over
    <3>. QED BY <3>1
  <2>. QED BY <2>1, <2>2
<1>. QED BY <1>2, <1>3, <1>4, KeepsOthers

\* The end of a transaction.
LEMMA KeepsCommits ==
    ASSUME IInv, RInv, NEW c \in Client, NEW l \in CallType, Commits(c, l), backend' = backend,
           NEW q \in CallType, q = [l EXCEPT !.mine = Nothing], Wrote(q, rows', next')
    PROVE  RInv'
<1>. DEFINE keys == {k \in Key : call[c].mine[k] \notin {Untouched, Absent}}
<1>1. /\ rows' = Over(call[c].mine, rows) /\ Moved(c, q)
      /\ next' = IF backend.kind = "sqlite" THEN NextAfter(keys, TRUE) ELSE next
  BY DEF Commits
<1>2. next \in Nat /\ MaxKey \in Nat /\ Typed /\ \A k \in Key : k \in Nat
  BY BoundsAssumption DEF IInv, Typed, Key
<1>3. keys \in SUBSET Key
  OBVIOUS
<1>4. \A k \in Key : k \in keys <=> call[c].mine[k] \notin {Untouched, Absent}
  OBVIOUS
<1>. HIDE DEF keys
<1>5. PICK v : v = NextAfter(keys, TRUE)
  OBVIOUS
<1>6. v \in next .. MaxKey + 1
  BY <1>2, <1>3, <1>5, NextAfterKeys
<1>7. \A k \in keys : k < v
  <2>1. CASE keys = {}
    BY <2>1
  <2>2. CASE keys # {}
    <3>1. \A k \in keys : k < NextAfter(keys, TRUE)
      BY <1>2, <1>3, <2>2, NextAfterKeys
    <3>. QED BY <1>5, <3>1
  <2>. QED BY <2>1, <2>2
<1>8. next' = IF backend.kind = "sqlite" THEN v ELSE next
  BY <1>1, <1>5
<1>9. next' \in Nat /\ next <= next'
  BY <1>2, <1>6, <1>8
<1>10. \A k \in Key : rows'[k] # rows[k] => call[c].mine[k] # Untouched
  BY <1>1 DEF Over
<1>11. \A k \in Key : rows'[k] # rows[k] => k \notin Held(c)
  BY <1>10 DEF RInv, Undisturbed
<1>12. \A k \in Key : k >= next' => rows'[k] = Absent
  <2>1. SUFFICES ASSUME NEW k \in Key, k >= next', rows'[k] # Absent PROVE FALSE
    OBVIOUS
  <2>2. rows[k] = Absent
    BY <1>2, <1>9, <2>1 DEF RInv, Undisturbed
  <2>3. call[c].mine[k] # Untouched /\ call[c].mine[k] # Absent
    BY <1>1, <2>1, <2>2 DEF Over
  <2>4. k < next'
    <3>1. CASE backend.kind = "sqlite"
      BY <1>4, <1>7, <1>8, <2>3, <3>1
    <3>2. CASE backend.kind # "sqlite"
      BY <1>8, <2>3, <3>2 DEF RInv, Undisturbed
    <3>. QED BY <3>1, <3>2
  <2>. QED BY <1>2, <1>9, <2>1, <2>4
<1>13. \A k \in Key : q.mine[k] = Untouched
  <2>1. q.mine = Nothing
    BY DEF CallType
  <2>. QED BY <2>1 DEF Nothing
<1>. QED BY <1>1, <1>9, <1>11, <1>12, <1>13, KeepsOthers

-----------------------------------------------------------------------------
(* The steps of the table                                                  *)

\* The calls as the table sees them, as in the refinement mapping.
Calls == [c \in Client |->
            [op    |-> call[c].op,
             batch |-> call[c].batch,
             keys  |-> IF Effected(c) THEN call[c].wrote ELSE Absent]]

Took(l) ==
    \/ l.at = "effected" /\ l.batch # <<>>
    \/ l.at = "select" /\ ~(l.on = "transaction" \/ l.nested)
    \/ l.at = "opDone" /\ l.op = "delete" /\ l.mine = Nothing

Shown(l) == [op |-> l.op, batch |-> l.batch, keys |-> IF Took(l) THEN l.wrote ELSE Absent]

LEMMA CallsAre ==
    ASSUME NEW c \in Client
    PROVE  Calls[c] = Shown(call[c])
<1>1. Effected(c) <=> Took(call[c])
  BY DEF Effected, Took, InTransaction
<1>. QED BY <1>1 DEF Calls, Shown

LEMMA CallsMove ==
    ASSUME IInv, NEW c \in Client, NEW r, Moved(c, r)
    PROVE  Calls' = [Calls EXCEPT ![c] = Shown(r)]
<1>1. call' = [call EXCEPT ![c] = r] /\ call \in [Client -> CallType]
  BY DEF Moved, IInv, Typed
<1>2. \A d \in Client : call'[d] = IF d = c THEN r ELSE call[d]
  BY <1>1
<1>3. \A d \in Client : Calls'[d] = Shown(call'[d])
  <2>1. TAKE d \in Client
  <2>2. Effected(d)' <=> Took(call'[d])
    BY DEF Effected, Took, InTransaction
  <2>. QED BY <2>2 DEF Calls, Shown
<1>4. \A d \in Client : Calls[d] = Shown(call[d])
  BY CallsAre
<1>5. Calls' = [d \in Client |-> Calls'[d]] /\ Calls = [d \in Client |-> Calls[d]]
  BY DEF Calls
<1>6. \A d \in Client : Calls'[d] = IF d = c THEN Shown(r) ELSE Calls[d]
  BY <1>2, <1>3, <1>4
<1>. QED BY <1>5, <1>6

LEMMA TableStutters ==
    ASSUME IInv, NEW c \in Client, NEW r, Moved(c, r), rows' = rows, Shown(r) = Shown(call[c])
    PROVE  UNCHANGED <<rows, Calls>>
<1>1. Calls' = [Calls EXCEPT ![c] = Calls[c]]
  BY CallsMove, CallsAre
<1>2. Calls = [d \in Client |-> Calls[d]]
  BY DEF Calls
<1>3. Calls' = Calls
  BY <1>1, <1>2
<1>. QED BY <1>3

LEMMA TableEnds ==
    ASSUME IInv, NEW c \in Client, Moved(c, Idle), rows' = rows
    PROVE  Table!Next \/ UNCHANGED <<rows, Calls>>
<1>1. Shown(Idle) = Table!Idle
  <2>1. ~Took(Idle) /\ Idle.op = "none" /\ Idle.batch = << >>
    BY DEF Took, Idle
  <2>. QED BY <2>1 DEF Shown, Table!Idle
<1>2. Calls' = [Calls EXCEPT ![c] = Table!Idle]
  BY <1>1, CallsMove
<1>3. CASE Calls[c] = Table!Idle
  <2>1. Calls = [d \in Client |-> Calls[d]]
    BY DEF Calls
  <2>2. Calls' = Calls
    BY <1>2, <1>3, <2>1
  <2>. QED BY <2>2
<1>4. CASE Calls[c] # Table!Idle
  <2>1. Table!End(c)
    BY <1>2, <1>4 DEF Table!End, Calls
  <2>. QED BY <2>1 DEF Table!Next
<1>. QED BY <1>3, <1>4

\* All instances of a call are there at once, each under a key of its own.
LEMMA TableTakesEffect ==
    ASSUME IInv, NEW c \in Client, NEW l, l = call[c], NEW r \in CallType, Moved(c, r),
           ~Took(l), Took(r), SamePlan(r, l), l.op # "none",
           Len(r.wrote) = Len(r.batch), Distinct(r), Asked(r),
           rows' \in [Key -> Data \union {Absent}],
           \A i \in 1 .. Len(r.wrote) :
               /\ r.batch[i].key = Automatic \/ r.op \in Table!Inserts => rows[r.wrote[i]] = Absent
               /\ r.op = "update" => rows[r.wrote[i]] # Absent
               /\ rows'[r.wrote[i]] = IF r.op = "delete" THEN Absent ELSE r.batch[i].data,
           \A k \in Key : (\A i \in 1 .. Len(r.wrote) : r.wrote[i] # k) => rows'[k] = rows[k]
    PROVE  Table!Next
<1>1. r.wrote \in Seq(Key) /\ DOMAIN r.batch = 1 .. Len(r.batch)
  BY DataOfBatch DEF CallType
<1>2. PICK ks : ks = r.wrote
  OBVIOUS
<1>. DEFINE b  == Calls[c].batch
            op == Calls[c].op
<1>19. Calls[c] = Shown(l)
  BY CallsAre
<1>20. PICK x : x = Calls[c]
  OBVIOUS
<1>21. x.batch = l.batch /\ x.op = l.op /\ x.keys = Absent
  BY <1>19, <1>20 DEF Shown
<1>3. b = r.batch
  BY <1>20, <1>21 DEF SamePlan
<1>4. op = r.op
  BY <1>20, <1>21 DEF SamePlan
<1>0. Calls[c].keys = Absent
  BY <1>20, <1>21
<1>. HIDE DEF b, op
<1>5. ks \in [DOMAIN b -> Key] /\ DOMAIN b = 1 .. Len(ks)
  BY <1>1, <1>2, <1>3
<1>6. Calls[c] = [op |-> op, batch |-> b, keys |-> Absent]
  BY <1>3, <1>4, CallsAre DEF Shown, SamePlan
<1>7. Calls' = [Calls EXCEPT ![c] = [op |-> op, batch |-> b, keys |-> ks]]
  BY <1>2, <1>3, <1>4, CallsMove DEF Shown
<1>8. [Calls[c] EXCEPT !.keys = ks] = [op |-> op, batch |-> b, keys |-> ks]
  BY <1>6
<1>9. Calls' = [Calls EXCEPT ![c].keys = ks]
  BY <1>7, <1>8
<1>10. Table!IsInjective(ks)
  BY <1>2, <1>5 DEF Distinct, Table!IsInjective
<1>11. \A i \in DOMAIN b :
          /\ b[i].key \in {ks[i], Automatic}
          /\ b[i].key = Automatic \/ op \in Table!Inserts => rows[ks[i]] = Absent
          /\ op = "update" => rows[ks[i]] # Absent
  BY <1>2, <1>3, <1>4, <1>5 DEF Asked
<1>12. Table!Targets(op, b, ks)
  BY <1>10, <1>11 DEF Table!Targets
<1>13. \A i \in DOMAIN b : rows'[ks[i]] = IF op = "delete" THEN Absent ELSE b[i].data
  BY <1>2, <1>3, <1>4, <1>5
<1>14. \A k \in Key : (\A i \in DOMAIN b : ks[i] # k) => rows'[k] = rows[k]
  BY <1>2, <1>5
<1>15. \A i, j \in DOMAIN b : ks[i] = ks[j] => i = j
  BY <1>2, <1>5 DEF Distinct
<1>16. rows' = [k \in Key |->
          IF \A i \in DOMAIN b : ks[i] # k THEN rows[k]
          ELSE IF op = "delete" THEN Absent
          ELSE b[CHOOSE i \in DOMAIN b : ks[i] = k].data]
  <2>1. ASSUME NEW k \in Key
        PROVE  rows'[k] = IF \A i \in DOMAIN b : ks[i] # k THEN rows[k]
                          ELSE IF op = "delete" THEN Absent
                          ELSE b[CHOOSE i \in DOMAIN b : ks[i] = k].data
    <3>1. CASE \A i \in DOMAIN b : ks[i] # k
      BY <1>14, <3>1
    <3>2. CASE \E i \in DOMAIN b : ks[i] = k
      <4>1. PICK i : i = CHOOSE j \in DOMAIN b : ks[j] = k
        OBVIOUS
      <4>2. i \in DOMAIN b /\ ks[i] = k
        BY <3>2, <4>1
      <4>3. rows'[k] = IF op = "delete" THEN Absent ELSE b[i].data
        BY <1>13, <4>2
      <4>. QED BY <3>2, <4>1, <4>3
    <3>. QED BY <3>1, <3>2
  <2>. QED BY <2>1
<1>17. op # "none"
  BY <1>4 DEF SamePlan
<1>18. Table!Effect(c)
  <2>1. \E kk \in [DOMAIN b -> Key] :
          /\ Table!Targets(op, b, kk)
          /\ rows' = [k \in Key |->
                IF \A i \in DOMAIN b : kk[i] # k THEN rows[k]
                ELSE IF op = "delete" THEN Absent
                ELSE b[CHOOSE i \in DOMAIN b : kk[i] = k].data]
          /\ Calls' = [Calls EXCEPT ![c].keys = kk]
    BY <1>5, <1>9, <1>12, <1>16
  <2>. QED BY <1>0, <1>17, <2>1 DEF Table!Effect, Calls, b, op
<1>. QED BY <1>18 DEF Table!Next

\* What both halves of the refinement say of a step.
TableStep == RInv' /\ (Table!Next \/ UNCHANGED <<rows, Calls>>)

\* A call that has written nothing yet.
LEMMA FreshWrote ==
    ASSUME IInv, NEW r \in CallType, r.wrote = << >>, r.mine = Nothing, r.op # "none",
           r.at \in {"statement", "effected", "opDone", "opFailed"},
           r.at = "opDone" => r.op \in Bulk, r.at = "statement" => Legal(r, next)
    PROVE  Wrote(r, rows, next)
<1>1. Len(r.wrote) = 0
  BY DEF CallType
<1>2. Distinct(r) /\ Asked(r)
  BY <1>1 DEF Distinct, Asked
<1>3. Inserted(r, rows)
  BY <1>1 DEF Inserted, InMine, Nothing
<1>4. r.op \in Bulk => r.op \notin {"update", "delete"}
  BY DEF Bulk
<1>. QED BY <1>2, <1>3, <1>4 DEF Wrote, Answered

LEMMA FailedStep ==
    ASSUME IInv, RInv, NEW c \in Client, NEW l, l = call[c], NEW r, r = Failed(l), Moved(c, r),
           l.at \in {"statement", "select", "release"},
           backend' = backend, rows' = rows, next' \in Nat, next <= next'
    PROVE  TableStep
<1>1. l \in CallType /\ KeysInv(l) /\ MineInv(l) /\ Wrote(l, rows, next)
  BY OfCall DEF RInv
<1>2. \/ l.on = "database" /\ r = Idle
      \/ /\ l.on = "transaction" /\ r \in CallType /\ SamePlan(r, l)
         /\ r.at = "opFailed" /\ r.mine = Nothing /\ ~r.nested
         /\ r.done = l.done /\ r.wrote = l.wrote /\ r.keys = l.keys
  BY <1>1, FailedFields
<1>3. CASE l.on = "database" /\ r = Idle
  <2>1. Idle \in CallType /\ Idle.at = "idle" /\ Idle.mine = Nothing
    BY IdleFields DEF Idle
  <2>2. Wrote(Idle, rows, next')
    BY <2>1 DEF Wrote, Answered
  <2>3. \A k \in Key : Idle.mine[k] = Untouched
    BY <2>1 DEF Nothing
  <2>4. RInv'
    BY <1>3, <2>1, <2>2, <2>3, KeepsQuiet
  <2>. QED BY <1>3, <2>4, TableEnds DEF TableStep
<1>4. CASE /\ l.on = "transaction" /\ r \in CallType /\ SamePlan(r, l)
           /\ r.at = "opFailed" /\ r.mine = Nothing
  <2>1. l.op # "none"
    BY <1>1 DEF Wrote
  <2>2. Wrote(r, rows, next')
    BY <1>4, <2>1 DEF Wrote, Answered, SamePlan
  <2>3. \A k \in Key : r.mine[k] = Untouched
    BY <1>4 DEF Nothing
  <2>4. RInv'
    BY <1>4, <2>2, <2>3, KeepsQuiet
  <2>5. ~Took(r) /\ ~Took(l)
    BY <1>4 DEF Took
  <2>6. Shown(r) = Shown(call[c])
    BY <1>4, <2>5 DEF Shown, SamePlan
  <2>. QED BY <2>4, <2>6, TableStutters DEF TableStep
<1>. QED BY <1>2, <1>3, <1>4

LEMMA IdleStep ==
    ASSUME IInv, RInv, NEW c \in Client, Moved(c, Idle),
           backend' = backend, rows' = rows, next' = next
    PROVE  TableStep
<1>1. Idle \in CallType /\ Idle.at = "idle" /\ Idle.mine = Nothing
  BY IdleFields DEF Idle
<1>2. Wrote(Idle, rows, next)
  BY <1>1 DEF Wrote, Answered
<1>3. \A k \in Key : Idle.mine[k] = Untouched
  BY <1>1 DEF Nothing
<1>4. next \in Nat
  BY DEF IInv, Typed
<1>5. RInv'
  BY <1>1, <1>2, <1>3, <1>4, KeepsQuiet
<1>. QED BY <1>5, TableEnds DEF TableStep

LEMMA CollideStep ==
    ASSUME IInv, RInv, NEW c \in Client, Collide(c) \/ Break(c)
    PROVE  TableStep
<1>1. PICK l : l = call[c]
  OBVIOUS
<1>2. PICK r : r = Failed(l)
  OBVIOUS
<1>3. next \in Nat
  BY DEF IInv, Typed
<1>4. /\ Moved(c, r) /\ l.at \in {"statement", "select", "release"}
      /\ backend' = backend /\ rows' = rows /\ next' \in {next, next + 1}
  BY <1>1, <1>2 DEF Collide, Break, Inserting
<1>5. next' \in Nat /\ next <= next'
  BY <1>3, <1>4
<1>. QED BY <1>1, <1>2, <1>4, <1>5, FailedStep

LEMMA SelectStep ==
    ASSUME IInv, RInv, NEW c \in Client, Select(c)
    PROVE  TableStep
<1>1. PICK l \in CallType, r \in CallType :
         /\ l = call[c] /\ l.at = "select" /\ l.op \in Inserts
         /\ Moved(c, r) /\ PlanInv(r) /\ KeysInv(r) /\ MineInv(r)
         /\ \/ r = Failed(l)
            \/ /\ SamePlan(r, l) /\ r.mine = l.mine /\ r.nested = l.nested
               /\ r.wrote = l.wrote /\ Follows(r, l)
  BY SelectFinds
<1>2. backend' = backend /\ rows' = rows /\ next' = next
  BY SelectFinds
<1>3. next \in Nat
  BY DEF IInv, Typed
<1>4. CASE r = Failed(l)
  BY <1>1, <1>2, <1>3, <1>4, FailedStep
<1>5. CASE /\ SamePlan(r, l) /\ r.mine = l.mine /\ r.nested = l.nested
           /\ r.wrote = l.wrote /\ Follows(r, l)
  <2>1. Wrote(l, rows, next) /\ l.batch # << >> /\ l.op \notin {"none", "update", "delete"}
    BY <1>1, OfCall DEF RInv, PlanInv, Inserts, Bulk
  <2>2. Distinct(r) /\ Asked(r) /\ (Inserted(l, rows) => Inserted(r, rows)) /\ Legal(r, next)
    BY <1>1, <1>5, <2>1 DEF SamePlan, Wrote, Distinct, Asked, Inserted, InMine, Legal
  <2>3. Wrote(r, rows, next)
    BY <1>1, <1>5, <2>1, <2>2 DEF SamePlan, Wrote, Follows
  <2>4. RInv'
    BY <1>1, <1>2, <1>3, <1>5, <2>3, KeepsQuiet
  <2>5. Took(r) <=> Took(l)
    BY <1>1, <1>5, <2>1 DEF SamePlan, Took, Follows, CallType
  <2>6. Shown(r) = Shown(call[c])
    BY <1>1, <1>5, <2>5 DEF Shown, SamePlan
  <2>. QED BY <1>1, <1>2, <2>4, <2>6, TableStutters DEF TableStep
<1>. QED BY <1>1, <1>4, <1>5

\* The rows that an INSERT is about to write are no rows of the same slice, nor
\* of another transaction, and the database draws keys that are free.
LEMMA FreshKeys ==
    ASSUME IInv, RInv, NEW c \in Client, Inserting(c), NEW l, l = call[c], NEW ks, ks = NewKeys(c),
           Range(ks) \subseteq Key
    PROVE  /\ \A i, j \in Chunk(l) : ks[i] = ks[j] => i = j
           /\ \A i \in Chunk(l) :
                 /\ l.mine[ks[i]] = Untouched
                 /\ DrawsKeys(l.batch) => rows[ks[i]] = Absent /\ l.batch[i].key = Automatic
                 /\ ~DrawsKeys(l.batch) => l.batch[i].key = ks[i] /\ l.batch[i].key # Automatic
           /\ \A i \in 1 .. l.done : \A j \in Chunk(l) : l.wrote[i] # ks[j]
<1>1. /\ l \in CallType /\ PlanInv(l) /\ KeysInv(l) /\ MineInv(l) /\ Typed
      /\ l.at = "statement" /\ l.op \in Inserts
      /\ Chunk(l) = l.done + 1 .. Last(l)
      /\ Last(l) \in l.done + 1 .. Len(l.batch) /\ Len(l.batch) \in Nat /\ l.done \in Nat
      /\ ks \in [Chunk(l) -> Key]
      /\ DrawsKeys(l.batch) => \A i \in Chunk(l) : ks[i] = NextKey(c) + i - l.done - 1
      /\ ~DrawsKeys(l.batch) => \A i \in Chunk(l) : ks[i] = l.batch[i].key
  BY KeysOfChunk
<1>2. Wrote(l, rows, next)
  BY DEF RInv
<1>3. Legal(l, next) /\ Distinct(l) /\ Asked(l) /\ Len(l.wrote) = l.done
  BY <1>1, <1>2 DEF Wrote, KeysInv
<1>4. \A i \in Chunk(l) : i \in DOMAIN l.batch /\ i \in Nat /\ i > l.done
  BY <1>1, DataOfBatch
<1>5. (l.on = "transaction" \/ l.nested) => InMine(l)
  BY <1>1, <1>2 DEF Wrote, Inserted
<1>6. l.on \in {"database", "transaction"}
  BY <1>1 DEF CallType
<1>7. ~(l.on = "transaction" \/ l.nested) => l.done = 0 /\ \A k \in Key : l.mine[k] = Untouched
  BY <1>1 DEF KeysInv, MineInv, Nothing
<1>8. \A i \in 1 .. l.done : i \in DOMAIN l.batch /\ l.wrote[i] \in Key
  <2>1. l.wrote \in Seq(Key) /\ l.done <= Len(l.batch) /\ DOMAIN l.batch = 1 .. Len(l.batch)
    BY <1>1, DataOfBatch DEF CallType
  <2>. QED BY <1>1, <1>3, <2>1
<1>9. \A i \in Chunk(l) : ks[i] \in Key /\ ks[i] # Automatic
  BY <1>1, NamesAssumption
<1>10. CASE DrawsKeys(l.batch)
  <2>1. PICK n \in Nat : n = NextKey(c)
    BY <1>1, NextKeyFree DEF Typed
  <2>2. /\ n >= next /\ (backend.kind # "sqlite" => n = next)
        /\ backend.kind = "sqlite" => \A j \in Key : j >= n => l.mine[j] = Untouched
    BY <1>1, <2>1, NextKeyFree DEF Typed
  <2>3. \A i \in Chunk(l) : ks[i] = n + i - l.done - 1
    BY <1>1, <1>10, <2>1
  <2>4. \A i \in Chunk(l) : ks[i] \in Nat /\ ks[i] >= n /\ ks[i] >= next
    BY <1>1, <1>4, <2>2, <2>3 DEF Typed
  <2>5. \A i, j \in Chunk(l) : ks[i] = ks[j] => i = j
    BY <1>1, <1>4, <2>3
  <2>6. \A i \in Chunk(l) : rows[ks[i]] = Absent
    BY <1>9, <2>4 DEF RInv, Undisturbed
  <2>7. ASSUME NEW i \in Chunk(l) PROVE l.mine[ks[i]] = Untouched
    <3>1. CASE backend.kind = "sqlite"
      BY <1>9, <2>2, <2>4, <3>1
    <3>2. CASE backend.kind # "sqlite"
      <4>1. l.mine[ks[i]] # Untouched => ks[i] < next
        BY <1>9, <3>2 DEF RInv, Undisturbed
      <4>. QED BY <1>1, <2>4, <4>1 DEF Typed
    <3>. QED BY <3>1, <3>2
  <2>8. \A i \in Chunk(l) : l.batch[i].key = Automatic
    BY <1>3, <1>4, <1>10 DEF Legal
  <2>9. \A i \in 1 .. l.done : l.mine[l.wrote[i]] # Untouched
    <3>1. \A i \in 1 .. l.done : l.batch[i].data \in Data
      BY <1>1, <1>8, DataOfBatch
    <3>2. CASE l.on = "transaction" \/ l.nested
      BY <1>3, <1>5, <3>1, <3>2, NamesAssumption DEF InMine
    <3>3. CASE ~(l.on = "transaction" \/ l.nested)
      <4>1. 1 .. l.done = {}
        BY <1>7, <3>3
      <4>. QED BY <4>1
    <3>. QED BY <3>2, <3>3
  <2>. QED BY <1>10, <2>5, <2>6, <2>7, <2>8, <2>9
<1>11. CASE ~DrawsKeys(l.batch)
  <2>1. \A i \in Chunk(l) : ks[i] = l.batch[i].key /\ l.batch[i].key # Automatic
    BY <1>1, <1>9, <1>11
  <2>2. \A i, j \in Chunk(l) : ks[i] = ks[j] => i = j
    BY <1>3, <1>4, <2>1 DEF Legal
  <2>3. \A i \in 1 .. l.done : l.wrote[i] = l.batch[i].key
    BY <1>1, <1>8, <1>11 DEF KeysInv
  <2>4. \A i \in 1 .. l.done : \A j \in Chunk(l) : l.wrote[i] # ks[j]
    <3>1. SUFFICES ASSUME NEW i \in 1 .. l.done, NEW j \in Chunk(l), l.wrote[i] = ks[j] PROVE FALSE
      OBVIOUS
    <3>2. l.batch[i].key = l.batch[j].key /\ l.batch[i].key # Automatic
      BY <2>1, <2>3, <3>1
    <3>3. i = j
      BY <1>3, <1>4, <1>8, <3>2 DEF Legal
    <3>. QED BY <1>1, <1>4, <3>3
  <2>5. ASSUME NEW i \in Chunk(l) PROVE l.mine[ks[i]] = Untouched
    <3>1. CASE l.on = "transaction" \/ l.nested
      BY <1>3, <1>5, <1>9, <2>4, <3>1 DEF InMine
    <3>2. CASE ~(l.on = "transaction" \/ l.nested)
      BY <1>7, <1>9, <3>2
    <3>. QED BY <3>1, <3>2
  <2>. QED BY <1>11, <2>1, <2>2, <2>4, <2>5
<1>. QED BY <1>10, <1>11

\* The counter passes the keys of an INSERT.
LEMMA InsertPasses ==
    ASSUME KeysAreDrawn, IInv, RInv, NEW c \in Client, Insert(c), NEW l, l = call[c],
           NEW ks, ks = NewKeys(c)
    PROVE  /\ next <= next' /\ next' \in Nat
           /\ \A i \in Chunk(l) : ks[i] < next' \/ (backend.kind = "sqlite" /\ InTransaction(c))
<1>1. /\ Inserting(c) /\ Range(ks) \subseteq Key
      /\ next' = IF backend.kind = "sqlite" /\ InTransaction(c) THEN next
                 ELSE NextAfter(Range(ks), DrawsKeys(l.batch))
  BY DEF Insert
<1>2. /\ l \in CallType /\ Typed /\ ks \in [Chunk(l) -> Key] /\ l.at = "statement"
      /\ Chunk(l) = l.done + 1 .. Last(l)
      /\ Last(l) \in l.done + 1 .. Len(l.batch) /\ Len(l.batch) \in Nat /\ l.done \in Nat
  BY <1>1, KeysOfChunk
<1>3. next \in 1 .. MaxKey + 1 /\ MaxKey \in Nat
  BY <1>2, BoundsAssumption DEF Typed
<1>4. CASE backend.kind = "sqlite" /\ InTransaction(c)
  BY <1>1, <1>3, <1>4
<1>5. CASE ~(backend.kind = "sqlite" /\ InTransaction(c))
  <2>1. PICK K \in SUBSET Key : K = Range(ks)
    BY <1>1
  <2>2. PICK drawn : drawn = DrawsKeys(l.batch)
    OBVIOUS
  <2>3. next' = NextAfter(K, drawn)
    BY <1>1, <1>5, <2>1, <2>2
  <2>4. /\ NextAfter(K, drawn) \in next .. MaxKey + 1
        /\ K # {} /\ (backend.kind = "postgres" => drawn) => \A k \in K : k < NextAfter(K, drawn)
    BY <1>2, NextAfterKeys
  <2>5. next <= next' /\ next' \in Nat
    BY <1>3, <2>3, <2>4
  <2>6. ASSUME NEW i \in Chunk(l) PROVE ks[i] < next'
    <3>1. ks[i] \in K /\ K # {} /\ ks[i] \in Nat
      BY <1>2, <2>1 DEF Range, Key
    <3>2. CASE backend.kind = "postgres" => drawn
      BY <2>3, <2>4, <3>1, <3>2
    <3>3. CASE backend.kind = "postgres" /\ ~drawn
      <4>1. l.batch[i].key = ks[i] /\ l.batch[i].key # Automatic
        BY <1>1, <2>2, <3>3, FreshKeys
      <4>2. Legal(l, next) /\ i \in DOMAIN l.batch
        BY <1>2, DataOfBatch DEF RInv, Wrote
      <4>3. ks[i] < next
        BY <3>3, <4>1, <4>2 DEF Legal, KeysAreDrawn
      <4>. QED BY <1>3, <2>5, <3>1, <4>3
    <3>. QED BY <3>2, <3>3
  <2>. QED BY <2>5, <2>6
<1>. QED BY <1>4, <1>5

LEMMA InsertStep ==
    ASSUME KeysAreDrawn, IInv, RInv, NEW c \in Client, Insert(c)
    PROVE  TableStep
<1>1. PICK l : l = call[c]
  OBVIOUS
<1>2. PICK ks : ks = NewKeys(c)
  OBVIOUS
<1>3. /\ Inserting(c) /\ Range(ks) \subseteq Key /\ MayWrite(c, Range(ks))
      /\ l.op \in Upserts \/ \A i \in DOMAIN ks : View(c)[ks[i]] = Absent
  BY <1>1, <1>2 DEF Insert
<1>4. /\ l \in CallType /\ PlanInv(l) /\ KeysInv(l) /\ MineInv(l) /\ Typed
      /\ l.at = "statement" /\ l.op \in Inserts
      /\ Chunk(l) = l.done + 1 .. Last(l)
      /\ Last(l) \in l.done + 1 .. Len(l.batch) /\ Len(l.batch) \in Nat /\ l.done \in Nat
      /\ ~l.nested => Last(l) = Len(l.batch)
      /\ ks \in [Chunk(l) -> Key]
  BY <1>1, <1>2, <1>3, KeysOfChunk
<1>5. /\ \A i, j \in Chunk(l) : ks[i] = ks[j] => i = j
      /\ \A i \in Chunk(l) :
            /\ l.mine[ks[i]] = Untouched
            /\ DrawsKeys(l.batch) => rows[ks[i]] = Absent /\ l.batch[i].key = Automatic
            /\ ~DrawsKeys(l.batch) => l.batch[i].key = ks[i] /\ l.batch[i].key # Automatic
      /\ \A i \in 1 .. l.done : \A j \in Chunk(l) : l.wrote[i] # ks[j]
  BY <1>1, <1>2, <1>3, FreshKeys
<1>6. /\ next <= next' /\ next' \in Nat
      /\ \A i \in Chunk(l) : ks[i] < next' \/ (backend.kind = "sqlite" /\ InTransaction(c))
  BY <1>1, <1>2, InsertPasses
<1>7. backend' = backend
  BY DEF Insert
<1>8. \E new \in Overlay, r \in CallType :
         /\ Writes(c, new, r)
         /\ \A k \in Key : k \notin Range(ks) => new[k] = Untouched
         /\ \A i \in Chunk(l) :
                (\A j \in Chunk(l) : ks[j] = ks[i] => j = i) => new[ks[i]] = l.batch[i].data
         /\ PlanInv(r) /\ KeysInv(r) /\ MineInv(r) /\ SamePlan(r, l)
         /\ r.mine = l.mine /\ r.nested = l.nested /\ Follows(r, l)
         /\ Len(r.wrote) = Last(l)
         /\ \A i \in 1 .. l.done : r.wrote[i] = l.wrote[i]
         /\ \A i \in Chunk(l) : r.wrote[i] = ks[i]
  BY <1>1, <1>2, InsertWrites
<1>9. PICK new \in Overlay, r \in CallType :
         /\ Writes(c, new, r)
         /\ \A k \in Key : k \notin Range(ks) => new[k] = Untouched
         /\ \A i \in Chunk(l) :
                (\A j \in Chunk(l) : ks[j] = ks[i] => j = i) => new[ks[i]] = l.batch[i].data
         /\ PlanInv(r) /\ KeysInv(r) /\ MineInv(r) /\ SamePlan(r, l)
         /\ r.mine = l.mine /\ r.nested = l.nested /\ Follows(r, l)
         /\ Len(r.wrote) = Last(l)
         /\ \A i \in 1 .. l.done : r.wrote[i] = l.wrote[i]
         /\ \A i \in Chunk(l) : r.wrote[i] = ks[i]
  BY <1>8
<1>10. Wrote(l, rows, next)
  BY <1>1 DEF RInv
<1>11. Legal(l, next) /\ Distinct(l) /\ Asked(l) /\ Len(l.wrote) = l.done
  BY <1>4, <1>10 DEF Wrote, KeysInv
<1>12. \A i \in 1 .. Last(l) : i \in 1 .. l.done \/ i \in Chunk(l)
  BY <1>4
<1>13. Distinct(r)
  BY <1>4, <1>5, <1>9, <1>11, <1>12 DEF Distinct
<1>14. Asked(r)
  BY <1>4, <1>5, <1>9, <1>11, <1>12 DEF Asked, SamePlan
<1>15. \A i \in Chunk(l) : new[ks[i]] = l.batch[i].data /\ l.batch[i].data \in Data
  BY <1>4, <1>5, <1>9, DataOfBatch
<1>16. Legal(r, next')
  <2>1. \A k \in Key : k \in Nat
    BY DEF Key
  <2>2. next \in Nat /\ next' \in Nat /\ next <= next'
    BY <1>4, <1>6 DEF Typed
  <2>3. \A i \in DOMAIN l.batch : l.batch[i].key \in Key \union {Automatic}
    BY <1>4, DataOfBatch
  <2>. QED BY <1>9, <1>11, <2>1, <2>2, <2>3 DEF Legal, SamePlan
<1>17. \A k \in Key : k \in Range(ks) <=> \E i \in Chunk(l) : ks[i] = k
  BY <1>4 DEF Range
<1>18. \A k \in Key : new[k] # Untouched =>
          /\ k \notin Held(c)
          /\ backend.kind = "sqlite" => Held(c) = {}
          /\ k < next' \/ (backend.kind = "sqlite" /\ InTransaction(c))
  BY <1>3, <1>6, <1>9, <1>17 DEF MayWrite
<1>19. l.batch # << >> /\ l.op \notin {"none", "update", "delete"}
  BY <1>4 DEF PlanInv, Inserts, Bulk
<1>20. \A i \in Chunk(l) : l.batch[i].key = Automatic \/ l.op \in Table!Inserts => rows[ks[i]] = Absent
  <2>1. SUFFICES ASSUME NEW i \in Chunk(l), ~DrawsKeys(l.batch), l.op \in Table!Inserts
                 PROVE  rows[ks[i]] = Absent
    BY <1>5
  <2>2. l.op \notin Upserts
    BY <2>1 DEF Upserts, Table!Inserts
  <2>3. View(c)[ks[i]] = Absent /\ ks[i] \in Key
    BY <1>3, <1>4, <2>2
  <2>. QED BY <1>1, <1>5, <2>3 DEF View, Over
<1>21. CASE InTransaction(c)
  <2>1. l.on = "transaction" \/ l.nested
    BY <1>1, <1>21 DEF InTransaction
  <2>2. InMine(l) /\ Inserted(l, rows)
    BY <1>4, <1>10, <2>1 DEF Wrote, Inserted
  <2>. DEFINE m == Over(new, r.mine)
              q == [r EXCEPT !.mine = m]
  <2>3. m \in Overlay
    BY <1>4, <1>9, OverType DEF CallType
  <2>4. Moved(c, q) /\ rows' = rows
    BY <1>9, <1>21 DEF Writes
  <2>5. \A k \in Key : m[k] = IF new[k] = Untouched THEN l.mine[k] ELSE new[k]
    BY <1>9 DEF Over
  <2>. HIDE DEF m
  <2>6. /\ q \in CallType /\ SamePlan(q, r) /\ q.mine = m
        /\ q.at = r.at /\ q.done = r.done /\ q.nested = r.nested
        /\ q.wrote = r.wrote /\ q.keys = r.keys
    BY <1>9, <2>3, MineFields
  <2>. HIDE DEF q
  <2>7. SamePlan(q, l)
    BY <1>9, <2>6 DEF SamePlan
  <2>8. InMine(q)
    <3>1. ASSUME NEW i \in 1 .. Last(l) PROVE m[r.wrote[i]] = l.batch[i].data
      <4>1. CASE i \in 1 .. l.done
        <5>1. l.wrote[i] \in Key
          BY <1>4, <1>11, <4>1, Elements DEF CallType
        <5>2. new[l.wrote[i]] = Untouched
          BY <1>5, <1>9, <1>17, <4>1, <5>1
        <5>3. l.mine[l.wrote[i]] = l.batch[i].data
          BY <1>11, <2>2, <4>1 DEF InMine
        <5>. QED BY <1>9, <2>5, <4>1, <5>1, <5>2, <5>3
      <4>2. CASE i \in Chunk(l)
        <5>1. ks[i] \in Key /\ new[ks[i]] # Untouched
          BY <1>4, <1>15, <4>2, NamesAssumption
        <5>. QED BY <1>9, <1>15, <2>5, <4>2, <5>1
      <4>. QED BY <1>12, <4>1, <4>2
    <3>2. ASSUME NEW k \in Key, \A i \in 1 .. Last(l) : r.wrote[i] # k PROVE m[k] = Untouched
      <4>1. \A i \in Chunk(l) : i \in 1 .. Last(l)
        BY <1>4
      <4>2. k \notin Range(ks)
        BY <1>9, <1>17, <3>2, <4>1
      <4>3. \A i \in 1 .. l.done : i \in 1 .. Last(l)
        BY <1>4
      <4>4. l.mine[k] = Untouched
        BY <1>9, <1>11, <2>2, <3>2, <4>3 DEF InMine
      <4>. QED BY <1>9, <2>5, <4>2, <4>4
    <3>. QED BY <1>9, <2>6, <2>7, <3>1, <3>2 DEF InMine, SamePlan
  <2>9. Inserted(q, rows)
    BY <1>9, <1>11, <1>12, <1>20, <2>2, <2>6, <2>7, <2>8 DEF Inserted, SamePlan
  <2>10. Distinct(q) /\ Asked(q) /\ Legal(q, next')
    BY <1>13, <1>14, <1>16, <2>6 DEF SamePlan, Distinct, Asked, Legal
  <2>11. Wrote(q, rows', next')
    BY <1>4, <1>9, <1>19, <2>4, <2>6, <2>7, <2>9, <2>10 DEF Wrote, SamePlan, Follows
  <2>12. q.mine = Over(new, r.mine)
    BY <2>6 DEF m
  <2>13. RInv'
    BY <1>1, <1>6, <1>7, <1>9, <1>18, <1>21, <2>4, <2>6, <2>11, <2>12, KeepsWrites
  <2>14. ~Took(l)
    BY <1>4 DEF Took
  <2>15. ~Took(q)
    BY <1>9, <1>19, <2>1, <2>6, <2>7 DEF Took, SamePlan, Follows
  <2>16. Shown(q) = Shown(call[c])
    BY <1>1, <2>7, <2>14, <2>15 DEF Shown, SamePlan
  <2>. QED BY <2>4, <2>13, <2>16, TableStutters DEF TableStep
<1>22. CASE ~InTransaction(c)
  <2>1. ~(l.on = "transaction" \/ l.nested)
    BY <1>1, <1>22 DEF InTransaction
  <2>2. rows' = Over(new, rows) /\ Moved(c, r)
    BY <1>9, <1>22 DEF Writes
  <2>3. r.at \in {"select", "effected"}
    BY <1>9, <2>1 DEF Follows
  <2>4. Last(l) = Len(l.batch)
    BY <1>4, <2>1
  <2>5. ~(r.on = "transaction" \/ r.nested) /\ r.op = l.op /\ r.batch = l.batch
    BY <1>9, <2>1 DEF SamePlan
  <2>6. Wrote(r, rows', next')
    BY <1>4, <1>13, <1>14, <1>16, <1>19, <2>3, <2>5 DEF Wrote
  <2>7. RInv'
    BY <1>1, <1>6, <1>7, <1>9, <1>18, <1>22, <2>2, <2>6, KeepsWrites
  <2>8. ~Took(l) /\ Took(r)
    BY <1>4, <1>19, <2>3, <2>5 DEF Took
  <2>9. rows \in [Key -> Data \union {Absent}]
    BY <1>4 DEF Typed
  <2>10. rows' \in [Key -> Data \union {Absent}]
    BY <1>9, <2>2, <2>9, OverType
  <2>11. l.done = 0
    BY <1>4, <2>1 DEF KeysInv
  <2>12. \A i \in 1 .. Len(r.wrote) : i \in Chunk(l)
    BY <1>4, <1>9, <2>11
  <2>13. \A i \in Chunk(l) : i \in 1 .. Len(r.wrote)
    BY <1>4, <1>9, <2>11
  <2>14. \A i \in 1 .. Len(r.wrote) :
            /\ r.batch[i].key = Automatic \/ r.op \in Table!Inserts => rows[r.wrote[i]] = Absent
            /\ r.op # "update" /\ r.op # "delete"
            /\ rows'[r.wrote[i]] = r.batch[i].data
    <3>1. ASSUME NEW i \in Chunk(l) PROVE rows'[ks[i]] = l.batch[i].data
      <4>1. ks[i] \in Key /\ new[ks[i]] # Untouched
        BY <1>4, <1>15, NamesAssumption
      <4>. QED BY <1>15, <2>2, <4>1 DEF Over
    <3>. QED BY <1>9, <1>19, <1>20, <2>5, <2>12, <3>1
  <2>15. \A k \in Key : (\A i \in 1 .. Len(r.wrote) : r.wrote[i] # k) => rows'[k] = rows[k]
    <3>1. SUFFICES ASSUME NEW k \in Key, \A i \in 1 .. Len(r.wrote) : r.wrote[i] # k
                   PROVE  rows'[k] = rows[k]
      OBVIOUS
    <3>2. new[k] = Untouched
      BY <1>9, <1>17, <2>13, <3>1
    <3>. QED BY <2>2, <3>2 DEF Over
  <2>16. Len(r.wrote) = Len(r.batch) /\ l.op # "none"
    BY <1>9, <1>19, <2>4, <2>5
  <2>17. Table!Next
    BY <1>1, <1>9, <1>13, <1>14, <2>2, <2>8, <2>10, <2>14, <2>15, <2>16, TableTakesEffect
  <2>. QED BY <2>7, <2>17 DEF TableStep
<1>. QED BY <1>21, <1>22

\* UPDATE and DELETE of one row, when they have succeeded; `value` is what
\* becomes of the row.
LEMMA SingleStep ==
    ASSUME IInv, RInv, NEW c \in Client, NEW l \in CallType, l = call[c], l.at = "statement",
           l.op \in {"update", "delete"}, NEW k \in Key, k = l.batch[1].key,
           NEW new \in Overlay, \A j \in Key : j # k => new[j] = Untouched,
           MayWrite(c, {k}), new[k] # Untouched => rows[k] # Absent,
           new[k] = IF rows[k] = Absent /\ l.op = "delete" THEN Untouched
                    ELSE IF l.op = "delete" THEN Absent ELSE l.batch[1].data,
           l.op = "update" => rows[k] # Absent,
           NEW x \in CallType, x = [l EXCEPT !.wrote = <<k>>], Writes(c, new, Succeeded(x)),
           backend' = backend, next' = next
    PROVE  TableStep
<1>1. KeysInv(l) /\ MineInv(l) /\ PlanInv(l) /\ Wrote(l, rows, next) /\ Typed
  BY OfCall DEF RInv
<1>2. l.op \notin Bulk /\ ~l.nested /\ Len(l.batch) = 1 /\ l.op \notin Inserts /\ l.mine = Nothing
  BY <1>1 DEF Bulk, PlanInv, Inserts, Wrote
<1>3. <<k>> \in Seq(Key) /\ Len(<<k>>) = 1 /\ <<k>>[1] = k
  OBVIOUS
<1>4. PICK w \in Seq(Key) : w = <<k>> /\ Len(w) = 1 /\ w[1] = k
  BY <1>3
<1>5. PICK y : y = x
  OBVIOUS
<1>6. y = [l EXCEPT !.wrote = w] /\ Writes(c, new, Succeeded(y))
  BY <1>4, <1>5
<1>7. /\ y \in CallType /\ SamePlan(y, l) /\ y.mine = l.mine
      /\ y.at = l.at /\ y.done = l.done /\ y.nested = l.nested
      /\ y.wrote = w /\ y.keys = l.keys
  BY <1>6, WroteFields
<1>8. PICK r : r = Succeeded(y)
  OBVIOUS
<1>9. /\ r \in CallType /\ SamePlan(r, y)
      /\ r.at = (IF y.on = "database" THEN "effected" ELSE "opDone")
      /\ r.done = y.done /\ r.nested = y.nested /\ r.mine = y.mine
      /\ r.wrote = y.wrote /\ r.keys = y.keys
  BY <1>7, <1>8, SucceededFields
<1>10. /\ SamePlan(r, l) /\ r.mine = Nothing /\ r.wrote = w /\ ~r.nested
       /\ r.at = (IF l.on = "database" THEN "effected" ELSE "opDone")
  BY <1>2, <1>7, <1>9 DEF SamePlan
<1>11. Writes(c, new, r)
  BY <1>6, <1>8
<1>12. DOMAIN l.batch = {1} /\ l.batch[1].data \in Data
  <2>1. DOMAIN l.batch = 1 .. 1
    BY <1>2, DataOfBatch
  <2>. QED BY <2>1, DataOfBatch
<1>13. next \in Nat /\ \A j \in Key : j \in Nat
  BY <1>1, BoundsAssumption DEF Typed, Key
<1>14. \A j \in Key : new[j] # Untouched =>
          /\ j \notin Held(c)
          /\ backend.kind = "sqlite" => Held(c) = {}
          /\ j < next' \/ (backend.kind = "sqlite" /\ InTransaction(c))
  <2>1. SUFFICES ASSUME NEW j \in Key, new[j] # Untouched
                 PROVE  j \notin Held(c) /\ (backend.kind = "sqlite" => Held(c) = {}) /\ j < next
    OBVIOUS
  <2>2. j = k
    BY <2>1
  <2>3. rows[k] # Absent
    BY <2>1, <2>2
  <2>4. k < next
    BY <1>13, <2>3 DEF RInv, Undisturbed
  <2>. QED BY <2>2, <2>4 DEF MayWrite
<1>15. l.on \in {"database", "transaction"}
  BY DEF CallType
<1>16. rows \in [Key -> Data \union {Absent}]
  BY <1>1 DEF Typed
<1>17. ~Took(l) /\ l.batch # << >> /\ l.op # "none"
  BY <1>1, <1>2 DEF Took, PlanInv
<1>18. CASE l.on = "database"
  <2>1. ~InTransaction(c)
    BY <1>2, <1>18 DEF InTransaction
  <2>2. rows' = Over(new, rows) /\ Moved(c, r)
    BY <1>11, <2>1 DEF Writes
  <2>3. r.at = "effected"
    BY <1>10, <1>18
  <2>4. Wrote(r, rows', next')
    <3>1. r.at \notin {"idle", "statement", "select", "release", "opDone"} /\ r.op # "none"
      BY <1>10, <1>17, <2>3 DEF SamePlan
    <3>2. Distinct(r)
      BY <1>4, <1>10 DEF Distinct
    <3>3. Asked(r)
      BY <1>4, <1>10 DEF Asked, SamePlan
    <3>. QED BY <3>1, <3>2, <3>3 DEF Wrote
  <2>5. RInv'
    BY <1>2, <1>9, <1>10, <1>13, <1>14, <2>1, <2>2, <2>4, KeepsWrites
  <2>6. Took(r)
    BY <1>10, <1>17, <2>3 DEF Took, SamePlan
  <2>7. rows' \in [Key -> Data \union {Absent}]
    BY <1>16, <2>2, OverType
  <2>8. rows'[k] = IF l.op = "delete" THEN Absent ELSE l.batch[1].data
    <3>1. rows'[k] = IF new[k] = Untouched THEN rows[k] ELSE new[k]
      BY <2>2 DEF Over
    <3>2. CASE l.op = "delete"
      BY <3>1, <3>2, NamesAssumption
    <3>3. CASE l.op = "update"
      <4>1. new[k] = l.batch[1].data /\ new[k] # Untouched
        BY <1>12, <3>3, NamesAssumption
      <4>. QED BY <3>1, <3>3, <4>1
    <3>. QED BY <3>2, <3>3
  <2>9. \A j \in Key : j # k => rows'[j] = rows[j]
    BY <2>2 DEF Over
  <2>10. k # Automatic
    BY NamesAssumption
  <2>11. r.op \notin Table!Inserts
    BY <1>10 DEF SamePlan, Table!Inserts
  <2>12. /\ Len(r.wrote) = 1 /\ Len(r.batch) = 1 /\ r.wrote[1] = k /\ r.batch[1].key = k
         /\ r.batch[1].data = l.batch[1].data /\ r.op = l.op
    BY <1>2, <1>4, <1>10 DEF SamePlan
  <2>13. \A i \in 1 .. Len(r.wrote) : i = 1
    BY <2>12
  <2>14. \A i \in 1 .. Len(r.wrote) :
            /\ r.batch[i].key = Automatic \/ r.op \in Table!Inserts => rows[r.wrote[i]] = Absent
            /\ r.op = "update" => rows[r.wrote[i]] # Absent
            /\ rows'[r.wrote[i]] = IF r.op = "delete" THEN Absent ELSE r.batch[i].data
    BY <2>8, <2>10, <2>11, <2>12, <2>13
  <2>15. \A j \in Key : (\A i \in 1 .. Len(r.wrote) : r.wrote[i] # j) => rows'[j] = rows[j]
    <3>1. 1 \in 1 .. Len(r.wrote)
      BY <2>12
    <3>. QED BY <2>9, <2>12, <3>1
  <2>16. Distinct(r) /\ Asked(r) /\ Len(r.wrote) = Len(r.batch)
    BY <2>12, <2>13 DEF Distinct, Asked
  <2>17. Table!Next
    BY <1>9, <1>10, <1>17, <2>2, <2>6, <2>7, <2>14, <2>15, <2>16, TableTakesEffect
  <2>. QED BY <2>5, <2>17 DEF TableStep
<1>19. CASE l.on = "transaction"
  <2>1. InTransaction(c)
    BY <1>19 DEF InTransaction
  <2>. DEFINE m == Over(new, r.mine)
              q == [r EXCEPT !.mine = m]
  <2>2. m \in Overlay
    BY <1>9, OverType DEF CallType
  <2>3. Moved(c, q) /\ rows' = rows
    BY <1>11, <2>1 DEF Writes
  <2>4. \A j \in Key : m[j] = new[j]
    BY <1>10 DEF Over, Nothing
  <2>. HIDE DEF m
  <2>5. /\ q \in CallType /\ SamePlan(q, r) /\ q.mine = m
        /\ q.at = r.at /\ q.done = r.done /\ q.nested = r.nested
        /\ q.wrote = r.wrote /\ q.keys = r.keys
    BY <1>9, <2>2, MineFields
  <2>6. PICK z : z = q
    OBVIOUS
  <2>. HIDE DEF q
  <2>7. /\ z \in CallType /\ SamePlan(z, l) /\ z.mine = m /\ z.at = "opDone" /\ ~z.nested
        /\ z.wrote = w /\ z.on = "transaction" /\ z.op = l.op /\ z.batch = l.batch
    BY <1>10, <1>19, <2>5, <2>6 DEF SamePlan
  <2>8. Len(z.wrote) = 1 /\ z.wrote[1] = k /\ \A i \in 1 .. Len(z.wrote) : i = 1
    BY <1>4, <2>7
  <2>9. Distinct(z) /\ Asked(z)
    BY <2>7, <2>8 DEF Distinct, Asked
  <2>10. l.op = "update" => InMine(z)
    <3>1. 1 \in 1 .. Len(z.wrote)
      BY <2>8
    <3>. QED BY <2>4, <2>7, <2>8, <3>1 DEF InMine
  <2>11. l.op = "delete" => /\ \A j \in Key : j # k => z.mine[j] = Untouched
                            /\ z.mine[k] \in {Absent, Untouched}
    BY <2>4, <2>7
  <2>12. Wrote(z, rows', next')
    BY <1>2, <1>17, <2>3, <2>7, <2>8, <2>9, <2>10, <2>11 DEF Wrote
  <2>13. z.mine = Over(new, r.mine) /\ Moved(c, z)
    BY <2>3, <2>6, <2>7 DEF m
  <2>14. RInv'
    BY <1>2, <1>9, <1>10, <1>13, <1>14, <2>1, <2>3, <2>7, <2>12, <2>13, KeepsWrites
  <2>15. CASE Took(z)
    <3>1. l.op = "delete" /\ m = Nothing
      BY <2>7, <2>15 DEF Took
    <3>2. new[k] = Untouched
      BY <2>4, <3>1 DEF Nothing
    <3>3. rows[k] = Absent
      BY <3>1, <3>2, NamesAssumption
    <3>4. /\ Len(z.batch) = 1 /\ z.batch[1].key = k /\ z.op = "delete"
          /\ z.op \notin Table!Inserts /\ k # Automatic
      BY <1>2, <2>7, <3>1, NamesAssumption DEF Table!Inserts
    <3>5. \A i \in 1 .. Len(z.wrote) :
            /\ z.batch[i].key = Automatic \/ z.op \in Table!Inserts => rows[z.wrote[i]] = Absent
            /\ z.op = "update" => rows[z.wrote[i]] # Absent
            /\ rows'[z.wrote[i]] = IF z.op = "delete" THEN Absent ELSE z.batch[i].data
      BY <2>3, <2>8, <3>3, <3>4
    <3>6. \A j \in Key : (\A i \in 1 .. Len(z.wrote) : z.wrote[i] # j) => rows'[j] = rows[j]
      BY <2>3
    <3>7. Table!Next
      BY <1>16, <1>17, <2>3, <2>7, <2>8, <2>9, <2>13, <2>15, <3>4, <3>5, <3>6, TableTakesEffect
    <3>. QED BY <2>14, <3>7 DEF TableStep
  <2>16. CASE ~Took(z)
    <3>1. Shown(z) = Shown(call[c])
      BY <1>17, <2>7, <2>16 DEF Shown
    <3>. QED BY <2>3, <2>13, <2>14, <3>1, TableStutters DEF TableStep
  <2>. QED BY <2>15, <2>16
<1>. QED BY <1>15, <1>18, <1>19

LEMMA UpdateStep ==
    ASSUME IInv, RInv, NEW c \in Client, Update(c)
    PROVE  TableStep
<1>1. PICK l : l = call[c]
  OBVIOUS
<1>2. PICK k : k = l.batch[1].key
  OBVIOUS
<1>3. PICK x : x = [l EXCEPT !.wrote = <<k>>]
  OBVIOUS
<1>4. /\ l.at = "statement" /\ l.op = "update" /\ MayWrite(c, {k})
      /\ IF View(c)[k] = Absent
         THEN Moved(c, Failed(l)) /\ rows' = rows
         ELSE Writes(c, [Nothing EXCEPT ![k] = l.batch[1].data], Succeeded(x))
      /\ backend' = backend /\ next' = next
  BY <1>1, <1>2, <1>3 DEF Update
<1>5. /\ l \in CallType /\ KeysInv(l) /\ PlanInv(l) /\ Wrote(l, rows, next) /\ Typed
  BY <1>1, OfCall DEF RInv
<1>6. k \in Key /\ l.op \notin Bulk /\ Len(l.batch) = 1 /\ l.mine = Nothing
  BY <1>2, <1>4, <1>5 DEF KeysInv, PlanInv, Bulk, Wrote, Inserts
<1>7. l.batch[1].data \in Data
  <2>1. 1 \in DOMAIN l.batch
    BY <1>5, <1>6, DataOfBatch
  <2>. QED BY <1>5, <2>1, DataOfBatch
<1>8. View(c)[k] = rows[k]
  BY <1>1, <1>6 DEF View, Over, Nothing
<1>9. next \in Nat
  BY <1>5 DEF Typed
<1>10. CASE rows[k] = Absent
  BY <1>1, <1>4, <1>8, <1>9, <1>10, FailedStep
<1>11. CASE rows[k] # Absent
  <2>1. PICK new : new = [Nothing EXCEPT ![k] = l.batch[1].data]
    OBVIOUS
  <2>2. /\ new \in Overlay /\ new[k] = l.batch[1].data
        /\ \A j \in Key : j # k => new[j] = Untouched
    BY <1>6, <1>7, <2>1 DEF Nothing, Overlay
  <2>3. Writes(c, new, Succeeded(x))
    BY <1>4, <1>8, <1>11, <2>1
  <2>6. <<k>> \in Seq(Key)
    BY <1>6
  <2>4. PICK w \in Seq(Key) : w = <<k>>
    BY <2>6
  <2>5. x \in CallType
    <3>1. x = [l EXCEPT !.wrote = w]
      BY <1>3, <2>4
    <3>. QED BY <1>5, <3>1, WroteFields
  <2>. QED BY <1>1, <1>2, <1>3, <1>4, <1>5, <1>6, <1>11, <2>2, <2>3, <2>5, SingleStep
<1>. QED BY <1>10, <1>11

LEMMA DeleteStep ==
    ASSUME IInv, RInv, NEW c \in Client, Delete(c)
    PROVE  TableStep
<1>1. PICK l : l = call[c]
  OBVIOUS
<1>2. PICK k : k = l.batch[1].key
  OBVIOUS
<1>3. PICK x : x = [l EXCEPT !.wrote = <<k>>]
  OBVIOUS
<1>4. PICK new : new = IF View(c)[k] = Absent THEN Nothing ELSE [Nothing EXCEPT ![k] = Absent]
  OBVIOUS
<1>5. /\ l.at = "statement" /\ l.op = "delete" /\ MayWrite(c, {k})
      /\ Writes(c, new, Succeeded(x)) /\ backend' = backend /\ next' = next
  BY <1>1, <1>2, <1>3, <1>4 DEF Delete
<1>6. /\ l \in CallType /\ KeysInv(l) /\ PlanInv(l) /\ Wrote(l, rows, next) /\ Typed
  BY <1>1, OfCall DEF RInv
<1>7. k \in Key /\ l.op \notin Bulk /\ l.mine = Nothing
  BY <1>2, <1>5, <1>6 DEF KeysInv, PlanInv, Bulk, Wrote, Inserts
<1>8. View(c)[k] = rows[k]
  BY <1>1, <1>7 DEF View, Over, Nothing
<1>9. /\ new \in Overlay /\ new[k] = (IF rows[k] = Absent THEN Untouched ELSE Absent)
      /\ \A j \in Key : j # k => new[j] = Untouched
  BY <1>4, <1>7, <1>8 DEF Nothing, Overlay
<1>14. <<k>> \in Seq(Key)
  BY <1>7
<1>10. PICK w \in Seq(Key) : w = <<k>>
  BY <1>14
<1>11. x \in CallType
  <2>1. x = [l EXCEPT !.wrote = w]
    BY <1>3, <1>10
  <2>. QED BY <1>6, <2>1, WroteFields
<1>12. /\ new[k] # Untouched => rows[k] # Absent
       /\ new[k] = IF rows[k] = Absent /\ l.op = "delete" THEN Untouched
                   ELSE IF l.op = "delete" THEN Absent ELSE l.batch[1].data
  BY <1>5, <1>9
<1>13. l.op = "update" => rows[k] # Absent
  BY <1>5
<1>. QED BY <1>1, <1>2, <1>3, <1>5, <1>6, <1>7, <1>9, <1>11, <1>12, <1>13, SingleStep

\* What a transaction has written is there for everybody, at once.
LEMMA CommitTakes ==
    ASSUME IInv, RInv, NEW c \in Client, NEW l \in CallType, l = call[c],
           l.at \in {"release", "opDone"}, l.on = "transaction" \/ l.nested,
           l.batch # << >>, ~Took(l),
           NEW q \in CallType, SamePlan(q, l), q.at = "effected", q.wrote = l.wrote,
           Moved(c, q), rows' = Over(l.mine, rows)
    PROVE  Table!Next
<1>1. KeysInv(l) /\ MineInv(l) /\ PlanInv(l) /\ Wrote(l, rows, next) /\ Typed
  BY OfCall DEF RInv
<1>2. l.op # "none" /\ Distinct(l) /\ Asked(l)
  BY <1>1 DEF Wrote, Answered
<1>3. Len(l.wrote) = Len(l.batch)
  BY <1>1 DEF KeysInv, Answered
<1>4. rows \in [Key -> Data \union {Absent}] /\ l.mine \in Overlay
  BY <1>1 DEF Typed, CallType
<1>5. rows' \in [Key -> Data \union {Absent}]
  BY <1>4, OverType
<1>6. \A k \in Key : rows'[k] = IF l.mine[k] = Untouched THEN rows[k] ELSE l.mine[k]
  BY DEF Over
<1>7. \A i \in 1 .. Len(l.wrote) : l.wrote[i] \in Key /\ l.batch[i].data \in Data
  <2>1. l.wrote \in Seq(Key)
    BY DEF CallType
  <2>2. \A i \in DOMAIN l.wrote : l.wrote[i] \in Key
    BY <2>1, Elements
  <2>3. DOMAIN l.wrote = 1 .. Len(l.wrote)
    BY <2>1
  <2>. QED BY <1>3, <2>2, <2>3, DataOfBatch
<1>8. \/ Inserted(l, rows) /\ l.op \notin {"update", "delete"}
      \/ l.op = "update" /\ InMine(l) /\ Len(l.wrote) = 1 /\ l.batch[1].key = l.wrote[1]
         /\ rows[l.wrote[1]] # Absent
      \/ /\ l.op = "delete" /\ Len(l.wrote) = 1 /\ l.batch[1].key = l.wrote[1]
         /\ \A k \in Key : k # l.wrote[1] => l.mine[k] = Untouched
         /\ l.mine[l.wrote[1]] = Absent
  <2>1. CASE l.op \in Inserts
    <3>1. l.op \notin {"update", "delete"}
      BY <2>1 DEF Inserts, Bulk
    <3>. QED BY <1>1, <2>1, <3>1 DEF Wrote
  <2>2. CASE l.op \in {"update", "delete"}
    <3>1. l.at = "opDone"
      BY <1>1, <2>2 DEF PlanInv, Bulk
    <3>2. CASE l.op = "update"
      BY <1>1, <3>1, <3>2 DEF Wrote
    <3>3. CASE l.op = "delete"
      <4>1. /\ Len(l.wrote) = 1 /\ l.batch[1].key = l.wrote[1]
            /\ \A k \in Key : k # l.wrote[1] => l.mine[k] = Untouched
            /\ l.mine[l.wrote[1]] \in {Absent, Untouched}
        BY <1>1, <3>1, <3>3 DEF Wrote
      <4>2. l.mine # Nothing
        BY <3>1, <3>3 DEF Took
      <4>3. l.mine[l.wrote[1]] # Untouched
        <5>1. SUFFICES ASSUME l.mine[l.wrote[1]] = Untouched PROVE FALSE
          OBVIOUS
        <5>2. \A k \in Key : l.mine[k] = Untouched
          BY <4>1, <5>1
        <5>3. l.mine = Nothing
          BY <1>4, <5>2 DEF Overlay, Nothing
        <5>. QED BY <4>2, <5>3
      <4>. QED BY <3>3, <4>1, <4>3
    <3>. QED BY <2>2, <3>2, <3>3
  <2>3. l.op \in {"update", "delete"} \union Inserts
    BY <1>2 DEF CallType
  <2>. QED BY <2>1, <2>2, <2>3
<1>9. /\ \A i \in 1 .. Len(l.wrote) :
            /\ l.batch[i].key = Automatic \/ l.op \in Table!Inserts => rows[l.wrote[i]] = Absent
            /\ l.op = "update" => rows[l.wrote[i]] # Absent
            /\ rows'[l.wrote[i]] = IF l.op = "delete" THEN Absent ELSE l.batch[i].data
      /\ \A k \in Key : (\A i \in 1 .. Len(l.wrote) : l.wrote[i] # k) => rows'[k] = rows[k]
  <2>0. "update" \notin Table!Inserts /\ "delete" \notin Table!Inserts
    BY DEF Table!Inserts
  <2>1. CASE Inserted(l, rows) /\ l.op \notin {"update", "delete"}
    BY <1>6, <1>7, <2>1, NamesAssumption DEF Inserted, InMine
  <2>2. CASE l.op = "update" /\ InMine(l) /\ Len(l.wrote) = 1 /\ l.batch[1].key = l.wrote[1]
             /\ rows[l.wrote[1]] # Absent
    <3>1. \A i \in 1 .. Len(l.wrote) : i = 1
      BY <2>2
    <3>2. \A i \in 1 .. Len(l.wrote) : l.batch[i].key # Automatic
      BY <1>7, <2>2, <3>1, NamesAssumption
    <3>3. \A i \in 1 .. Len(l.wrote) : rows'[l.wrote[i]] = l.batch[i].data
      BY <1>6, <1>7, <2>2, NamesAssumption DEF InMine
    <3>4. \A k \in Key : (\A i \in 1 .. Len(l.wrote) : l.wrote[i] # k) => rows'[k] = rows[k]
      BY <1>6, <2>2 DEF InMine
    <3>. QED BY <2>0, <2>2, <3>1, <3>2, <3>3, <3>4
  <2>3. CASE /\ l.op = "delete" /\ Len(l.wrote) = 1 /\ l.batch[1].key = l.wrote[1]
             /\ \A k \in Key : k # l.wrote[1] => l.mine[k] = Untouched
             /\ l.mine[l.wrote[1]] = Absent
    <3>1. (\A i \in 1 .. Len(l.wrote) : i = 1) /\ 1 \in 1 .. Len(l.wrote)
      BY <2>3
    <3>2. \A i \in 1 .. Len(l.wrote) : l.batch[i].key # Automatic
      BY <1>7, <2>3, <3>1, NamesAssumption
    <3>3. \A i \in 1 .. Len(l.wrote) : rows'[l.wrote[i]] = Absent
      BY <1>6, <1>7, <2>3, <3>1, NamesAssumption
    <3>4. \A k \in Key : (\A i \in 1 .. Len(l.wrote) : l.wrote[i] # k) => rows'[k] = rows[k]
      BY <1>6, <2>3, <3>1
    <3>. QED BY <2>0, <2>3, <3>2, <3>3, <3>4
  <2>. QED BY <1>8, <2>1, <2>2, <2>3
<1>10. Took(q)
  BY DEF Took, SamePlan
<1>11. q.op = l.op /\ q.batch = l.batch
  BY DEF SamePlan
<1>12. Distinct(q) /\ Asked(q) /\ Len(q.wrote) = Len(q.batch)
  BY <1>2, <1>3, <1>11 DEF Distinct, Asked
<1>13. /\ \A i \in 1 .. Len(q.wrote) :
            /\ q.batch[i].key = Automatic \/ q.op \in Table!Inserts => rows[q.wrote[i]] = Absent
            /\ q.op = "update" => rows[q.wrote[i]] # Absent
            /\ rows'[q.wrote[i]] = IF q.op = "delete" THEN Absent ELSE q.batch[i].data
       /\ \A k \in Key : (\A i \in 1 .. Len(q.wrote) : q.wrote[i] # k) => rows'[k] = rows[k]
  BY <1>9, <1>11
<1>. QED BY <1>2, <1>5, <1>10, <1>12, <1>13, TableTakesEffect

LEMMA NothingWritten ==
    ASSUME rows \in [Key -> Data \union {Absent}], NEW m, \A k \in Key : m[k] = Untouched
    PROVE  Over(m, rows) = rows
BY DEF Over

LEMMA ReleaseStep ==
    ASSUME IInv, RInv, NEW c \in Client, Release(c)
    PROVE  TableStep
<1>1. PICK l : l = call[c]
  OBVIOUS
<1>2. PICK x : x = [l EXCEPT !.nested = FALSE]
  OBVIOUS
<1>3. PICK r : r = Succeeded(x)
  OBVIOUS
<1>4. /\ l.at = "release" /\ backend' = backend
      /\ IF l.on = "database" THEN Commits(c, r)
         ELSE Moved(c, r) /\ rows' = rows /\ next' = next
  BY <1>1, <1>2, <1>3 DEF Release
<1>5. l \in CallType /\ KeysInv(l) /\ MineInv(l) /\ PlanInv(l) /\ Wrote(l, rows, next) /\ Typed
  BY <1>1, OfCall DEF RInv
<1>6. /\ x \in CallType /\ ~x.nested /\ x.on = l.on /\ x.batch = l.batch /\ x.op = l.op
      /\ x.at = l.at /\ x.done = l.done /\ x.mine = l.mine /\ x.wrote = l.wrote /\ x.keys = l.keys
  BY <1>2, <1>5 DEF CallType
<1>7. /\ r \in CallType /\ SamePlan(r, x)
      /\ r.at = (IF x.on = "database" THEN "effected" ELSE "opDone")
      /\ r.done = x.done /\ r.nested = x.nested /\ r.mine = x.mine
      /\ r.wrote = x.wrote /\ r.keys = x.keys
  BY <1>3, <1>6, SucceededFields
<1>8. /\ SamePlan(r, l) /\ ~r.nested /\ r.mine = l.mine /\ r.wrote = l.wrote
      /\ r.at = (IF l.on = "database" THEN "effected" ELSE "opDone")
  BY <1>6, <1>7 DEF SamePlan
<1>9. /\ l.nested /\ l.op \in Bulk /\ l.op \in Inserts /\ l.batch # << >> /\ ~Took(l)
      /\ l.op \notin {"none", "update", "delete"}
  BY <1>4, <1>5 DEF PlanInv, Wrote, Took, Inserts, Bulk
<1>10. Distinct(l) /\ Asked(l) /\ Inserted(l, rows)
  BY <1>4, <1>5, <1>9 DEF Wrote, Answered
<1>11. Distinct(r) /\ Asked(r) /\ Inserted(r, rows)
  BY <1>8, <1>10 DEF SamePlan, Distinct, Asked, Inserted, InMine
<1>12. next \in Nat
  BY <1>5 DEF Typed
<1>13. CASE l.on = "database"
  <2>1. Commits(c, r)
    BY <1>4, <1>13
  <2>2. PICK q : q = [r EXCEPT !.mine = Nothing]
    OBVIOUS
  <2>3. Nothing \in Overlay
    BY DEF Nothing, Overlay
  <2>4. /\ q \in CallType /\ SamePlan(q, r) /\ q.mine = Nothing
        /\ q.at = r.at /\ q.done = r.done /\ q.nested = r.nested
        /\ q.wrote = r.wrote /\ q.keys = r.keys
    BY <1>7, <2>2, <2>3, MineFields
  <2>5. q.at = "effected" /\ SamePlan(q, l) /\ q.wrote = l.wrote
    BY <1>8, <1>13, <2>4 DEF SamePlan
  <2>6. Moved(c, q) /\ rows' = Over(l.mine, rows)
    BY <1>1, <2>1, <2>2 DEF Commits
  <2>7. Wrote(q, rows', next')
    BY <1>9, <1>10, <2>5 DEF SamePlan, Wrote, Distinct, Asked
  <2>8. RInv'
    BY <1>4, <1>7, <2>1, <2>2, <2>4, <2>7, KeepsCommits
  <2>9. Table!Next
    BY <1>1, <1>4, <1>5, <1>9, <2>4, <2>5, <2>6, CommitTakes
  <2>. QED BY <2>8, <2>9 DEF TableStep
<1>14. CASE l.on # "database"
  <2>1. Moved(c, r) /\ rows' = rows /\ next' = next
    BY <1>4, <1>14
  <2>2. r.at = "opDone" /\ r.op = l.op /\ r.batch = l.batch
    BY <1>8, <1>14 DEF SamePlan
  <2>3. Wrote(r, rows, next)
    BY <1>9, <1>11, <2>2 DEF Wrote
  <2>4. RInv'
    BY <1>1, <1>4, <1>7, <1>8, <1>12, <2>1, <2>3, KeepsQuiet
  <2>5. ~Took(r)
    BY <1>9, <2>2 DEF Took
  <2>6. Shown(r) = Shown(call[c])
    BY <1>1, <1>9, <2>2, <2>5 DEF Shown
  <2>. QED BY <2>1, <2>4, <2>6, TableStutters DEF TableStep
<1>. QED BY <1>13, <1>14

LEMMA CommitStep ==
    ASSUME IInv, RInv, NEW c \in Client, Commit(c)
    PROVE  TableStep
<1>1. PICK l : l = call[c]
  OBVIOUS
<1>2. PICK r : r = IF l.at = "opDone" THEN [l EXCEPT !.at = "effected"] ELSE Idle
  OBVIOUS
<1>3. l.at \in {"opDone", "opFailed"} /\ Commits(c, r) /\ backend' = backend
  BY <1>1, <1>2 DEF Commit
<1>4. l \in CallType /\ KeysInv(l) /\ MineInv(l) /\ PlanInv(l) /\ Wrote(l, rows, next) /\ Typed
  BY <1>1, OfCall DEF RInv
<1>5. rows \in [Key -> Data \union {Absent}] /\ l.mine \in Overlay
  BY <1>4 DEF Typed, CallType
<1>6. PICK q : q = [r EXCEPT !.mine = Nothing]
  OBVIOUS
<1>7. Moved(c, q) /\ rows' = Over(l.mine, rows)
  BY <1>1, <1>3, <1>6 DEF Commits
<1>8. Nothing \in Overlay /\ \A k \in Key : Nothing[k] = Untouched
  BY DEF Nothing, Overlay
<1>9. CASE l.at = "opFailed"
  <2>1. r = Idle
    BY <1>2, <1>9
  <2>2. q = Idle
    <3>1. \A y \in CallType : y.mine = Nothing => [y EXCEPT !.mine = Nothing] = y
      BY DEF CallType
    <3>2. [Idle EXCEPT !.mine = Nothing] = Idle
      BY <3>1, IdleFields DEF Idle
    <3>. QED BY <1>6, <2>1, <3>2
  <2>3. l.mine = Nothing
    BY <1>4, <1>9 DEF KeysInv
  <2>4. rows' = rows
    BY <1>5, <1>7, <1>8, <2>3, NothingWritten
  <2>5. Wrote(Idle, rows', next')
    <3>1. Idle.at = "idle"
      BY DEF Idle
    <3>. QED BY <3>1 DEF Wrote, Answered
  <2>6. Idle \in CallType /\ Commits(c, Idle) /\ Idle = [Idle EXCEPT !.mine = Nothing]
    BY <1>3, <1>6, <2>1, <2>2, IdleFields
  <2>7. RInv'
    BY <1>3, <2>5, <2>6, KeepsCommits
  <2>. QED BY <1>7, <2>2, <2>4, <2>7, TableEnds DEF TableStep
<1>10. CASE l.at = "opDone"
  <2>1. r = [l EXCEPT !.at = "effected"] /\ "effected" \in At
    BY <1>2, <1>10 DEF At
  <2>2. /\ r \in CallType /\ SamePlan(r, l) /\ r.mine = l.mine
        /\ r.at = "effected" /\ r.done = l.done /\ r.nested = l.nested
        /\ r.wrote = l.wrote /\ r.keys = l.keys
    BY <1>4, <2>1, AtFields
  <2>3. /\ q \in CallType /\ SamePlan(q, r) /\ q.mine = Nothing
        /\ q.at = r.at /\ q.done = r.done /\ q.nested = r.nested
        /\ q.wrote = r.wrote /\ q.keys = r.keys
    BY <1>6, <1>8, <2>2, MineFields
  <2>4. SamePlan(q, l) /\ q.at = "effected" /\ q.wrote = l.wrote
    BY <2>2, <2>3 DEF SamePlan
  <2>5. l.op # "none" /\ Distinct(l) /\ Asked(l) /\ l.on = "transaction"
    BY <1>4, <1>10 DEF Wrote, Answered, MineInv
  <2>6. Wrote(q, rows', next')
    BY <2>4, <2>5 DEF SamePlan, Wrote, Distinct, Asked
  <2>7. RInv'
    BY <1>3, <1>6, <2>2, <2>3, <2>6, KeepsCommits
  <2>8. Len(l.wrote) = Len(l.batch)
    BY <1>4, <1>10 DEF KeysInv, Answered
  <2>9. CASE l.batch = << >>
    <3>1. Len(l.wrote) = 0
      BY <2>8, <2>9
    <3>2. l.op \notin {"update", "delete"}
      BY <1>4, <1>10, <3>1 DEF Wrote
    <3>3. l.op \in Inserts
      BY <1>4, <2>5, <3>2 DEF CallType
    <3>4. InMine(l)
      BY <1>4, <1>10, <2>5, <3>3 DEF Wrote, Inserted
    <3>5. rows' = rows
      BY <1>5, <1>7, <3>1, <3>4, NothingWritten DEF InMine
    <3>6. ~Took(l) /\ ~Took(q)
      BY <1>10, <2>4, <2>9, <3>2 DEF Took, SamePlan
    <3>7. Shown(q) = Shown(call[c])
      BY <1>1, <2>4, <3>6 DEF Shown, SamePlan
    <3>. QED BY <1>7, <2>7, <3>5, <3>7, TableStutters DEF TableStep
  <2>10. CASE l.batch # << >> /\ Took(l)
    <3>1. l.mine = Nothing
      BY <1>10, <2>10 DEF Took
    <3>2. rows' = rows
      BY <1>5, <1>7, <1>8, <3>1, NothingWritten
    <3>3. Took(q)
      BY <2>4, <2>10 DEF Took, SamePlan
    <3>4. Shown(q) = Shown(call[c])
      BY <1>1, <2>4, <2>10, <3>3 DEF Shown, SamePlan
    <3>. QED BY <1>7, <2>7, <3>2, <3>4, TableStutters DEF TableStep
  <2>11. CASE l.batch # << >> /\ ~Took(l)
    <3>1. Table!Next
      BY <1>1, <1>4, <1>7, <1>10, <2>3, <2>4, <2>5, <2>11, CommitTakes
    <3>. QED BY <2>7, <3>1 DEF TableStep
  <2>. QED BY <2>9, <2>10, <2>11
<1>. QED BY <1>3, <1>9, <1>10

\* The call of a program: the table sees it, or it has failed at once.
LEMMA InvokeStep ==
    ASSUME IInv, RInv, NEW c \in Client, Invoke(c)
    PROVE  TableStep
<1>1. PICK on \in {"database", "transaction"},
           op \in Bulk \union {"insert", "save", "update", "delete"},
           n \in 0 .. MaxBatch :
           /\ op \in Bulk \/ n = 1
           /\ \E ks \in [1 .. n -> Key \union {Automatic}] :
                LET l == [Idle EXCEPT
                      !.at = "statement", !.on = on, !.op = op, !.keys = ks,
                      !.batch = [i \in 1 .. n |-> [key |-> ks[i], data |-> i]]]
                IN  /\ LegalKeys(op, ks)
                    /\ Moved(c, IF op \in Bulk THEN Planned(l) ELSE l)
  BY DEF Invoke
<1>2. PICK ks \in [1 .. n -> Key \union {Automatic}] :
                LET l == [Idle EXCEPT
                      !.at = "statement", !.on = on, !.op = op, !.keys = ks,
                      !.batch = [i \in 1 .. n |-> [key |-> ks[i], data |-> i]]]
                IN  /\ LegalKeys(op, ks)
                    /\ Moved(c, IF op \in Bulk THEN Planned(l) ELSE l)
  BY <1>1
<1>. DEFINE b == [i \in 1 .. n |-> [key |-> ks[i], data |-> i]]
            z == [Idle EXCEPT !.at = "statement", !.on = on, !.op = op, !.keys = ks, !.batch = b]
<1>3. LegalKeys(op, ks) /\ Moved(c, IF op \in Bulk THEN Planned(z) ELSE z)
  BY <1>2
<1>4. n \in Nat /\ n <= MaxBatch
  BY BoundsAssumption
<1>5. b \in Slices /\ Len(b) = n /\ DOMAIN b = 1 .. n /\ \A i \in 1 .. n : b[i].key = ks[i]
  BY <1>4, BoundsAssumption DEF Slices, Data
<1>6. ks \in Seq(Key \union {Automatic}) /\ DOMAIN ks = 1 .. n
  BY <1>4
<1>. HIDE DEF b
<1>7. /\ z.at = "statement" /\ z.on = on /\ z.op = op /\ z.keys = ks /\ z.batch = b
      /\ z.done = 0 /\ ~z.nested /\ z.mine = Nothing /\ z.wrote = << >>
  BY DEF Idle
<1>8. z \in CallType
  <2>1. << >> \in Seq(Key) /\ Nothing \in Overlay
    BY DEF Nothing, Overlay
  <2>2. op \in {"none", "update", "delete"} \union Inserts
    BY DEF Inserts
  <2>. QED BY <1>5, <1>6, <2>1, <2>2 DEF Idle, CallType, At
<1>. HIDE DEF z
<1>9. PICK l \in CallType : l = z
  BY <1>8
<1>10. /\ l.at = "statement" /\ l.on = on /\ l.op = op /\ l.batch = b /\ l.done = 0
       /\ ~l.nested /\ l.mine = Nothing /\ l.wrote = << >>
  BY <1>7, <1>9
<1>11. PICK r : r = IF op \in Bulk THEN Planned(l) ELSE l
  OBVIOUS
<1>12. Moved(c, r)
  BY <1>3, <1>9, <1>11
<1>13. backend' = backend /\ rows' = rows /\ next' = next /\ call[c].at = "idle"
  BY DEF Invoke
<1>14. \/ /\ r \in CallType /\ SamePlan(r, l) /\ r.mine = Nothing /\ r.wrote = << >>
          /\ r.at \in {"statement", "effected", "opDone", "opFailed"}
          /\ r.at # "statement" => op \in Bulk
          /\ r.at = "statement" => l.batch # << >>
          /\ r.at = "effected" => l.batch = << >>
       \/ op \in Bulk /\ r = Idle
  <2>1. CASE op \notin Bulk
    <3>1. Len(b) = 1 /\ r = l
      BY <1>1, <1>5, <1>11, <2>1
    <3>2. l.batch # << >>
      <4>1. Len(b) # Len(<< >>)
        BY <3>1
      <4>. QED BY <1>10, <4>1, Zenon
    <3>. QED BY <1>10, <2>1, <3>1, <3>2 DEF SamePlan
  <2>2. CASE op \in Bulk /\ l.batch = << >>
    <3>1. r = Succeeded(l)
      BY <1>11, <2>2 DEF Planned
    <3>2. /\ r \in CallType /\ SamePlan(r, l)
          /\ r.at = (IF l.on = "database" THEN "effected" ELSE "opDone")
          /\ r.mine = l.mine /\ r.wrote = l.wrote
      BY <3>1, SucceededFields
    <3>. QED BY <1>10, <2>2, <3>2
  <2>3. CASE op \in Bulk /\ l.batch # << >>
             /\ (NumValues(l.batch) > backend.limit \/ NumValues(l.batch) = 0)
    <3>1. r = Failed(l)
      BY <1>11, <2>3 DEF Planned
    <3>2. \/ l.on = "database" /\ r = Idle
          \/ /\ l.on = "transaction" /\ r \in CallType /\ SamePlan(r, l)
             /\ r.at = "opFailed" /\ r.mine = Nothing /\ ~r.nested
             /\ r.done = l.done /\ r.wrote = l.wrote /\ r.keys = l.keys
      BY <3>1, FailedFields
    <3>. QED BY <1>10, <2>3, <3>2
  <2>4. CASE op \in Bulk /\ l.batch # << >>
             /\ ~(NumValues(l.batch) > backend.limit \/ NumValues(l.batch) = 0)
    <3>1. PICK f \in BOOLEAN : r = [l EXCEPT !.nested = f]
      BY <1>11, <2>4 DEF Planned
    <3>2. /\ r \in CallType /\ SamePlan(r, l) /\ r.mine = l.mine /\ r.wrote = l.wrote
          /\ r.at = l.at
      BY <3>1 DEF CallType, SamePlan
    <3>. QED BY <1>10, <2>4, <3>2
  <2>. QED BY <2>1, <2>2, <2>3, <2>4
<1>15. CASE op \in Bulk /\ r = Idle
  BY <1>12, <1>13, <1>15, IdleStep
<1>16. CASE /\ r \in CallType /\ SamePlan(r, l) /\ r.mine = Nothing /\ r.wrote = << >>
            /\ r.at \in {"statement", "effected", "opDone", "opFailed"}
            /\ r.at # "statement" => op \in Bulk
            /\ r.at = "statement" => l.batch # << >>
            /\ r.at = "effected" => l.batch = << >>
  <2>1. r.op = op /\ r.batch = b /\ op # "none"
    BY <1>10, <1>16 DEF SamePlan, Bulk
  <2>2. r.at = "statement" => Legal(r, next)
    <3>1. SUFFICES ASSUME r.at = "statement" PROVE Legal(r, next)
      OBVIOUS
    <3>2. n # 0
      <4>1. b # << >>
        BY <1>10, <1>16, <3>1
      <4>2. n = 0 => b = << >>
        BY <1>5 DEF Slices
      <4>. QED BY <4>1, <4>2
    <3>3. 1 \in 1 .. n
      BY <1>4, <3>2
    <3>4. DrawsKeys(b) <=> ks[1] = Automatic
      BY <1>5, <3>3 DEF DrawsKeys
    <3>5. \A i \in 1 .. n : ks[i] = Automatic \/ backend.kind \in Inventive \/ ks[i] < next
      BY <1>3, <1>6 DEF LegalKeys
    <3>6. \A i, j \in 1 .. n : ks[i] = ks[j] => i = j \/ ks[i] = Automatic
      BY <1>3, <1>6 DEF LegalKeys
    <3>7. ks[1] = Automatic => \A i \in 1 .. n : ks[i] = Automatic
      BY <1>3, <1>6 DEF LegalKeys
    <3>. QED BY <1>5, <2>1, <3>4, <3>5, <3>6, <3>7 DEF Legal
  <2>3. Wrote(r, rows, next)
    BY <1>16, <2>1, <2>2, FreshWrote
  <2>4. next \in Nat /\ \A k \in Key : r.mine[k] = Untouched
    BY <1>16 DEF IInv, Typed, Nothing
  <2>5. RInv'
    BY <1>12, <1>13, <1>16, <2>3, <2>4, KeepsQuiet
  <2>6. ~Took(r)
    BY <1>10, <1>16, <2>1 DEF Took, Bulk
  <2>7. Shown(r) = [op |-> op, batch |-> b, keys |-> Absent]
    BY <2>1, <2>6 DEF Shown
  <2>8. Calls' = [Calls EXCEPT ![c] = [op |-> op, batch |-> b, keys |-> Absent]]
    BY <1>12, <2>7, CallsMove
  <2>9. Calls[c] = Table!Idle
    <3>1. call[c] = Idle
      BY <1>13, OfCall DEF KeysInv
    <3>2. ~Took(Idle) /\ Idle.op = "none" /\ Idle.batch = << >>
      BY DEF Took, Idle
    <3>3. Shown(Idle) = Table!Idle
      BY <3>2 DEF Shown, Table!Idle
    <3>. QED BY <3>1, <3>3, CallsAre
  <2>10. Calls'[c] = [op |-> op, batch |-> b, keys |-> Absent]
    BY <2>8 DEF Calls
  <2>11. Calls'[c] \in [op : Table!Operations, batch : Seq(Table!Instance), keys : {Absent}]
    <3>1. op \in Table!Operations
      BY DEF Bulk, Table!Operations, Table!Inserts
    <3>2. b \in Seq(Table!Instance)
      BY <1>5 DEF Slices, Table!Instance
    <3>. QED BY <2>10, <3>1, <3>2
  <2>12. Calls' = [Calls EXCEPT ![c] = Calls'[c]]
    BY <2>8, <2>10
  <2>13. Table!Submit(c)
    BY <1>13, <2>9, <2>11, <2>12 DEF Table!Submit, Calls
  <2>. QED BY <2>5, <2>13 DEF TableStep, Table!Next
<1>. QED BY <1>14, <1>15, <1>16

LEMMA TableOfStep ==
    ASSUME KeysAreDrawn, IInv, RInv, NEW c \in Client, Invoke(c) \/ Step(c) \/ Break(c) \/ End(c)
    PROVE  TableStep
<1>1. CASE Unreachable(c) \/ End(c)
  <2>1. Moved(c, Idle) /\ backend' = backend /\ rows' = rows /\ next' = next
    BY <1>1 DEF Unreachable, End
  <2>. QED BY <2>1, IdleStep
<1>. QED BY <1>1, InvokeStep, CollideStep, InsertStep, SelectStep, UpdateStep, DeleteStep,
            ReleaseStep, CommitStep DEF Step

\* The callers of insert, save, update, delete and the bulk inserts see one
\* table in which every call takes effect for its whole slice, at one moment
\* between its start and its end, or not at all: through chunks, transactions of
\* its own and of the caller's, savepoints, failing statements, commits after an
\* error and lost answers, if programs write no keys of their own on PostgreSQL,
\* whose counter such keys do not move.
THEOREM RowsImplementTable == KeysAreDrawn => (Spec => ImplementsTable)
<1>1. SUFFICES ASSUME KeysAreDrawn PROVE Spec => ImplementsTable
  OBVIOUS
<1>2. Init => RInv /\ Table!Init
  <2>1. SUFFICES ASSUME Init PROVE RInv /\ Table!Init
    OBVIOUS
  <2>2. \A c \in Client : call[c] = Idle
    BY <2>1 DEF Init
  <2>3. /\ Idle.at = "idle" /\ Idle.mine = Nothing /\ Idle.op = "none" /\ Idle.batch = << >>
        /\ ~Took(Idle)
    BY DEF Idle, Took
  <2>4. \A c \in Client : \A k \in Key : call[c].mine[k] = Untouched
    BY <2>2, <2>3 DEF Nothing
  <2>5. Undisturbed
    BY <2>1, <2>4 DEF Undisturbed, Init
  <2>6. \A c \in Client : Wrote(call[c], rows, next)
    BY <2>2, <2>3 DEF Wrote, Answered
  <2>7. \A c \in Client : Calls[c] = Table!Idle
    <3>1. Shown(Idle) = Table!Idle
      BY <2>3 DEF Shown, Table!Idle
    <3>. QED BY <2>2, <3>1, CallsAre
  <2>8. Calls = [c \in Client |-> Table!Idle]
    <3>1. Calls = [c \in Client |-> Calls[c]]
      BY DEF Calls
    <3>. QED BY <2>7, <3>1
  <2>9. Table!Init
    BY <2>1, <2>8 DEF Init, Table!Init, Calls
  <2>. QED BY <2>5, <2>6, <2>9 DEF RInv
<1>3. IInv /\ RInv /\ [Next]_vars => RInv' /\ [Table!Next]_Table!vars
  <2>1. SUFFICES ASSUME IInv, RInv, [Next]_vars PROVE RInv' /\ [Table!Next]_Table!vars
    OBVIOUS
  <2>2. TableStep => RInv' /\ [Table!Next]_Table!vars
    BY DEF TableStep, Table!vars, Calls
  <2>3. CASE Next
    <3>1. PICK c \in Client : Invoke(c) \/ Step(c) \/ Break(c) \/ End(c)
      BY <2>3 DEF Next
    <3>. QED BY <1>1, <2>1, <2>2, <3>1, TableOfStep
  <2>4. CASE UNCHANGED vars
    <3>1. RInv'
      BY <2>1, <2>4 DEF vars, RInv, Undisturbed, Held, Wrote, Legal, Inserted, InMine, Distinct,
                        Asked, DrawsKeys
    <3>2. UNCHANGED <<rows, Calls>>
      BY <2>4 DEF vars, Calls, Effected, InTransaction
    <3>. QED BY <2>2, <3>1, <3>2 DEF TableStep
  <2>. QED BY <2>1, <2>3, <2>4
<1>. QED BY <1>2, <1>3, Inductive, PTL DEF Spec, ImplementsTable, Table!Spec
===============================================================================
