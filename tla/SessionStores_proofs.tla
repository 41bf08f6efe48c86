------------------------- MODULE SessionStores_proofs -------------------------
(***************************************************************************)
(* Proofs about SessionStores, for any clients, ids, data and bounds.      *)
(***************************************************************************)
EXTENDS SessionStores, Sequences, FiniteSetTheorems, TLAPS

-----------------------------------------------------------------------------
(* DbStore                                                                 *)

DbRow  == Db!Row \union {Db!NoRow}
DbCall == [at : Db!CallAt, op : {"none", "create", "save", "load", "delete"},
           id : Id \union {Absent}, data : Data \union {Absent},
           seen : DbRow, tries : 0 .. MaxRetries]

DbSaving == {"get", "insert", "reget", "update", "commit"}

\* Where a call is tells what it does; what it has read or written and not
\* committed is there when the next statement needs it.
DbCallInv(c) ==
    LET l == call[c] IN
    /\ l.at = "idle" => l = Db!Idle
    /\ l.at = "create" => l.op = "create"
    /\ l.at \in DbSaving => l.op = "save"
    /\ l.at = "select" => l.op = "load"
    /\ l.at = "delete" => l.op = "delete"
    /\ l.at # "idle" => l.id \in Id
    /\ l.op \in {"create", "save"} => l.data \in Data
    /\ l.at = "update" => l.seen # Db!NoRow
    /\ own[c] # Db!NoRow <=> l.at = "commit"
    /\ l.at = "commit" => own[c].data = l.data

DbInv == /\ Db!TypeOK
         /\ \A c \in Client : DbCallInv(c)
         /\ Db!CommitsInPlace

LEMMA DbNoRow == \A row \in Db!Row : row.pk # Absent /\ row.data # Absent /\ row # Db!NoRow
BY AbsentAssumption DEF Db!Row, Db!NoRow

\* A new primary key is always left.
LEMMA DbPkLeft ==
    ASSUME Db!TypeOK
    PROVE  \E pk \in Pk : pk \notin Db!UsedPks
<1>. DEFINE t == [i \in Id |-> table[i].pk]
            o == [c \in Client |-> own[c].pk]
            s == [c \in Client |-> call[c].seen.pk]
            T == {table[i].pk : i \in Id}
            O == {own[c].pk : c \in Client}
            S == {call[c].seen.pk : c \in Client}
<1>1. IsFiniteSet(Client) /\ IsFiniteSet(Id)
  BY PkAssumption
<1>2. t \in Surjection(Id, T) /\ o \in Surjection(Client, O) /\ s \in Surjection(Client, S)
  BY DEF Surjection
<1>. HIDE DEF t, o, s, T, O, S
<1>3. /\ IsFiniteSet(T) /\ Cardinality(T) <= Cardinality(Id)
      /\ IsFiniteSet(O) /\ Cardinality(O) <= Cardinality(Client)
      /\ IsFiniteSet(S) /\ Cardinality(S) <= Cardinality(Client)
  BY <1>1, <1>2, FS_Surjection
<1>4. /\ IsFiniteSet((T \union O) \union S)
      /\ Cardinality((T \union O) \union S) <= Cardinality(Id) + 2 * Cardinality(Client)
  <2>1. /\ IsFiniteSet(T \union O)
        /\ Cardinality(T \union O) = Cardinality(T) + Cardinality(O) - Cardinality(T \cap O)
        /\ IsFiniteSet(T \cap O)
    BY <1>3, FS_Union, FS_Intersection
  <2>2. /\ IsFiniteSet((T \union O) \union S)
        /\ Cardinality((T \union O) \union S)
             = Cardinality(T \union O) + Cardinality(S) - Cardinality((T \union O) \cap S)
        /\ IsFiniteSet((T \union O) \cap S)
    BY <1>3, <2>1, FS_Union, FS_Intersection
  <2>3. /\ Cardinality(T) \in Nat /\ Cardinality(O) \in Nat /\ Cardinality(S) \in Nat
        /\ Cardinality(T \cap O) \in Nat /\ Cardinality((T \union O) \cap S) \in Nat
        /\ Cardinality(Id) \in Nat /\ Cardinality(Client) \in Nat
    BY <1>1, <1>3, <2>1, <2>2, FS_CardinalityType
  <2>. QED BY <1>3, <2>1, <2>2, <2>3
<1>5. Db!UsedPks = (T \union O) \union S
  BY DEF Db!UsedPks, T, O, S
<1>6. ASSUME Pk \subseteq Db!UsedPks PROVE FALSE
  <2>1. IsFiniteSet(Pk) /\ Cardinality(Pk) <= Cardinality((T \union O) \union S)
    BY <1>4, <1>5, <1>6, FS_Subset
  <2>2. /\ Cardinality(Pk) \in Nat /\ Cardinality((T \union O) \union S) \in Nat
        /\ Cardinality(Id) \in Nat /\ Cardinality(Client) \in Nat
    BY <1>1, <1>4, <2>1, FS_CardinalityType
  <2>. QED BY <1>4, <2>1, <2>2, PkAssumption
<1>. QED BY <1>6

LEMMA DbNewRow ==
    ASSUME DbInv, NEW c \in Client, call[c].data \in Data
    PROVE  Db!NewRow(c) \in Db!Row /\ Db!NewRow(c).data = call[c].data
<1>1. \E pk \in Pk : pk \notin Db!UsedPks
  BY DbPkLeft DEF DbInv
<1>2. (CHOOSE pk \in Pk : pk \notin Db!UsedPks) \in Pk
  BY <1>1
<1>. QED BY <1>2 DEF Db!NewRow, Db!Row

LEMMA DbIdle == Db!Idle \in DbCall
<1>1. MaxRetries \in Nat
  BY BoundsAssumption
<1>. QED BY <1>1 DEF Db!Idle, DbCall, DbRow, Db!CallAt

LEMMA DbInit == Db!Init => DbInv
<1>. SUFFICES ASSUME Db!Init PROVE DbInv
  OBVIOUS
<1>2. Db!Idle \in DbCall
  BY DbIdle
<1>3. Db!TypeOK
  BY <1>2 DEF Db!Init, Db!TypeOK, DbCall, DbRow
<1>4. Db!CommitsInPlace /\ \A c \in Client : DbCallInv(c)
  BY DEF Db!Init, Db!CommitsInPlace, DbCallInv, Db!Idle, DbSaving
<1>. QED BY <1>3, <1>4 DEF DbInv

\* A step of one call that writes no row others can see or are about to write.
LEMMA DbMoves ==
    ASSUME DbInv, NEW c \in Client, NEW l \in DbCall, NEW row \in DbRow,
           call' = [call EXCEPT ![c] = l], own' = [own EXCEPT ![c] = row], UNCHANGED table,
           DbCallInv(c)',
           row # Db!NoRow => /\ ~Db!Locked(c, l.id)
                             /\ table[l.id] = Db!NoRow \/ table[l.id].pk = row.pk
    PROVE  DbInv'
<1>. USE DEF DbInv
<1>1. Db!TypeOK'
  BY DEF Db!TypeOK, DbCall, DbRow
<1>2. /\ \A d \in Client : d # c => call'[d] = call[d] /\ own'[d] = own[d]
      /\ call'[c] = l /\ own'[c] = row
  BY DEF Db!TypeOK
<1>3. \A d \in Client : DbCallInv(d)'
  BY <1>2 DEF DbCallInv
<1>4. ASSUME NEW d \in Client, call'[d].at = "commit"
      PROVE  /\ own'[d] # Db!NoRow
             /\ ~Db!Locked(d, call[d].id)'
             /\ table'[call'[d].id] = Db!NoRow \/ table'[call'[d].id].pk = own'[d].pk
  <2>1. own'[d] # Db!NoRow
    BY <1>3, <1>4 DEF DbCallInv
  <2>2. CASE d = c
    BY <1>2, <2>1, <2>2 DEF Db!Locked
  <2>3. CASE d # c
    <3>1. call[d].at = "commit" /\ call'[d] = call[d] /\ own'[d] = own[d]
      BY <1>2, <1>4, <2>3
    <3>2. /\ ~Db!Locked(d, call[d].id)
          /\ table[call[d].id] = Db!NoRow \/ table[call[d].id].pk = own[d].pk
      BY <3>1 DEF Db!CommitsInPlace
    <3>3. row # Db!NoRow => l.id # call[d].id
      BY <2>1, <2>3, <3>1 DEF Db!Locked
    <3>. QED BY <1>2, <2>1, <3>1, <3>2, <3>3 DEF Db!Locked
  <2>. QED BY <2>2, <2>3
<1>. QED BY <1>1, <1>3, <1>4 DEF Db!CommitsInPlace

\* A step that writes a row for good, when no other transaction holds its key.
LEMMA DbWrites ==
    ASSUME DbInv, NEW c \in Client, NEW l \in DbCall, NEW row \in DbRow, NEW i \in Id,
           call' = [call EXCEPT ![c] = l], own' = [own EXCEPT ![c] = Db!NoRow],
           table' = [table EXCEPT ![i] = row],
           DbCallInv(c)', ~Db!Locked(c, i)
    PROVE  DbInv'
<1>. USE DEF DbInv
<1>1. Db!TypeOK'
  BY DEF Db!TypeOK, DbCall, DbRow
<1>2. /\ \A d \in Client : d # c => call'[d] = call[d] /\ own'[d] = own[d]
      /\ call'[c] = l /\ own'[c] = Db!NoRow
      /\ \A j \in Id : j # i => table'[j] = table[j]
  BY DEF Db!TypeOK
<1>3. \A d \in Client : DbCallInv(d)'
  BY <1>2 DEF DbCallInv
<1>4. ASSUME NEW d \in Client, call'[d].at = "commit"
      PROVE  /\ own'[d] # Db!NoRow
             /\ ~Db!Locked(d, call[d].id)'
             /\ table'[call'[d].id] = Db!NoRow \/ table'[call'[d].id].pk = own'[d].pk
  <2>1. own'[d] # Db!NoRow
    BY <1>3, <1>4 DEF DbCallInv
  <2>2. d # c
    BY <1>2, <2>1
  <2>3. call[d].at = "commit" /\ call'[d] = call[d] /\ own'[d] = own[d]
    BY <1>2, <1>4, <2>2
  <2>4. /\ ~Db!Locked(d, call[d].id)
        /\ table[call[d].id] = Db!NoRow \/ table[call[d].id].pk = own[d].pk
    BY <2>3 DEF Db!CommitsInPlace
  <2>5. call[d].id # i /\ call[d].id \in Id
    BY <2>1, <2>2, <2>3 DEF Db!Locked, DbCallInv
  <2>. QED BY <1>2, <2>1, <2>3, <2>4, <2>5 DEF Db!Locked
<1>. QED BY <1>1, <1>3, <1>4 DEF Db!CommitsInPlace

LEMMA DbTyped ==
    ASSUME DbInv, NEW c \in Client
    PROVE  /\ call[c] \in DbCall /\ own[c] \in DbRow
           /\ \A i \in Id : table[i] \in DbRow
BY DEF DbInv, Db!TypeOK, DbCall, DbRow

\* A call that goes on, ends or fails, with the fields it has.
LEMMA DbTo ==
    ASSUME DbInv, NEW c \in Client, NEW at \in Db!CallAt
    PROVE  \E l \in DbCall :
              /\ Db!To(c, at) = [call EXCEPT ![c] = l]
              /\ l.at = at /\ l.op = call[c].op /\ l.id = call[c].id /\ l.data = call[c].data
<1>. DEFINE l == [call[c] EXCEPT !.at = at]
<1>1. call[c] \in DbCall
  BY DbTyped
<1>2. /\ l \in DbCall
      /\ l.at = at /\ l.op = call[c].op /\ l.id = call[c].id /\ l.data = call[c].data
  BY <1>1 DEF DbCall
<1>3. Db!To(c, at) = [call EXCEPT ![c] = l]
  BY DEF Db!To
<1>. HIDE DEF l
<1>. QED BY <1>2, <1>3

LEMMA DbGoes ==
    ASSUME DbInv, NEW c \in Client, NEW at \in Db!CallAt, call' = Db!To(c, at),
           own' = [own EXCEPT ![c] = Db!NoRow], UNCHANGED table, DbCallInv(c)'
    PROVE  DbInv'
<1>1. PICK l \in DbCall : Db!To(c, at) = [call EXCEPT ![c] = l]
  BY DbTo
<1>2. Db!NoRow \in DbRow
  BY DEF DbRow
<1>. QED BY <1>1, <1>2, DbMoves

LEMMA DbEnds ==
    ASSUME DbInv, NEW c \in Client, Db!Answered(c),
           own' = [own EXCEPT ![c] = Db!NoRow], NEW row \in DbRow, NEW i \in Id,
           table' = [table EXCEPT ![i] = row], DbCallInv(c)', ~Db!Locked(c, i)
    PROVE  DbInv'
<1>1. PICK at \in {"done", "failed"} : call' = Db!To(c, at)
  BY DEF Db!Answered
<1>2. PICK l \in DbCall : Db!To(c, at) = [call EXCEPT ![c] = l]
  BY DbTo DEF Db!CallAt
<1>. QED BY <1>1, <1>2, DbWrites

LEMMA DbBegins ==
    ASSUME NEW op \in Operation, NEW i \in Id, NEW d \in Data
    PROVE  /\ Db!Invoked(op, i, d) \in DbCall
           /\ Db!Invoked(op, i, d).at = Db!Start[op]
           /\ Db!Invoked(op, i, d).op = op
           /\ Db!Invoked(op, i, d).id = i
           /\ Db!Invoked(op, i, d).data = IF op \in {"create", "save"} THEN d ELSE Absent
<1>. DEFINE at == Db!Start[op]
            data == IF op \in {"create", "save"} THEN d ELSE Absent
<1>1. /\ at \in Db!CallAt /\ data \in Data \union {Absent}
      /\ op \in {"none", "create", "save", "load", "delete"}
  BY OperationAssumption DEF Db!Start, Db!CallAt
<1>2. Db!Invoked(op, i, d) = [Db!Idle EXCEPT !.at = at, !.op = op, !.id = i, !.data = data]
  BY DEF Db!Invoked
<1>. HIDE DEF at, data
<1>. DEFINE l == [Db!Idle EXCEPT !.at = at, !.op = op, !.id = i, !.data = data]
<1>3. l \in DbCall /\ l.at = at /\ l.op = op /\ l.id = i /\ l.data = data
  BY <1>1, DbIdle DEF DbCall
<1>. HIDE DEF l
<1>. QED BY <1>2, <1>3 DEF at, data, l

LEMMA DbOwn ==
    ASSUME DbInv, NEW c \in Client, call[c].at # "commit"
    PROVE  own[c] = Db!NoRow /\ own = [own EXCEPT ![c] = Db!NoRow]
BY DEF DbInv, Db!TypeOK, DbCallInv

LEMMA DbStep == DbInv /\ [Db!Next]_<<table, own, call>> => DbInv'
<1>. SUFFICES ASSUME DbInv, [Db!Next]_<<table, own, call>> PROVE DbInv'
  OBVIOUS
<1>1. CASE UNCHANGED <<table, own, call>>
  BY <1>1 DEF DbInv, Db!TypeOK, DbCallInv, Db!CommitsInPlace, Db!Locked
<1>. SUFFICES ASSUME NEW c \in Client,
                     Db!Invoke(c) \/ Db!Step(c) \/ Db!Interrupt(c) \/ Db!Return(c)
              PROVE  DbInv'
  BY <1>1 DEF Db!Next
<1>t. call[c] \in DbCall /\ DbCallInv(c) /\ DOMAIN call = Client /\ DOMAIN own = Client
  BY DEF DbInv, Db!TypeOK, DbCall, DbRow
<1>n. Db!NoRow \in DbRow
  BY DEF DbRow
<1>2. CASE Db!Invoke(c)
  <2>1. PICK op \in Operation, i \in Id, d \in Data :
             call' = [call EXCEPT ![c] = Db!Invoked(op, i, d)]
    BY <1>2 DEF Db!Invoke
  <2>2. /\ Db!Invoked(op, i, d) \in DbCall
        /\ Db!Invoked(op, i, d).at = Db!Start[op] /\ Db!Invoked(op, i, d).op = op
        /\ Db!Invoked(op, i, d).id = i
        /\ op \in {"create", "save"} => Db!Invoked(op, i, d).data = d
    BY DbBegins
  <2>a. op \in {"create", "save", "load", "delete"}
    BY OperationAssumption
  <2>3. call'[c] = Db!Invoked(op, i, d) /\ own[c] = Db!NoRow /\ own = [own EXCEPT ![c] = Db!NoRow]
    BY <1>2, <1>t, <2>1, DbOwn DEF Db!Invoke
  <2>4. DbCallInv(c)'
    BY <1>2, <2>a, <2>2, <2>3 DEF DbCallInv, DbSaving, Db!Start, Db!Invoke
  <2>. QED BY <1>2, <1>n, <2>1, <2>2, <2>3, <2>4, DbMoves DEF Db!Invoke
<1>3. CASE Db!Create(c)
  <2>. DEFINE i == call[c].id
  <2>0. /\ i \in Id /\ call[c].at = "create" /\ call[c].op = "create" /\ call[c].data \in Data
        /\ own' = own /\ own = [own EXCEPT ![c] = Db!NoRow] /\ own[c] = Db!NoRow
        /\ ~Db!Locked(c, i)
    BY <1>3, <1>t, DbOwn DEF Db!Create, DbCallInv
  <2>1. CASE table' = [table EXCEPT ![i] = Db!NewRow(c)] /\ Db!Answered(c)
    <3>1. Db!NewRow(c) \in DbRow
      BY <2>0, DbNewRow DEF DbRow
    <3>2. DbCallInv(c)'
      BY <1>t, <2>0, <2>1 DEF DbCallInv, Db!Answered, Db!To, DbCall, DbSaving
    <3>. QED BY <2>0, <2>1, <3>1, <3>2, DbEnds
  <2>2. CASE \E fresh \in Id :
                /\ call' = [call EXCEPT ![c].id = fresh, ![c].tries = @ + 1]
                /\ call[c].tries < MaxRetries /\ UNCHANGED table
    <3>1. PICK fresh \in Id : call' = [call EXCEPT ![c].id = fresh, ![c].tries = @ + 1]
      BY <2>2
    <3>. DEFINE l == [call[c] EXCEPT !.id = fresh, !.tries = @ + 1]
    <3>2. l \in DbCall /\ call' = [call EXCEPT ![c] = l]
      BY <1>t, <2>2, <3>1, BoundsAssumption DEF DbCall
    <3>3. DbCallInv(c)'
      BY <1>t, <2>0, <3>1 DEF DbCallInv, DbCall, DbSaving
    <3>. HIDE DEF l
    <3>. QED BY <1>n, <2>0, <2>2, <3>2, <3>3, DbMoves
  <2>3. CASE call' = Db!To(c, "failed") /\ UNCHANGED table
    <3>1. DbCallInv(c)'
      BY <1>t, <2>0, <2>3 DEF DbCallInv, Db!To, DbCall, DbSaving
    <3>. QED BY <2>0, <2>3, <3>1, DbGoes DEF Db!CallAt
  <2>. QED BY <1>3, <2>1, <2>2, <2>3 DEF Db!Create
<1>4. CASE Db!Get(c)
  <2>. DEFINE row == table[call[c].id]
              l == [call[c] EXCEPT !.at = IF row = Db!NoRow THEN "insert" ELSE "update",
                                   !.seen = row]
  <2>1. /\ call[c].at = "get" /\ call[c].op = "save" /\ call[c].id \in Id /\ row \in DbRow
        /\ call' = [call EXCEPT ![c] = l] /\ UNCHANGED <<table, own>>
    BY <1>4, <1>t, DbTyped DEF Db!Get, DbCallInv, DbSaving, Db!CallAt
  <2>2. /\ l \in DbCall /\ l.at = IF row = Db!NoRow THEN "insert" ELSE "update"
        /\ l.op = "save" /\ l.id = call[c].id /\ l.data = call[c].data /\ l.seen = row
    BY <1>t, <2>1 DEF DbCall, Db!CallAt
  <2>3. call'[c] = l /\ own[c] = Db!NoRow /\ own = [own EXCEPT ![c] = Db!NoRow]
    BY <1>t, <2>1, DbOwn
  <2>. HIDE DEF l
  <2>4. DbCallInv(c)'
    BY <1>t, <2>1, <2>2, <2>3 DEF DbCallInv, DbSaving
  <2>. QED BY <1>n, <2>1, <2>2, <2>3, <2>4, DbMoves
<1>5. CASE Db!Insert(c)
  <2>0. /\ call[c].at = "insert" /\ call[c].op = "save" /\ call[c].id \in Id
        /\ call[c].data \in Data /\ UNCHANGED table /\ ~Db!Locked(c, call[c].id)
        /\ own[c] = Db!NoRow /\ own = [own EXCEPT ![c] = Db!NoRow]
    BY <1>5, <1>t, DbOwn DEF Db!Insert, DbCallInv, DbSaving
  <2>1. CASE /\ table[call[c].id] = Db!NoRow
             /\ own' = [own EXCEPT ![c] = Db!NewRow(c)] /\ call' = Db!To(c, "commit")
    <3>1. Db!NewRow(c) \in Db!Row /\ Db!NewRow(c).data = call[c].data
      BY <2>0, DbNewRow
    <3>2. call'[c] = [call[c] EXCEPT !.at = "commit"] /\ own'[c] = Db!NewRow(c)
      BY <1>t, <2>1 DEF Db!To
    <3>3. DbCallInv(c)'
      BY <1>t, <2>0, <3>1, <3>2, DbNoRow DEF DbCallInv, DbCall, DbSaving
    <3>4. PICK l \in DbCall : Db!To(c, "commit") = [call EXCEPT ![c] = l] /\ l.id = call[c].id
      BY DbTo DEF Db!CallAt
    <3>. QED BY <2>0, <2>1, <3>1, <3>3, <3>4, DbMoves DEF DbRow
  <2>2. CASE call' = Db!To(c, "reget") /\ UNCHANGED own
    <3>1. DbCallInv(c)'
      BY <1>t, <2>0, <2>2 DEF DbCallInv, Db!To, DbCall, DbSaving
    <3>. QED BY <2>0, <2>2, <3>1, DbGoes DEF Db!CallAt
  <2>. QED BY <1>5, <2>1, <2>2 DEF Db!Insert
<1>6. CASE Db!GetAgain(c)
  <2>. DEFINE row == Db!Reread(c)
              l == [call[c] EXCEPT !.at = "update", !.seen = row]
  <2>0. /\ call[c].at = "reget" /\ call[c].op = "save" /\ call[c].id \in Id
        /\ UNCHANGED <<table, own>>
        /\ own[c] = Db!NoRow /\ own = [own EXCEPT ![c] = Db!NoRow]
    BY <1>6, <1>t, DbOwn DEF Db!GetAgain, DbCallInv, DbSaving
  <2>1. CASE call' = Db!To(c, "panicked")
    <3>1. DbCallInv(c)'
      BY <1>t, <2>0, <2>1 DEF DbCallInv, Db!To, DbCall, DbSaving
    <3>. QED BY <2>0, <2>1, <3>1, DbGoes DEF Db!CallAt
  <2>2. CASE row # Db!NoRow /\ call' = [call EXCEPT ![c] = l]
    <3>1. row \in DbRow
      BY <1>t, <2>0, DbTyped DEF Db!Reread, DbCall, Db!CallAt
    <3>. HIDE DEF row
    <3>2. /\ l \in DbCall /\ l.at = "update" /\ l.op = "save" /\ l.id = call[c].id
          /\ l.data = call[c].data /\ l.seen = row
      BY <1>t, <2>0, <3>1 DEF DbCall, Db!CallAt
    <3>3. call'[c] = l
      BY <1>t, <2>2
    <3>. HIDE DEF l
    <3>4. DbCallInv(c)'
      BY <1>t, <2>0, <2>2, <3>2, <3>3 DEF DbCallInv, DbSaving
    <3>. QED BY <1>n, <2>0, <2>2, <3>2, <3>4, DbMoves
  <2>. QED BY <1>6, <2>1, <2>2 DEF Db!GetAgain
<1>7. CASE Db!Update(c)
  <2>. DEFINE row == [pk |-> call[c].seen.pk, data |-> call[c].data]
  <2>0. /\ call[c].at = "update" /\ call[c].op = "save" /\ call[c].id \in Id
        /\ call[c].data \in Data /\ call[c].seen \in Db!Row
        /\ UNCHANGED table /\ ~Db!Locked(c, call[c].id)
        /\ own[c] = Db!NoRow /\ own = [own EXCEPT ![c] = Db!NoRow]
    BY <1>7, <1>t, DbOwn DEF Db!Update, DbCallInv, DbSaving, DbCall, DbRow
  <2>1. CASE /\ table[call[c].id].pk = call[c].seen.pk
             /\ own' = [own EXCEPT ![c] = row] /\ call' = Db!To(c, "commit")
    <3>1. row \in Db!Row /\ row.data = call[c].data
      BY <2>0 DEF Db!Row
    <3>2. call'[c] = [call[c] EXCEPT !.at = "commit"] /\ own'[c] = row
      BY <1>t, <2>1 DEF Db!To
    <3>3. row.pk = call[c].seen.pk
      OBVIOUS
    <3>. HIDE DEF row
    <3>4. DbCallInv(c)'
      BY <1>t, <2>0, <3>1, <3>2, DbNoRow DEF DbCallInv, DbCall, DbSaving
    <3>5. PICK l \in DbCall : Db!To(c, "commit") = [call EXCEPT ![c] = l] /\ l.id = call[c].id
      BY DbTo DEF Db!CallAt
    <3>. QED BY <2>0, <2>1, <3>1, <3>3, <3>4, <3>5, DbMoves DEF DbRow
  <2>2. CASE call' = Db!To(c, "failed") /\ UNCHANGED own
    <3>1. DbCallInv(c)'
      BY <1>t, <2>0, <2>2 DEF DbCallInv, Db!To, DbCall, DbSaving
    <3>. QED BY <2>0, <2>2, <3>1, DbGoes DEF Db!CallAt
  <2>. QED BY <1>7, <2>1, <2>2 DEF Db!Update
<1>8. CASE Db!Commit(c)
  <2>0. /\ call[c].at = "commit" /\ call[c].id \in Id /\ own[c] \in DbRow
        /\ ~Db!Locked(c, call[c].id) /\ Db!Answered(c)
        /\ table' = [table EXCEPT ![call[c].id] = own[c]] /\ own' = [own EXCEPT ![c] = Db!NoRow]
    BY <1>8, <1>t, DbTyped DEF Db!Commit, DbCallInv, Db!CommitsInPlace, DbInv, Db!CallAt
  <2>1. DbCallInv(c)'
    BY <1>t, <2>0 DEF DbCallInv, Db!Answered, Db!To, DbCall, DbSaving
  <2>. QED BY <2>0, <2>1, DbEnds
<1>9. CASE Db!Load(c)
  <2>. DEFINE l == [call[c] EXCEPT !.at = "done", !.data = table[call[c].id].data]
  <2>0. /\ call[c].at = "select" /\ call[c].op = "load" /\ call[c].id \in Id
        /\ UNCHANGED <<table, own>> /\ call' = [call EXCEPT ![c] = l]
        /\ table[call[c].id] \in DbRow
        /\ own[c] = Db!NoRow /\ own = [own EXCEPT ![c] = Db!NoRow]
    BY <1>9, <1>t, DbOwn, DbTyped DEF Db!Load, DbCallInv, Db!CallAt
  <2>1. table[call[c].id].data \in Data \union {Absent}
    BY <2>0 DEF DbRow, Db!Row, Db!NoRow
  <2>2. l \in DbCall /\ l.at = "done" /\ l.op = "load" /\ l.id = call[c].id
    BY <1>t, <2>0, <2>1 DEF DbCall, Db!CallAt
  <2>3. call'[c] = l
    BY <1>t, <2>0
  <2>. HIDE DEF l
  <2>4. DbCallInv(c)'
    BY <2>0, <2>2, <2>3 DEF DbCallInv, DbSaving
  <2>. QED BY <1>n, <2>0, <2>2, <2>4, DbMoves
<1>10. CASE Db!Delete(c)
  <2>0. /\ call[c].at = "delete" /\ call[c].op = "delete" /\ call[c].id \in Id
        /\ ~Db!Locked(c, call[c].id) /\ Db!Answered(c)
        /\ table' = [table EXCEPT ![call[c].id] = Db!NoRow] /\ UNCHANGED own
        /\ own[c] = Db!NoRow /\ own = [own EXCEPT ![c] = Db!NoRow]
    BY <1>10, <1>t, DbOwn DEF Db!Delete, DbCallInv
  <2>1. DbCallInv(c)'
    BY <1>t, <2>0 DEF DbCallInv, Db!Answered, Db!To, DbCall, DbSaving
  <2>. QED BY <1>n, <2>0, <2>1, DbEnds
<1>11. CASE Db!Interrupt(c)
  <2>0. /\ call[c].at # "idle" /\ call' = Db!To(c, "failed") /\ UNCHANGED table
        /\ own' = [own EXCEPT ![c] = Db!NoRow]
    BY <1>11 DEF Db!Interrupt, Db!Running
  <2>1. DbCallInv(c)'
    BY <1>t, <2>0 DEF DbCallInv, Db!To, DbCall, DbSaving
  <2>. QED BY <2>0, <2>1, DbGoes DEF Db!CallAt
<1>12. CASE Db!Return(c)
  <2>0. /\ call' = [call EXCEPT ![c] = Db!Idle] /\ UNCHANGED <<table, own>>
        /\ own[c] = Db!NoRow /\ own = [own EXCEPT ![c] = Db!NoRow]
    BY <1>12, DbOwn DEF Db!Return
  <2>1. Db!Idle \in DbCall
    BY DbIdle
  <2>2. DbCallInv(c)'
    BY <1>t, <2>0 DEF DbCallInv, Db!Idle, DbSaving
  <2>. QED BY <1>n, <2>0, <2>1, <2>2, DbMoves
<1>. QED
  BY <1>2, <1>3, <1>4, <1>5, <1>6, <1>7, <1>8, <1>9, <1>10, <1>11, <1>12 DEF Db!Step

-----------------------------------------------------------------------------
(* RedisStore                                                              *)

RedisText   == [id : Id, data : Data \union Expiring]
RedisRecord == RedisText \union {Redis!NoRecord}
RedisCall   == [at : Redis!CallAt, op : {"none", "create", "save", "load", "delete"},
                id : Id \union {Absent}, json : RedisRecord,
                tries : 0 .. MaxRetries, result : RedisRecord]

\* A save first tries its own id; when it goes on with another one, its own
\* key was seen to hold a record.
RedisCallInv(c) ==
    LET l == call[c] IN
    /\ l.at \in {"setxx", "setnx"} => l.id \in Id /\ l.json \in RedisText
    /\ l.at = "setxx" => l.op = "save" /\ l.json.id = l.id
    /\ l.at = "setnx" => l.op \in {"create", "save"}
    /\ l.at \in {"get", "del"} => l.id \in Id /\ l.op \in {"load", "delete"}
    /\ l.at = "setnx" /\ l.op = "save" => l.json.id = l.id \/ held[c] = TRUE
    /\ l.at = "done" /\ l.op = "save" => held[c] = TRUE

RedisInv == /\ Redis!TypeOK
            /\ \A c \in Client : RedisCallInv(c)

LEMMA RedisTyped ==
    ASSUME RedisInv
    PROVE  /\ keys \in [Id -> RedisRecord] /\ call \in [Client -> RedisCall]
           /\ held \in [Client -> BOOLEAN]
           /\ \A c \in Client : call[c] \in RedisCall /\ RedisCallInv(c)
BY DEF RedisInv, Redis!TypeOK, RedisRecord, RedisText, RedisCall

LEMMA RedisTexts == \A text \in RedisText : text # Redis!NoRecord
BY AbsentAssumption DEF RedisText, Redis!NoRecord

LEMMA RedisIdle == Redis!Idle \in RedisCall
<1>1. MaxRetries \in Nat
  BY BoundsAssumption
<1>. QED BY <1>1 DEF Redis!Idle, RedisCall, RedisRecord, Redis!CallAt

LEMMA RedisInit == Redis!Init => RedisInv
<1>. SUFFICES ASSUME Redis!Init PROVE RedisInv
  OBVIOUS
<1>1. Redis!TypeOK
  BY RedisIdle DEF Redis!Init, Redis!TypeOK, RedisCall, RedisRecord, RedisText
<1>2. \A c \in Client : RedisCallInv(c)
  BY DEF Redis!Init, RedisCallInv, Redis!Idle
<1>. QED BY <1>1, <1>2 DEF RedisInv

\* What was held stays so while the call runs.
LEMMA RedisHeld ==
    ASSUME RedisInv, held' = Redis!Watched(keys', call'), NEW d \in Client
    PROVE  /\ held'[d] \in BOOLEAN
           /\ call'[d].op = "save" /\ call'[d].at # "idle"
                /\ (held[d] = TRUE \/ keys'[call'[d].json.id] # Redis!NoRecord) => held'[d] = TRUE
<1>1. held[d] \in BOOLEAN
  BY RedisTyped
<1>2. held'[d] = /\ call'[d].at # "idle"
                 /\ call'[d].op = "save"
                 /\ held[d] \/ keys'[call'[d].json.id] # Redis!NoRecord
  BY DEF Redis!Watched
<1>. QED BY <1>1, <1>2

\* A step of one call.
LEMMA RedisMoves ==
    ASSUME RedisInv, NEW c \in Client, NEW l \in RedisCall, call' = [call EXCEPT ![c] = l],
           keys' \in [Id -> RedisRecord], held' = Redis!Watched(keys', call'),
           RedisCallInv(c)'
    PROVE  RedisInv'
<1>1. call' \in [Client -> RedisCall]
  BY RedisTyped
<1>2. held' \in [Client -> BOOLEAN]
  BY RedisHeld DEF Redis!Watched
<1>3. ASSUME NEW d \in Client, d # c PROVE RedisCallInv(d)'
  <2>1. call'[d] = call[d] /\ RedisCallInv(d)
    BY <1>3, RedisTyped
  <2>2. call[d].op = "save" /\ call[d].at # "idle" /\ held[d] = TRUE => held'[d] = TRUE
    BY <2>1, RedisHeld
  <2>. QED BY <2>1, <2>2 DEF RedisCallInv
<1>. QED BY <1>1, <1>2, <1>3 DEF RedisInv, Redis!TypeOK, RedisRecord, RedisText, RedisCall

LEMMA RedisTo ==
    ASSUME RedisInv, NEW c \in Client, NEW at \in Redis!CallAt
    PROVE  \E l \in RedisCall :
              /\ Redis!To(c, at) = [call EXCEPT ![c] = l]
              /\ l.at = at /\ l.op = call[c].op /\ l.id = call[c].id /\ l.json = call[c].json
<1>. DEFINE l == [call[c] EXCEPT !.at = at]
<1>1. call[c] \in RedisCall
  BY RedisTyped
<1>2. /\ l \in RedisCall
      /\ l.at = at /\ l.op = call[c].op /\ l.id = call[c].id /\ l.json = call[c].json
  BY <1>1 DEF RedisCall
<1>3. Redis!To(c, at) = [call EXCEPT ![c] = l]
  BY DEF Redis!To
<1>. HIDE DEF l
<1>. QED BY <1>2, <1>3

\* A call that is over, and has not saved, is in order.
LEMMA RedisEnds ==
    ASSUME RedisInv, NEW c \in Client, NEW at \in {"done", "failed", "abandoned"},
           call' = Redis!To(c, at), at = "done" => call[c].op # "save",
           keys' \in [Id -> RedisRecord], held' = Redis!Watched(keys', call')
    PROVE  RedisInv'
<1>1. PICK l \in RedisCall :
              /\ Redis!To(c, at) = [call EXCEPT ![c] = l]
              /\ l.at = at /\ l.op = call[c].op
  BY RedisTo DEF Redis!CallAt
<1>2. call'[c] = l
  BY <1>1, RedisTyped
<1>3. RedisCallInv(c)'
  BY <1>1, <1>2 DEF RedisCallInv
<1>. QED BY <1>1, <1>3, RedisMoves

\* So is a save that has written its own key, or lost it to another writer.
LEMMA RedisSaved ==
    ASSUME RedisInv, NEW c \in Client, call' = Redis!To(c, "done"), NEW i \in Id,
           call[c].at \in {"setxx", "setnx"}, i = call[c].id,
           keys' = [keys EXCEPT ![i] = call[c].json], held' = Redis!Watched(keys', call')
    PROVE  RedisInv'
<1>1. PICK l \in RedisCall :
              /\ Redis!To(c, "done") = [call EXCEPT ![c] = l]
              /\ l.at = "done" /\ l.op = call[c].op /\ l.id = call[c].id /\ l.json = call[c].json
  BY RedisTo DEF Redis!CallAt
<1>2. /\ call'[c] = l
      /\ call[c].json \in RedisText /\ call[c].json # Redis!NoRecord
      /\ keys' \in [Id -> RedisRecord] /\ keys'[i] = call[c].json
  BY <1>1, RedisTyped, RedisTexts DEF RedisCallInv, RedisRecord
<1>3. l.op = "save" => held[c] = TRUE \/ keys'[l.json.id] # Redis!NoRecord
  BY <1>1, <1>2, RedisTyped DEF RedisCallInv
<1>4. RedisCallInv(c)'
  BY <1>1, <1>2, <1>3, RedisHeld DEF RedisCallInv
<1>. QED BY <1>1, <1>2, <1>4, RedisMoves

LEMMA RedisBegins ==
    ASSUME NEW op \in Operation, NEW i \in Id, NEW d \in Data \union Expiring
    PROVE  /\ Redis!Invoked(op, i, d) \in RedisCall
           /\ Redis!Invoked(op, i, d).at = Redis!Start[op]
           /\ Redis!Invoked(op, i, d).op = op
           /\ Redis!Invoked(op, i, d).id = i
           /\ op \in {"create", "save"} => Redis!Invoked(op, i, d).json = [id |-> i, data |-> d]
<1>. DEFINE at == Redis!Start[op]
            json == IF op \in {"create", "save"} THEN [id |-> i, data |-> d] ELSE Redis!NoRecord
<1>1. /\ at \in Redis!CallAt
      /\ op \in {"none", "create", "save", "load", "delete"}
  BY OperationAssumption DEF Redis!Start, Redis!CallAt
<1>2. json \in RedisRecord
  BY DEF RedisRecord, RedisText
<1>3. Redis!Invoked(op, i, d) = [Redis!Idle EXCEPT !.at = at, !.op = op, !.id = i, !.json = json]
  BY DEF Redis!Invoked
<1>4. op \in {"create", "save"} => json = [id |-> i, data |-> d]
  OBVIOUS
<1>. HIDE DEF at, json
<1>. DEFINE l == [Redis!Idle EXCEPT !.at = at, !.op = op, !.id = i, !.json = json]
<1>5. l \in RedisCall /\ l.at = at /\ l.op = op /\ l.id = i /\ l.json = json
  BY <1>1, <1>2, RedisIdle DEF RedisCall
<1>. HIDE DEF l
<1>. QED BY <1>3, <1>4, <1>5 DEF at, l

LEMMA RedisStep == RedisInv /\ [Redis!Next]_<<keys, call, held>> => RedisInv'
<1>. SUFFICES ASSUME RedisInv, [Redis!Next]_<<keys, call, held>> PROVE RedisInv'
  OBVIOUS
<1>1. CASE UNCHANGED <<keys, call, held>>
  BY <1>1 DEF RedisInv, Redis!TypeOK, RedisCallInv
<1>. SUFFICES ASSUME Redis!Next PROVE RedisInv'
  BY <1>1
<1>h. held' = Redis!Watched(keys', call')
  BY DEF Redis!Next
<1>t. /\ keys \in [Id -> RedisRecord] /\ call \in [Client -> RedisCall]
      /\ \A c \in Client : call[c] \in RedisCall /\ RedisCallInv(c)
      /\ Redis!NoRecord \in RedisRecord
  BY RedisTyped DEF RedisRecord
<1>2. ASSUME NEW c \in Client, Redis!Invoke(c) PROVE RedisInv'
  <2>1. PICK op \in Operation, i \in Id, d \in Data \union Expiring :
             call' = [call EXCEPT ![c] = Redis!Invoked(op, i, d)]
    BY <1>2 DEF Redis!Invoke
  <2>. DEFINE l == Redis!Invoked(op, i, d)
  <2>2. /\ l \in RedisCall /\ l.at = Redis!Start[op] /\ l.op = op /\ l.id = i
        /\ op \in {"create", "save"} => l.json = [id |-> i, data |-> d]
        /\ op \in {"create", "save", "load", "delete"}
    BY RedisBegins, OperationAssumption
  <2>3. call'[c] = l /\ UNCHANGED keys
    BY <1>2, <1>t, <2>1 DEF Redis!Invoke
  <2>4. [id |-> i, data |-> d] \in RedisText
    BY DEF RedisText
  <2>. HIDE DEF l
  <2>5. RedisCallInv(c)'
    BY <2>2, <2>3, <2>4 DEF RedisCallInv, Redis!Start
  <2>. QED BY <1>h, <1>t, <2>1, <2>2, <2>3, <2>5, RedisMoves DEF l
<1>3. ASSUME NEW c \in Client, Redis!Abandon(c) PROVE RedisInv'
  BY <1>3, <1>h, <1>t, RedisEnds DEF Redis!Abandon
<1>4. ASSUME NEW c \in Client, Redis!Return(c) PROVE RedisInv'
  <2>1. call'[c] = Redis!Idle
    BY <1>4, <1>t DEF Redis!Return
  <2>2. RedisCallInv(c)'
    BY <2>1 DEF RedisCallInv, Redis!Idle
  <2>. QED BY <1>4, <1>h, <1>t, <2>2, RedisIdle, RedisMoves DEF Redis!Return
<1>5. ASSUME NEW c \in Client, Redis!Refused(c) PROVE RedisInv'
  BY <1>5, <1>h, <1>t, RedisEnds DEF Redis!Refused
<1>6. ASSUME NEW c \in Client, Redis!SetExisting(c) PROVE RedisInv'
  <2>. DEFINE i == call[c].id
  <2>0. call[c].at = "setxx" /\ i \in Id
    BY <1>6, <1>t DEF Redis!SetExisting, RedisCallInv
  <2>1. CASE keys' = [keys EXCEPT ![i] = call[c].json] /\ call' = Redis!To(c, "done")
    BY <1>h, <2>0, <2>1, RedisSaved
  <2>2. CASE call' = Redis!To(c, "setnx") /\ UNCHANGED keys
    <3>1. PICK l \in RedisCall :
              /\ Redis!To(c, "setnx") = [call EXCEPT ![c] = l]
              /\ l.at = "setnx" /\ l.op = call[c].op /\ l.id = call[c].id /\ l.json = call[c].json
      BY RedisTo DEF Redis!CallAt
    <3>2. call'[c] = l
      BY <1>t, <2>2, <3>1
    <3>3. RedisCallInv(c)'
      BY <1>t, <2>0, <3>1, <3>2 DEF RedisCallInv
    <3>. QED BY <1>h, <1>t, <2>2, <3>1, <3>3, RedisMoves
  <2>. QED BY <1>6, <2>1, <2>2 DEF Redis!SetExisting
<1>7. ASSUME NEW c \in Client, Redis!SetNew(c) PROVE RedisInv'
  <2>. DEFINE i == call[c].id
  <2>0. call[c].at = "setnx" /\ i \in Id
    BY <1>7, <1>t DEF Redis!SetNew, RedisCallInv
  <2>1. CASE keys' = [keys EXCEPT ![i] = call[c].json] /\ call' = Redis!To(c, "done")
    BY <1>h, <2>0, <2>1, RedisSaved
  <2>2. CASE /\ keys[i] # Redis!NoRecord /\ UNCHANGED keys
             /\ \E fresh \in Id : call' = Redis!Retry(c, fresh)
    <3>1. PICK fresh \in Id : call' = Redis!Retry(c, fresh)
      BY <2>2
    <3>2. CASE call[c].tries < MaxRetries
      <4>. DEFINE l == [call[c] EXCEPT !.id = fresh, !.tries = @ + 1]
      <4>1. call' = [call EXCEPT ![c] = l]
        BY <3>1, <3>2, <1>t DEF Redis!Retry
      <4>2. l \in RedisCall /\ l.at = "setnx" /\ l.op = call[c].op /\ l.id = fresh
            /\ l.json = call[c].json
        <5>1. MaxRetries \in Nat /\ call[c].tries \in 0 .. MaxRetries
          BY <1>t, BoundsAssumption DEF RedisCall
        <5>2. call[c].tries + 1 \in 0 .. MaxRetries
          BY <3>2, <5>1
        <5>. QED BY <1>t, <2>0, <5>2 DEF RedisCall
      <4>3. call'[c] = l
        BY <1>t, <4>1
      <4>. HIDE DEF l
      <4>4. call[c].op = "save" => held'[c] = TRUE
        <5>1. call[c].op = "save" => held[c] = TRUE \/ call[c].json.id = i
          BY <1>t, <2>0 DEF RedisCallInv
        <5>2. held[c] = TRUE \/ keys'[call'[c].json.id] # Redis!NoRecord \/ call[c].op # "save"
          BY <2>2, <4>2, <4>3, <5>1
        <5>3. call'[c].op = call[c].op /\ call'[c].at = "setnx"
          BY <4>2, <4>3
        <5>. QED BY <1>h, <5>2, <5>3, RedisHeld
      <4>5. RedisCallInv(c)'
        BY <1>t, <2>0, <4>2, <4>3, <4>4 DEF RedisCallInv
      <4>. QED BY <1>h, <1>t, <2>2, <4>1, <4>2, <4>5, RedisMoves
    <3>3. CASE ~(call[c].tries < MaxRetries)
      BY <1>h, <1>t, <2>2, <3>1, <3>3, RedisEnds DEF Redis!Retry
    <3>. QED BY <3>2, <3>3
  <2>. QED BY <1>7, <2>1, <2>2 DEF Redis!SetNew
<1>8. ASSUME NEW c \in Client, Redis!Get(c) PROVE RedisInv'
  <2>0. call[c].at = "get" /\ call[c].id \in Id /\ call[c].op # "save" /\ UNCHANGED keys
    BY <1>8, <1>t DEF Redis!Get, RedisCallInv
  <2>1. PICK k \in RedisCall :
              /\ Redis!To(c, "done") = [call EXCEPT ![c] = k]
              /\ k.at = "done" /\ k.op = call[c].op
    BY RedisTo DEF Redis!CallAt
  <2>. DEFINE l == [k EXCEPT !.result = keys[call[c].id]]
  <2>2. l \in RedisCall /\ l.at = "done" /\ l.op = call[c].op
    BY <1>t, <2>0, <2>1 DEF RedisCall
  <2>3. call' = [call EXCEPT ![c] = l]
    BY <1>8, <1>t, <2>1 DEF Redis!Get
  <2>4. call'[c] = l
    BY <1>t, <2>3
  <2>. HIDE DEF l
  <2>5. RedisCallInv(c)'
    BY <2>0, <2>2, <2>4 DEF RedisCallInv
  <2>. QED BY <1>h, <1>t, <2>0, <2>2, <2>3, <2>5, RedisMoves
<1>9. ASSUME NEW c \in Client, Redis!Del(c) PROVE RedisInv'
  BY <1>9, <1>h, <1>t, RedisEnds DEF Redis!Del, RedisCallInv
<1>10. ASSUME Redis!Lapse PROVE RedisInv'
  <2>1. keys' \in [Id -> RedisRecord] /\ UNCHANGED call
    BY <1>10, <1>t DEF Redis!Lapse
  <2>2. ASSUME NEW d \in Client PROVE RedisCallInv(d)'
    <3>1. call[d].op = "save" /\ call[d].at # "idle" /\ held[d] = TRUE => held'[d] = TRUE
      BY <1>h, <2>1, RedisHeld
    <3>. QED BY <1>t, <2>1, <3>1 DEF RedisCallInv
  <2>3. held' \in [Client -> BOOLEAN]
    BY <1>h, RedisHeld DEF Redis!Watched
  <2>. QED BY <1>t, <2>1, <2>2, <2>3
    DEF RedisInv, Redis!TypeOK, RedisRecord, RedisText, RedisCall
<1>. QED
  BY <1>2, <1>3, <1>4, <1>5, <1>6, <1>7, <1>8, <1>9, <1>10 DEF Redis!Next

\* No step but of a save that found a record replaces one.
LEMMA RedisSpares == RedisInv /\ [Redis!Next]_<<keys, call, held>> => Redis!CreateSpares
<1>. SUFFICES ASSUME RedisInv, [Redis!Next]_<<keys, call, held>>, NEW i \in Id,
                     keys[i] # Redis!NoRecord, keys'[i] \notin {keys[i], Redis!NoRecord}
              PROVE  \E c \in Client : call[c].at = "setxx" /\ call[c].id = i
  BY DEF Redis!CreateSpares
<1>1. DOMAIN keys = Id
  BY RedisTyped
<1>2. PICK c \in Client : Redis!SetExisting(c) \/ Redis!SetNew(c) \/ Redis!Del(c)
  BY <1>1 DEF Redis!Next, Redis!Invoke, Redis!Abandon, Redis!Return, Redis!Refused, Redis!Get,
              Redis!Lapse
<1>. QED BY <1>1, <1>2 DEF Redis!SetExisting, Redis!SetNew, Redis!Del

-----------------------------------------------------------------------------
(* FileStore                                                               *)

FileCall  == [at : Files!CallAt, op : {"none", "create", "save", "load", "delete"},
              id : Id \union {Absent}, data : FileData \union {Absent},
              file : File \union {Absent}, tries : 0 .. MaxRetries,
              result : [id : Id, data : FileData] \union {Files!NoResult}]
FileWrite == [file : File, text : {Files!Json(i, d) : i \in Id, d \in FileData}]

\* The blocks of texts that carry the id i.
FileBlock(i) == [id : {i}, data : FileData, part : Nat]

\* A call has a file open while it reads or writes it.
FileCallInv(c) ==
    LET l == call[c] IN
    /\ l.at \notin {"idle", "done", "failed"} => l.id \in Id
    /\ l.at \in {"open", "create", "mkdir", "write"} => l.data \in FileData
    /\ IF l.at \in {"write", "read"} THEN l.file \in File ELSE l.file = Absent
    /\ l.result # Files!NoResult => l.at = "done" /\ l.result.id = l.id

\* The file f is the one of session i: by its name, or for a call that has it
\* open, or for a write that is on its way to it.
FileOf(f, i) ==
    \/ entry[i] = f
    \/ \E c \in Client : call[c].file = f /\ call[c].id = i
    \/ \E w \in flight : w.file = f /\ w.text[1].id = i

\* A file is never the file of two sessions, and what it holds carries the id
\* of its own.
FileOwn ==
    \A f \in File, i \in Id : FileOf(f, i) =>
        /\ content[f] \in Seq(FileBlock(i))
        /\ \A j \in Id : FileOf(f, j) => i = j

FileInv == /\ Files!TypeOK
           /\ \A c \in Client : FileCallInv(c)
           /\ FileOwn

LEMMA FileTyped ==
    ASSUME FileInv
    PROVE  /\ dir \in BOOLEAN /\ entry \in [Id -> File \union {Absent}]
           /\ ~dir => \A i \in Id : entry[i] = Absent
           /\ DOMAIN content = File /\ flight \subseteq FileWrite
           /\ call \in [Client -> FileCall] /\ removals \in 0 .. MaxRemovals
           /\ \A c \in Client : call[c] \in FileCall /\ FileCallInv(c)
BY DEF FileInv, Files!TypeOK, FileCall, FileWrite

LEMMA FileJson ==
    ASSUME NEW i \in Id, NEW d \in FileData
    PROVE  Files!Json(i, d) \in Seq(FileBlock(i)) /\ Files!Json(i, d)[1].id = i
           /\ Files!Json(i, d) # << >>
<1>1. Length[d] \in Nat \ {0}
  BY LengthAssumption
<1>2. \A k \in 1 .. Length[d] : [id |-> i, data |-> d, part |-> k] \in FileBlock(i)
  BY <1>1 DEF FileBlock
<1>3. Files!Json(i, d) \in [1 .. Length[d] -> FileBlock(i)]
  BY <1>2 DEF Files!Json
<1>4. Files!Json(i, d)[1] = [id |-> i, data |-> d, part |-> 1]
  BY <1>1 DEF Files!Json
<1>5. Files!Json(i, d) \in Seq(FileBlock(i))
  BY <1>1, <1>3
<1>6. Len(Files!Json(i, d)) = Length[d]
  BY <1>1, <1>3
<1>. QED BY <1>1, <1>4, <1>5, <1>6

LEMMA FileOverwritten ==
    ASSUME NEW i, NEW text \in Seq(FileBlock(i)), NEW old \in Seq(FileBlock(i))
    PROVE  Files!Overwritten(old, text) \in Seq(FileBlock(i))
<1>1. SubSeq(old, Len(text) + 1, Len(old)) \in Seq(FileBlock(i))
  OBVIOUS
<1>. QED BY <1>1 DEF Files!Overwritten

\* A step that gives no file to a session that did not have it.
LEMMA FileSafe ==
    ASSUME FileInv,
           dir' \in BOOLEAN, entry' \in [Id -> File \union {Absent}],
           ~dir' => \A i \in Id : entry'[i] = Absent,
           DOMAIN content' = File, flight' \subseteq FileWrite,
           call' \in [Client -> FileCall], removals' \in 0 .. MaxRemovals,
           \A c \in Client : FileCallInv(c)',
           \A i \in Id : entry'[i] \in {entry[i], Absent},
           \A c \in Client : call'[c].file # Absent => FileOf(call'[c].file, call'[c].id),
           \A w \in flight' : w \in flight \/ FileOf(w.file, w.text[1].id),
           \A f \in File, i \in Id : FileOf(f, i) => content'[f] \in Seq(FileBlock(i))
    PROVE  FileInv'
<1>1. ASSUME NEW f \in File, NEW i \in Id, FileOf(f, i)' PROVE FileOf(f, i)
  <2>1. f # Absent
    BY AbsentAssumption
  <2>2. CASE entry'[i] = f
    BY <2>1, <2>2 DEF FileOf
  <2>3. CASE \E c \in Client : call'[c].file = f /\ call'[c].id = i
    BY <2>1, <2>3
  <2>4. CASE \E w \in flight' : w.file = f /\ w.text[1].id = i
    BY <2>4 DEF FileOf
  <2>. QED BY <1>1, <2>2, <2>3, <2>4 DEF FileOf
<1>2. FileOwn'
  BY <1>1 DEF FileInv, FileOwn
<1>. QED BY <1>2 DEF FileInv, Files!TypeOK, FileCall, FileWrite

\* A step of one call that opens no new file.
LEMMA FileMoves ==
    ASSUME FileInv, NEW c \in Client, NEW l \in FileCall, call' = [call EXCEPT ![c] = l],
           FileCallInv(c)', l.file # Absent => FileOf(l.file, l.id),
           dir' \in BOOLEAN, entry' \in [Id -> File \union {Absent}],
           ~dir' => \A i \in Id : entry'[i] = Absent,
           DOMAIN content' = File, flight' \subseteq FileWrite,
           removals' \in 0 .. MaxRemovals,
           \A i \in Id : entry'[i] \in {entry[i], Absent},
           \A w \in flight' : w \in flight \/ FileOf(w.file, w.text[1].id),
           \A f \in File : content'[f] \in {content[f], << >>}
    PROVE  FileInv'
<1>1. /\ call' \in [Client -> FileCall] /\ call'[c] = l
      /\ \A d \in Client : d # c => call'[d] = call[d]
  BY FileTyped
<1>2. \A d \in Client : FileCallInv(d)'
  BY <1>1, FileTyped DEF FileCallInv
<1>3. \A d \in Client : call'[d].file # Absent => FileOf(call'[d].file, call'[d].id)
  BY <1>1 DEF FileOf
<1>4. \A f \in File, i \in Id : FileOf(f, i) => content'[f] \in Seq(FileBlock(i))
  <2>. SUFFICES ASSUME NEW f \in File, NEW i \in Id, FileOf(f, i)
                PROVE  content'[f] \in Seq(FileBlock(i))
    OBVIOUS
  <2>1. content[f] \in Seq(FileBlock(i))
    BY DEF FileInv, FileOwn
  <2>2. CASE content'[f] = content[f]
    BY <2>1, <2>2
  <2>3. CASE content'[f] = << >>
    BY <2>3
  <2>. QED BY <2>2, <2>3
<1>. QED BY <1>1, <1>2, <1>3, <1>4, FileSafe

LEMMA FileIdle == Files!Idle \in FileCall
<1>1. MaxRetries \in Nat
  BY BoundsAssumption
<1>. QED BY <1>1 DEF Files!Idle, FileCall, Files!CallAt

LEMMA FileInit == Files!Init => FileInv
<1>. SUFFICES ASSUME Files!Init PROVE FileInv
  OBVIOUS
<1>1. Files!TypeOK
  <2>1. 0 \in 0 .. MaxRemovals
    BY BoundsAssumption
  <2>2. call \in [Client -> FileCall]
    BY FileIdle DEF Files!Init
  <2>3. DOMAIN content = File /\ entry \in [Id -> File \union {Absent}]
    BY DEF Files!Init
  <2>. QED BY <2>1, <2>2, <2>3 DEF Files!Init, Files!TypeOK, FileCall
<1>2. \A c \in Client : FileCallInv(c)
  BY DEF Files!Init, FileCallInv, Files!Idle
<1>3. \A f \in File, i \in Id : ~FileOf(f, i)
  BY AbsentAssumption DEF Files!Init, FileOf, Files!Idle
<1>. QED BY <1>1, <1>2, <1>3 DEF FileInv, FileOwn

LEMMA FileBegins ==
    ASSUME NEW op \in Operation, NEW i \in Id, NEW d \in FileData
    PROVE  /\ Files!Invoked(op, i, d) \in FileCall
           /\ Files!Invoked(op, i, d).at = Files!Start[op]
           /\ Files!Invoked(op, i, d).op = op
           /\ Files!Invoked(op, i, d).id = i
           /\ op \in {"create", "save"} => Files!Invoked(op, i, d).data = d
           /\ Files!Invoked(op, i, d).file = Absent
           /\ Files!Invoked(op, i, d).result = Files!NoResult
<1>. DEFINE at == Files!Start[op]
            data == IF op \in {"create", "save"} THEN d ELSE Absent
<1>1. /\ at \in Files!CallAt /\ data \in FileData \union {Absent}
      /\ op \in {"none", "create", "save", "load", "delete"}
      /\ op \in {"create", "save"} => data = d
  BY OperationAssumption DEF Files!Start, Files!CallAt
<1>2. Files!Invoked(op, i, d) = [Files!Idle EXCEPT !.at = at, !.op = op, !.id = i, !.data = data]
  BY DEF Files!Invoked
<1>3. Files!Idle.file = Absent /\ Files!Idle.result = Files!NoResult
  BY DEF Files!Idle
<1>. HIDE DEF at, data
<1>. DEFINE l == [Files!Idle EXCEPT !.at = at, !.op = op, !.id = i, !.data = data]
<1>4. /\ l \in FileCall /\ l.at = at /\ l.op = op /\ l.id = i /\ l.data = data
      /\ l.file = Files!Idle.file /\ l.result = Files!Idle.result
  BY <1>1, FileIdle DEF FileCall
<1>. HIDE DEF l
<1>. QED BY <1>1, <1>2, <1>3, <1>4 DEF at, l

LEMMA FileTo ==
    ASSUME FileInv, NEW c \in Client, NEW at \in Files!CallAt
    PROVE  \E l \in FileCall :
              /\ Files!To(c, at) = [call EXCEPT ![c] = l]
              /\ l.at = at /\ l.op = call[c].op /\ l.id = call[c].id /\ l.data = call[c].data
              /\ l.file = call[c].file /\ l.result = call[c].result
<1>. DEFINE l == [call[c] EXCEPT !.at = at]
<1>1. call[c] \in FileCall
  BY FileTyped
<1>2. /\ l \in FileCall
      /\ l.at = at /\ l.op = call[c].op /\ l.id = call[c].id /\ l.data = call[c].data
      /\ l.file = call[c].file /\ l.result = call[c].result
  BY <1>1 DEF FileCall
<1>3. Files!To(c, at) = [call EXCEPT ![c] = l]
  BY DEF Files!To
<1>. HIDE DEF l
<1>. QED BY <1>2, <1>3

\* The call returns, and leaves nothing to look at or an error.
LEMMA FileEnds ==
    ASSUME FileInv, NEW c \in Client
    PROVE  \A new \in {Files!Failed(c), Files!Finished(c)} : \E l \in FileCall :
              /\ new = [call EXCEPT ![c] = l]
              /\ l.at \in {"idle", "failed"} /\ l.file = Absent /\ l.result = Files!NoResult
<1>. DEFINE op == call[c].op
            l  == [Files!Idle EXCEPT !.at = "failed", !.op = op]
<1>1. op \in {"none", "create", "save", "load", "delete"}
  BY FileTyped DEF FileCall
<1>2. Files!Failed(c) = [call EXCEPT ![c] = l]
  BY DEF Files!Failed
<1>3. /\ Files!Idle.at = "idle" /\ Files!Idle.file = Absent
      /\ Files!Idle.result = Files!NoResult
  BY DEF Files!Idle
<1>. HIDE DEF op
<1>4. /\ l \in FileCall /\ l.at = "failed"
      /\ l.file = Files!Idle.file /\ l.result = Files!Idle.result
  BY <1>1, FileIdle DEF FileCall, Files!CallAt
<1>. HIDE DEF l
<1>5. \E k \in FileCall :
          /\ Files!Failed(c) = [call EXCEPT ![c] = k]
          /\ k.at \in {"idle", "failed"} /\ k.file = Absent /\ k.result = Files!NoResult
  BY <1>2, <1>3, <1>4
<1>6. Files!Finished(c) = [call EXCEPT ![c] = Files!Idle]
  BY DEF Files!Finished
<1>. QED BY <1>3, <1>5, <1>6, FileIdle

\* A call that ends, when a write may be handed over and names may be taken away.
LEMMA FileFinishes ==
    ASSUME FileInv, NEW c \in Client, call' \in {Files!Failed(c), Files!Finished(c)},
           UNCHANGED <<dir, removals>>, entry' \in [Id -> File \union {Absent}],
           \A i \in Id : entry'[i] \in {entry[i], Absent},
           DOMAIN content' = File, flight' \subseteq FileWrite,
           \A w \in flight' : w \in flight \/ FileOf(w.file, w.text[1].id),
           \A f \in File : content'[f] \in {content[f], << >>}
    PROVE  FileInv'
<1>1. PICK l \in FileCall :
          /\ call' = [call EXCEPT ![c] = l]
          /\ l.at \in {"idle", "failed"} /\ l.file = Absent /\ l.result = Files!NoResult
  BY FileEnds
<1>2. call'[c] = l
  BY <1>1, FileTyped
<1>3. FileCallInv(c)'
  BY <1>1, <1>2 DEF FileCallInv
<1>4. dir' \in BOOLEAN /\ removals' \in 0 .. MaxRemovals /\ (~dir' => \A i \in Id : entry'[i] = Absent)
  BY FileTyped
<1>. QED BY <1>1, <1>3, <1>4, FileMoves

LEMMA FileKept ==
    ASSUME FileInv, content' = Files!Kept(content)
    PROVE  DOMAIN content' = File /\ \A f \in File : content'[f] \in {content[f], << >>}
BY DEF Files!Kept

\* A step of create's loop, to another attempt or to its end.
LEMMA FileRetries ==
    ASSUME FileInv, NEW c \in Client, NEW step \in {"create", "mkdir"}, NEW i \in Id,
           call[c].at \in {"create", "mkdir"}, call' = Files!Retry(c, step, i),
           dir' \in BOOLEAN, ~dir' => ~dir, UNCHANGED <<entry, content, flight, removals>>
    PROVE  FileInv'
<1>1. /\ call[c] \in FileCall /\ call[c].file = Absent /\ call[c].data \in FileData
      /\ call[c].result = Files!NoResult
  BY FileTyped DEF FileCallInv
<1>2. CASE call[c].tries < MaxRetries
  <2>. DEFINE l == [call[c] EXCEPT !.at = step, !.id = i, !.tries = @ + 1]
  <2>1. call' = [call EXCEPT ![c] = l]
    BY <1>1, <1>2, FileTyped DEF Files!Retry
  <2>2. /\ l \in FileCall /\ l.at = step /\ l.id = i /\ l.data = call[c].data
        /\ l.file = call[c].file /\ l.result = call[c].result
    <3>1. MaxRetries \in Nat /\ call[c].tries \in 0 .. MaxRetries
      BY <1>1, BoundsAssumption DEF FileCall
    <3>2. call[c].tries + 1 \in 0 .. MaxRetries
      BY <1>2, <3>1
    <3>3. step \in Files!CallAt
      BY DEF Files!CallAt
    <3>. QED BY <1>1, <3>2, <3>3 DEF FileCall
  <2>3. call'[c] = l
    BY <2>1, FileTyped
  <2>. HIDE DEF l
  <2>4. FileCallInv(c)'
    BY <1>1, <1>2, <2>2, <2>3 DEF FileCallInv
  <2>5. \A w \in flight' : w \in flight
    OBVIOUS
  <2>. QED BY <1>1, <2>1, <2>2, <2>4, <2>5, FileMoves, FileTyped
<1>3. CASE ~(call[c].tries < MaxRetries)
  <2>1. call' = Files!Failed(c)
    BY <1>3 DEF Files!Retry
  <2>2. PICK l \in FileCall :
            /\ call' = [call EXCEPT ![c] = l]
            /\ l.at \in {"idle", "failed"} /\ l.file = Absent /\ l.result = Files!NoResult
    BY <2>1, FileEnds
  <2>3. call'[c] = l
    BY <2>2, FileTyped
  <2>4. FileCallInv(c)'
    BY <2>2, <2>3 DEF FileCallInv
  <2>5. \A w \in flight' : w \in flight
    OBVIOUS
  <2>. QED BY <2>2, <2>4, <2>5, FileMoves, FileTyped
<1>. QED BY <1>2, <1>3

\* create makes a file that nobody refers to.
LEMMA FileOpens ==
    ASSUME FileInv, NEW c \in Client, call[c].at = "create", NEW f \in Files!FreeFiles, dir,
           entry' = [entry EXCEPT ![call[c].id] = f],
           content' = [content EXCEPT ![f] = << >>],
           call' = [call EXCEPT ![c].at = "write", ![c].file = f],
           UNCHANGED <<dir, flight, removals>>
    PROVE  FileInv'
<1>t. /\ dir \in BOOLEAN /\ entry \in [Id -> File \union {Absent}]
      /\ DOMAIN content = File /\ flight \subseteq FileWrite
      /\ call \in [Client -> FileCall] /\ removals \in 0 .. MaxRemovals
      /\ \A d \in Client : call[d] \in FileCall /\ FileCallInv(d)
  BY FileTyped
<1>i. PICK i \in Id : i = call[c].id
  BY <1>t DEF FileCallInv
<1>1. /\ f \in File /\ \A j \in Id : entry[j] # f
      /\ \A d \in Client : call[d].file # f
      /\ \A w \in flight : w.file # f
  BY DEF Files!FreeFiles, Files!Used
<1>. DEFINE l == [call[c] EXCEPT !.at = "write", !.file = f]
<1>2. /\ l \in FileCall /\ l.at = "write" /\ l.file = f /\ l.id = i
      /\ l.data = call[c].data /\ l.result = call[c].result
  BY <1>t, <1>i, <1>1 DEF FileCall, Files!CallAt
<1>3. call' = [call EXCEPT ![c] = l]
  BY <1>t
<1>4. call'[c] = l /\ call' \in [Client -> FileCall] /\ \A d \in Client : d # c => call'[d] = call[d]
  BY <1>t, <1>2, <1>3
<1>. HIDE DEF l
<1>5. \A d \in Client : FileCallInv(d)'
  <2>1. FileCallInv(c)'
    BY <1>t, <1>i, <1>1, <1>2, <1>4 DEF FileCallInv
  <2>. QED BY <1>t, <1>4, <2>1 DEF FileCallInv
<1>6. Files!TypeOK'
  BY <1>t, <1>1, <1>4 DEF Files!TypeOK, FileCall, FileWrite
<1>7. ASSUME NEW g \in File, g # f, NEW j \in Id, FileOf(g, j)' PROVE FileOf(g, j)
  <2>1. CASE entry'[j] = g
    BY <1>t, <1>i, <1>7, <2>1 DEF FileOf
  <2>2. CASE \E d \in Client : call'[d].file = g /\ call'[d].id = j
    BY <1>2, <1>4, <1>7, <2>2 DEF FileOf
  <2>3. CASE \E w \in flight' : w.file = g /\ w.text[1].id = j
    BY <2>3 DEF FileOf
  <2>. QED BY <1>7, <2>1, <2>2, <2>3 DEF FileOf
<1>8. ASSUME NEW j \in Id, FileOf(f, j)' PROVE j = i
  <2>1. CASE entry'[j] = f
    BY <1>t, <1>i, <1>1, <2>1
  <2>2. CASE \E d \in Client : call'[d].file = f /\ call'[d].id = j
    BY <1>1, <1>2, <1>4, <2>2
  <2>3. CASE \E w \in flight' : w.file = f /\ w.text[1].id = j
    BY <1>1, <2>3
  <2>. QED BY <1>8, <2>1, <2>2, <2>3 DEF FileOf
<1>9. ASSUME NEW g \in File, NEW j \in Id, FileOf(g, j)'
      PROVE  content'[g] \in Seq(FileBlock(j)) /\ \A k \in Id : FileOf(g, k)' => j = k
  <2>1. CASE g = f
    <3>1. content'[g] = << >>
      BY <1>t, <1>1, <2>1
    <3>2. << >> \in Seq(FileBlock(j))
      OBVIOUS
    <3>. QED BY <1>8, <1>9, <2>1, <3>1, <3>2
  <2>2. CASE g # f
    <3>1. content'[g] = content[g]
      BY <1>t, <2>2
    <3>2. FileOf(g, j) /\ \A k \in Id : FileOf(g, k)' => FileOf(g, k)
      BY <1>7, <1>9, <2>2
    <3>. QED BY <3>1, <3>2 DEF FileInv, FileOwn
  <2>. QED BY <2>1, <2>2
<1>. QED BY <1>5, <1>6, <1>9 DEF FileInv, FileOwn

LEMMA FileStep ==
    FileInv /\ [Files!Next]_<<dir, entry, content, flight, call, removals>> => FileInv'
<1>. SUFFICES ASSUME FileInv, [Files!Next]_<<dir, entry, content, flight, call, removals>>
              PROVE  FileInv'
  OBVIOUS
<1>1. CASE UNCHANGED <<dir, entry, content, flight, call, removals>>
  BY <1>1 DEF FileInv, Files!TypeOK, FileCallInv, FileOwn, FileOf
<1>. SUFFICES ASSUME Files!Next PROVE FileInv'
  BY <1>1
<1>t. /\ dir \in BOOLEAN /\ entry \in [Id -> File \union {Absent}]
      /\ ~dir => \A i \in Id : entry[i] = Absent
      /\ DOMAIN content = File /\ flight \subseteq FileWrite
      /\ call \in [Client -> FileCall] /\ removals \in 0 .. MaxRemovals
      /\ \A c \in Client : call[c] \in FileCall /\ FileCallInv(c)
      /\ Absent \notin File /\ MaxRemovals \in Nat
  BY FileTyped, AbsentAssumption, BoundsAssumption
<1>2. ASSUME NEW c \in Client, Files!Invoke(c) PROVE FileInv'
  <2>1. PICK op \in Operation, i \in Id, d \in FileData :
             call' = [call EXCEPT ![c] = Files!Invoked(op, i, d)]
    BY <1>2 DEF Files!Invoke
  <2>. DEFINE l == Files!Invoked(op, i, d)
  <2>2. /\ l \in FileCall /\ l.at = Files!Start[op] /\ l.op = op /\ l.id = i
        /\ op \in {"create", "save"} => l.data = d
        /\ l.file = Absent /\ l.result = Files!NoResult
        /\ op \in {"create", "save", "load", "delete"}
    BY FileBegins, OperationAssumption
  <2>3. call'[c] = l
    BY <1>t, <2>1
  <2>. HIDE DEF l
  <2>4. FileCallInv(c)'
    BY <2>2, <2>3 DEF FileCallInv, Files!Start
  <2>5. call' = [call EXCEPT ![c] = l]
    BY <2>1 DEF l
  <2>. QED BY <1>2, <1>t, <2>2, <2>4, <2>5, FileMoves DEF Files!Invoke
<1>3. ASSUME NEW c \in Client, Files!OpenToSave(c) PROVE FileInv'
  <2>i. PICK i \in Id : i = call[c].id
    BY <1>3, <1>t DEF Files!OpenToSave, FileCallInv
  <2>0. /\ call[c].at = "open" /\ call[c].file = Absent /\ call[c].data \in FileData
        /\ call[c].result = Files!NoResult
        /\ UNCHANGED <<dir, entry, flight, removals>>
    BY <1>3, <1>t DEF Files!OpenToSave, FileCallInv
  <2>1. CASE entry[i] # Absent
    <3>f. PICK f \in File : f = entry[i]
      BY <1>t, <2>1
    <3>1. /\ content' = [content EXCEPT ![f] = << >>]
          /\ call' = [call EXCEPT ![c].at = "write", ![c].file = f]
      BY <1>3, <2>i, <2>1, <3>f DEF Files!OpenToSave
    <3>. DEFINE l == [call[c] EXCEPT !.at = "write", !.file = f]
    <3>0. call[c] \in FileCall
      BY <1>t
    <3>2. /\ l \in FileCall /\ l.at = "write" /\ l.file = f /\ l.id = i
          /\ l.data = call[c].data /\ l.result = call[c].result
      BY <2>i, <3>0 DEF FileCall, Files!CallAt
    <3>3. call' = [call EXCEPT ![c] = l]
      BY <1>t, <3>1
    <3>4. call'[c] = l
      BY <1>t, <3>3
    <3>. HIDE DEF l
    <3>5. FileCallInv(c)'
      BY <2>0, <3>2, <3>4 DEF FileCallInv
    <3>6. FileOf(l.file, l.id)
      BY <3>f, <3>2 DEF FileOf
    <3>7. DOMAIN content' = File /\ \A g \in File : content'[g] \in {content[g], << >>}
      BY <1>t, <3>1
    <3>. QED BY <1>t, <2>0, <3>2, <3>3, <3>5, <3>6, <3>7, FileMoves
  <2>2. CASE entry[i] = Absent
    <3>1. call' = Files!To(c, "create") /\ UNCHANGED content
      BY <1>3, <2>i, <2>2 DEF Files!OpenToSave
    <3>2. PICK l \in FileCall :
              /\ Files!To(c, "create") = [call EXCEPT ![c] = l]
              /\ l.at = "create" /\ l.id = call[c].id /\ l.data = call[c].data
              /\ l.file = call[c].file /\ l.result = call[c].result
      BY FileTo DEF Files!CallAt
    <3>3. call'[c] = l
      BY <1>t, <3>1, <3>2
    <3>4. FileCallInv(c)'
      BY <2>i, <2>0, <3>2, <3>3 DEF FileCallInv
    <3>. QED BY <1>t, <2>0, <3>1, <3>2, <3>4, FileMoves
  <2>. QED BY <2>1, <2>2
<1>4. ASSUME NEW c \in Client, Files!OpenNew(c) PROVE FileInv'
  <2>i. PICK i \in Id : i = call[c].id
    BY <1>4, <1>t DEF Files!OpenNew, FileCallInv
  <2>0. /\ call[c].at = "create" /\ call[c].file = Absent /\ call[c].data \in FileData
        /\ call[c].result = Files!NoResult
        /\ UNCHANGED <<dir, flight, removals>>
    BY <1>4, <1>t DEF Files!OpenNew, FileCallInv
  <2>1. CASE /\ dir /\ Files!FreeFiles # {}
             /\ entry' = [entry EXCEPT ![call[c].id] = Files!NewFile]
             /\ content' = [content EXCEPT ![Files!NewFile] = << >>]
             /\ call' = [call EXCEPT ![c].at = "write", ![c].file = Files!NewFile]
    <3>1. Files!NewFile \in Files!FreeFiles
      BY <2>1 DEF Files!NewFile
    <3>. QED BY <2>0, <2>1, <3>1, FileOpens
  <2>2. CASE (\E fresh \in Id : call' = Files!Retry(c, "create", fresh)) /\ UNCHANGED <<entry, content>>
    BY <1>t, <2>0, <2>2, FileRetries
  <2>3. CASE call' = Files!To(c, "mkdir") /\ UNCHANGED <<entry, content>>
    <3>1. PICK l \in FileCall :
              /\ Files!To(c, "mkdir") = [call EXCEPT ![c] = l]
              /\ l.at = "mkdir" /\ l.id = call[c].id /\ l.data = call[c].data
              /\ l.file = call[c].file /\ l.result = call[c].result
      BY FileTo DEF Files!CallAt
    <3>2. call'[c] = l
      BY <1>t, <2>3, <3>1
    <3>3. FileCallInv(c)'
      BY <2>i, <2>0, <3>1, <3>2 DEF FileCallInv
    <3>. QED BY <1>t, <2>0, <2>3, <3>1, <3>3, FileMoves
  <2>. QED BY <1>4, <2>1, <2>2, <2>3 DEF Files!OpenNew
<1>5. ASSUME NEW c \in Client, Files!CreateDir(c) PROVE FileInv'
  <2>1. call[c].at = "mkdir" /\ call[c].id \in Id
    BY <1>5, <1>t DEF Files!CreateDir, FileCallInv
  <2>. QED BY <1>5, <2>1, FileRetries DEF Files!CreateDir
<1>6. ASSUME NEW c \in Client, Files!Write(c) PROVE FileInv'
  <2>. DEFINE w == [file |-> call[c].file, text |-> Files!Json(call[c].id, call[c].data)]
  <2>1. /\ call[c].at = "write" /\ call[c].file \in File /\ call[c].id \in Id
        /\ call[c].data \in FileData
    BY <1>6, <1>t DEF Files!Write, FileCallInv
  <2>2. w \in FileWrite /\ w.file = call[c].file /\ w.text[1].id = call[c].id
    BY <2>1, FileJson DEF FileWrite
  <2>3. flight' = flight \union {w}
    BY <1>6 DEF Files!Write
  <2>. HIDE DEF w
  <2>4. FileOf(w.file, w.text[1].id)
    BY <2>2 DEF FileOf
  <2>5. \A v \in flight' : v \in flight \/ FileOf(v.file, v.text[1].id)
    BY <2>3, <2>4
  <2>. QED BY <1>6, <1>t, <2>2, <2>3, <2>5, FileFinishes DEF Files!Write
<1>7. ASSUME NEW c \in Client, Files!Exists(c) PROVE FileInv'
  <2>0. /\ call[c].at = "exists" /\ call[c].file = Absent /\ call[c].id \in Id
        /\ call[c].result = Files!NoResult
        /\ UNCHANGED <<dir, entry, content, flight, removals>>
    BY <1>7, <1>t DEF Files!Exists, FileCallInv
  <2>1. CASE call' = Files!Finished(c)
    BY <1>t, <2>0, <2>1, FileFinishes
  <2>2. CASE call' = Files!To(c, "openToLoad")
    <3>1. PICK l \in FileCall :
              /\ Files!To(c, "openToLoad") = [call EXCEPT ![c] = l]
              /\ l.at = "openToLoad" /\ l.id = call[c].id
              /\ l.file = call[c].file /\ l.result = call[c].result
      BY FileTo DEF Files!CallAt
    <3>2. call'[c] = l
      BY <1>t, <2>2, <3>1
    <3>3. FileCallInv(c)'
      BY <2>0, <3>1, <3>2 DEF FileCallInv
    <3>. QED BY <1>t, <2>0, <2>2, <3>1, <3>3, FileMoves
  <2>. QED BY <1>7, <2>1, <2>2 DEF Files!Exists
<1>8. ASSUME NEW c \in Client, Files!OpenToLoad(c) PROVE FileInv'
  <2>i. PICK i \in Id : i = call[c].id
    BY <1>8, <1>t DEF Files!OpenToLoad, FileCallInv
  <2>0. /\ call[c].at = "openToLoad" /\ call[c].result = Files!NoResult
        /\ UNCHANGED <<dir, entry, content, flight, removals>>
    BY <1>8, <1>t DEF Files!OpenToLoad, FileCallInv
  <2>1. CASE call' = Files!Failed(c)
    BY <1>t, <2>0, <2>1, FileFinishes
  <2>2. CASE entry[i] # Absent /\ call' = [call EXCEPT ![c].at = "read", ![c].file = entry[i]]
    <3>f. PICK f \in File : f = entry[i]
      BY <1>t, <2>2
    <3>. DEFINE l == [call[c] EXCEPT !.at = "read", !.file = f]
    <3>0. call[c] \in FileCall
      BY <1>t
    <3>1. /\ l \in FileCall /\ l.at = "read" /\ l.file = f /\ l.id = i
          /\ l.result = call[c].result
      BY <2>i, <3>0 DEF FileCall, Files!CallAt
    <3>2. call' = [call EXCEPT ![c] = l]
      BY <1>t, <2>2, <3>f
    <3>3. call'[c] = l
      BY <1>t, <3>2
    <3>. HIDE DEF l
    <3>4. FileCallInv(c)'
      BY <2>0, <3>1, <3>3 DEF FileCallInv
    <3>5. FileOf(l.file, l.id)
      BY <3>f, <3>1 DEF FileOf
    <3>. QED BY <1>t, <2>0, <3>1, <3>2, <3>4, <3>5, FileMoves
  <2>. QED BY <1>8, <2>i, <2>1, <2>2 DEF Files!OpenToLoad
<1>9. ASSUME NEW c \in Client, Files!Read(c) PROVE FileInv'
  <2>i. PICK i \in Id : i = call[c].id
    BY <1>9, <1>t DEF Files!Read, FileCallInv
  <2>f. PICK f \in File : f = call[c].file
    BY <1>9, <1>t DEF Files!Read, FileCallInv
  <2>0. /\ UNCHANGED <<dir, entry, flight, removals>>
        /\ DOMAIN content' = File /\ \A g \in File : content'[g] \in {content[g], << >>}
    BY <1>9, FileKept DEF Files!Read
  <2>1. CASE call' = Files!Failed(c)
    BY <1>t, <2>0, <2>1, FileFinishes
  <2>2. CASE \E r \in Files!Record(content[call[c].file]) :
                call' = [Files!To(c, "done") EXCEPT ![c].file = Absent, ![c].result = r]
    <3>1. PICK r \in Files!Record(content[f]) :
                call' = [Files!To(c, "done") EXCEPT ![c].file = Absent, ![c].result = r]
      BY <2>f, <2>2
    <3>2. r \in [id : Id, data : FileData] /\ content[f] = Files!Json(r.id, r.data)
      BY <3>1 DEF Files!Record
    <3>3. r.id = i
      <4>1. content[f] \in Seq(FileBlock(i))
        BY <2>i, <2>f DEF FileInv, FileOwn, FileOf
      <4>2. content[f] # << >> /\ content[f][1].id = r.id
        BY <3>2, FileJson
      <4>3. content[f][1] \in FileBlock(i)
        BY <4>1, <4>2
      <4>. QED BY <4>2, <4>3 DEF FileBlock
    <3>4. PICK k \in FileCall :
              /\ Files!To(c, "done") = [call EXCEPT ![c] = k]
              /\ k.at = "done" /\ k.id = call[c].id
      BY FileTo DEF Files!CallAt
    <3>. DEFINE l == [k EXCEPT !.file = Absent, !.result = r]
    <3>5. l \in FileCall /\ l.at = "done" /\ l.id = i /\ l.file = Absent /\ l.result = r
      BY <2>i, <3>2, <3>4 DEF FileCall
    <3>6. call' = [call EXCEPT ![c] = l]
      BY <1>t, <3>1, <3>4
    <3>7. call'[c] = l
      BY <1>t, <3>6
    <3>. HIDE DEF l
    <3>8. FileCallInv(c)'
      BY <3>3, <3>5, <3>7 DEF FileCallInv
    <3>. QED BY <1>t, <2>0, <3>5, <3>6, <3>8, FileMoves
  <2>. QED BY <1>9, <2>1, <2>2 DEF Files!Read
<1>10. ASSUME NEW c \in Client, Files!Delete(c) PROVE FileInv'
  <2>1. DOMAIN content' = File /\ \A f \in File : content'[f] \in {content[f], << >>}
    BY <1>10, FileKept DEF Files!Delete
  <2>2. entry' \in [Id -> File \union {Absent}] /\ \A i \in Id : entry'[i] \in {entry[i], Absent}
    BY <1>10, <1>t DEF Files!Delete
  <2>. QED BY <1>10, <1>t, <2>1, <2>2, FileFinishes DEF Files!Delete
<1>11. ASSUME NEW c \in Client, Files!Abandon(c) PROVE FileInv'
  BY <1>11, <1>t, FileKept, FileFinishes DEF Files!Abandon
<1>12. ASSUME NEW c \in Client, Files!Return(c) PROVE FileInv'
  BY <1>12, <1>t, FileFinishes DEF Files!Return
<1>13. ASSUME Files!Execute PROVE FileInv'
  <2>1. PICK w \in flight :
            /\ flight' = flight \ {w}
            /\ content' = Files!Kept([content EXCEPT ![w.file] = Files!Overwritten(@, w.text)])
    BY <1>13 DEF Files!Execute
  <2>u. UNCHANGED <<dir, entry, call, removals>>
    BY <1>13 DEF Files!Execute
  <2>2. PICK f \in File, i \in Id, d \in FileData : w.file = f /\ w.text = Files!Json(i, d)
    BY <1>t DEF FileWrite
  <2>3. FileOf(f, i) /\ w.text \in Seq(FileBlock(i))
    BY <2>2, FileJson DEF FileOf
  <2>4. Files!Overwritten(content[f], w.text) \in Seq(FileBlock(i))
    BY <2>3, FileOverwritten DEF FileInv, FileOwn
  <2>5. /\ DOMAIN content' = File
        /\ content'[f] \in {Files!Overwritten(content[f], w.text), << >>}
        /\ \A g \in File : g # f => content'[g] \in {content[g], << >>}
    BY <1>t, <2>1, <2>2 DEF Files!Kept
  <2>6. ASSUME NEW g \in File, NEW j \in Id, FileOf(g, j)
        PROVE  content'[g] \in Seq(FileBlock(j))
    <3>1. << >> \in Seq(FileBlock(j))
      OBVIOUS
    <3>2. CASE g = f
      <4>1. j = i
        BY <2>3, <2>6, <3>2 DEF FileInv, FileOwn
      <4>. QED BY <2>4, <2>5, <3>1, <3>2, <4>1
    <3>3. CASE g # f
      <4>1. content[g] \in Seq(FileBlock(j))
        BY <2>6 DEF FileInv, FileOwn
      <4>. QED BY <2>5, <3>1, <3>3, <4>1
    <3>. QED BY <3>2, <3>3
  <2>7. \A c \in Client : FileCallInv(c)' /\ (call'[c].file # Absent => FileOf(call'[c].file, call'[c].id))
    BY <1>t, <2>u DEF FileCallInv, FileOf
  <2>. QED BY <1>t, <2>1, <2>u, <2>5, <2>6, <2>7, FileSafe
<1>14. ASSUME Files!RemoveDir PROVE FileInv'
  <2>1. /\ DOMAIN content' = File /\ \A f \in File : content'[f] \in {content[f], << >>}
        /\ entry' = [i \in Id |-> Absent] /\ dir' = FALSE /\ UNCHANGED <<flight, call>>
        /\ removals < MaxRemovals /\ removals' = removals + 1
    BY <1>14, FileKept DEF Files!RemoveDir
  <2>2. removals' \in 0 .. MaxRemovals
    BY <1>t, <2>1
  <2>3. ASSUME NEW f \in File, NEW i \in Id, FileOf(f, i) PROVE content'[f] \in Seq(FileBlock(i))
    <3>1. << >> \in Seq(FileBlock(i)) /\ content[f] \in Seq(FileBlock(i))
      BY <2>3 DEF FileInv, FileOwn
    <3>. QED BY <2>1, <3>1
  <2>4. \A c \in Client : FileCallInv(c)' /\ (call'[c].file # Absent => FileOf(call'[c].file, call'[c].id))
    BY <1>t, <2>1 DEF FileCallInv, FileOf
  <2>. QED BY <1>t, <2>1, <2>2, <2>3, <2>4, FileSafe
<1>. QED
  BY <1>2, <1>3, <1>4, <1>5, <1>6, <1>7, <1>8, <1>9, <1>10, <1>11, <1>12, <1>13, <1>14
  DEF Files!Next, Files!Step

\* Only an attempt of create gives a name to a file, under the id it has.
LEMMA FileQuiet ==
    FileInv /\ [Files!Next]_<<dir, entry, content, flight, call, removals>>
        => Files!QuietStaysAbsent
<1>. SUFFICES ASSUME FileInv, [Files!Next]_<<dir, entry, content, flight, call, removals>>,
                     NEW i \in Id, entry[i] = Absent, \A c \in Client : call[c].id # i
              PROVE  entry'[i] = Absent
  BY DEF Files!QuietStaysAbsent
<1>1. entry \in [Id -> File \union {Absent}]
  BY FileTyped
<1>2. \/ UNCHANGED entry
      \/ \E c \in Client : Files!OpenNew(c) \/ Files!Delete(c)
      \/ Files!RemoveDir
  BY DEF Files!Next, Files!Step, Files!Invoke, Files!OpenToSave, Files!CreateDir, Files!Write,
         Files!Exists, Files!OpenToLoad, Files!Read, Files!Abandon, Files!Return, Files!Execute
<1>3. ASSUME NEW c \in Client, Files!OpenNew(c) PROVE entry'[i] = entry[i]
  BY <1>1, <1>3 DEF Files!OpenNew
<1>4. ASSUME NEW c \in Client, Files!Delete(c) PROVE entry'[i] = entry[i]
  BY <1>1, <1>4 DEF Files!Delete
<1>. QED BY <1>2, <1>3, <1>4 DEF Files!RemoveDir

-----------------------------------------------------------------------------
(* MemoryStore                                                             *)

MemRecord == [data : Data, expiry : Int]
MemKept   == MemRecord \union {Memory!NoRecord}
MemCall   == [at : {"idle", "pending", "done", "failed"},
              op : {"none", "create", "save", "load", "delete"},
              id : Id \union {Absent}, data : Data \union {Absent}, expiry : Int]

\* A write that has yet to happen brings data.
MemCallInv(c) ==
    LET l == call[c] IN
    /\ l.at = "idle" => l = Memory!Idle
    /\ l.at # "idle" => l.id \in Id
    /\ l.at = "pending" /\ l.op \in {"create", "save"} => l.data \in Data

MemInv == /\ store \in [Id -> MemKept]
          /\ call \in [Client -> MemCall]
          /\ now \in Int
          /\ \A c \in Client : MemCallInv(c)

LEMMA MemNoRecord == \A r \in MemRecord : r.data # Absent /\ r # Memory!NoRecord
BY AbsentAssumption DEF MemRecord, Memory!NoRecord

LEMMA MemIdle == Memory!Idle \in MemCall
BY DEF Memory!Idle, MemCall

LEMMA MemInit == Memory!Init => MemInv
<1>. SUFFICES ASSUME Memory!Init PROVE MemInv
  OBVIOUS
<1>1. Memory!NoRecord \in MemKept /\ Memory!Idle \in MemCall
  BY MemIdle DEF MemKept
<1>2. \A c \in Client : call[c] = Memory!Idle
  BY DEF Memory!Init
<1>3. ASSUME NEW c \in Client PROVE MemCallInv(c)
  BY <1>2 DEF MemCallInv, Memory!Idle
<1>. QED BY <1>1, <1>3 DEF Memory!Init, MemInv

\* One call moves, and one record at most.
LEMMA MemMoves ==
    ASSUME MemInv, NEW c \in Client, NEW l \in MemCall, call' = [call EXCEPT ![c] = l],
           store' \in [Id -> MemKept], now' \in Int,
           \/ l = Memory!Idle
           \/ l.at # "idle" /\ l.id \in Id
              /\ (l.at = "pending" /\ l.op \in {"create", "save"} => l.data \in Data)
    PROVE  MemInv'
<1>1. call' \in [Client -> MemCall]
  BY DEF MemInv
<1>2. \A d \in Client : call'[d] = IF d = c THEN l ELSE call[d]
  BY DEF MemInv
<1>3. MemCallInv(c)'
  BY <1>2 DEF MemCallInv, Memory!Idle
<1>4. ASSUME NEW d \in Client, d # c PROVE MemCallInv(d)'
  BY <1>2, <1>4 DEF MemInv, MemCallInv
<1>. QED BY <1>1, <1>3, <1>4 DEF MemInv

\* A call that ends, with the fields it has.
LEMMA MemTo ==
    ASSUME MemInv, NEW c \in Client, NEW at \in {"done", "failed"}
    PROVE  \E l \in MemCall :
              /\ [call EXCEPT ![c].at = at] = [call EXCEPT ![c] = l]
              /\ l.at = at /\ l.op = call[c].op /\ l.id = call[c].id /\ l.data = call[c].data
<1>. DEFINE l == [call[c] EXCEPT !.at = at]
<1>1. call[c] \in MemCall
  BY DEF MemInv
<1>2. /\ l \in MemCall
      /\ l.at = at /\ l.op = call[c].op /\ l.id = call[c].id /\ l.data = call[c].data
  BY <1>1 DEF MemCall
<1>3. [call EXCEPT ![c].at = at] = [call EXCEPT ![c] = l]
  OBVIOUS
<1>. HIDE DEF l
<1>. QED BY <1>2, <1>3

\* A create ends with the id it has found.
LEMMA MemCreated ==
    ASSUME MemInv, NEW c \in Client, NEW i \in Id,
           call' = [Memory!Done(c) EXCEPT ![c].id = i]
    PROVE  \E l \in MemCall :
              /\ call' = [call EXCEPT ![c] = l]
              /\ l.at = "done" /\ l.op = call[c].op /\ l.id = i /\ l.data = call[c].data
<1>1. PICK k \in MemCall :
          /\ Memory!Done(c) = [call EXCEPT ![c] = k]
          /\ k.at = "done" /\ k.op = call[c].op /\ k.data = call[c].data
  BY MemTo DEF Memory!Done
<1>. DEFINE l == [k EXCEPT !.id = i]
<1>2. l \in MemCall /\ l.at = "done" /\ l.op = call[c].op /\ l.id = i /\ l.data = call[c].data
  BY <1>1 DEF MemCall
<1>3. call' = [call EXCEPT ![c] = l]
  BY <1>1 DEF MemInv
<1>. HIDE DEF l
<1>. QED BY <1>2, <1>3

\* What a load has found.
LEMMA MemLoaded ==
    ASSUME MemInv, NEW c \in Client, NEW x \in Data \union {Absent},
           call' = [Memory!Done(c) EXCEPT ![c].data = x]
    PROVE  \E l \in MemCall :
              /\ call' = [call EXCEPT ![c] = l]
              /\ l.at = "done" /\ l.op = call[c].op /\ l.id = call[c].id /\ l.data = x
<1>1. PICK k \in MemCall :
          /\ Memory!Done(c) = [call EXCEPT ![c] = k]
          /\ k.at = "done" /\ k.op = call[c].op /\ k.id = call[c].id
  BY MemTo DEF Memory!Done
<1>. DEFINE l == [k EXCEPT !.data = x]
<1>2. l \in MemCall /\ l.at = "done" /\ l.op = call[c].op /\ l.id = call[c].id /\ l.data = x
  BY <1>1 DEF MemCall
<1>3. call' = [call EXCEPT ![c] = l]
  BY <1>1 DEF MemInv
<1>. HIDE DEF l
<1>. QED BY <1>2, <1>3

\* A call that begins, whatever the middleware asks for.
LEMMA MemBegins ==
    ASSUME MemInv, NEW c \in Client, Memory!Invoke(c)
    PROVE  \E op \in Operation, i \in Id, d \in Data, l \in MemCall :
              /\ call' = [call EXCEPT ![c] = l]
              /\ l.at = "pending" /\ l.op = op /\ l.id = i
              /\ l.data = IF op \in {"create", "save"} THEN d ELSE Absent
<1>1. PICK op \in Operation, i \in Id, d \in Data, t \in Lifetime :
          call' = [call EXCEPT ![c] =
                     [at |-> "pending", op |-> op, id |-> i,
                      data |-> IF op \in {"create", "save"} THEN d ELSE Absent,
                      expiry |-> IF op \in {"create", "save"} THEN now + t ELSE 0]]
  BY DEF Memory!Invoke
<1>. DEFINE data   == IF op \in {"create", "save"} THEN d ELSE Absent
            expiry == IF op \in {"create", "save"} THEN now + t ELSE 0
            l == [at |-> "pending", op |-> op, id |-> i, data |-> data, expiry |-> expiry]
<1>2. data \in Data \union {Absent} /\ expiry \in Int
  BY LifetimeAssumption DEF MemInv
<1>3. call' = [call EXCEPT ![c] = l] /\ data = IF op \in {"create", "save"} THEN d ELSE Absent
  BY <1>1
<1>. HIDE DEF data, expiry
<1>4. /\ l \in MemCall
      /\ l.at = "pending" /\ l.op = op /\ l.id = i /\ l.data = data
  BY <1>2, OperationAssumption DEF MemCall
<1>. HIDE DEF l
<1>. QED BY <1>3, <1>4

LEMMA MemStep == MemInv /\ [Memory!Next]_<<store, call, now>> => MemInv'
<1>. SUFFICES ASSUME MemInv, [Memory!Next]_<<store, call, now>> PROVE MemInv'
  OBVIOUS
<1>1. CASE UNCHANGED <<store, call, now>>
  BY <1>1 DEF MemInv, MemCallInv
<1>2. CASE Memory!Tick
  <2>1. now' \in Int
    BY <1>2 DEF Memory!Tick, MemInv
  <2>. QED BY <1>2, <2>1 DEF Memory!Tick, MemInv, MemCallInv
<1>. SUFFICES ASSUME NEW c \in Client,
                     \/ Memory!Invoke(c) \/ Memory!Abandon(c) \/ Memory!Return(c)
                     \/ Memory!Create(c) \/ Memory!Save(c) \/ Memory!Load(c) \/ Memory!Delete(c)
              PROVE  MemInv'
  BY <1>1, <1>2 DEF Memory!Next
<1>t. /\ call[c] \in MemCall /\ MemCallInv(c) /\ store \in [Id -> MemKept] /\ now \in Int
      /\ Memory!NoRecord \in MemKept
  BY DEF MemInv, MemKept
<1>3. CASE Memory!Invoke(c)
  <2>1. PICK op \in Operation, i \in Id, d \in Data, l \in MemCall :
             /\ call' = [call EXCEPT ![c] = l]
             /\ l.at = "pending" /\ l.op = op /\ l.id = i
             /\ l.data = IF op \in {"create", "save"} THEN d ELSE Absent
    BY <1>3, MemBegins
  <2>2. l.at = "pending" /\ l.op \in {"create", "save"} => l.data \in Data
    BY <2>1
  <2>3. UNCHANGED <<store, now>>
    BY <1>3 DEF Memory!Invoke
  <2>. QED BY <1>t, <2>1, <2>2, <2>3, MemMoves
<1>4. CASE Memory!Abandon(c)
  <2>1. call[c].at = "pending" /\ call' = [call EXCEPT ![c].at = "failed"] /\ UNCHANGED <<store, now>>
    BY <1>4 DEF Memory!Abandon
  <2>2. PICK l \in MemCall : /\ call' = [call EXCEPT ![c] = l]
                             /\ l.at = "failed" /\ l.id = call[c].id
    BY <2>1, MemTo
  <2>. QED BY <1>t, <2>1, <2>2, MemMoves DEF MemCallInv
<1>5. CASE Memory!Return(c)
  BY <1>t, <1>5, MemIdle, MemMoves DEF Memory!Return
<1>6. CASE Memory!Create(c)
  <2>1. PICK i \in Id : /\ store' = [store EXCEPT ![i] = Memory!Record(c)]
                        /\ call' = [Memory!Done(c) EXCEPT ![c].id = i]
    BY <1>6 DEF Memory!Create
  <2>a. call' = [Memory!Done(c) EXCEPT ![c].id = i]
    BY <2>1
  <2>b. \E l \in MemCall :
            /\ call' = [call EXCEPT ![c] = l]
            /\ l.at = "done" /\ l.op = call[c].op /\ l.id = i /\ l.data = call[c].data
    BY <2>a, MemCreated
  <2>2. PICK l \in MemCall : call' = [call EXCEPT ![c] = l] /\ l.at = "done" /\ l.id = i
    BY <2>b
  <2>3. Memory!Record(c) \in MemKept
    BY <1>t, <1>6 DEF Memory!Create, Memory!Pending, Memory!Record, MemCallInv, MemCall, MemKept,
                      MemRecord
  <2>4. store' \in [Id -> MemKept] /\ now' = now
    BY <1>t, <1>6, <2>1, <2>3 DEF Memory!Create
  <2>. QED BY <1>t, <2>2, <2>4, MemMoves
<1>7. CASE Memory!Save(c)
  <2>1. /\ store' = [store EXCEPT ![call[c].id] = Memory!Record(c)] /\ now' = now
        /\ call' = [call EXCEPT ![c].at = "done"] /\ call[c].id \in Id
    BY <1>t, <1>7 DEF Memory!Save, Memory!Done, Memory!Pending, MemCallInv
  <2>2. PICK l \in MemCall : call' = [call EXCEPT ![c] = l] /\ l.at = "done" /\ l.id = call[c].id
    BY <2>1, MemTo
  <2>3. Memory!Record(c) \in MemKept
    BY <1>t, <1>7 DEF Memory!Save, Memory!Pending, Memory!Record, MemCallInv, MemCall, MemKept,
                      MemRecord
  <2>4. store' \in [Id -> MemKept]
    BY <1>t, <2>1, <2>3
  <2>. QED BY <1>t, <2>1, <2>2, <2>4, MemMoves
<1>8. CASE Memory!Load(c)
  <2>i. call[c].id \in Id /\ UNCHANGED <<store, now>>
    BY <1>t, <1>8 DEF Memory!Load, Memory!Pending, MemCallInv
  <2>. DEFINE x == IF Memory!IsActive(store[call[c].id]) THEN store[call[c].id].data ELSE Absent
  <2>1. x \in Data \union {Absent}
    BY <1>t, <2>i DEF MemKept, MemRecord, Memory!NoRecord
  <2>2. call' = [Memory!Done(c) EXCEPT ![c].data = x]
    BY <1>8 DEF Memory!Load
  <2>. HIDE DEF x
  <2>3. PICK l \in MemCall : call' = [call EXCEPT ![c] = l] /\ l.at = "done" /\ l.id = call[c].id
    BY <2>1, <2>2, MemLoaded
  <2>. QED BY <1>t, <2>i, <2>3, MemMoves
<1>9. CASE Memory!Delete(c)
  <2>1. /\ store' = [store EXCEPT ![call[c].id] = Memory!NoRecord] /\ now' = now
        /\ call' = [call EXCEPT ![c].at = "done"] /\ call[c].id \in Id
    BY <1>t, <1>9 DEF Memory!Delete, Memory!Done, Memory!Pending, MemCallInv
  <2>2. PICK l \in MemCall : call' = [call EXCEPT ![c] = l] /\ l.at = "done" /\ l.id = call[c].id
    BY <2>1, MemTo
  <2>4. store' \in [Id -> MemKept]
    BY <1>t, <2>1
  <2>. QED BY <1>t, <2>1, <2>2, <2>4, MemMoves
<1>. QED BY <1>3, <1>4, <1>5, <1>6, <1>7, <1>8, <1>9

-----------------------------------------------------------------------------
(* The store that was picked                                               *)

Inv == /\ kind \in {"memory", "database", "file", "redis"}
       /\ kind = "memory" => MemInv
       /\ kind = "database" => DbInv
       /\ kind = "file" => FileInv
       /\ kind = "redis" => RedisInv

LEMMA StoresInit == Init => Inv
BY MemInit, DbInit, FileInit, RedisInit DEF Init, Inv

\* The steps of the store that was picked are all that happens.
LEMMA Picked ==
    ASSUME [Next]_vars
    PROVE  /\ UNCHANGED kind
           /\ kind = "memory" => [Memory!Next]_<<store, call, now>>
           /\ kind = "database" => [Db!Next]_<<table, own, call>>
           /\ kind = "file" => [Files!Next]_<<dir, entry, content, flight, call, removals>>
           /\ kind = "redis" => [Redis!Next]_<<keys, call, held>>
BY DEF Next, vars, memory, database, file, redis

LEMMA StoresStep == Inv /\ [Next]_vars => Inv'
<1>. SUFFICES ASSUME Inv, [Next]_vars PROVE Inv'
  OBVIOUS
<1>. QED BY Picked, MemStep, DbStep, FileStep, RedisStep DEF Inv

LEMMA StoresInv == Spec => []Inv
BY StoresInit, StoresStep, PTL DEF Spec

\* All stores keep to their shapes; and what a transaction of DbStore's save
\* is about to commit takes the place of no row but its own.
THEOREM RowsFollowTheirOwn == Spec => []CommitsInPlace
<1>1. Inv => CommitsInPlace
  BY DEF Inv, CommitsInPlace, TypeOK, DbInv, FileInv, RedisInv
<1>. QED BY <1>1, StoresInv, PTL

\* FileStore hands out the record that was asked for; a save of RedisStore
\* that succeeds has seen a record under its key.
THEOREM AnswersHold == Spec => []ReturnsHold
<1>1. FileInv => Files!LoadedIsOwn
  BY DEF FileInv, FileCallInv, Files!LoadedIsOwn
<1>2. RedisInv => Redis!SaveHolds
  BY DEF RedisInv, RedisCallInv, Redis!SaveHolds
<1>3. Inv => ReturnsHold
  BY <1>1, <1>2 DEF Inv, ReturnsHold
<1>. QED BY <1>3, StoresInv, PTL

\* Nothing brings a deleted session back while no call names its id.
THEOREM DeletedFilesStayAway == Spec => QuietStaysAbsent
<1>1. Inv /\ [Next]_vars => [kind = "file" => Files!QuietStaysAbsent]_vars
  BY Picked, FileQuiet DEF Inv
<1>. QED BY <1>1, StoresInv, PTL DEF Spec, QuietStaysAbsent

\* Whatever writers race, a create of RedisStore overwrites nobody's record.
THEOREM CreatesNeverReplace == Spec => CreateSpares
<1>1. Inv /\ [Next]_vars => [kind = "redis" => Redis!CreateSpares]_vars
  BY Picked, RedisSpares DEF Inv
<1>. QED BY <1>1, StoresInv, PTL DEF Spec, CreateSpares

-----------------------------------------------------------------------------
(* What the abstract map shows of the state                                *)

Entries == [i \in Id |-> CASE kind = "memory"   -> Memory!Live(i)
                           [] kind = "database" -> table[i].data
                           [] OTHER             -> Absent]

Calls == [c \in Client |->
            CASE kind = "memory"   -> Memory!AbstractCall(c)
              [] kind = "database" -> Db!AbstractCall(c)
              [] OTHER -> [at |-> "idle", op |-> "none", id |-> Absent, data |-> Absent]]

Shown(at, op, i, d) == [at |-> at, op |-> op, id |-> i, data |-> d]

\* A call that takes a step, and what it shows afterwards.
Shows(c, at, op, i, d) == Calls' = [Calls EXCEPT ![c] = Shown(at, op, i, d)]

LEMMA ShownFields ==
    ASSUME NEW at, NEW op, NEW i, NEW d
    PROVE  /\ Shown(at, op, i, d).at = at /\ Shown(at, op, i, d).op = op
           /\ Shown(at, op, i, d).id = i /\ Shown(at, op, i, d).data = d
BY DEF Shown

LEMMA ShownAt ==
    ASSUME NEW at, NEW op, NEW i, NEW d, NEW r, r = Shown(at, op, i, d), NEW x
    PROVE  [r EXCEPT !.at = x] = Shown(x, op, i, d)
BY DEF Shown

LEMMA ShownId ==
    ASSUME NEW at, NEW op, NEW i, NEW d, NEW r, r = Shown(at, op, i, d), NEW x
    PROVE  [r EXCEPT !.id = x] = Shown(at, op, x, d)
BY DEF Shown

LEMMA ShownData ==
    ASSUME NEW at, NEW op, NEW i, NEW d, NEW r, r = Shown(at, op, i, d), NEW x
    PROVE  [r EXCEPT !.data = x] = Shown(at, op, i, x)
BY DEF Shown

\* The forms in which the abstract map writes what a call shows.
LEMMA ShowsAt ==
    ASSUME NEW c \in Client, NEW at, NEW op, NEW i, NEW d, Calls[c] = Shown(at, op, i, d),
           NEW x, Shows(c, x, op, i, d)
    PROVE  Calls' = [Calls EXCEPT ![c].at = x]
<1>1. c \in DOMAIN Calls
  BY DEF Calls
<1>2. PICK r : r = Calls[c]
  OBVIOUS
<1>3. PICK s : s = [r EXCEPT !.at = x]
  OBVIOUS
<1>4. s = Shown(x, op, i, d)
  BY <1>2, <1>3, ShownAt
<1>5. [Calls EXCEPT ![c].at = x] = [Calls EXCEPT ![c] = s]
  BY <1>1, <1>2, <1>3
<1>. QED BY <1>4, <1>5 DEF Shows

LEMMA ShowsCreated ==
    ASSUME NEW c \in Client, NEW i, NEW d, Calls[c] = Shown("pending", "create", Absent, d), Shows(c, "done", "create", i, d)
    PROVE  Calls' = [Calls EXCEPT ![c] = [Calls[c] EXCEPT !.at = "done", !.id = i]]
<1>1. c \in DOMAIN Calls
  BY DEF Calls
<1>2. PICK r : r = Calls[c]
  OBVIOUS
<1>3. PICK s : s = [r EXCEPT !.at = "done"]
  OBVIOUS
<1>4. s = Shown("done", "create", Absent, d)
  BY <1>2, <1>3, ShownAt
<1>5. PICK z : z = [s EXCEPT !.id = i]
  OBVIOUS
<1>6. z = Shown("done", "create", i, d)
  BY <1>4, <1>5, ShownId
<1>7. [Calls[c] EXCEPT !.at = "done", !.id = i] = z
  BY <1>2, <1>3, <1>5
<1>. QED BY <1>6, <1>7 DEF Shows

LEMMA MapInvoke ==
    ASSUME UNCHANGED kind, NEW c \in Client, NEW op \in Operation, NEW i \in Id, NEW d \in Data,
           Calls[c] = Shown("idle", "none", Absent, Absent), UNCHANGED Entries,
           Shows(c, "pending", op, IF op = "create" THEN Absent ELSE i,
                 IF op \in {"create", "save"} THEN d ELSE Absent)
    PROVE  Map!Next
<1>1. Calls[c] = Map!Idle
  BY DEF Shown, Map!Idle
<1>2. Calls' = [Calls EXCEPT ![c] = Map!Invoked(op, i, d)]
  BY DEF Shows, Shown, Map!Invoked
<1>3. Map!Invoke(c)
  BY <1>1, <1>2 DEF Map!Invoke, Calls, Entries
<1>. QED BY <1>3 DEF Map!Next

LEMMA MapFail ==
    ASSUME UNCHANGED kind, NEW c \in Client, NEW op, NEW i, NEW d,
           Calls[c] = Shown("pending", op, i, d), UNCHANGED Entries,
           Shows(c, "failed", op, i, d)
    PROVE  Map!Next
<1>1. Calls[c].at = "pending"
  BY ShownFields
<1>2. Calls' = [Calls EXCEPT ![c].at = "failed"]
  BY ShowsAt
<1>3. Map!Fail(c)
  BY <1>1, <1>2 DEF Map!Fail, Calls, Entries
<1>. QED BY <1>3 DEF Map!Next

LEMMA MapReturn ==
    ASSUME UNCHANGED kind, NEW c \in Client, Calls[c].at \in {"done", "failed"},
           UNCHANGED Entries, Shows(c, "idle", "none", Absent, Absent)
    PROVE  Map!Next
<1>1. Calls' = [Calls EXCEPT ![c] = Map!Idle]
  BY DEF Shows, Shown, Map!Idle
<1>2. Map!Return(c)
  BY <1>1 DEF Map!Return, Calls, Entries
<1>. QED BY <1>2 DEF Map!Next

LEMMA MapCreate ==
    ASSUME UNCHANGED kind, NEW c \in Client, NEW i \in Id, NEW d, NEW e,
           Calls[c] = Shown("pending", "create", Absent, d), Entries[i] = Absent,
           e = d \/ (e = Absent /\ kind = "memory"),
           Entries' = [Entries EXCEPT ![i] = e],
           Shows(c, "done", "create", i, d) \/ Shows(c, "failed", "create", Absent, d)
    PROVE  Map!Next
<1>1. Calls[c].at = "pending" /\ Calls[c].op = "create" /\ Calls[c].data = d
  BY ShownFields
<1>2. Calls' \in {[Calls EXCEPT ![c] = [Calls[c] EXCEPT !.at = "done", !.id = i]],
                 [Calls EXCEPT ![c].at = "failed"]}
  <2>1. CASE Shows(c, "done", "create", i, d)
    BY <2>1, ShowsCreated
  <2>2. CASE Shows(c, "failed", "create", Absent, d)
    BY <2>2, ShowsAt
  <2>. QED BY <2>1, <2>2
<1>3. e \in Map!Written(Calls[c].data)
  BY <1>1 DEF Map!Written
<1>4. Map!Create(c)
  BY <1>1, <1>2, <1>3 DEF Map!Create, Map!Answered, Map!Pending, Calls, Entries
<1>. QED BY <1>4 DEF Map!Next

LEMMA MapSave ==
    ASSUME UNCHANGED kind, NEW c \in Client, NEW i \in Id, NEW d, NEW e,
           Calls[c] = Shown("pending", "save", i, d),
           e = d \/ (e = Absent /\ kind = "memory"),
           Entries' = [Entries EXCEPT ![i] = e],
           NEW at \in {"done", "failed"}, Shows(c, at, "save", i, d)
    PROVE  Map!Next
<1>1. Calls[c].at = "pending" /\ Calls[c].op = "save" /\ Calls[c].data = d /\ Calls[c].id = i
  BY ShownFields
<1>2. Calls' = [Calls EXCEPT ![c].at = at]
  BY ShowsAt
<1>2a. [Calls EXCEPT ![c].at = at] = [Calls EXCEPT ![c] = [Calls[c] EXCEPT !.at = at]]
  BY DEF Calls
<1>3. e \in Map!Written(Calls[c].data)
  BY <1>1 DEF Map!Written
<1>4. Map!Save(c)
  BY <1>1, <1>2, <1>2a, <1>3 DEF Map!Save, Map!Answered, Map!Pending, Calls, Entries
<1>. QED BY <1>4 DEF Map!Next

LEMMA MapLoad ==
    ASSUME UNCHANGED kind, NEW c \in Client, NEW i \in Id, NEW d, NEW x,
           Calls[c] = Shown("pending", "load", i, d), UNCHANGED Entries, Entries[i] = x,
           Shows(c, "done", "load", i, x)
    PROVE  Map!Next
<1>1. Calls[c].at = "pending" /\ Calls[c].op = "load" /\ Calls[c].id = i
  BY ShownFields
<1>2. Calls' = [Calls EXCEPT ![c].at = "done", ![c].data = x]
  <2>1. c \in DOMAIN Calls
    BY DEF Calls
  <2>2. PICK r : r = Calls[c]
    OBVIOUS
  <2>3. PICK s : s = [r EXCEPT !.at = "done"]
    OBVIOUS
  <2>4. s = Shown("done", "load", i, d)
    BY <2>2, <2>3, ShownAt
  <2>5. PICK z : z = [s EXCEPT !.data = x]
    OBVIOUS
  <2>6. z = Shown("done", "load", i, x)
    BY <2>4, <2>5, ShownData
  <2>7. [Calls EXCEPT ![c].at = "done", ![c].data = x] = [Calls EXCEPT ![c] = z]
    BY <2>1, <2>2, <2>3, <2>5
  <2>. QED BY <2>6, <2>7 DEF Shows
<1>e. x = Entries[Calls[c].id]
  BY <1>1
<1>3. Map!Load(c)
  BY <1>1, <1>2, <1>e DEF Map!Load, Map!Pending, Calls, Entries
<1>. QED BY <1>3 DEF Map!Next

LEMMA MapDelete ==
    ASSUME UNCHANGED kind, NEW c \in Client, NEW i \in Id, NEW d,
           Calls[c] = Shown("pending", "delete", i, d),
           Entries' = [Entries EXCEPT ![i] = Absent],
           NEW at \in {"done", "failed"}, Shows(c, at, "delete", i, d)
    PROVE  Map!Next
<1>1. Calls[c].at = "pending" /\ Calls[c].op = "delete" /\ Calls[c].id = i
  BY ShownFields
<1>2. Calls' = [Calls EXCEPT ![c].at = at]
  BY ShowsAt
<1>2a. [Calls EXCEPT ![c].at = at] = [Calls EXCEPT ![c] = [Calls[c] EXCEPT !.at = at]]
  BY DEF Calls
<1>3. Map!Delete(c)
  BY <1>1, <1>2, <1>2a DEF Map!Delete, Map!Answered, Map!Pending, Calls, Entries
<1>. QED BY <1>3 DEF Map!Next

LEMMA MapStutter == ASSUME UNCHANGED <<kind, Entries, Calls>> PROVE UNCHANGED Map!vars
BY DEF Map!vars, Entries, Calls

-----------------------------------------------------------------------------
(* DbStore implements the map                                              *)

DbShown(l) ==
    LET running == l.at \notin {"idle", "done", "failed", "panicked"}
        before  == running \/ l.at \in {"failed", "panicked"}
    IN  Shown(IF running THEN "pending" ELSE IF l.at = "panicked" THEN "failed" ELSE l.at,
              l.op, IF l.op = "create" /\ before THEN Absent ELSE l.id, l.data)

LEMMA DbEntries ==
    ASSUME kind = "database", UNCHANGED kind
    PROVE  /\ Entries = [i \in Id |-> table[i].data]
           /\ Entries' = [i \in Id |-> table'[i].data]
<1>1. Entries = [i \in Id |-> table[i].data]
  BY DEF Entries
<1>2. Entries' = [i \in Id |-> table'[i].data]
  BY DEF Entries
<1>. QED BY <1>1, <1>2

LEMMA DbCalls ==
    ASSUME kind = "database", UNCHANGED kind
    PROVE  /\ Calls = [c \in Client |-> DbShown(call[c])]
           /\ Calls' = [c \in Client |-> DbShown(call'[c])]
<1>1. Calls = [c \in Client |-> DbShown(call[c])]
  BY DEF Calls, DbShown, Db!AbstractCall, Db!Running, Shown
<1>2. Calls' = [c \in Client |-> DbShown(call'[c])]
  BY DEF Calls, DbShown, Db!AbstractCall, Db!Running, Shown
<1>. QED BY <1>1, <1>2

LEMMA DbKeeps ==
    ASSUME kind = "database", UNCHANGED <<kind, table>>
    PROVE  UNCHANGED Entries
BY DbEntries

LEMMA DbChanges ==
    ASSUME DbInv, kind = "database", UNCHANGED kind, NEW i \in Id, NEW row,
           table' = [table EXCEPT ![i] = row]
    PROVE  Entries' = [Entries EXCEPT ![i] = row.data]
<1>1. \A j \in Id : table'[j] = IF j = i THEN row ELSE table[j]
  BY DEF DbInv, Db!TypeOK
<1>2. \A j \in Id : Entries'[j] = IF j = i THEN row.data ELSE Entries[j]
  BY <1>1, DbEntries
<1>3. Entries' = [j \in Id |-> Entries'[j]] /\ Entries = [j \in Id |-> Entries[j]]
  BY DbEntries
<1>. QED BY <1>2, <1>3

LEMMA DbShows ==
    ASSUME DbInv, kind = "database", UNCHANGED kind, NEW c \in Client, NEW l,
           call' = [call EXCEPT ![c] = l]
    PROVE  /\ Calls[c] = DbShown(call[c])
           /\ Calls' = [Calls EXCEPT ![c] = DbShown(l)]
<1>1. \A d \in Client : call'[d] = IF d = c THEN l ELSE call[d]
  BY DEF DbInv, Db!TypeOK
<1>2. \A d \in Client : Calls[d] = DbShown(call[d]) /\ Calls'[d] = DbShown(call'[d])
  BY DbCalls
<1>3. Calls = [d \in Client |-> Calls[d]] /\ Calls' = [d \in Client |-> Calls'[d]]
  BY DbCalls
<1>. QED BY <1>1, <1>2, <1>3

\* A running call that only moves shows the same.
LEMMA DbQuiet ==
    ASSUME DbInv, kind = "database", UNCHANGED <<kind, table>>, NEW c \in Client, NEW l,
           call' = [call EXCEPT ![c] = l], DbShown(l) = DbShown(call[c])
    PROVE  UNCHANGED <<Entries, Calls>>
<1>1. Calls' = [Calls EXCEPT ![c] = Calls[c]]
  BY DbShows
<1>2. Calls = [d \in Client |-> Calls[d]]
  BY DbCalls
<1>3. UNCHANGED Calls
  BY <1>1, <1>2
<1>. QED BY <1>3, DbKeeps

\* A running call that goes on or fails.
LEMMA DbProceeds ==
    ASSUME DbInv, kind = "database", UNCHANGED <<kind, table>>, NEW c \in Client, Db!Running(c),
           NEW at \in Db!CallAt \ {"idle", "done"}, call' = Db!To(c, at)
    PROVE  Map!Next \/ UNCHANGED <<Entries, Calls>>
<1>1. PICK l \in DbCall :
          /\ Db!To(c, at) = [call EXCEPT ![c] = l]
          /\ l.at = at /\ l.op = call[c].op /\ l.id = call[c].id /\ l.data = call[c].data
  BY DbTo
<1>. DEFINE i == IF call[c].op = "create" THEN Absent ELSE call[c].id
<1>2. DbShown(call[c]) = Shown("pending", call[c].op, i, call[c].data)
  BY DEF DbShown, Db!Running
<1>3. CASE at \in {"failed", "panicked"}
  <2>1. DbShown(l) = Shown("failed", call[c].op, i, call[c].data)
    BY <1>1, <1>3 DEF DbShown
  <2>1a. /\ Calls[c] = DbShown(call[c])
         /\ Calls' = [Calls EXCEPT ![c] = DbShown(l)]
    BY <1>1, DbShows
  <2>2. /\ Calls[c] = Shown("pending", call[c].op, i, call[c].data)
        /\ Shows(c, "failed", call[c].op, i, call[c].data)
    BY <1>2, <2>1, <2>1a DEF Shows
  <2>. HIDE DEF i
  <2>. QED BY <2>2, DbKeeps, MapFail
<1>4. CASE at \notin {"failed", "panicked"}
  <2>1. DbShown(l) = Shown("pending", call[c].op, i, call[c].data)
    BY <1>1, <1>4 DEF DbShown
  <2>2. DbShown(l) = DbShown(call[c])
    BY <1>2, <2>1
  <2>. HIDE DEF i
  <2>. QED BY <1>1, <2>2, DbQuiet
<1>. QED BY <1>3, <1>4

LEMMA DbImplements ==
    ASSUME DbInv, [Db!Next]_<<table, own, call>>, kind = "database", UNCHANGED kind
    PROVE  Map!Next \/ UNCHANGED <<Entries, Calls>>
<1>1. CASE UNCHANGED <<table, own, call>>
  BY <1>1, DbEntries, DbCalls
<1>. SUFFICES ASSUME NEW c \in Client,
                     Db!Invoke(c) \/ Db!Step(c) \/ Db!Interrupt(c) \/ Db!Return(c)
              PROVE  Map!Next \/ UNCHANGED <<Entries, Calls>>
  BY <1>1 DEF Db!Next
<1>t. call[c] \in DbCall /\ DbCallInv(c) /\ call \in [Client -> DbCall]
  BY DEF DbInv, Db!TypeOK, DbCall, DbRow
<1>2. CASE Db!Invoke(c)
  <2>1. PICK op \in Operation, i \in Id, d \in Data :
             call' = [call EXCEPT ![c] = Db!Invoked(op, i, d)]
    BY <1>2 DEF Db!Invoke
  <2>2. PICK l : l = Db!Invoked(op, i, d)
    OBVIOUS
  <2>3. /\ l.at \in {"create", "get", "select", "delete"} /\ l.op = op /\ l.id = i
        /\ l.data = IF op \in {"create", "save"} THEN d ELSE Absent
    <3>1. Db!Start[op] \in {"create", "get", "select", "delete"}
      BY OperationAssumption DEF Db!Start
    <3>. QED BY <2>2, <3>1, DbBegins
  <2>4. DbShown(l) = Shown("pending", op, IF op = "create" THEN Absent ELSE i,
                           IF op \in {"create", "save"} THEN d ELSE Absent)
    BY <2>3 DEF DbShown
  <2>5. DbShown(call[c]) = Shown("idle", "none", Absent, Absent)
    BY <1>2, <1>t DEF Db!Invoke, DbCallInv, Db!Idle, DbShown
  <2>6. UNCHANGED Entries
    BY <1>2, DbKeeps DEF Db!Invoke
  <2>7. /\ Calls[c] = DbShown(call[c])
        /\ Calls' = [Calls EXCEPT ![c] = DbShown(l)]
    BY <2>1, <2>2, DbShows
  <2>8. Shows(c, "pending", op, IF op = "create" THEN Absent ELSE i,
              IF op \in {"create", "save"} THEN d ELSE Absent)
    BY <2>4, <2>7 DEF Shows
  <2>9. Map!Next
    BY <2>5, <2>6, <2>7, <2>8, MapInvoke
  <2>. QED BY <2>9
<1>3. CASE Db!Create(c)
  <2>i. PICK i \in Id : i = call[c].id
    BY <1>3, <1>t DEF Db!Create, DbCallInv
  <2>0. /\ call[c].at = "create" /\ call[c].op = "create" /\ call[c].data \in Data
        /\ Db!Running(c)
    BY <1>3, <1>t DEF Db!Create, DbCallInv, Db!Running
  <2>p. DbShown(call[c]) = Shown("pending", "create", Absent, call[c].data)
    BY <2>0 DEF DbShown
  <2>1. CASE /\ table[i] = Db!NoRow /\ table' = [table EXCEPT ![i] = Db!NewRow(c)]
             /\ Db!Answered(c)
    <3>0. PICK at \in {"done", "failed"} : call' = Db!To(c, at)
      BY <2>1 DEF Db!Answered
    <3>1. PICK l \in DbCall :
              /\ Db!To(c, at) = [call EXCEPT ![c] = l]
              /\ l.at = at /\ l.op = call[c].op /\ l.id = call[c].id /\ l.data = call[c].data
      BY DbTo DEF Db!CallAt
    <3>2. DbShown(l) = IF at = "done" THEN Shown("done", "create", i, call[c].data)
                       ELSE Shown("failed", "create", Absent, call[c].data)
      BY <2>i, <2>0, <3>1 DEF DbShown
    <3>2a. /\ Calls[c] = DbShown(call[c])
           /\ Calls' = [Calls EXCEPT ![c] = DbShown(l)]
      BY <3>0, <3>1, DbShows
    <3>3. /\ Calls[c] = Shown("pending", "create", Absent, call[c].data)
          /\ \/ Shows(c, "done", "create", i, call[c].data)
             \/ Shows(c, "failed", "create", Absent, call[c].data)
      BY <2>p, <3>2, <3>2a DEF Shows
    <3>4. Entries[i] = Absent
      BY <2>1, DbEntries DEF Db!NoRow
    <3>5. Entries' = [Entries EXCEPT ![i] = call[c].data]
      <4>1. PICK row : row = Db!NewRow(c)
        OBVIOUS
      <4>2. row.data = call[c].data
        BY <4>1 DEF Db!NewRow
      <4>3. table' = [table EXCEPT ![i] = row]
        BY <2>1, <4>1
      <4>4. Entries' = [Entries EXCEPT ![i] = row.data]
        BY <4>3, DbChanges
      <4>. QED BY <4>2, <4>4
    <3>. QED BY <3>3, <3>4, <3>5, MapCreate
  <2>2. CASE \E fresh \in Id :
                call' = [call EXCEPT ![c].id = fresh, ![c].tries = @ + 1] /\ UNCHANGED table
    <3>1. PICK fresh \in Id : call' = [call EXCEPT ![c].id = fresh, ![c].tries = @ + 1]
      BY <2>2
    <3>. DEFINE l == [call[c] EXCEPT !.id = fresh, !.tries = @ + 1]
    <3>2. call' = [call EXCEPT ![c] = l]
      BY <1>t, <3>1
    <3>3. l.at = "create" /\ l.op = "create" /\ l.data = call[c].data
      BY <1>t, <2>0 DEF DbCall
    <3>. HIDE DEF l
    <3>4. DbShown(l) = DbShown(call[c])
      BY <2>p, <3>3 DEF DbShown
    <3>. QED BY <2>2, <3>2, <3>4, DbQuiet
  <2>3. CASE call' = Db!To(c, "failed") /\ UNCHANGED table
    BY <2>0, <2>3, DbProceeds DEF Db!CallAt
  <2>. QED BY <1>3, <2>i, <2>1, <2>2, <2>3 DEF Db!Create
<1>4. CASE Db!Get(c)
  <2>. DEFINE row == table[call[c].id]
              at == IF row = Db!NoRow THEN "insert" ELSE "update"
              l == [call[c] EXCEPT !.at = at, !.seen = row]
  <2>1. call[c].at = "get" /\ call' = [call EXCEPT ![c] = l] /\ UNCHANGED table
    BY <1>4, <1>t DEF Db!Get
  <2>2. at \in {"insert", "update"}
    OBVIOUS
  <2>. HIDE DEF row, at
  <2>3. l.at = at /\ l.op = call[c].op /\ l.id = call[c].id /\ l.data = call[c].data
    BY <1>t DEF DbCall
  <2>. HIDE DEF l
  <2>4. DbShown(l) = DbShown(call[c])
    BY <2>1, <2>2, <2>3 DEF DbShown
  <2>. QED BY <2>1, <2>4, DbQuiet
<1>5. CASE Db!Insert(c)
  <2>1. Db!Running(c) /\ UNCHANGED table /\ \E at \in {"commit", "reget"} : call' = Db!To(c, at)
    BY <1>5 DEF Db!Insert, Db!Running
  <2>. QED BY <2>1, DbProceeds DEF Db!CallAt
<1>6. CASE Db!GetAgain(c)
  <2>0. call[c].at = "reget" /\ Db!Running(c) /\ UNCHANGED table
    BY <1>6 DEF Db!GetAgain, Db!Running
  <2>1. CASE call' = Db!To(c, "panicked")
    BY <2>0, <2>1, DbProceeds DEF Db!CallAt
  <2>2. CASE call' = [call EXCEPT ![c].at = "update", ![c].seen = Db!Reread(c)]
    <3>. DEFINE row == Db!Reread(c)
                l == [call[c] EXCEPT !.at = "update", !.seen = row]
    <3>1. call' = [call EXCEPT ![c] = l]
      BY <1>t, <2>2
    <3>. HIDE DEF row
    <3>2. l.at = "update" /\ l.op = call[c].op /\ l.id = call[c].id /\ l.data = call[c].data
      BY <1>t DEF DbCall
    <3>. HIDE DEF l
    <3>3. DbShown(l) = DbShown(call[c])
      BY <2>0, <3>2 DEF DbShown
    <3>. QED BY <2>0, <3>1, <3>3, DbQuiet
  <2>. QED BY <1>6, <2>1, <2>2 DEF Db!GetAgain
<1>7. CASE Db!Update(c)
  <2>1. Db!Running(c) /\ UNCHANGED table /\ \E at \in {"commit", "failed"} : call' = Db!To(c, at)
    BY <1>7 DEF Db!Update, Db!Running
  <2>. QED BY <2>1, DbProceeds DEF Db!CallAt
<1>8. CASE Db!Commit(c)
  <2>i. PICK i \in Id : i = call[c].id
    BY <1>8, <1>t DEF Db!Commit, DbCallInv
  <2>1. /\ call[c].at = "commit" /\ call[c].op = "save" /\ own[c].data = call[c].data
        /\ table' = [table EXCEPT ![i] = own[c]] /\ Db!Answered(c)
    BY <1>8, <1>t, <2>i DEF Db!Commit, DbCallInv, DbSaving
  <2>a. PICK at \in {"done", "failed"} : call' = Db!To(c, at)
    BY <2>1 DEF Db!Answered
  <2>2. PICK l \in DbCall :
            /\ Db!To(c, at) = [call EXCEPT ![c] = l]
            /\ l.at = at /\ l.op = call[c].op /\ l.id = call[c].id /\ l.data = call[c].data
    BY DbTo DEF Db!CallAt
  <2>3. /\ DbShown(call[c]) = Shown("pending", "save", i, call[c].data)
        /\ DbShown(l) = Shown(at, "save", i, call[c].data)
    BY <2>i, <2>1, <2>2 DEF DbShown
  <2>3a. /\ Calls[c] = DbShown(call[c])
         /\ Calls' = [Calls EXCEPT ![c] = DbShown(l)]
    BY <2>a, <2>2, DbShows
  <2>4. /\ Calls[c] = Shown("pending", "save", i, call[c].data)
        /\ Shows(c, at, "save", i, call[c].data)
    BY <2>3, <2>3a DEF Shows
  <2>5. Entries' = [Entries EXCEPT ![i] = call[c].data]
    <3>1. PICK row : row = own[c]
      OBVIOUS
    <3>2. Entries' = [Entries EXCEPT ![i] = row.data]
      BY <2>1, <3>1, DbChanges
    <3>. QED BY <2>1, <3>1, <3>2
  <2>. QED BY <2>4, <2>5, MapSave
<1>9. CASE Db!Load(c)
  <2>i. PICK i \in Id : i = call[c].id
    BY <1>9, <1>t DEF Db!Load, DbCallInv
  <2>x. PICK x : x = table[i].data
    OBVIOUS
  <2>. DEFINE l == [call[c] EXCEPT !.at = "done", !.data = x]
  <2>1. /\ call[c].at = "select" /\ call[c].op = "load" /\ UNCHANGED table
        /\ call' = [call EXCEPT ![c] = l]
    BY <1>9, <1>t, <2>i, <2>x DEF Db!Load, DbCallInv
  <2>2. l.at = "done" /\ l.op = "load" /\ l.id = i /\ l.data = x
    BY <1>t, <2>i, <2>1 DEF DbCall
  <2>. HIDE DEF l
  <2>3. /\ DbShown(call[c]) = Shown("pending", "load", i, call[c].data)
        /\ DbShown(l) = Shown("done", "load", i, x)
    BY <2>i, <2>1, <2>2 DEF DbShown
  <2>3a. /\ Calls[c] = DbShown(call[c])
         /\ Calls' = [Calls EXCEPT ![c] = DbShown(l)]
    BY <2>1, DbShows
  <2>4. /\ Calls[c] = Shown("pending", "load", i, call[c].data)
        /\ Shows(c, "done", "load", i, x)
    BY <2>3, <2>3a DEF Shows
  <2>5. UNCHANGED Entries /\ Entries[i] = x
    BY <2>1, <2>x, DbKeeps, DbEntries
  <2>. QED BY <2>4, <2>5, MapLoad
<1>10. CASE Db!Delete(c)
  <2>i. PICK i \in Id : i = call[c].id
    BY <1>10, <1>t DEF Db!Delete, DbCallInv
  <2>1. /\ call[c].at = "delete" /\ call[c].op = "delete"
        /\ table' = [table EXCEPT ![i] = Db!NoRow] /\ Db!Answered(c)
    BY <1>10, <1>t, <2>i DEF Db!Delete, DbCallInv
  <2>a. PICK at \in {"done", "failed"} : call' = Db!To(c, at)
    BY <2>1 DEF Db!Answered
  <2>2. PICK l \in DbCall :
            /\ Db!To(c, at) = [call EXCEPT ![c] = l]
            /\ l.at = at /\ l.op = call[c].op /\ l.id = call[c].id /\ l.data = call[c].data
    BY DbTo DEF Db!CallAt
  <2>3. /\ DbShown(call[c]) = Shown("pending", "delete", i, call[c].data)
        /\ DbShown(l) = Shown(at, "delete", i, call[c].data)
    BY <2>i, <2>1, <2>2 DEF DbShown
  <2>3a. /\ Calls[c] = DbShown(call[c])
         /\ Calls' = [Calls EXCEPT ![c] = DbShown(l)]
    BY <2>a, <2>2, DbShows
  <2>4. /\ Calls[c] = Shown("pending", "delete", i, call[c].data)
        /\ Shows(c, at, "delete", i, call[c].data)
    BY <2>3, <2>3a DEF Shows
  <2>5. Entries' = [Entries EXCEPT ![i] = Absent]
    <3>1. PICK row : row = Db!NoRow
      OBVIOUS
    <3>2. row.data = Absent
      BY <3>1 DEF Db!NoRow
    <3>3. Entries' = [Entries EXCEPT ![i] = row.data]
      BY <2>1, <3>1, DbChanges
    <3>. QED BY <3>2, <3>3
  <2>. QED BY <2>4, <2>5, MapDelete
<1>11. CASE Db!Interrupt(c)
  BY <1>11, DbProceeds DEF Db!Interrupt, Db!CallAt
<1>12. CASE Db!Return(c)
  <2>1. call[c].at \in {"done", "failed", "panicked"} /\ UNCHANGED table
        /\ call' = [call EXCEPT ![c] = Db!Idle]
    BY <1>12 DEF Db!Return
  <2>2. DbShown(call[c]).at \in {"done", "failed"}
    BY <2>1 DEF DbShown, Shown
  <2>3. DbShown(Db!Idle) = Shown("idle", "none", Absent, Absent)
    BY DEF DbShown, Db!Idle
  <2>3a. PICK l : l = Db!Idle
    OBVIOUS
  <2>3b. /\ Calls[c] = DbShown(call[c])
         /\ Calls' = [Calls EXCEPT ![c] = DbShown(l)]
    BY <2>1, <2>3a, DbShows
  <2>4. /\ Calls[c].at \in {"done", "failed"}
        /\ Shows(c, "idle", "none", Absent, Absent)
    BY <2>2, <2>3, <2>3a, <2>3b DEF Shows
  <2>. QED BY <2>1, <2>4, DbKeeps, MapReturn
<1>. QED
  BY <1>2, <1>3, <1>4, <1>5, <1>6, <1>7, <1>8, <1>9, <1>10, <1>11, <1>12 DEF Db!Step

-----------------------------------------------------------------------------
(* MemoryStore implements the map                                          *)

\* What is shown of a record at a moment, and of a call.
MemLive(r, t) == IF r.data # Absent /\ r.expiry > t THEN r.data ELSE Absent

MemShown(l) == Shown(l.at, l.op, IF l.op = "create" /\ l.at # "done" THEN Absent ELSE l.id, l.data)

LEMMA MemEntries ==
    ASSUME kind = "memory", UNCHANGED kind
    PROVE  /\ Entries = [i \in Id |-> MemLive(store[i], now)]
           /\ Entries' = [i \in Id |-> MemLive(store'[i], now')]
<1>1. Entries = [i \in Id |-> MemLive(store[i], now)]
  BY DEF Entries, Memory!Live, MemLive
<1>2. Entries' = [i \in Id |-> MemLive(store'[i], now')]
  BY DEF Entries, Memory!Live, MemLive
<1>. QED BY <1>1, <1>2

LEMMA MemCalls ==
    ASSUME kind = "memory", UNCHANGED kind
    PROVE  /\ Calls = [c \in Client |-> MemShown(call[c])]
           /\ Calls' = [c \in Client |-> MemShown(call'[c])]
<1>1. Calls = [c \in Client |-> MemShown(call[c])]
  BY DEF Calls, MemShown, Memory!AbstractCall, Shown
<1>2. Calls' = [c \in Client |-> MemShown(call'[c])]
  BY DEF Calls, MemShown, Memory!AbstractCall, Shown
<1>. QED BY <1>1, <1>2

LEMMA MemKeeps ==
    ASSUME kind = "memory", UNCHANGED <<kind, store, now>>
    PROVE  UNCHANGED Entries
BY MemEntries

LEMMA MemChanges ==
    ASSUME MemInv, kind = "memory", UNCHANGED <<kind, now>>, NEW i \in Id, NEW r,
           store' = [store EXCEPT ![i] = r]
    PROVE  Entries' = [Entries EXCEPT ![i] = MemLive(r, now)]
<1>1. \A j \in Id : store'[j] = IF j = i THEN r ELSE store[j]
  BY DEF MemInv
<1>2. \A j \in Id : Entries'[j] = IF j = i THEN MemLive(r, now) ELSE Entries[j]
  BY <1>1, MemEntries
<1>3. Entries' = [j \in Id |-> Entries'[j]] /\ Entries = [j \in Id |-> Entries[j]]
  BY MemEntries
<1>. QED BY <1>2, <1>3

LEMMA MemShows ==
    ASSUME MemInv, kind = "memory", UNCHANGED kind, NEW c \in Client, NEW l,
           call' = [call EXCEPT ![c] = l]
    PROVE  /\ Calls[c] = MemShown(call[c])
           /\ Calls' = [Calls EXCEPT ![c] = MemShown(l)]
<1>1. \A d \in Client : call'[d] = IF d = c THEN l ELSE call[d]
  BY DEF MemInv
<1>2. \A d \in Client : Calls[d] = MemShown(call[d]) /\ Calls'[d] = MemShown(call'[d])
  BY MemCalls
<1>3. Calls = [d \in Client |-> Calls[d]] /\ Calls' = [d \in Client |-> Calls'[d]]
  BY MemCalls
<1>. QED BY <1>1, <1>2, <1>3

\* The clock moves, and records expire.
LEMMA MemLapse ==
    ASSUME MemInv, kind = "memory", UNCHANGED kind, Memory!Tick
    PROVE  Map!Next
<1>. DEFINE lost == {i \in Id : store[i].expiry <= now'}
<1>1. now \in Int /\ now' = now + 1 /\ UNCHANGED <<store, call>>
  BY DEF MemInv, Memory!Tick
<1>2. \A i \in Id : store[i].expiry \in Int
  BY DEF MemInv, MemKept, MemRecord, Memory!NoRecord
<1>3. \A i \in Id : MemLive(store[i], now') = IF i \in lost THEN Absent ELSE MemLive(store[i], now)
  BY <1>1, <1>2 DEF MemLive
<1>. HIDE DEF lost
<1>4. \A i \in Id : Entries[i] = MemLive(store[i], now) /\ Entries'[i] = MemLive(store[i], now')
  BY <1>1, MemEntries
<1>5. Entries' = [i \in Id |-> Entries'[i]]
  BY MemEntries
<1>6. Entries' = [i \in Id |-> IF i \in lost THEN Absent ELSE Entries[i]]
  BY <1>3, <1>4, <1>5
<1>7. UNCHANGED Calls
  BY <1>1, MemCalls
<1>8. PICK some \in SUBSET Id : Entries' = [i \in Id |-> IF i \in some THEN Absent ELSE Entries[i]]
  <2>1. lost \in SUBSET Id
    BY DEF lost
  <2>. QED BY <1>6, <2>1
<1>9. Map!Lapse
  BY <1>7, <1>8 DEF Map!Lapse, Calls, Entries
<1>. QED BY <1>9 DEF Map!Next

LEMMA MemImplements ==
    ASSUME MemInv, [Memory!Next]_<<store, call, now>>, kind = "memory", UNCHANGED kind
    PROVE  Map!Next \/ UNCHANGED <<Entries, Calls>>
<1>1. CASE UNCHANGED <<store, call, now>>
  BY <1>1, MemEntries, MemCalls
<1>2. CASE Memory!Tick
  BY <1>2, MemLapse
<1>. SUFFICES ASSUME NEW c \in Client,
                     \/ Memory!Invoke(c) \/ Memory!Abandon(c) \/ Memory!Return(c)
                     \/ Memory!Create(c) \/ Memory!Save(c) \/ Memory!Load(c) \/ Memory!Delete(c)
              PROVE  Map!Next
  BY <1>1, <1>2 DEF Memory!Next
<1>t. /\ call[c] \in MemCall /\ MemCallInv(c) /\ call \in [Client -> MemCall]
      /\ \A i \in Id : store[i] \in MemKept
  BY DEF MemInv
<1>3. CASE Memory!Invoke(c)
  <2>1. PICK op \in Operation, i \in Id, d \in Data, l \in MemCall :
             /\ call' = [call EXCEPT ![c] = l]
             /\ l.at = "pending" /\ l.op = op /\ l.id = i
             /\ l.data = IF op \in {"create", "save"} THEN d ELSE Absent
    BY <1>3, MemBegins
  <2>2. MemShown(l) = Shown("pending", op, IF op = "create" THEN Absent ELSE i,
                            IF op \in {"create", "save"} THEN d ELSE Absent)
    BY <2>1 DEF MemShown
  <2>3. MemShown(call[c]) = Shown("idle", "none", Absent, Absent)
    BY <1>3, <1>t DEF Memory!Invoke, MemCallInv, Memory!Idle, MemShown
  <2>4. UNCHANGED Entries
    BY <1>3, MemKeeps DEF Memory!Invoke
  <2>5. /\ Calls[c] = MemShown(call[c])
        /\ Calls' = [Calls EXCEPT ![c] = MemShown(l)]
    BY <2>1, MemShows
  <2>6. Shows(c, "pending", op, IF op = "create" THEN Absent ELSE i,
              IF op \in {"create", "save"} THEN d ELSE Absent)
    BY <2>2, <2>5 DEF Shows
  <2>. QED BY <2>3, <2>4, <2>5, <2>6, MapInvoke
<1>4. CASE Memory!Abandon(c)
  <2>1. call[c].at = "pending" /\ call' = [call EXCEPT ![c].at = "failed"] /\ UNCHANGED <<store, now>>
    BY <1>4 DEF Memory!Abandon
  <2>2. PICK l \in MemCall :
            /\ call' = [call EXCEPT ![c] = l]
            /\ l.at = "failed" /\ l.op = call[c].op /\ l.id = call[c].id /\ l.data = call[c].data
    BY <2>1, MemTo
  <2>. DEFINE i == IF call[c].op = "create" THEN Absent ELSE call[c].id
  <2>3. /\ MemShown(call[c]) = Shown("pending", call[c].op, i, call[c].data)
        /\ MemShown(l) = Shown("failed", call[c].op, i, call[c].data)
    BY <2>1, <2>2 DEF MemShown
  <2>. HIDE DEF i
  <2>4. /\ Calls[c] = MemShown(call[c])
        /\ Calls' = [Calls EXCEPT ![c] = MemShown(l)]
    BY <2>2, MemShows
  <2>5. /\ Calls[c] = Shown("pending", call[c].op, i, call[c].data)
        /\ Shows(c, "failed", call[c].op, i, call[c].data)
    BY <2>3, <2>4 DEF Shows
  <2>. QED BY <2>1, <2>5, MemKeeps, MapFail
<1>5. CASE Memory!Return(c)
  <2>1. PICK l : l = Memory!Idle
    OBVIOUS
  <2>2. /\ call[c].at \in {"done", "failed"} /\ UNCHANGED <<store, now>>
        /\ call' = [call EXCEPT ![c] = l]
    BY <1>5, <2>1 DEF Memory!Return
  <2>3. /\ MemShown(call[c]).at \in {"done", "failed"}
        /\ MemShown(l) = Shown("idle", "none", Absent, Absent)
    BY <2>1, <2>2 DEF MemShown, Shown, Memory!Idle
  <2>4. /\ Calls[c] = MemShown(call[c])
        /\ Calls' = [Calls EXCEPT ![c] = MemShown(l)]
    BY <2>2, MemShows
  <2>5. /\ Calls[c].at \in {"done", "failed"}
        /\ Shows(c, "idle", "none", Absent, Absent)
    BY <2>3, <2>4 DEF Shows
  <2>. QED BY <2>2, <2>5, MemKeeps, MapReturn
<1>6. CASE Memory!Create(c)
  <2>0. call[c].at = "pending" /\ call[c].op = "create" /\ UNCHANGED now
    BY <1>6 DEF Memory!Create, Memory!Pending
  <2>r. PICK r : r = Memory!Record(c)
    OBVIOUS
  <2>1. PICK i \in Id : /\ store[i] = Memory!NoRecord
                        /\ store' = [store EXCEPT ![i] = r]
                        /\ call' = [Memory!Done(c) EXCEPT ![c].id = i]
    BY <1>6, <2>r DEF Memory!Create
  <2>a. call' = [Memory!Done(c) EXCEPT ![c].id = i]
    BY <2>1
  <2>b. \E l \in MemCall :
            /\ call' = [call EXCEPT ![c] = l]
            /\ l.at = "done" /\ l.op = call[c].op /\ l.id = i /\ l.data = call[c].data
    BY <2>a, MemCreated
  <2>2. PICK l \in MemCall :
            /\ call' = [call EXCEPT ![c] = l]
            /\ l.at = "done" /\ l.op = call[c].op /\ l.id = i /\ l.data = call[c].data
    BY <2>b
  <2>3. /\ MemShown(call[c]) = Shown("pending", "create", Absent, call[c].data)
        /\ MemShown(l) = Shown("done", "create", i, call[c].data)
    BY <2>0, <2>2 DEF MemShown
  <2>4. /\ Calls[c] = MemShown(call[c])
        /\ Calls' = [Calls EXCEPT ![c] = MemShown(l)]
    BY <2>2, MemShows
  <2>5. /\ Calls[c] = Shown("pending", "create", Absent, call[c].data)
        /\ Shows(c, "done", "create", i, call[c].data)
    BY <2>3, <2>4 DEF Shows
  <2>6. Entries[i] = Absent
    BY <2>1, MemEntries DEF MemLive, Memory!NoRecord
  <2>7. PICK e : e = MemLive(r, now)
    OBVIOUS
  <2>8. e = call[c].data \/ (e = Absent /\ kind = "memory")
    BY <2>r, <2>7 DEF MemLive, Memory!Record
  <2>9. Entries' = [Entries EXCEPT ![i] = e]
    BY <2>0, <2>1, <2>7, MemChanges
  <2>. QED BY <2>5, <2>6, <2>8, <2>9, MapCreate
<1>7. CASE Memory!Save(c)
  <2>i. PICK i \in Id : i = call[c].id
    BY <1>7, <1>t DEF Memory!Save, Memory!Pending, MemCallInv
  <2>r. PICK r : r = Memory!Record(c)
    OBVIOUS
  <2>1. /\ call[c].at = "pending" /\ call[c].op = "save" /\ UNCHANGED now
        /\ store' = [store EXCEPT ![i] = r] /\ call' = [call EXCEPT ![c].at = "done"]
    BY <1>7, <2>i, <2>r DEF Memory!Save, Memory!Pending, Memory!Done
  <2>2. PICK l \in MemCall :
            /\ call' = [call EXCEPT ![c] = l]
            /\ l.at = "done" /\ l.op = call[c].op /\ l.id = call[c].id /\ l.data = call[c].data
    BY <2>1, MemTo
  <2>3. /\ MemShown(call[c]) = Shown("pending", "save", i, call[c].data)
        /\ MemShown(l) = Shown("done", "save", i, call[c].data)
    BY <2>i, <2>1, <2>2 DEF MemShown
  <2>4. /\ Calls[c] = MemShown(call[c])
        /\ Calls' = [Calls EXCEPT ![c] = MemShown(l)]
    BY <2>2, MemShows
  <2>5. /\ Calls[c] = Shown("pending", "save", i, call[c].data)
        /\ Shows(c, "done", "save", i, call[c].data)
    BY <2>3, <2>4 DEF Shows
  <2>7. PICK e : e = MemLive(r, now)
    OBVIOUS
  <2>8. e = call[c].data \/ (e = Absent /\ kind = "memory")
    BY <2>r, <2>7 DEF MemLive, Memory!Record
  <2>9. Entries' = [Entries EXCEPT ![i] = e]
    BY <2>1, <2>7, MemChanges
  <2>. QED BY <2>5, <2>8, <2>9, MapSave
<1>8. CASE Memory!Load(c)
  <2>i. PICK i \in Id : i = call[c].id
    BY <1>8, <1>t DEF Memory!Load, Memory!Pending, MemCallInv
  <2>x. PICK x : x = IF Memory!IsActive(store[i]) THEN store[i].data ELSE Absent
    OBVIOUS
  <2>0. x \in Data \union {Absent}
    BY <1>t, <2>x DEF MemKept, MemRecord, Memory!NoRecord
  <2>1. /\ call[c].at = "pending" /\ call[c].op = "load" /\ UNCHANGED <<store, now>>
        /\ call' = [Memory!Done(c) EXCEPT ![c].data = x]
    BY <1>8, <2>i, <2>x DEF Memory!Load, Memory!Pending
  <2>a. call' = [Memory!Done(c) EXCEPT ![c].data = x]
    BY <2>1
  <2>b. \E l \in MemCall :
            /\ call' = [call EXCEPT ![c] = l]
            /\ l.at = "done" /\ l.op = call[c].op /\ l.id = call[c].id /\ l.data = x
    BY <2>0, <2>a, MemLoaded
  <2>2. PICK l \in MemCall :
            /\ call' = [call EXCEPT ![c] = l]
            /\ l.at = "done" /\ l.op = call[c].op /\ l.id = call[c].id /\ l.data = x
    BY <2>b
  <2>3. /\ MemShown(call[c]) = Shown("pending", "load", i, call[c].data)
        /\ MemShown(l) = Shown("done", "load", i, x)
    BY <2>i, <2>1, <2>2 DEF MemShown
  <2>4. /\ Calls[c] = MemShown(call[c])
        /\ Calls' = [Calls EXCEPT ![c] = MemShown(l)]
    BY <2>2, MemShows
  <2>5. /\ Calls[c] = Shown("pending", "load", i, call[c].data)
        /\ Shows(c, "done", "load", i, x)
    BY <2>3, <2>4 DEF Shows
  <2>6. x = MemLive(store[i], now)
    BY <1>t, <2>x, MemNoRecord DEF MemLive, Memory!IsActive, MemKept, Memory!NoRecord
  <2>7. UNCHANGED Entries /\ Entries[i] = x
    BY <2>1, <2>6, MemKeeps, MemEntries
  <2>. QED BY <2>5, <2>7, MapLoad
<1>9. CASE Memory!Delete(c)
  <2>i. PICK i \in Id : i = call[c].id
    BY <1>9, <1>t DEF Memory!Delete, Memory!Pending, MemCallInv
  <2>r. PICK r : r = Memory!NoRecord
    OBVIOUS
  <2>1. /\ call[c].at = "pending" /\ call[c].op = "delete" /\ UNCHANGED now
        /\ store' = [store EXCEPT ![i] = r] /\ call' = [call EXCEPT ![c].at = "done"]
    BY <1>9, <2>i, <2>r DEF Memory!Delete, Memory!Pending, Memory!Done
  <2>2. PICK l \in MemCall :
            /\ call' = [call EXCEPT ![c] = l]
            /\ l.at = "done" /\ l.op = call[c].op /\ l.id = call[c].id /\ l.data = call[c].data
    BY <2>1, MemTo
  <2>3. /\ MemShown(call[c]) = Shown("pending", "delete", i, call[c].data)
        /\ MemShown(l) = Shown("done", "delete", i, call[c].data)
    BY <2>i, <2>1, <2>2 DEF MemShown
  <2>4. /\ Calls[c] = MemShown(call[c])
        /\ Calls' = [Calls EXCEPT ![c] = MemShown(l)]
    BY <2>2, MemShows
  <2>5. /\ Calls[c] = Shown("pending", "delete", i, call[c].data)
        /\ Shows(c, "done", "delete", i, call[c].data)
    BY <2>3, <2>4 DEF Shows
  <2>6. Entries' = [Entries EXCEPT ![i] = Absent]
    <3>1. Entries' = [Entries EXCEPT ![i] = MemLive(r, now)]
      BY <2>1, MemChanges
    <3>2. MemLive(r, now) = Absent
      BY <2>r DEF MemLive, Memory!NoRecord
    <3>. QED BY <3>1, <3>2
  <2>. QED BY <2>5, <2>6, MapDelete
<1>. QED BY <1>3, <1>4, <1>5, <1>6, <1>7, <1>8, <1>9

-----------------------------------------------------------------------------
(* The stores implement the map                                            *)

\* Nothing happens to the map when a store is picked that it does not describe.
LEMMA OtherStores ==
    ASSUME kind \in {"file", "redis"}, UNCHANGED kind
    PROVE  UNCHANGED <<Entries, Calls>>
BY DEF Entries, Calls

\* MemoryStore and DbStore: every step of every call is one step of the map,
\* or none.
THEOREM StoresImplementMap == Spec => ImplementsMap
<1>1. Init => Map!Init
  <2>. SUFFICES ASSUME Init PROVE Map!Init
    OBVIOUS
  <2>1. CASE kind = "memory"
    <3>1. \A i \in Id : Memory!Live(i) = Absent
      BY <2>1 DEF Init, Memory!Init, Memory!Live, Memory!NoRecord
    <3>2. \A c \in Client : Memory!AbstractCall(c) = Map!Idle
      BY <2>1 DEF Init, Memory!Init, Memory!AbstractCall, Memory!Idle, Map!Idle
    <3>. QED BY <2>1, <3>1, <3>2 DEF Map!Init
  <2>2. CASE kind = "database"
    <3>1. \A i \in Id : table[i].data = Absent
      BY <2>2 DEF Init, Db!Init, Db!NoRow
    <3>2. \A c \in Client : Db!AbstractCall(c) = Map!Idle
      BY <2>2 DEF Init, Db!Init, Db!AbstractCall, Db!Running, Db!Idle, Map!Idle
    <3>. QED BY <2>2, <3>1, <3>2 DEF Map!Init
  <2>3. CASE kind \in {"file", "redis"}
    BY <2>3 DEF Map!Init, Map!Idle
  <2>. QED BY <2>1, <2>2, <2>3 DEF Init
<1>2. Inv /\ [Next]_vars => [Map!Next]_Map!vars
  <2>. SUFFICES ASSUME Inv, [Next]_vars PROVE [Map!Next]_Map!vars
    OBVIOUS
  <2>1. UNCHANGED kind /\ kind \in {"memory", "database", "file", "redis"}
    BY Picked DEF Inv
  <2>2. Map!Next \/ UNCHANGED <<Entries, Calls>>
    BY <2>1, Picked, MemImplements, DbImplements, OtherStores DEF Inv
  <2>. QED BY <2>1, <2>2, MapStutter
<1>. QED BY <1>1, <1>2, StoresInv, PTL DEF Spec, ImplementsMap, Map!Spec

=============================================================================
