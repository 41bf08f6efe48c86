----------------------- MODULE MigrationEngine_proofs -----------------------
(***************************************************************************)
(* Proofs about MigrationEngine for every set of migrations, dependencies, *)
(* operations and processes, as long as rollback is never called while     *)
(* another call is active ("rollback" \in Alone): any number of servers    *)
(* may be running their migrations together, and any call may die between  *)
(* two statements.  What calls complete and what the schema is, at the end, *)
(* is proved where runs are alone too.                                     *)
(***************************************************************************)
EXTENDS MigrationEngine, TLAPS, WellFoundedInduction

(***************************************************************************)
(* The inductive invariant.  DependenciesApplied alone is not inductive:   *)
(* it does not say that the migrations a run has left behind are recorded, *)
(* nor that those a rollback has left behind are not.                      *)
(***************************************************************************)
KindInv(p) ==
    /\ Active(p) => loc[p].kind \in {"run", "rollback"}
    /\ loc[p].phase = "create" => loc[p].kind = "run" /\ loc[p].todo = Migrations
    /\ loc[p].phase = "unmark" => loc[p].kind = "rollback"

\* The migration a call works on is the next of its list.
CurrentInv(p) == loc[p].phase \in {"ops", "unmark"} => IsNext(loc[p], loc[p].cur)

\* A run has recorded, or found recorded, all it has left behind.
RunInv(p) ==
    Active(p) /\ loc[p].kind = "run" =>
        \A m \in Migrations : m \notin loc[p].todo => rows[m] > 0

\* A rollback is alone, its plan holds every dependent of its members, and
\* nothing it has left behind is recorded.
RollbackInv(p) ==
    Active(p) /\ loc[p].kind = "rollback" =>
        /\ \A q \in Proc : Active(q) => q = p
        /\ DependentsClosed(loc[p].plan)
        /\ loc[p].todo \subseteq loc[p].plan
        /\ \A m \in loc[p].plan : m \notin loc[p].todo => rows[m] = 0

CallInv(p) == KindInv(p) /\ CurrentInv(p) /\ RunInv(p) /\ RollbackInv(p)

IInv == TypeOK /\ DependenciesApplied /\ \A p \in Proc : CallInv(p)

LEMMA AdvanceType ==
    ASSUME NEW l \in LocType, NEW m \in Migrations
    PROVE  Advance(l, m) \in LocType
BY DEF Advance, LocType, Idle, Phases

(***************************************************************************)
(* The plan of a rollback is closed under dependents: the intersection of  *)
(* closed sets is closed.                                                  *)
(***************************************************************************)
LEMMA PlanClosed ==
    ASSUME NEW app, NEW target
    PROVE  /\ RollbackPlan(app, target) \subseteq Migrations
           /\ DependentsClosed(RollbackPlan(app, target))
<1>1. ASSUME NEW e \in Deps, e[1] \in RollbackPlan(app, target)
      PROVE  e[2] \in RollbackPlan(app, target)
  <2>1. e[2] \in Migrations
    BY DepsAssumption
  <2>2. ASSUME NEW S \in SUBSET Migrations,
               Seed(app, target) \subseteq S, DependentsClosed(S)
        PROVE  e[2] \in S
    <3>1. e[1] \in S
      BY <1>1, <2>2 DEF RollbackPlan
    <3> QED
      BY <2>2, <3>1 DEF DependentsClosed
  <2> QED
    BY <2>1, <2>2 DEF RollbackPlan
<1> QED
  BY <1>1 DEF RollbackPlan, DependentsClosed

(***************************************************************************)
(* Type correctness: the rows, the ledger and the state of every call keep *)
(* their types through every statement.                                    *)
(***************************************************************************)
LEMMA TypeStep == TypeOK /\ [Next]_vars => TypeOK'
<1> SUFFICES ASSUME TypeOK, [Next]_vars PROVE TypeOK'
  OBVIOUS
<1> USE BoundsAssumption
<1>1. ASSUME NEW p \in Proc, BeginRun(p) PROVE TypeOK'
  BY <1>1 DEF BeginRun, Begin, TypeOK, LocType, Phases
<1>2. ASSUME NEW p \in Proc, CreateLedger(p) PROVE TypeOK'
  BY <1>2 DEF CreateLedger, TypeOK, LocType, Phases, Idle
<1>3. ASSUME NEW p \in Proc, NEW app, NEW target, BeginRollback(p, app, target) PROVE TypeOK'
  BY <1>3, PlanClosed DEF BeginRollback, Begin, TypeOK, LocType, Phases, Idle
<1>4. ASSUME NEW p \in Proc, Check(p) PROVE TypeOK'
  <2>1. PICK m \in Migrations : loc' = [loc EXCEPT ![p] =
              IF ~ledger THEN Fail(@)
              ELSE IF (rows[m] > 0) = (@.kind = "run") THEN Advance(@, m)
              ELSE [@ EXCEPT !.phase = "ops", !.cur = m]]
    BY <1>4 DEF Check
  <2>2. loc[p] \in LocType
    BY DEF TypeOK
  <2>3. Advance(loc[p], m) \in LocType
    BY <2>2, AdvanceType
  <2>4. Fail(loc[p]) \in LocType /\ [loc[p] EXCEPT !.phase = "ops", !.cur = m] \in LocType
    BY <2>2 DEF Fail, LocType, Phases
  <2>5. loc' \in [Proc -> LocType]
    BY <2>1, <2>3, <2>4 DEF TypeOK
  <2> QED
    BY <1>4, <2>5 DEF Check, TypeOK
<1>5. ASSUME NEW p \in Proc, Operation(p) PROVE TypeOK'
  <2>1. loc[p] \in LocType
    BY DEF TypeOK
  <2>2. Fail(loc[p]) \in LocType /\ [loc[p] EXCEPT !.done = @ + 1] \in LocType
    BY <2>1 DEF Fail, LocType, Phases
  <2>3. \/ loc' = [loc EXCEPT ![p].done = @ + 1]
        \/ loc' = [loc EXCEPT ![p] = Fail(@)]
    BY <1>5 DEF Operation
  <2>4. loc' \in [Proc -> LocType]
    BY <2>2, <2>3 DEF TypeOK
  <2> QED
    BY <1>5, <2>4 DEF Operation, TypeOK
<1>6. ASSUME NEW p \in Proc, MarkApplied(p) PROVE TypeOK'
  <2>1. loc[p] \in LocType
    BY DEF TypeOK
  <2>2. loc' = [loc EXCEPT ![p] = Advance(@, @.cur)]
    BY <1>6 DEF MarkApplied
  <2>3. loc[p].cur \in {0} \union Migrations
    BY <2>1 DEF LocType
  <2>4. Advance(loc[p], loc[p].cur) \in LocType
    BY <2>1, <2>3 DEF Advance, LocType, Idle, Phases
  <2>5. rows' \in [Migrations -> Nat]
    <3>1. rows' = [m \in Migrations |-> IF m = loc[p].cur THEN rows[m] + 1 ELSE rows[m]]
      BY <1>6 DEF MarkApplied, TypeOK
    <3> QED
      BY <3>1 DEF TypeOK
  <2> QED
    BY <1>6, <2>2, <2>4, <2>5 DEF MarkApplied, OperationsDone, TypeOK
<1>7. ASSUME NEW p \in Proc, Recheck(p) PROVE TypeOK'
  <2>1. loc[p] \in LocType
    BY DEF TypeOK
  <2>2. Advance(loc[p], loc[p].cur) \in LocType /\ [loc[p] EXCEPT !.phase = "unmark"] \in LocType
    BY <2>1 DEF Advance, LocType, Idle, Phases
  <2> QED
    BY <1>7, <2>2 DEF Recheck, TypeOK
<1>8. ASSUME NEW p \in Proc, MarkUnapplied(p) PROVE TypeOK'
  <2>1. loc[p] \in LocType
    BY DEF TypeOK
  <2>2. Advance(loc[p], loc[p].cur) \in LocType
    BY <2>1 DEF Advance, LocType, Idle, Phases
  <2> QED
    BY <1>8, <2>2 DEF MarkUnapplied, TypeOK
<1>9. ASSUME NEW p \in Proc, Interrupt(p) PROVE TypeOK'
  BY <1>9 DEF Interrupt, TypeOK, Idle, LocType, Phases
<1>10. CASE UNCHANGED vars
  BY <1>10 DEF vars, TypeOK
<1> QED
  BY <1>1, <1>2, <1>3, <1>4, <1>5, <1>6, <1>7, <1>8, <1>9, <1>10 DEF Next, Step

THEOREM TypeCorrect == Spec => []TypeOK
<1>1. Init => TypeOK
  <2>1. Idle \in LocType
    BY DEF Idle, LocType, Phases
  <2>2. 0 \in 0 .. MaxFaults
    BY BoundsAssumption
  <2>3. SUFFICES ASSUME Init PROVE TypeOK
    OBVIOUS
  <2>4. rows \in [Migrations -> Nat] /\ loc \in [Proc -> LocType]
    BY <2>1, <2>3 DEF Init
  <2> QED
    BY <2>2, <2>3, <2>4 DEF Init, TypeOK
<1> QED
  BY <1>1, TypeStep, PTL DEF Spec

(***************************************************************************)
(* What one step of a call does to the rows and to the calls.  Every step  *)
(* changes the state of one call, and what it leaves behind (a migration   *)
(* that drops out of its list) is recorded by a run and is not by a        *)
(* rollback.                                                               *)
(***************************************************************************)
LEMMA AdvanceShape ==
    ASSUME NEW l \in LocType, NEW m
    PROVE  \/ Advance(l, m) = Idle
           \/ /\ Advance(l, m).phase = "check"
              /\ Advance(l, m).kind = l.kind
              /\ Advance(l, m).plan = l.plan
              /\ Advance(l, m).todo = l.todo \ {m}
<1>1. CASE l.todo \ {m} # {}
  <2>1. Advance(l, m) = [l EXCEPT !.phase = "check", !.todo = @ \ {m}, !.cur = 0, !.done = 0]
    BY <1>1 DEF Advance
  <2> QED
    BY <2>1 DEF LocType
<1> QED
  BY <1>1 DEF Advance

\* A call that moves on from m keeps its invariants if m is as it should be.
LEMMA AdvanceInv ==
    ASSUME NEW p \in Proc, NEW m \in Migrations, TypeOK, CallInv(p), Active(p),
           loc' = [loc EXCEPT ![p] = Advance(@, m)],
           \A x \in Migrations \ {m} : rows'[x] = rows[x],
           loc[p].kind = "run" => rows'[m] > 0,
           loc[p].kind = "rollback" => rows'[m] = 0
    PROVE  CallInv(p)'
<1>1. loc'[p] = Advance(loc[p], m) /\ loc[p] \in LocType
  BY DEF TypeOK
<1>2. CASE Advance(loc[p], m) = Idle
  <2>1. loc'[p].phase = "idle"
    BY <1>1, <1>2 DEF Idle
  <2> QED
    BY <2>1 DEF CallInv, KindInv, CurrentInv, RunInv, RollbackInv, Active
<1>3. CASE Advance(loc[p], m) # Idle
  <2>1. /\ loc'[p].phase = "check" /\ loc'[p].kind = loc[p].kind /\ loc'[p].plan = loc[p].plan
        /\ loc'[p].todo = loc[p].todo \ {m}
    BY <1>1, <1>3, AdvanceShape
  <2>2. \A q \in Proc : Active(q)' => Active(q)
    <3>1. \A q \in Proc : q # p => loc'[q] = loc[q]
      BY DEF TypeOK
    <3> QED
      BY <3>1 DEF Active
  <2>3. KindInv(p)' /\ CurrentInv(p)'
    BY <2>1 DEF CallInv, KindInv, CurrentInv, Active
  <2>4. RunInv(p)'
    BY <2>1 DEF CallInv, RunInv, Active
  <2>5. RollbackInv(p)'
    <3>1. loc[p].plan \subseteq Migrations
      BY <1>1 DEF LocType
    <3> QED
      BY <2>1, <2>2, <3>1 DEF CallInv, RollbackInv, Active, DependentsClosed
  <2> QED
    BY <2>3, <2>4, <2>5 DEF CallInv
<1> QED
  BY <1>2, <1>3

\* A call that does not step keeps its invariants when the rows stay, or grow
\* by a run while no rollback is active, or shrink while it is not active.
LEMMA OtherInv ==
    ASSUME NEW p \in Proc, NEW q \in Proc, q # p, TypeOK, CallInv(q),
           loc'[q] = loc[q],
           \A x \in Proc : Active(x)' /\ x # p => Active(x),
           Active(q) /\ loc[q].kind = "rollback" => rows' = rows /\ ~Active(p)',
           Active(q) /\ loc[q].kind = "run" => \A m \in Migrations : rows[m] > 0 => rows'[m] > 0
    PROVE  CallInv(q)'
<1>1. Active(q)' = Active(q)
  BY DEF Active
<1>2. KindInv(q)' /\ CurrentInv(q)'
  BY <1>1 DEF CallInv, KindInv, CurrentInv, IsNext, Active
<1>3. RunInv(q)'
  BY <1>1 DEF CallInv, RunInv, Active
<1>4. RollbackInv(q)'
  BY <1>1 DEF CallInv, RollbackInv, DependentsClosed
<1> QED
  BY <1>2, <1>3, <1>4 DEF CallInv

\* The step of an active call leaves the invariants of the others alone.
LEMMA OthersInv ==
    ASSUME NEW p \in Proc, IInv, Active(p),
           \A q \in Proc \ {p} : loc'[q] = loc[q],
           loc[p].kind = "run" => \A m \in Migrations : rows[m] > 0 => rows'[m] > 0
    PROVE  \A q \in Proc \ {p} : CallInv(q)'
<1> SUFFICES ASSUME NEW q \in Proc \ {p} PROVE CallInv(q)'
  OBVIOUS
<1>1. \A x \in Proc : Active(x)' /\ x # p => Active(x)
  BY DEF Active
<1>2. ~(Active(q) /\ loc[q].kind = "rollback")
  BY DEF IInv, CallInv, RollbackInv
<1>3. Active(q) => loc[p].kind # "rollback"
  BY DEF IInv, CallInv, RollbackInv
<1>4. loc[p].kind \in {"run", "rollback"}
  BY DEF IInv, CallInv, KindInv
<1>5. Active(q) /\ loc[q].kind = "run" => \A m \in Migrations : rows[m] > 0 => rows'[m] > 0
  BY <1>3, <1>4
<1> QED
  BY <1>1, <1>2, <1>5, OtherInv DEF IInv

(***************************************************************************)
(* The migrations recorded change by at most one, and only as MigrationLedger *)
(* allows: the heart of both safety theorems.                              *)
(***************************************************************************)
LEMMA MarkIsApply ==
    ASSUME IInv, NEW p \in Proc, MarkApplied(p)
    PROVE  /\ loc[p].cur \in Migrations
           /\ rows' = [m \in Migrations |-> IF m = loc[p].cur THEN rows[m] + 1 ELSE rows[m]]
           /\ \A e \in Deps : e[2] = loc[p].cur => e[1] \in applied
<1>1. IsNext(loc[p], loc[p].cur) /\ loc[p].kind = "run" /\ Active(p)
  BY DEF MarkApplied, OperationsDone, IInv, CallInv, CurrentInv, Active
<1>2. loc[p].cur \in Migrations
  BY <1>1 DEF IInv, TypeOK, LocType, IsNext
<1>3. ASSUME NEW e \in Deps, e[2] = loc[p].cur PROVE e[1] \in applied
  <2>1. e[1] \in Migrations /\ e[1] < loc[p].cur
    BY <1>3, DepsAssumption
  <2>2. e[1] \notin loc[p].todo
    BY <1>1, <1>2, <2>1, SizeAssumption DEF IsNext, Migrations
  <2> QED
    BY <1>1, <2>1, <2>2 DEF IInv, CallInv, RunInv, applied
<1> QED
  BY <1>2, <1>3 DEF MarkApplied, IInv, TypeOK

LEMMA UnmarkIsUnapply ==
    ASSUME IInv, NEW p \in Proc, MarkUnapplied(p)
    PROVE  /\ loc[p].cur \in Migrations
           /\ rows' = [m \in Migrations |-> IF m = loc[p].cur THEN 0 ELSE rows[m]]
           /\ \A e \in Deps : e[1] = loc[p].cur => e[2] \notin applied
<1>1. IsNext(loc[p], loc[p].cur) /\ loc[p].kind = "rollback" /\ Active(p)
  BY DEF MarkUnapplied, IInv, CallInv, CurrentInv, KindInv, Active
<1>2. loc[p].cur \in Migrations
  BY <1>1 DEF IInv, TypeOK, LocType, IsNext
<1>3. ASSUME NEW e \in Deps, e[1] = loc[p].cur PROVE e[2] \notin applied
  <2>1. e[2] \in Migrations /\ loc[p].cur < e[2]
    BY <1>3, DepsAssumption
  <2>2. e[2] \notin loc[p].todo
    BY <1>1, <1>2, <2>1, SizeAssumption DEF IsNext, Migrations
  <2>3. e[2] \in loc[p].plan
    BY <1>1, <1>3 DEF IsNext, IInv, CallInv, RollbackInv, DependentsClosed
  <2> QED
    BY <1>1, <2>2, <2>3 DEF IInv, CallInv, RollbackInv, applied
<1> QED
  BY <1>2, <1>3 DEF MarkUnapplied, IInv, TypeOK

(***************************************************************************)
(* Preservation of the calls' invariants, one step per action.             *)
(***************************************************************************)
LEMMA CallStep ==
    ASSUME "rollback" \in Alone, IInv, TypeOK', [Next]_vars
    PROVE  \A q \in Proc : CallInv(q)'
<1> USE DEF IInv
<1>1. ASSUME NEW p \in Proc, NEW kind \in {"run", "rollback"}, NEW v \in LocType,
             MayBegin(p, kind), rows' = rows, loc' = [loc EXCEPT ![p] = v],
             \/ v = Idle
             \/ kind = "run" /\ v = Begin(kind, "create", Migrations)
             \/ \E plan \in SUBSET Migrations :
                    kind = "rollback" /\ DependentsClosed(plan) /\ v = Begin(kind, "check", plan)
      PROVE  \A q \in Proc : CallInv(q)'
  <2>1. loc'[p] = v /\ \A q \in Proc \ {p} : loc'[q] = loc[q]
    BY <1>1 DEF TypeOK
  <2>2. ~Active(p) /\ \A x \in Proc : Active(x)' /\ x # p => Active(x)
    BY <1>1, <2>1 DEF MayBegin, Active
  <2>3. \A q \in Proc : ~(Active(q) /\ loc[q].kind = "rollback")
    BY <1>1 DEF MayBegin
  <2>4. \A q \in Proc \ {p} : CallInv(q)'
    BY <1>1, <2>1, <2>2, <2>3, OtherInv
  <2>5. CallInv(p)'
    <3>1. CASE v = Idle
      BY <2>1, <3>1 DEF Idle, CallInv, KindInv, CurrentInv, RunInv, RollbackInv, Active
    <3>2. CASE kind = "run" /\ v = Begin(kind, "create", Migrations)
      BY <2>1, <3>2 DEF Begin, CallInv, KindInv, CurrentInv, RunInv, RollbackInv, Active
    <3>3. CASE \E plan \in SUBSET Migrations :
                  kind = "rollback" /\ DependentsClosed(plan) /\ v = Begin(kind, "check", plan)
      <4>1. PICK plan \in SUBSET Migrations :
                  kind = "rollback" /\ DependentsClosed(plan) /\ v = Begin(kind, "check", plan)
        BY <3>3
      <4>2. /\ loc'[p].phase = "check" /\ loc'[p].kind = "rollback"
            /\ loc'[p].plan = plan /\ loc'[p].todo = plan
        BY <2>1, <4>1 DEF Begin
      <4>3. \A q \in Proc : Active(q)' => q = p
        BY <1>1, <2>2, <4>1 DEF MayBegin
      <4> QED
        BY <4>1, <4>2, <4>3 DEF CallInv, KindInv, CurrentInv, RunInv, RollbackInv, Active, DependentsClosed
    <3> QED
      BY <1>1, <3>1, <3>2, <3>3
  <2> QED
    BY <2>4, <2>5
<1>2. ASSUME NEW p \in Proc, BeginRun(p) PROVE \A q \in Proc : CallInv(q)'
  <2>1. Begin("run", "create", Migrations) \in LocType
    BY DEF Begin, LocType, Phases
  <2> QED
    BY <1>1, <1>2, <2>1 DEF BeginRun
<1>3. ASSUME NEW p \in Proc, NEW app, NEW target, BeginRollback(p, app, target)
      PROVE  \A q \in Proc : CallInv(q)'
  <2> DEFINE plan == RollbackPlan(app, target)
  <2>1. plan \in SUBSET Migrations /\ DependentsClosed(plan)
    BY PlanClosed
  <2>2. Idle \in LocType /\ Begin("rollback", "check", plan) \in LocType
    BY <2>1 DEF Idle, Begin, LocType, Phases
  <2>3. /\ MayBegin(p, "rollback") /\ rows' = rows
        /\ loc' = [loc EXCEPT ![p] = IF plan = {} THEN Idle ELSE Begin("rollback", "check", plan)]
    BY <1>3 DEF BeginRollback
  <2> HIDE DEF plan
  <2>4. CASE plan = {}
    BY <1>1, <2>2, <2>3, <2>4
  <2>5. CASE plan # {}
    BY <1>1, <2>1, <2>2, <2>3, <2>5
  <2> QED
    BY <2>4, <2>5
<1>4. ASSUME NEW p \in Proc, Active(p), rows' = rows, \A q \in Proc \ {p} : loc'[q] = loc[q],
             CallInv(p)'
      PROVE  \A q \in Proc : CallInv(q)'
  BY <1>4, OthersInv
<1>5. ASSUME NEW p \in Proc, CreateLedger(p) PROVE \A q \in Proc : CallInv(q)'
  <2>1. Active(p) /\ rows' = rows /\ \A q \in Proc \ {p} : loc'[q] = loc[q]
    BY <1>5 DEF CreateLedger, Active, TypeOK
  <2>2. loc[p].kind = "run" /\ loc[p].todo = Migrations /\ loc[p] \in LocType
    BY <1>5 DEF CreateLedger, CallInv, KindInv, TypeOK
  <2>3. \/ loc'[p] = Idle
        \/ loc'[p].phase = "check" /\ loc'[p].kind = "run" /\ loc'[p].todo = Migrations
    BY <1>5, <2>2 DEF CreateLedger, TypeOK, LocType
  <2>4. CallInv(p)'
    BY <2>3 DEF CallInv, KindInv, CurrentInv, RunInv, RollbackInv, Active, Idle
  <2> QED
    BY <1>4, <2>1, <2>4
<1>6. ASSUME NEW p \in Proc, Check(p) PROVE \A q \in Proc : CallInv(q)'
  <2>1. Active(p) /\ rows' = rows /\ loc[p] \in LocType
    BY <1>6 DEF Check, Active, TypeOK
  <2>2. PICK m \in Migrations : IsNext(loc[p], m) /\ loc' = [loc EXCEPT ![p] =
              IF ~ledger THEN Fail(@)
              ELSE IF (rows[m] > 0) = (@.kind = "run") THEN Advance(@, m)
              ELSE [@ EXCEPT !.phase = "ops", !.cur = m]]
    BY <1>6 DEF Check
  <2>3. \A q \in Proc \ {p} : loc'[q] = loc[q]
    BY <2>2 DEF TypeOK
  <2>4. rows[m] \in Nat /\ loc[p].kind \in {"run", "rollback"}
    BY <2>1 DEF TypeOK, CallInv, KindInv
  <2>5. CASE ~ledger
    <3>1. loc'[p].phase = "failed"
      BY <2>1, <2>2, <2>5 DEF Fail, TypeOK, LocType
    <3> QED
      BY <1>4, <2>1, <2>3, <3>1 DEF CallInv, KindInv, CurrentInv, RunInv, RollbackInv, Active
  <2>6. CASE ledger /\ (rows[m] > 0) = (loc[p].kind = "run")
    <3>1. loc' = [loc EXCEPT ![p] = Advance(@, m)]
      BY <2>2, <2>6
    <3>2. (loc[p].kind = "run" => rows'[m] > 0) /\ (loc[p].kind = "rollback" => rows'[m] = 0)
      BY <2>1, <2>4, <2>6
    <3>3. CallInv(p)'
      BY <2>1, <3>1, <3>2, AdvanceInv
    <3> QED
      BY <1>4, <2>1, <2>3, <3>3
  <2>7. CASE ledger /\ (rows[m] > 0) # (loc[p].kind = "run")
    <3>1. loc'[p] = [loc[p] EXCEPT !.phase = "ops", !.cur = m]
      BY <2>2, <2>7 DEF TypeOK
    <3>2. /\ loc'[p].phase = "ops" /\ loc'[p].cur = m /\ loc'[p].kind = loc[p].kind
          /\ loc'[p].todo = loc[p].todo /\ loc'[p].plan = loc[p].plan
      BY <2>1, <3>1 DEF LocType
    <3>3. IsNext(loc'[p], m)
      BY <2>2, <3>2 DEF IsNext
    <3>4. \A q \in Proc : Active(q)' => Active(q)
      BY <2>1, <2>3 DEF Active
    <3>5. CallInv(p)'
      BY <2>1, <2>4, <3>2, <3>3, <3>4 DEF CallInv, KindInv, CurrentInv, RunInv, RollbackInv, Active, DependentsClosed
    <3> QED
      BY <1>4, <2>1, <2>3, <3>5
  <2> QED
    BY <2>5, <2>6, <2>7
<1>7. ASSUME NEW p \in Proc, Operation(p) PROVE \A q \in Proc : CallInv(q)'
  <2>1. Active(p) /\ rows' = rows /\ loc[p] \in LocType /\ loc[p].phase = "ops"
    BY <1>7 DEF Operation, Active, TypeOK
  <2>2. \/ loc' = [loc EXCEPT ![p].done = @ + 1]
        \/ loc' = [loc EXCEPT ![p] = Fail(@)]
    BY <1>7 DEF Operation
  <2>3. \A q \in Proc \ {p} : loc'[q] = loc[q]
    BY <2>2 DEF TypeOK
  <2>4. CASE loc' = [loc EXCEPT ![p].done = @ + 1]
    <3>1. /\ loc'[p].phase = "ops" /\ loc'[p].cur = loc[p].cur /\ loc'[p].kind = loc[p].kind
          /\ loc'[p].todo = loc[p].todo /\ loc'[p].plan = loc[p].plan
      BY <2>1, <2>4 DEF TypeOK, LocType
    <3>2. \A q \in Proc : Active(q)' => Active(q)
      BY <2>1, <2>3 DEF Active
    <3>3. CallInv(p)'
      BY <2>1, <3>1, <3>2 DEF CallInv, KindInv, CurrentInv, RunInv, RollbackInv, Active, DependentsClosed, IsNext
    <3> QED
      BY <1>4, <2>1, <2>3, <3>3
  <2>5. CASE loc' = [loc EXCEPT ![p] = Fail(@)]
    <3>1. loc'[p].phase = "failed"
      BY <2>1, <2>5 DEF Fail, TypeOK, LocType
    <3> QED
      BY <1>4, <2>1, <2>3, <3>1 DEF CallInv, KindInv, CurrentInv, RunInv, RollbackInv, Active
  <2> QED
    BY <2>2, <2>4, <2>5
<1>8. ASSUME NEW p \in Proc, MarkApplied(p) PROVE \A q \in Proc : CallInv(q)'
  <2>1. /\ Active(p) /\ loc[p].kind = "run"
        /\ loc' = [loc EXCEPT ![p] = Advance(@, loc[p].cur)]
    BY <1>8 DEF MarkApplied, OperationsDone, Active
  <2>2. \A q \in Proc \ {p} : loc'[q] = loc[q]
    BY <2>1 DEF TypeOK
  <2>3. /\ loc[p].cur \in Migrations
        /\ rows' = [m \in Migrations |-> IF m = loc[p].cur THEN rows[m] + 1 ELSE rows[m]]
    BY <1>8, MarkIsApply
  <2>4. /\ \A m \in Migrations : rows[m] > 0 => rows'[m] > 0
        /\ rows'[loc[p].cur] > 0
        /\ \A x \in Migrations \ {loc[p].cur} : rows'[x] = rows[x]
    BY <2>3 DEF TypeOK
  <2>5. CallInv(p)'
    BY <2>1, <2>3, <2>4, AdvanceInv
  <2> QED
    BY <2>1, <2>2, <2>4, <2>5, OthersInv
<1>9. ASSUME NEW p \in Proc, Recheck(p) PROVE \A q \in Proc : CallInv(q)'
  <2>1. /\ Active(p) /\ loc[p].kind = "rollback" /\ loc[p] \in LocType /\ rows' = rows
        /\ IsNext(loc[p], loc[p].cur)
    BY <1>9 DEF Recheck, OperationsDone, Active, TypeOK, CallInv, CurrentInv
  <2>2. loc' = [loc EXCEPT ![p] = IF rows[loc[p].cur] > 0 THEN [@ EXCEPT !.phase = "unmark"]
                                  ELSE Advance(@, loc[p].cur)]
    BY <1>9 DEF Recheck
  <2>3. \A q \in Proc \ {p} : loc'[q] = loc[q]
    BY <2>2 DEF TypeOK
  <2>4. loc[p].cur \in Migrations /\ rows[loc[p].cur] \in Nat
    BY <2>1 DEF IsNext, LocType, TypeOK
  <2>5. CASE rows[loc[p].cur] > 0
    <3>1. loc'[p] = [loc[p] EXCEPT !.phase = "unmark"]
      BY <2>2, <2>5 DEF TypeOK
    <3>2. /\ loc'[p].phase = "unmark" /\ loc'[p].cur = loc[p].cur /\ loc'[p].kind = loc[p].kind
          /\ loc'[p].todo = loc[p].todo /\ loc'[p].plan = loc[p].plan
      BY <2>1, <3>1 DEF LocType
    <3>3. \A q \in Proc : Active(q)' => Active(q)
      BY <2>1, <2>3 DEF Active
    <3>4. CallInv(p)'
      BY <2>1, <3>2, <3>3 DEF CallInv, KindInv, CurrentInv, RunInv, RollbackInv, Active, DependentsClosed, IsNext
    <3> QED
      BY <1>4, <2>1, <2>3, <3>4
  <2>6. CASE ~(rows[loc[p].cur] > 0)
    <3>1. loc' = [loc EXCEPT ![p] = Advance(@, loc[p].cur)]
      BY <2>2, <2>6
    <3>2. rows'[loc[p].cur] = 0
      BY <2>1, <2>4, <2>6
    <3>3. CallInv(p)'
      BY <2>1, <2>4, <3>1, <3>2, AdvanceInv
    <3> QED
      BY <1>4, <2>1, <2>3, <3>3
  <2> QED
    BY <2>5, <2>6
<1>10. ASSUME NEW p \in Proc, MarkUnapplied(p) PROVE \A q \in Proc : CallInv(q)'
  <2>1. /\ Active(p) /\ loc[p].kind = "rollback"
        /\ loc' = [loc EXCEPT ![p] = Advance(@, loc[p].cur)]
    BY <1>10 DEF MarkUnapplied, Active, CallInv, KindInv
  <2>2. \A q \in Proc \ {p} : loc'[q] = loc[q]
    BY <2>1 DEF TypeOK
  <2>3. /\ loc[p].cur \in Migrations
        /\ rows' = [m \in Migrations |-> IF m = loc[p].cur THEN 0 ELSE rows[m]]
    BY <1>10, UnmarkIsUnapply
  <2>4. CallInv(p)'
    BY <2>1, <2>3, AdvanceInv
  <2> QED
    BY <2>1, <2>2, <2>4, OthersInv
<1>11. ASSUME NEW p \in Proc, Interrupt(p) PROVE \A q \in Proc : CallInv(q)'
  <2>1. Active(p) /\ rows' = rows /\ loc'[p] = Idle /\ \A q \in Proc \ {p} : loc'[q] = loc[q]
    BY <1>11 DEF Interrupt, TypeOK
  <2> QED
    BY <1>4, <2>1 DEF Idle, CallInv, KindInv, CurrentInv, RunInv, RollbackInv, Active
<1>12. CASE UNCHANGED vars
  BY <1>12 DEF vars, CallInv, KindInv, CurrentInv, RunInv, RollbackInv, Active, IsNext, DependentsClosed
<1> QED
  BY <1>2, <1>3, <1>5, <1>6, <1>7, <1>8, <1>9, <1>10, <1>11, <1>12 DEF Next, Step

LEMMA InitIInv == Init => IInv
<1> SUFFICES ASSUME Init PROVE IInv
  OBVIOUS
<1>1. TypeOK
  <2>1. Idle \in LocType
    BY DEF Idle, LocType, Phases
  <2>2. rows \in [Migrations -> Nat] /\ loc \in [Proc -> LocType]
    BY <2>1 DEF Init
  <2>3. 0 \in 0 .. MaxFaults
    BY BoundsAssumption
  <2> QED
    BY <2>2, <2>3 DEF Init, TypeOK
<1>2. applied = {}
  BY DEF Init, applied
<1>3. \A p \in Proc : loc[p].phase = "idle"
  BY DEF Init, Idle
<1> QED
  BY <1>1, <1>2, <1>3
  DEF IInv, DependenciesApplied, CallInv, KindInv, CurrentInv, RunInv, RollbackInv, Active

\* The only actions that touch the rows.
LEMMA RowsStep ==
    ASSUME [Next]_vars
    PROVE  rows' = rows \/ \E p \in Proc : MarkApplied(p) \/ MarkUnapplied(p)
BY DEF Next, Step, vars, BeginRun, BeginRollback, CreateLedger, Check, Operation, Recheck, Interrupt

LEMMA IInvStep ==
    ASSUME "rollback" \in Alone, IInv, [Next]_vars
    PROVE  IInv'
<1>1. TypeOK'
  BY TypeStep DEF IInv
<1>2. \A p \in Proc : CallInv(p)'
  BY <1>1, CallStep
<1>3. DependenciesApplied'
  <2>1. CASE rows' = rows
    BY <2>1 DEF IInv, DependenciesApplied, applied
  <2>2. ASSUME NEW p \in Proc, MarkApplied(p) PROVE DependenciesApplied'
    <3>1. rows \in [Migrations -> Nat] /\ rows' \in [Migrations -> Nat]
      BY <1>1 DEF IInv, TypeOK
    <3>2. applied' = applied \union {loc[p].cur}
      BY <2>2, <3>1, MarkIsApply DEF applied
    <3> QED
      BY <2>2, <3>2, MarkIsApply DEF IInv, DependenciesApplied
  <2>3. ASSUME NEW p \in Proc, MarkUnapplied(p) PROVE DependenciesApplied'
    <3>1. applied' = applied \ {loc[p].cur}
      BY <2>3, UnmarkIsUnapply DEF applied
    <3> QED
      BY <2>3, <3>1, UnmarkIsUnapply DEF IInv, DependenciesApplied
  <2> QED
    BY <2>1, <2>2, <2>3, RowsStep
<1> QED
  BY <1>1, <1>2, <1>3 DEF IInv

LEMMA Inductive == "rollback" \in Alone => (Spec => []IInv)
<1> SUFFICES ASSUME "rollback" \in Alone PROVE Spec => []IInv
  OBVIOUS
<1>1. IInv /\ [Next]_vars => IInv'
  BY IInvStep
<1> QED
  BY <1>1, InitIInv, PTL DEF Spec

(***************************************************************************)
(* At every statement of every call, in every order in which servers run   *)
(* their migrations together and calls die, a migration recorded as        *)
(* applied has its dependencies recorded: what `run` and `rollback` of     *)
(* MigrationEngine keep without any transaction, provided rollbacks are    *)
(* not overlapped.                                                         *)
(***************************************************************************)
THEOREM DependenciesAlwaysApplied ==
    "rollback" \in Alone => (Spec => []DependenciesApplied)
<1>1. IInv => DependenciesApplied
  BY DEF IInv
<1> QED
  BY <1>1, Inductive, PTL

(***************************************************************************)
(* Under the same condition every step of the engine is, on the rows of    *)
(* cot__migrations, a step of MigrationLedger or a stutter.                *)
(***************************************************************************)
THEOREM EngineImplementsLedger ==
    "rollback" \in Alone => (Spec => ImplementsLedger)
<1> SUFFICES ASSUME "rollback" \in Alone PROVE Spec => ImplementsLedger
  OBVIOUS
<1>1. Init => Ledger!Init
  BY DEF Init, Ledger!Init, applied
<1>2. ASSUME IInv, TypeOK', [Next]_vars PROVE [Ledger!Next]_applied
  <2>1. CASE rows' = rows
    BY <2>1 DEF applied
  <2>2. ASSUME NEW p \in Proc, MarkApplied(p) PROVE [Ledger!Next]_applied
    <3>1. rows \in [Migrations -> Nat] /\ rows' \in [Migrations -> Nat]
      BY <1>2 DEF IInv, TypeOK
    <3>2. loc[p].cur \in Migrations /\ applied' = applied \union {loc[p].cur}
      BY <1>2, <2>2, <3>1, MarkIsApply DEF applied
    <3>3. Ledger!Dependencies(loc[p].cur) \subseteq applied
      BY <1>2, <2>2, MarkIsApply DEF Ledger!Dependencies
    <3>4. CASE loc[p].cur \in applied
      BY <3>2, <3>4
    <3>5. CASE loc[p].cur \notin applied
      BY <3>2, <3>3, <3>5 DEF Ledger!Next, Ledger!Apply
    <3> QED
      BY <3>4, <3>5
  <2>3. ASSUME NEW p \in Proc, MarkUnapplied(p) PROVE [Ledger!Next]_applied
    <3>1. loc[p].cur \in Migrations /\ applied' = applied \ {loc[p].cur}
      BY <1>2, <2>3, UnmarkIsUnapply DEF applied
    <3>2. Ledger!Dependents(loc[p].cur) \intersect applied = {}
      BY <1>2, <2>3, UnmarkIsUnapply DEF Ledger!Dependents
    <3>3. CASE loc[p].cur \notin applied
      BY <3>1, <3>3
    <3>4. CASE loc[p].cur \in applied
      BY <3>1, <3>2, <3>4 DEF Ledger!Next, Ledger!Unapply
    <3> QED
      BY <3>3, <3>4
  <2> QED
    BY <1>2, <2>1, <2>2, <2>3, RowsStep
<1>3. IInv /\ TypeOK' /\ [Next]_vars => [Ledger!Next]_applied
  BY <1>2
<1>4. Spec => []IInv /\ []TypeOK
  BY Inductive, TypeCorrect
<1> QED
  BY <1>1, <1>3, <1>4, PTL DEF Spec, ImplementsLedger, Ledger!Spec

(***************************************************************************)
(* The scope of a call needs no condition: rollbacks may overlap and calls *)
(* may die.  A call that deletes rows is a rollback, and works on a        *)
(* migration of its plan.                                                  *)
(***************************************************************************)
ScopeOf(l) ==
    /\ l.phase = "unmark" => l.kind = "rollback"
    /\ l.phase \in {"ops", "unmark"} => l.cur \in l.todo
    /\ l.todo \subseteq l.plan

ScopeInv == TypeOK /\ \A p \in Proc : ScopeOf(loc[p])

LEMMA ScopeAdvance ==
    ASSUME NEW l \in LocType, NEW m, ScopeOf(l)
    PROVE  ScopeOf(Advance(l, m))
<1>1. CASE Advance(l, m) = Idle
  BY <1>1 DEF ScopeOf, Idle
<1>2. CASE Advance(l, m) # Idle
  BY <1>2, AdvanceShape DEF ScopeOf
<1> QED
  BY <1>1, <1>2

LEMMA ScopeStep == ScopeInv /\ [Next]_vars => ScopeInv'
<1> SUFFICES ASSUME ScopeInv, [Next]_vars PROVE ScopeInv'
  OBVIOUS
<1>1. TypeOK'
  BY TypeStep DEF ScopeInv
<1>2. ASSUME NEW p \in Proc, NEW l, loc' = [loc EXCEPT ![p] = l], ScopeOf(l)
      PROVE  ScopeInv'
  BY <1>1, <1>2 DEF ScopeInv, TypeOK
<1>3. ScopeOf(Idle) /\ \A p \in Proc : loc[p] \in LocType /\ ScopeOf(loc[p])
  BY DEF ScopeOf, Idle, ScopeInv, TypeOK
<1>4. ASSUME NEW p \in Proc, BeginRun(p) PROVE ScopeInv'
  <2>1. ScopeOf(Begin("run", "create", Migrations))
    BY DEF ScopeOf, Begin
  <2> QED
    BY <1>2, <1>4, <2>1 DEF BeginRun
<1>5. ASSUME NEW p \in Proc, NEW app, NEW target, BeginRollback(p, app, target) PROVE ScopeInv'
  <2> DEFINE plan == RollbackPlan(app, target)
  <2>1. ScopeOf(Begin("rollback", "check", plan))
    BY DEF ScopeOf, Begin
  <2>2. loc' = [loc EXCEPT ![p] = IF plan = {} THEN Idle ELSE Begin("rollback", "check", plan)]
    BY <1>5 DEF BeginRollback
  <2> HIDE DEF plan
  <2>3. CASE plan = {}
    BY <1>2, <1>3, <2>2, <2>3
  <2>4. CASE plan # {}
    BY <1>2, <2>1, <2>2, <2>4
  <2> QED
    BY <2>3, <2>4
<1>6. ASSUME NEW p \in Proc, CreateLedger(p) PROVE ScopeInv'
  <2> DEFINE l == [loc[p] EXCEPT !.phase = "check"]
  <2>1. l.phase = "check" /\ l.todo = loc[p].todo /\ l.plan = loc[p].plan
    BY <1>3 DEF LocType
  <2>2. loc' = [loc EXCEPT ![p] = Idle] \/ loc' = [loc EXCEPT ![p] = l]
    BY <1>6 DEF CreateLedger
  <2> HIDE DEF l
  <2>3. ScopeOf(l)
    BY <1>3, <2>1 DEF ScopeOf
  <2> QED
    BY <1>2, <1>3, <2>2, <2>3
<1>7. ASSUME NEW p \in Proc, Check(p) PROVE ScopeInv'
  <2>1. PICK m \in Migrations : IsNext(loc[p], m) /\ loc' = [loc EXCEPT ![p] =
              IF ~ledger THEN Fail(@)
              ELSE IF (rows[m] > 0) = (@.kind = "run") THEN Advance(@, m)
              ELSE [@ EXCEPT !.phase = "ops", !.cur = m]]
    BY <1>7 DEF Check
  <2> DEFINE l == [loc[p] EXCEPT !.phase = "ops", !.cur = m]
             f == Fail(loc[p])
             a == Advance(loc[p], m)
  <2>2. loc' = [loc EXCEPT ![p] = f] \/ loc' = [loc EXCEPT ![p] = a] \/ loc' = [loc EXCEPT ![p] = l]
    BY <2>1
  <2>3. /\ l.phase = "ops" /\ l.cur = m /\ l.todo = loc[p].todo /\ l.plan = loc[p].plan
        /\ f.phase = "failed" /\ f.todo = loc[p].todo /\ f.plan = loc[p].plan
    BY <1>3 DEF Fail, LocType
  <2>4. ScopeOf(a)
    BY <1>3, ScopeAdvance
  <2> HIDE DEF l, f, a
  <2>5. ScopeOf(l) /\ ScopeOf(f)
    BY <1>3, <2>1, <2>3 DEF ScopeOf, IsNext
  <2> QED
    BY <1>2, <2>2, <2>4, <2>5
<1>8. ASSUME NEW p \in Proc, Operation(p) PROVE ScopeInv'
  <2> DEFINE l == [loc[p] EXCEPT !.done = @ + 1]
             f == Fail(loc[p])
  <2>2. loc' = [loc EXCEPT ![p] = f] \/ loc' = [loc EXCEPT ![p] = l]
    BY <1>8 DEF Operation
  <2>3. /\ l.phase = loc[p].phase /\ l.kind = loc[p].kind /\ l.cur = loc[p].cur
        /\ l.todo = loc[p].todo /\ l.plan = loc[p].plan
        /\ f.phase = "failed" /\ f.todo = loc[p].todo /\ f.plan = loc[p].plan
    BY <1>3 DEF Fail, LocType
  <2> HIDE DEF l, f
  <2>5. ScopeOf(l) /\ ScopeOf(f)
    BY <1>3, <2>3 DEF ScopeOf
  <2> QED
    BY <1>2, <2>2, <2>5
<1>9. ASSUME NEW p \in Proc, MarkApplied(p) \/ MarkUnapplied(p) PROVE ScopeInv'
  <2>1. loc' = [loc EXCEPT ![p] = Advance(loc[p], loc[p].cur)]
    BY <1>9 DEF MarkApplied, MarkUnapplied
  <2>2. ScopeOf(Advance(loc[p], loc[p].cur))
    BY <1>3, ScopeAdvance
  <2> QED
    BY <1>2, <2>1, <2>2
<1>10. ASSUME NEW p \in Proc, Recheck(p) PROVE ScopeInv'
  <2> DEFINE l == [loc[p] EXCEPT !.phase = "unmark"]
  <2>1. /\ loc[p].phase = "ops" /\ loc[p].kind = "rollback"
        /\ loc' = [loc EXCEPT ![p] = Advance(loc[p], loc[p].cur)] \/ loc' = [loc EXCEPT ![p] = l]
    BY <1>10 DEF Recheck, OperationsDone
  <2>2. ScopeOf(Advance(loc[p], loc[p].cur))
    BY <1>3, ScopeAdvance
  <2>3. /\ l.phase = "unmark" /\ l.kind = loc[p].kind /\ l.cur = loc[p].cur
        /\ l.todo = loc[p].todo /\ l.plan = loc[p].plan
    BY <1>3 DEF LocType
  <2> HIDE DEF l
  <2>4. ScopeOf(l)
    BY <1>3, <2>1, <2>3 DEF ScopeOf
  <2> QED
    BY <1>2, <2>1, <2>2, <2>4
<1>11. ASSUME NEW p \in Proc, Interrupt(p) PROVE ScopeInv'
  BY <1>2, <1>3, <1>11 DEF Interrupt
<1>12. CASE UNCHANGED vars
  BY <1>1, <1>12 DEF vars, ScopeInv
<1> QED
  BY <1>4, <1>5, <1>6, <1>7, <1>8, <1>9, <1>10, <1>11, <1>12 DEF Next, Step

LEMMA ScopeInvariant == Spec => []ScopeInv
<1>1. Init => ScopeInv
  <2> SUFFICES ASSUME Init PROVE ScopeInv
    OBVIOUS
  <2>1. \A p \in Proc : ScopeOf(loc[p])
    BY DEF Init, ScopeOf, Idle
  <2> QED
    BY <2>1, InitIInv DEF IInv, ScopeInv
<1> QED
  BY <1>1, ScopeStep, PTL DEF Spec

(***************************************************************************)
(* However calls overlap and die: only a rollback forgets a migration, and *)
(* only one of the plan it began with; only a run records one.             *)
(***************************************************************************)
THEOREM CallsKeepToTheirPlans == Spec => LedgerScope
<1>1. ASSUME ScopeInv, Next, NEW p \in Proc, loc'[p] # loc[p], NEW m \in Migrations
      PROVE  /\ rows'[m] < rows[m] => loc[p].kind = "rollback" /\ m \in loc[p].plan
             /\ rows'[m] > rows[m] => loc[p].kind = "run"
  <2>1. rows[m] \in Nat
    BY <1>1 DEF ScopeInv, TypeOK
  <2>2. CASE rows' = rows
    BY <2>1, <2>2
  <2>3. ASSUME NEW q \in Proc, MarkApplied(q)
        PROVE  q = p /\ loc[p].kind = "run" /\ rows'[m] \in {rows[m], rows[m] + 1}
    BY <1>1, <2>3 DEF MarkApplied, OperationsDone, ScopeInv, TypeOK
  <2>4. ASSUME NEW q \in Proc, MarkUnapplied(q)
        PROVE  /\ q = p /\ loc[p].kind = "rollback" /\ loc[p].cur \in loc[p].plan
               /\ rows'[m] = IF m = loc[p].cur THEN 0 ELSE rows[m]
    BY <1>1, <2>4 DEF MarkUnapplied, ScopeInv, ScopeOf, TypeOK
  <2>5. CASE \E q \in Proc : MarkApplied(q)
    BY <2>1, <2>3, <2>5
  <2>6. CASE \E q \in Proc : MarkUnapplied(q)
    BY <2>1, <2>4, <2>6
  <2> QED
    BY <1>1, <2>2, <2>5, <2>6, RowsStep
<1>2. ScopeInv /\ [Next]_vars =>
        [\A p \in Proc : loc'[p] # loc[p] => \A m \in Migrations :
            /\ rows'[m] < rows[m] => loc[p].kind = "rollback" /\ m \in loc[p].plan
            /\ rows'[m] > rows[m] => loc[p].kind = "run" ]_vars
  BY <1>1
<1> QED
  BY <1>2, ScopeInvariant, PTL DEF Spec, LedgerScope

(***************************************************************************)
(* Calls that run alone: no migration has two rows, and the one that a run *)
(* works on has none.                                                      *)
(***************************************************************************)
AloneInv ==
    /\ IInv
    /\ \A p, q \in Proc : Active(p) /\ Active(q) => p = q
    /\ \A m \in Migrations : rows[m] <= 1
    /\ \A p \in Proc : loc[p].phase = "ops" /\ loc[p].kind = "run" => rows[loc[p].cur] = 0

\* What a step does to the calls: one begins, when none is active; or an
\* active one goes on.
LEMMA OneMoves ==
    ASSUME {"run", "rollback"} \subseteq Alone, TypeOK, Next
    PROVE  \E p \in Proc :
              /\ \A q \in Proc \ {p} : loc'[q] = loc[q]
              /\ \/ Step(p) \/ Interrupt(p)
                 \/ (\A q \in Proc : ~Active(q)) /\ rows' = rows /\ loc'[p].phase # "ops"
<1>1. ASSUME NEW p \in Proc, BeginRun(p)
      PROVE  /\ \A q \in Proc \ {p} : loc'[q] = loc[q]
             /\ (\A q \in Proc : ~Active(q)) /\ rows' = rows /\ loc'[p].phase # "ops"
  BY <1>1 DEF BeginRun, MayBegin, Begin, TypeOK
<1>2. ASSUME NEW p \in Proc, NEW app, NEW target, BeginRollback(p, app, target)
      PROVE  /\ \A q \in Proc \ {p} : loc'[q] = loc[q]
             /\ (\A q \in Proc : ~Active(q)) /\ rows' = rows /\ loc'[p].phase # "ops"
  <2> DEFINE plan == RollbackPlan(app, target)
  <2>1. loc' = [loc EXCEPT ![p] = IF plan = {} THEN Idle ELSE Begin("rollback", "check", plan)]
    BY <1>2 DEF BeginRollback
  <2> HIDE DEF plan
  <2> QED
    BY <1>2, <2>1 DEF BeginRollback, MayBegin, Begin, Idle, TypeOK
<1>3. ASSUME NEW p \in Proc, Step(p) \/ Interrupt(p)
      PROVE  \A q \in Proc \ {p} : loc'[q] = loc[q]
  BY <1>3 DEF Step, CreateLedger, Check, Operation, MarkApplied, Recheck, MarkUnapplied,
              OperationsDone, Interrupt, TypeOK
<1> QED
  BY <1>1, <1>2, <1>3 DEF Next

\* A run comes to the operations of a migration only when it is not recorded.
LEMMA OpsUnrecorded ==
    ASSUME AloneInv, TypeOK', Next, NEW p \in Proc, Step(p)
    PROVE  loc'[p].phase = "ops" /\ loc'[p].kind = "run" => rows'[loc'[p].cur] = 0
<1> SUFFICES ASSUME loc'[p].phase = "ops", loc'[p].kind = "run"
             PROVE  rows'[loc'[p].cur] = 0
  OBVIOUS
<1>1. loc[p] \in LocType /\ rows \in [Migrations -> Nat] /\ loc \in [Proc -> LocType]
  BY DEF AloneInv, IInv, TypeOK
<1>2. CASE CreateLedger(p)
  <2> DEFINE l == [loc[p] EXCEPT !.phase = "check"]
  <2>1. loc'[p] = Idle \/ loc'[p] = l
    BY <1>1, <1>2 DEF CreateLedger
  <2>2. l.phase = "check"
    BY <1>1 DEF LocType
  <2> HIDE DEF l
  <2> QED
    BY <2>1, <2>2 DEF Idle
<1>3. CASE Check(p)
  <2>1. PICK m \in Migrations : loc' = [loc EXCEPT ![p] =
              IF ~ledger THEN Fail(@)
              ELSE IF (rows[m] > 0) = (@.kind = "run") THEN Advance(@, m)
              ELSE [@ EXCEPT !.phase = "ops", !.cur = m]]
    BY <1>3 DEF Check
  <2> DEFINE l == [loc[p] EXCEPT !.phase = "ops", !.cur = m]
             f == Fail(loc[p])
  <2>2. \/ loc'[p] = f \/ loc'[p] = Advance(loc[p], m)
        \/ loc'[p] = l /\ (rows[m] > 0) # (loc[p].kind = "run")
    BY <1>1, <2>1
  <2>3. f.phase = "failed" /\ l.cur = m /\ l.kind = loc[p].kind
    BY <1>1 DEF Fail, LocType
  <2>4. Advance(loc[p], m).phase \in {"idle", "check"}
    BY <1>1, AdvanceShape DEF Idle
  <2> HIDE DEF l, f
  <2>5. loc'[p] = l /\ (rows[m] > 0) # (loc[p].kind = "run")
    BY <2>2, <2>3, <2>4
  <2>6. rows'[m] = rows[m] /\ rows[m] \in Nat
    BY <1>1, <1>3 DEF Check
  <2> QED
    BY <2>3, <2>5, <2>6
<1>4. CASE Operation(p)
  <2> DEFINE l == [loc[p] EXCEPT !.done = @ + 1]
             f == Fail(loc[p])
  <2>1. (loc'[p] = f \/ loc'[p] = l) /\ loc[p].phase = "ops" /\ rows' = rows
    BY <1>1, <1>4 DEF Operation
  <2>2. f.phase = "failed" /\ l.cur = loc[p].cur /\ l.kind = loc[p].kind
    BY <1>1 DEF Fail, LocType
  <2> HIDE DEF l, f
  <2> QED
    BY <2>1, <2>2 DEF AloneInv
<1>5. CASE MarkApplied(p) \/ MarkUnapplied(p)
  <2>1. loc'[p] = Advance(loc[p], loc[p].cur)
    BY <1>1, <1>5 DEF MarkApplied, MarkUnapplied
  <2> QED
    BY <1>1, <2>1, AdvanceShape DEF Idle
<1>6. CASE Recheck(p)
  <2>1. loc'[p] = Advance(loc[p], loc[p].cur) \/ loc'[p] = [loc[p] EXCEPT !.phase = "unmark"]
    BY <1>1, <1>6 DEF Recheck
  <2>2. [loc[p] EXCEPT !.phase = "unmark"].phase = "unmark"
    BY <1>1 DEF LocType
  <2>3. Advance(loc[p], loc[p].cur).phase \in {"idle", "check"}
    BY <1>1, AdvanceShape DEF Idle
  <2> QED
    BY <2>1, <2>2, <2>3
<1> QED
  BY <1>2, <1>3, <1>4, <1>5, <1>6 DEF Step

LEMMA AloneStep ==
    ASSUME {"run", "rollback"} \subseteq Alone, AloneInv, [Next]_vars
    PROVE  AloneInv'
<1>1. IInv' /\ TypeOK /\ TypeOK'
  BY IInvStep, TypeStep DEF AloneInv, IInv
<1>2. CASE UNCHANGED vars
  BY <1>1, <1>2 DEF vars, AloneInv, Active
<1> SUFFICES ASSUME Next PROVE AloneInv'
  BY <1>2
<1>3. PICK p \in Proc :
          /\ \A q \in Proc \ {p} : loc'[q] = loc[q]
          /\ \/ Step(p) \/ Interrupt(p)
             \/ (\A q \in Proc : ~Active(q)) /\ rows' = rows /\ loc'[p].phase # "ops"
  BY <1>1, OneMoves
<1>4. Step(p) \/ Interrupt(p) => Active(p)
  BY DEF Step, CreateLedger, Check, Operation, MarkApplied, Recheck, MarkUnapplied,
         OperationsDone, Interrupt, Active
<1>5. \A q \in Proc : Active(q)' => q = p
  BY <1>3, <1>4 DEF AloneInv, Active
<1>6. \A m \in Migrations : rows'[m] <= 1
  <2>1. rows \in [Migrations -> Nat]
    BY <1>1 DEF TypeOK
  <2>2. ASSUME NEW q \in Proc, MarkApplied(q) PROVE \A m \in Migrations : rows'[m] <= 1
    <3>1. /\ loc[q].cur \in Migrations
          /\ rows' = [m \in Migrations |-> IF m = loc[q].cur THEN rows[m] + 1 ELSE rows[m]]
      BY <2>2, MarkIsApply DEF AloneInv
    <3>2. rows[loc[q].cur] = 0
      BY <2>2 DEF MarkApplied, OperationsDone, AloneInv
    <3> QED
      BY <2>1, <3>1, <3>2 DEF AloneInv
  <2>3. ASSUME NEW q \in Proc, MarkUnapplied(q) PROVE \A m \in Migrations : rows'[m] <= 1
    BY <2>1, <2>3, UnmarkIsUnapply DEF AloneInv
  <2> QED
    BY <2>2, <2>3, RowsStep DEF AloneInv
<1>7. loc'[p].phase = "ops" /\ loc'[p].kind = "run" => rows'[loc'[p].cur] = 0
  <2>1. Interrupt(p) => loc'[p].phase = "idle"
    BY <1>1 DEF Interrupt, Idle, TypeOK
  <2> QED
    BY <1>1, <1>3, <2>1, OpsUnrecorded
<1>8. ASSUME NEW q \in Proc, loc'[q].phase = "ops", loc'[q].kind = "run"
      PROVE  rows'[loc'[q].cur] = 0
  BY <1>5, <1>7, <1>8 DEF Active
<1> QED
  BY <1>1, <1>5, <1>6, <1>8 DEF AloneInv

\* A call that ends leaves its last migration as it should be.
LEMMA LastDone ==
    ASSUME NEW p \in Proc, NEW m \in Migrations, AloneInv, Active(p),
           loc'[p] = Advance(loc[p], m), loc'[p].phase = "idle",
           \A x \in Migrations \ {m} : rows'[x] = rows[x],
           loc[p].kind = "run" => rows'[m] > 0,
           loc[p].kind = "rollback" => rows'[m] = 0
    PROVE  /\ loc[p].kind = "run" => applied' = Migrations
           /\ loc[p].kind = "rollback" => applied' \intersect loc[p].plan = {}
<1>1. loc[p] \in LocType /\ CallInv(p)
  BY DEF AloneInv, IInv, TypeOK
<1>2. loc[p].todo \ {m} = {}
  <2>1. loc[p].todo \ {m} # {} => Advance(loc[p], m).phase = "check"
    <3>1. [loc[p] EXCEPT !.phase = "check", !.todo = @ \ {m}, !.cur = 0, !.done = 0].phase = "check"
      BY <1>1 DEF LocType
    <3> QED
      BY <3>1 DEF Advance
  <2> QED
    BY <2>1
<1>3. ASSUME loc[p].kind = "run", NEW x \in Migrations PROVE rows'[x] > 0
  BY <1>1, <1>2, <1>3 DEF CallInv, RunInv
<1>4. ASSUME loc[p].kind = "rollback", NEW x \in loc[p].plan PROVE x \in Migrations /\ rows'[x] = 0
  <2>1. x \in Migrations
    BY <1>1 DEF LocType
  <2> QED
    BY <1>1, <1>2, <1>4, <2>1 DEF CallInv, RollbackInv
<1> QED
  BY <1>3, <1>4 DEF applied

(***************************************************************************)
(* With nobody else calling, a run that returns Ok has applied everything, *)
(* and a rollback has undone its plan; whatever calls died before, no      *)
(* migration is recorded twice.                                            *)
(***************************************************************************)
THEOREM CallsAreComplete ==
    {"run", "rollback"} \subseteq Alone => (Spec => CallsComplete)
<1> SUFFICES ASSUME {"run", "rollback"} \subseteq Alone PROVE Spec => CallsComplete
  OBVIOUS
<1>1. Init => AloneInv
  BY InitIInv DEF Init, AloneInv, Active, Idle
<1>2. AloneInv /\ [Next]_vars => AloneInv'
  BY AloneStep
<1>3. ASSUME AloneInv, AloneInv', Next, NEW p \in Proc, Returns(p)
      PROVE  /\ loc[p].kind = "run" => applied' = Migrations
             /\ loc[p].kind = "rollback" => applied' \intersect loc[p].plan = {}
             /\ \A m \in Migrations : rows'[m] <= 1
  <2>1. Active(p) /\ loc'[p].phase = "idle" /\ faults' = faults /\ loc'[p] # loc[p]
    BY <1>3 DEF Returns, Active
  <2>2. loc[p] \in LocType /\ loc \in [Proc -> LocType] /\ rows \in [Migrations -> Nat]
    BY <1>3 DEF AloneInv, IInv, TypeOK
  <2>3. Step(p)
    <3>1. PICK q \in Proc :
              /\ \A r \in Proc \ {q} : loc'[r] = loc[r]
              /\ \/ Step(q) \/ Interrupt(q)
                 \/ (\A r \in Proc : ~Active(r)) /\ rows' = rows /\ loc'[q].phase # "ops"
      BY <1>3, OneMoves DEF AloneInv, IInv
    <3>2. ~Interrupt(q)
      BY <1>3, <2>1 DEF Interrupt, AloneInv, IInv, TypeOK
    <3> QED
      BY <2>1, <3>1, <3>2
  <2>4. CASE CreateLedger(p)
    <3>1. [loc[p] EXCEPT !.phase = "check"].phase = "check"
      BY <2>2 DEF LocType
    <3>2. Migrations = {} /\ loc[p].kind = "run"
      BY <1>3, <2>1, <2>2, <2>4, <3>1 DEF CreateLedger, AloneInv, IInv, CallInv, KindInv
    <3> QED
      BY <1>3, <3>2 DEF applied
  <2>5. CASE Check(p)
    <3>1. PICK m \in Migrations : IsNext(loc[p], m) /\ loc' = [loc EXCEPT ![p] =
                IF ~ledger THEN Fail(@)
                ELSE IF (rows[m] > 0) = (@.kind = "run") THEN Advance(@, m)
                ELSE [@ EXCEPT !.phase = "ops", !.cur = m]]
      BY <2>5 DEF Check
    <3> DEFINE l == [loc[p] EXCEPT !.phase = "ops", !.cur = m]
               f == Fail(loc[p])
    <3>2. \/ loc'[p] = f \/ loc'[p] = l
          \/ loc'[p] = Advance(loc[p], m) /\ (rows[m] > 0) = (loc[p].kind = "run")
      BY <2>2, <3>1
    <3>3. f.phase = "failed" /\ l.phase = "ops"
      BY <2>2 DEF Fail, LocType
    <3> HIDE DEF l, f
    <3>4. loc'[p] = Advance(loc[p], m) /\ (rows[m] > 0) = (loc[p].kind = "run")
      BY <2>1, <3>2, <3>3
    <3>5. rows' = rows /\ rows[m] \in Nat
      BY <2>2, <2>5 DEF Check
    <3>6. (loc[p].kind = "run" => rows'[m] > 0) /\ (loc[p].kind = "rollback" => rows'[m] = 0)
      BY <3>4, <3>5
    <3> QED
      BY <1>3, <2>1, <3>4, <3>5, <3>6, LastDone DEF AloneInv
  <2>6. CASE Operation(p)
    <3> DEFINE l == [loc[p] EXCEPT !.done = @ + 1]
               f == Fail(loc[p])
    <3>1. (loc'[p] = f \/ loc'[p] = l) /\ loc[p].phase = "ops"
      BY <2>2, <2>6 DEF Operation
    <3>2. f.phase = "failed" /\ l.phase = loc[p].phase
      BY <2>2 DEF Fail, LocType
    <3> HIDE DEF l, f
    <3> QED
      BY <2>1, <3>1, <3>2
  <2>7. CASE MarkApplied(p)
    <3>1. /\ loc[p].cur \in Migrations
          /\ rows' = [m \in Migrations |-> IF m = loc[p].cur THEN rows[m] + 1 ELSE rows[m]]
      BY <1>3, <2>7, MarkIsApply DEF AloneInv
    <3>2. loc'[p] = Advance(loc[p], loc[p].cur) /\ loc[p].kind = "run"
      BY <2>2, <2>7 DEF MarkApplied, OperationsDone
    <3>3. rows'[loc[p].cur] > 0 /\ \A x \in Migrations \ {loc[p].cur} : rows'[x] = rows[x]
      BY <2>2, <3>1
    <3> QED
      BY <1>3, <2>1, <3>1, <3>2, <3>3, LastDone DEF AloneInv
  <2>8. CASE Recheck(p)
    <3>1. IsNext(loc[p], loc[p].cur) /\ loc[p].kind = "rollback" /\ rows' = rows
      BY <1>3, <2>8 DEF Recheck, OperationsDone, AloneInv, IInv, CallInv, CurrentInv
    <3>2. loc[p].cur \in Migrations
      BY <2>2, <3>1 DEF IsNext, LocType
    <3>3. [loc[p] EXCEPT !.phase = "unmark"].phase = "unmark"
      BY <2>2 DEF LocType
    <3>4. loc'[p] = Advance(loc[p], loc[p].cur) /\ ~(rows[loc[p].cur] > 0)
      BY <2>1, <2>2, <2>8, <3>3 DEF Recheck
    <3>5. rows'[loc[p].cur] = 0
      BY <2>2, <3>1, <3>2, <3>4
    <3> QED
      BY <1>3, <2>1, <3>1, <3>2, <3>4, <3>5, LastDone DEF AloneInv
  <2>9. CASE MarkUnapplied(p)
    <3>1. /\ loc[p].cur \in Migrations
          /\ rows' = [m \in Migrations |-> IF m = loc[p].cur THEN 0 ELSE rows[m]]
      BY <1>3, <2>9, UnmarkIsUnapply DEF AloneInv
    <3>2. loc'[p] = Advance(loc[p], loc[p].cur) /\ loc[p].kind = "rollback"
      BY <1>3, <2>2, <2>9 DEF MarkUnapplied, AloneInv, IInv, CallInv, KindInv
    <3> QED
      BY <1>3, <2>1, <3>1, <3>2, LastDone DEF AloneInv
  <2> QED
    BY <2>3, <2>4, <2>5, <2>6, <2>7, <2>8, <2>9 DEF Step
<1>4. AloneInv /\ AloneInv' /\ [Next]_vars =>
        [\A p \in Proc : Returns(p) =>
            /\ loc[p].kind = "run" => applied' = Migrations
            /\ loc[p].kind = "rollback" => applied' \intersect loc[p].plan = {}
            /\ \A m \in Migrations : rows'[m] <= 1]_vars
  BY <1>3
<1> QED
  BY <1>1, <1>2, <1>4, PTL DEF Spec, CallsComplete

(***************************************************************************)
(* The schema.  After is the database after each of the migrations when    *)
(* all are executed in order, Full(m) what it is after each operation of m. *)
(***************************************************************************)
DbOk(d) ==
    d \in [tables : [Table -> (SUBSET Fields) \union {Absent}], calls : [Custom -> Int]]

After   == ReplayOf(Migrations)
Full(m) == Performed(After[m - 1], m)

View(d, o) ==
    CASE o.kind = "table"    -> d.tables[o.name]
      [] o.kind = "presence" -> Exists(d, o.name)
      [] o.kind = "column"   -> Exists(d, o.name) /\ o.column \in d.tables[o.name]
      [] o.kind = "code"     -> d.calls[o.name]

Things ==
    {Whole(t) : t \in Table} \union {Presence(t) : t \in Table}
        \union {Column(t, f) : t \in Table, f \in Fields} \union {Code(c) : c \in Custom}

\* Of the migrations that change o those up to i are recorded, and no other.
UpTo(o, R, i) == \A n \in Migrations : o \in Changed(n) => (n \in R <=> n <= i)

\* The database is the one that R describes, looked at thing by thing: the
\* migrations of R that change one are the first of those that do.
Agrees(d, R) == \A o \in Things, i \in 0 .. N : UpTo(o, R, i) => View(d, o) = View(After[i], o)

\* It is that, but for k operations of m.
Between(d, R, m, k) ==
    \A o \in Things :
        /\ o \in Changed(m) => View(d, o) = View(Full(m)[k], o)
        /\ o \notin Changed(m) => \A i \in 0 .. N : UpTo(o, R, i) => View(d, o) = View(After[i], o)

Sendable ==
    {st \in [kind : {"create", "drop", "add", "remove", "call", "uncall"}, table : Table \union Custom,
             fields : SUBSET Fields, ifNotExists : BOOLEAN, reversible : BOOLEAN] :
        st.table \in IF st.kind \in {"call", "uncall"} THEN Custom ELSE Table}

\* Operations can be sent both ways, and change the same things either way.
LEMMA OperationShape ==
    ASSUME NEW m \in Migrations, NEW k \in 1 .. Len(Ops[m])
    PROVE  /\ Ops[m][k] \in Operations /\ Ops[m][k] \in Sendable /\ Backwards(Ops[m][k]) \in Sendable
           /\ Backwards(Ops[m][k]).table = Ops[m][k].table /\ Backwards(Ops[m][k]).fields = Ops[m][k].fields
           /\ Writes(Backwards(Ops[m][k])) = Writes(Ops[m][k])
           /\ Writes(Ops[m][k]) \subseteq Changed(m)
           /\ Reads(Ops[m][k]) \union Reads(Backwards(Ops[m][k])) \subseteq Used(m)
<1>. DEFINE op == Ops[m][k]
            b == Backwards(op)
<1>1. op \in Operations /\ k \in DOMAIN Ops[m]
  BY OpsAssumption
<1>2. op \in Sendable
  BY <1>1 DEF Operations, Sendable
<1>3. /\ b.table = op.table /\ b.fields = op.fields /\ b.ifNotExists = FALSE /\ b.reversible = op.reversible
      /\ b = [kind |-> b.kind, table |-> b.table, fields |-> b.fields, ifNotExists |-> b.ifNotExists,
              reversible |-> b.reversible]
      /\ op.kind = "create" => b.kind = "drop"
      /\ op.kind = "drop" => b.kind = "create"
      /\ op.kind = "add" => b.kind = "remove"
      /\ op.kind = "remove" => b.kind = "add"
      /\ op.kind = "call" => b.kind = "uncall"
  <2>. DEFINE inverse == [create |-> "drop", drop |-> "create", add |-> "remove",
                          remove |-> "add", call |-> "uncall"]
              other == inverse[op.kind]
  <2>1. b = [op EXCEPT !.kind = other, !.ifNotExists = FALSE]
    BY DEF Backwards
  <2>2. /\ op.kind = "create" => other = "drop"
        /\ op.kind = "drop" => other = "create"
        /\ op.kind = "add" => other = "remove"
        /\ op.kind = "remove" => other = "add"
        /\ op.kind = "call" => other = "uncall"
    OBVIOUS
  <2>. HIDE DEF other
  <2>3. op = [kind |-> op.kind, table |-> op.table, fields |-> op.fields, ifNotExists |-> op.ifNotExists,
              reversible |-> op.reversible]
    BY <1>1 DEF Operations
  <2>. HIDE DEF op
  <2>4. b = [kind |-> other, table |-> op.table, fields |-> op.fields, ifNotExists |-> FALSE,
             reversible |-> op.reversible]
    BY <2>1, <2>3
  <2>. HIDE DEF b
  <2>. QED BY <2>2, <2>4
<1>4. b \in Sendable
  BY <1>1, <1>3 DEF Operations, Sendable
<1>5. Writes(b) = Writes(op)
  <2>1. op.kind \in {"create", "drop", "add", "remove", "call"}
    BY <1>1 DEF Operations
  <2>. HIDE DEF b, op
  <2>2. /\ b.kind \in {"call", "uncall"} <=> op.kind \in {"call", "uncall"}
        /\ b.kind \in {"create", "drop"} <=> op.kind \in {"create", "drop"}
    BY <1>3, <2>1
  <2>. QED BY <1>3, <2>2 DEF Writes
<1>6. Writes(op) \subseteq Changed(m) /\ Reads(op) \union Reads(b) \subseteq Used(m)
  BY <1>1 DEF Changed, Used
<1>. QED BY <1>1, <1>2, <1>3, <1>4, <1>5, <1>6

\* The things, and what is seen of each.
LEMMA ThingShapes ==
    /\ \A t : Whole(t).kind = "table" /\ Whole(t).name = t
    /\ \A t : Presence(t).kind = "presence" /\ Presence(t).name = t
    /\ \A t, f : Column(t, f).kind = "column" /\ Column(t, f).name = t /\ Column(t, f).column = f
    /\ \A c : Code(c).kind = "code" /\ Code(c).name = c
BY DEF Whole, Presence, Column, Code

LEMMA Views ==
    ASSUME NEW d
    PROVE  /\ \A t : View(d, Whole(t)) = d.tables[t]
           /\ \A t : View(d, Presence(t)) = Exists(d, t)
           /\ \A t, f : View(d, Column(t, f)) = (Exists(d, t) /\ f \in d.tables[t])
           /\ \A c : View(d, Code(c)) = d.calls[c]
BY ThingShapes DEF View

\* Statements write and read things that there are.
LEMMA WhatIsWritten ==
    ASSUME NEW st \in Sendable
    PROVE  /\ Writes(st) \subseteq Things /\ Reads(st) \subseteq Things
           /\ st.kind \in {"call", "uncall"} => st.table \in Custom /\ Writes(st) = {Code(st.table)}
           /\ st.kind \notin {"call", "uncall"} =>
                 /\ st.table \in Table /\ Whole(st.table) \in Writes(st)
                 /\ \A f \in st.fields : Column(st.table, f) \in Writes(st)
                 /\ st.kind \in {"create", "drop"} => Presence(st.table) \in Writes(st)
<1>1. st.fields \subseteq Fields
  BY DEF Sendable
<1>2. st.kind \in {"call", "uncall"} => st.table \in Custom
  BY DEF Sendable
<1>3. st.kind \notin {"call", "uncall"} => st.table \in Table
  BY DEF Sendable
<1>4. Writes(st) \subseteq Things
  BY <1>1, <1>2, <1>3 DEF Writes, Things
<1>5. Reads(st) \subseteq Things
  BY OpsAssumption DEF Reads, Things
<1>. QED BY <1>2, <1>3, <1>4, <1>5 DEF Writes

\* A statement that is accepted leaves tables with columns, and numbers.
LEMMA ExecuteType ==
    ASSUME NEW d, DbOk(d), NEW st \in Sendable, Accepts(d, st)
    PROVE  DbOk(Execute(d, st))
<1>1. d.tables \in [Table -> (SUBSET Fields) \union {Absent}] /\ d.calls \in [Custom -> Int]
      /\ d = [tables |-> d.tables, calls |-> d.calls]
  BY DEF DbOk
<1>2. CASE st.kind \in {"call", "uncall"}
  <2>1. st.table \in Custom /\ MaxCalls \in Nat
    BY <1>2, BoundsAssumption DEF Sendable
  <2>2. \E x \in Int : Execute(d, st) = [d EXCEPT !.calls[st.table] = x]
    <3>1. d.calls[st.table] \in Int
      BY <1>1, <2>1
    <3>2. CASE st.kind = "call"
      <4>. DEFINE x == IF d.calls[st.table] < MaxCalls THEN d.calls[st.table] + 1 ELSE d.calls[st.table]
      <4>1. x \in Int
        BY <3>1
      <4>2. Execute(d, st) = [d EXCEPT !.calls[st.table] = x]
        BY <3>2 DEF Execute
      <4>. HIDE DEF x
      <4>. QED BY <4>1, <4>2
    <3>3. CASE st.kind = "uncall"
      <4>. DEFINE x == IF d.calls[st.table] > -MaxCalls THEN d.calls[st.table] - 1 ELSE d.calls[st.table]
      <4>1. x \in Int
        BY <3>1
      <4>2. Execute(d, st) = [d EXCEPT !.calls[st.table] = x]
        BY <3>3 DEF Execute
      <4>. HIDE DEF x
      <4>. QED BY <4>1, <4>2
    <3>. QED BY <1>2, <3>2, <3>3
  <2>. QED BY <1>1, <2>1, <2>2 DEF DbOk
<1>3. CASE st.kind \notin {"call", "uncall"}
  <2>1. st.table \in Table /\ st.fields \in SUBSET Fields
    BY <1>3 DEF Sendable
  <2>2. st.kind \in {"create", "drop", "add", "remove"}
    BY <1>3 DEF Sendable
  <2>3. \/ Execute(d, st) = d
        \/ \E x \in (SUBSET Fields) \union {Absent} : Execute(d, st) = [d EXCEPT !.tables[st.table] = x]
    <3>1. CASE st.kind = "create"
      BY <2>1, <3>1 DEF Execute
    <3>2. CASE st.kind = "drop"
      BY <2>1, <3>2 DEF Execute
    <3>3. CASE st.kind \in {"add", "remove"}
      <4>1. d.tables[st.table] \in SUBSET Fields
        BY <1>1, <2>1, <3>3 DEF Accepts, Exists
      <4>2. CASE st.kind = "add"
        <5>1. d.tables[st.table] \union st.fields \in SUBSET Fields
          BY <2>1, <4>1
        <5>. QED BY <4>2, <5>1 DEF Execute
      <4>3. CASE st.kind = "remove"
        <5>1. d.tables[st.table] \ st.fields \in SUBSET Fields
          BY <2>1, <4>1
        <5>. QED BY <4>3, <5>1 DEF Execute
      <4>. QED BY <3>3, <4>2, <4>3
    <3>. QED BY <2>2, <3>1, <3>2, <3>3
  <2>. QED BY <1>1, <2>1, <2>3 DEF DbOk
<1>. QED BY <1>2, <1>3

\* What a statement does to tables and code.
LEMMA ExecuteChanges ==
    ASSUME NEW d, DbOk(d), NEW st \in Sendable
    PROVE  /\ \A t \in Table : t # st.table \/ st.kind \in {"call", "uncall"} =>
                  Execute(d, st).tables[t] = d.tables[t]
           /\ \A c \in Custom : c # st.table \/ st.kind \notin {"call", "uncall"} =>
                  Execute(d, st).calls[c] = d.calls[c]
           /\ st.kind = "create" => Execute(d, st).tables[st.table] =
                  IF Exists(d, st.table) THEN d.tables[st.table] ELSE st.fields
           /\ st.kind = "drop" => Execute(d, st).tables[st.table] = Absent
           /\ st.kind = "add" => Execute(d, st).tables[st.table] = d.tables[st.table] \union st.fields
           /\ st.kind = "remove" => Execute(d, st).tables[st.table] = d.tables[st.table] \ st.fields
           /\ st.kind = "call" => Execute(d, st).calls[st.table] =
                  IF d.calls[st.table] < MaxCalls THEN d.calls[st.table] + 1 ELSE d.calls[st.table]
           /\ st.kind = "uncall" => Execute(d, st).calls[st.table] =
                  IF d.calls[st.table] > -MaxCalls THEN d.calls[st.table] - 1 ELSE d.calls[st.table]
<1>1. d.tables \in [Table -> (SUBSET Fields) \union {Absent}] /\ d.calls \in [Custom -> Int]
      /\ d = [tables |-> d.tables, calls |-> d.calls]
  BY DEF DbOk
<1>2. ASSUME NEW t \in Table, NEW x, NEW e, e = [d EXCEPT !.tables[t] = x]
      PROVE  /\ e.tables[t] = x /\ \A u \in Table : u # t => e.tables[u] = d.tables[u]
             /\ \A c \in Custom : e.calls[c] = d.calls[c]
  BY <1>1, <1>2
<1>3. /\ st.kind \in {"create", "drop", "add", "remove", "call", "uncall"}
      /\ st.kind \in {"call", "uncall"} => st.table \in Custom
      /\ st.kind \notin {"call", "uncall"} => st.table \in Table
  BY DEF Sendable
<1>4. CASE st.kind = "create" /\ Exists(d, st.table)
  BY <1>3, <1>4 DEF Execute
<1>5. CASE st.kind = "create" /\ ~Exists(d, st.table)
  <2>. DEFINE e == Execute(d, st)
              x == st.fields
  <2>1. e = [d EXCEPT !.tables[st.table] = x]
    BY <1>5 DEF Execute
  <2>2. st.table \in Table /\ st.kind = "create"
    BY <1>3, <1>5
  <2>. HIDE DEF e, x
  <2>3. /\ e.tables[st.table] = x /\ \A u \in Table : u # st.table => e.tables[u] = d.tables[u]
        /\ \A c \in Custom : e.calls[c] = d.calls[c]
    BY <1>1, <2>1, <2>2
  <2>4. e = Execute(d, st) /\ x = st.fields
    BY DEF e, x
  <2>. QED BY <1>5, <2>2, <2>3, <2>4
<1>6. CASE st.kind = "drop"
  <2>1. Execute(d, st) = [d EXCEPT !.tables[st.table] = Absent]
    BY <1>6 DEF Execute
  <2>. QED BY <1>2, <1>3, <1>6, <2>1
<1>7. CASE st.kind = "add"
  <2>. DEFINE e == Execute(d, st)
              x == d.tables[st.table] \union st.fields
  <2>1. e = [d EXCEPT !.tables[st.table] = x]
    BY <1>7 DEF Execute
  <2>2. st.table \in Table /\ st.kind = "add"
    BY <1>3, <1>7
  <2>. HIDE DEF e, x
  <2>3. /\ e.tables[st.table] = x /\ \A u \in Table : u # st.table => e.tables[u] = d.tables[u]
        /\ \A c \in Custom : e.calls[c] = d.calls[c]
    BY <1>1, <2>1, <2>2
  <2>4. e = Execute(d, st) /\ x = d.tables[st.table] \union st.fields
    BY DEF e, x
  <2>. QED BY <1>7, <2>2, <2>3, <2>4
<1>8. CASE st.kind = "remove"
  <2>. DEFINE e == Execute(d, st)
              x == d.tables[st.table] \ st.fields
  <2>1. e = [d EXCEPT !.tables[st.table] = x]
    BY <1>8 DEF Execute
  <2>2. st.table \in Table /\ st.kind = "remove"
    BY <1>3, <1>8
  <2>. HIDE DEF e, x
  <2>3. /\ e.tables[st.table] = x /\ \A u \in Table : u # st.table => e.tables[u] = d.tables[u]
        /\ \A c \in Custom : e.calls[c] = d.calls[c]
    BY <1>1, <2>1, <2>2
  <2>4. e = Execute(d, st) /\ x = d.tables[st.table] \ st.fields
    BY DEF e, x
  <2>. QED BY <1>8, <2>2, <2>3, <2>4
<1>9. CASE st.kind = "call"
  <2>. DEFINE e == Execute(d, st)
              x == IF d.calls[st.table] < MaxCalls THEN d.calls[st.table] + 1 ELSE d.calls[st.table]
  <2>1. e = [d EXCEPT !.calls[st.table] = x] /\ st.table \in Custom
    BY <1>3, <1>9 DEF Execute
  <2>. HIDE DEF e, x
  <2>2. /\ e.calls[st.table] = x /\ \A b \in Custom : b # st.table => e.calls[b] = d.calls[b]
        /\ \A t \in Table : e.tables[t] = d.tables[t]
    <3>1. e = [tables |-> d.tables, calls |-> [d.calls EXCEPT ![st.table] = x]]
      BY <1>1, <2>1
    <3>2. e.tables = d.tables /\ e.calls = [d.calls EXCEPT ![st.table] = x]
      BY <3>1
    <3>. QED BY <1>1, <2>1, <3>2
  <2>3. Execute(d, st).calls[st.table] =
           IF d.calls[st.table] < MaxCalls THEN d.calls[st.table] + 1 ELSE d.calls[st.table]
    BY <2>2 DEF e, x
  <2>4. /\ \A b \in Custom : b # st.table => Execute(d, st).calls[b] = d.calls[b]
        /\ \A t \in Table : Execute(d, st).tables[t] = d.tables[t]
    BY <2>2 DEF e
  <2>5. /\ st.kind # "create" /\ st.kind # "drop" /\ st.kind # "add" /\ st.kind # "remove"
        /\ st.kind # "uncall" /\ st.kind \in {"call", "uncall"}
    BY <1>9
  <2>. QED BY <2>3, <2>4, <2>5, Zenon
<1>10. CASE st.kind = "uncall"
  <2>. DEFINE e == Execute(d, st)
              x == IF d.calls[st.table] > -MaxCalls THEN d.calls[st.table] - 1 ELSE d.calls[st.table]
  <2>1. e = [d EXCEPT !.calls[st.table] = x] /\ st.table \in Custom
    BY <1>3, <1>10 DEF Execute
  <2>. HIDE DEF e, x
  <2>2. /\ e.calls[st.table] = x /\ \A b \in Custom : b # st.table => e.calls[b] = d.calls[b]
        /\ \A t \in Table : e.tables[t] = d.tables[t]
    <3>1. e = [tables |-> d.tables, calls |-> [d.calls EXCEPT ![st.table] = x]]
      BY <1>1, <2>1
    <3>2. e.tables = d.tables /\ e.calls = [d.calls EXCEPT ![st.table] = x]
      BY <3>1
    <3>. QED BY <1>1, <2>1, <3>2
  <2>3. Execute(d, st).calls[st.table] =
           IF d.calls[st.table] > -MaxCalls THEN d.calls[st.table] - 1 ELSE d.calls[st.table]
    BY <2>2 DEF e, x
  <2>4. /\ \A b \in Custom : b # st.table => Execute(d, st).calls[b] = d.calls[b]
        /\ \A t \in Table : Execute(d, st).tables[t] = d.tables[t]
    BY <2>2 DEF e
  <2>5. /\ st.kind # "create" /\ st.kind # "drop" /\ st.kind # "add" /\ st.kind # "remove"
        /\ st.kind # "call" /\ st.kind \in {"call", "uncall"}
    BY <1>10
  <2>. QED BY <2>3, <2>4, <2>5, Zenon
<1>. QED BY <1>3, <1>4, <1>5, <1>6, <1>7, <1>8, <1>9, <1>10

\* Nothing else changes; the columns that go with a table are those it says.
LEMMA Untouched ==
    ASSUME NEW d, DbOk(d), NEW st \in Sendable, Accepts(d, st),
           st.kind = "drop" => d.tables[st.table] = st.fields,
           NEW o \in Things, o \notin Writes(st)
    PROVE  View(Execute(d, st), o) = View(d, o)
<1>. DEFINE e == Execute(d, st)
<1>1. /\ st.kind \in {"create", "drop", "add", "remove", "call", "uncall"}
      /\ st.kind \in {"call", "uncall"} => st.table \in Custom /\ Writes(st) = {Code(st.table)}
      /\ st.kind \notin {"call", "uncall"} =>
            /\ st.table \in Table /\ Whole(st.table) \in Writes(st)
            /\ \A f \in st.fields : Column(st.table, f) \in Writes(st)
            /\ st.kind \in {"create", "drop"} => Presence(st.table) \in Writes(st)
  BY WhatIsWritten DEF Sendable
<1>2. ASSUME NEW t \in Table, t # st.table \/ st.kind \in {"call", "uncall"}
      PROVE  e.tables[t] = d.tables[t]
  BY <1>2, ExecuteChanges
<1>3. ASSUME NEW t \in Table, Presence(t) \notin Writes(st) PROVE Exists(e, t) = Exists(d, t)
  <2>1. CASE t # st.table \/ st.kind \in {"call", "uncall"}
    BY <1>2, <2>1 DEF Exists
  <2>2. CASE t = st.table /\ st.kind \in {"add", "remove"}
    <3>1. d.tables[t] \in SUBSET Fields /\ Exists(d, t) /\ st.fields \in SUBSET Fields
      BY <2>2 DEF Accepts, DbOk, Exists, Sendable
    <3>2. e.tables[t] = d.tables[t] \union st.fields \/ e.tables[t] = d.tables[t] \ st.fields
      BY <2>2, ExecuteChanges
    <3>3. e.tables[t] \in SUBSET Fields
      BY <3>1, <3>2
    <3>. QED BY <3>1, <3>3, OpsAssumption DEF Exists
  <2>. QED BY <1>1, <1>3, <2>1, <2>2
<1>4. ASSUME NEW t \in Table, NEW f \in Fields, Column(t, f) \notin Writes(st)
      PROVE  (Exists(e, t) /\ f \in e.tables[t]) = (Exists(d, t) /\ f \in d.tables[t])
  <2>1. CASE t # st.table \/ st.kind \in {"call", "uncall"}
    BY <1>2, <2>1 DEF Exists
  <2>2. CASE t = st.table /\ st.kind \in {"add", "remove"}
    <3>1. f \notin st.fields
      BY <1>1, <1>4, <2>2
    <3>2. e.tables[t] = d.tables[t] \union st.fields \/ e.tables[t] = d.tables[t] \ st.fields
      BY <2>2, ExecuteChanges
    <3>3. Presence(t) \notin Writes(st)
      BY <2>2 DEF Writes, Whole, Presence, Column
    <3>. QED BY <1>3, <3>1, <3>2, <3>3
  <2>3. CASE t = st.table /\ st.kind = "create"
    <3>1. f \notin st.fields
      BY <1>1, <1>4, <2>3
    <3>2. e.tables[t] = IF Exists(d, t) THEN d.tables[t] ELSE st.fields
      BY <2>3, ExecuteChanges
    <3>. QED BY <3>1, <3>2 DEF Exists
  <2>4. CASE t = st.table /\ st.kind = "drop"
    <3>1. f \notin st.fields
      BY <1>1, <1>4, <2>4
    <3>2. e.tables[t] = Absent /\ d.tables[t] = st.fields
      BY <2>4, ExecuteChanges
    <3>. QED BY <3>1, <3>2 DEF Exists
  <2>. QED BY <1>1, <2>1, <2>2, <2>3, <2>4
<1>. HIDE DEF e
<1>5. CASE \E t \in Table : o = Whole(t)
  <2>1. PICK t \in Table : o = Whole(t)
    BY <1>5
  <2>2. t # st.table \/ st.kind \in {"call", "uncall"}
    BY <1>1, <2>1
  <2>. QED BY <1>2, <2>1, <2>2, Views DEF e
<1>6. CASE \E t \in Table : o = Presence(t)
  <2>1. PICK t \in Table : o = Presence(t)
    BY <1>6
  <2>2. Exists(e, t) = Exists(d, t)
    BY <1>3, <2>1
  <2>3. View(e, o) = Exists(e, t) /\ View(d, o) = Exists(d, t)
    BY <2>1, Views
  <2>. QED BY <2>2, <2>3 DEF e
<1>7. CASE \E t \in Table, f \in Fields : o = Column(t, f)
  BY <1>4, <1>7, Views DEF e
<1>8. CASE \E c \in Custom : o = Code(c)
  <2>1. PICK c \in Custom : o = Code(c)
    BY <1>8
  <2>2. c # st.table \/ st.kind \notin {"call", "uncall"}
    BY <1>1, <2>1
  <2>3. e.calls[c] = d.calls[c]
    BY <2>2, ExecuteChanges DEF e
  <2>. QED BY <2>1, <2>3, Views DEF e
<1>. QED BY <1>5, <1>6, <1>7, <1>8 DEF Things

\* Databases in which it finds the same accept it or refuse it.
LEMMA AcceptsSame ==
    ASSUME NEW d, NEW e, NEW st \in Sendable,
           \A o \in Writes(st) \union Reads(st) : View(d, o) = View(e, o)
    PROVE  Accepts(d, st) = Accepts(e, st)
<1>1. /\ st.kind \in {"create", "drop", "add", "remove", "call", "uncall"}
      /\ st.kind \notin {"call", "uncall"} => Whole(st.table) \in Writes(st)
  BY WhatIsWritten DEF Sendable
<1>2. st.kind \notin {"call", "uncall"} =>
        d.tables[st.table] = e.tables[st.table] /\ Exists(d, st.table) = Exists(e, st.table)
  BY <1>1, Views DEF Exists
<1>3. st.kind \in {"create", "add"} => ReferencesOk(d, st.table, st.fields) = ReferencesOk(e, st.table, st.fields)
  <2>. SUFFICES ASSUME st.kind \in {"create", "add"}
                PROVE  ReferencesOk(d, st.table, st.fields) = ReferencesOk(e, st.table, st.fields)
    OBVIOUS
  <2>1. ASSUME NEW fk \in ForeignKeys, fk[1] = st.table, fk[2] \in st.fields
        PROVE  fk[3] = st.table \/ Exists(d, fk[3]) = Exists(e, fk[3])
    <3>1. fk[3] # st.table => Presence(fk[3]) \in Reads(st)
      BY <2>1 DEF Reads
    <3>2. View(d, Presence(fk[3])) = Exists(d, fk[3]) /\ View(e, Presence(fk[3])) = Exists(e, fk[3])
      BY Views
    <3>3. fk[3] # st.table => View(d, Presence(fk[3])) = View(e, Presence(fk[3]))
      BY <3>1
    <3>. QED BY <3>2, <3>3
  <2>. QED BY <2>1 DEF ReferencesOk
<1>4. st.kind = "drop" => Unreferenced(d, st.table) = Unreferenced(e, st.table)
  <2>. SUFFICES ASSUME st.kind = "drop" PROVE Unreferenced(d, st.table) = Unreferenced(e, st.table)
    OBVIOUS
  <2>1. ASSUME NEW fk \in ForeignKeys, fk[3] = st.table, fk[1] # st.table
        PROVE  (Exists(d, fk[1]) /\ fk[2] \in d.tables[fk[1]]) = (Exists(e, fk[1]) /\ fk[2] \in e.tables[fk[1]])
    <3>1. Column(fk[1], fk[2]) \in Reads(st)
      BY <2>1 DEF Reads
    <3>. QED BY <3>1, Views
  <2>. QED BY <2>1 DEF Unreferenced
<1>. QED BY <1>1, <1>2, <1>3, <1>4 DEF Accepts

\* And it does the same there.
LEMMA ExecutesSame ==
    ASSUME NEW d, NEW e, DbOk(d), DbOk(e), NEW st \in Sendable,
           \A o \in Writes(st) : View(d, o) = View(e, o), NEW o \in Writes(st)
    PROVE  View(Execute(d, st), o) = View(Execute(e, st), o)
<1>1. CASE st.kind \in {"call", "uncall"}
  <2>1. st.table \in Custom /\ o = Code(st.table)
    BY <1>1, WhatIsWritten
  <2>2. d.calls[st.table] = e.calls[st.table]
    BY <2>1, Views
  <2>3. Execute(d, st).calls[st.table] = Execute(e, st).calls[st.table]
    BY <1>1, <2>2, ExecuteChanges
  <2>. QED BY <2>1, <2>3, Views
<1>2. CASE st.kind \notin {"call", "uncall"}
  <2>1. Whole(st.table) \in Writes(st)
    BY <1>2, WhatIsWritten
  <2>2. d.tables[st.table] = e.tables[st.table] /\ Exists(d, st.table) = Exists(e, st.table)
    BY <2>1, Views DEF Exists
  <2>3. Execute(d, st).tables[st.table] = Execute(e, st).tables[st.table]
    <3>1. st.kind \in {"create", "drop", "add", "remove"}
      BY <1>2 DEF Sendable
    <3>2. CASE st.kind = "create"
      BY <2>2, <3>2, ExecuteChanges
    <3>3. CASE st.kind = "drop"
      BY <2>2, <3>3, ExecuteChanges
    <3>4. CASE st.kind = "add"
      <4>1. /\ Execute(d, st).tables[st.table] = d.tables[st.table] \union st.fields
            /\ Execute(e, st).tables[st.table] = e.tables[st.table] \union st.fields
        BY <3>4, ExecuteChanges
      <4>. QED BY <2>2, <4>1
    <3>5. CASE st.kind = "remove"
      <4>1. /\ Execute(d, st).tables[st.table] = d.tables[st.table] \ st.fields
            /\ Execute(e, st).tables[st.table] = e.tables[st.table] \ st.fields
        BY <3>5, ExecuteChanges
      <4>. QED BY <2>2, <4>1
    <3>. QED BY <3>1, <3>2, <3>3, <3>4, <3>5
  <2>4. Exists(Execute(d, st), st.table) = Exists(Execute(e, st), st.table)
    BY <2>3 DEF Exists
  <2>5. o = Whole(st.table) \/ o = Presence(st.table) \/ \E f \in st.fields : o = Column(st.table, f)
    BY <1>2 DEF Writes
  <2>. QED BY <2>3, <2>4, <2>5, Views
<1>. QED BY <1>1, <1>2

(***************************************************************************)
(* Numbers, and the functions that recur over them: the run of the         *)
(* operations of a migration, and the replay of migrations.                *)
(***************************************************************************)
LEMMA LeastNumber ==
    ASSUME NEW S \in SUBSET Nat, S # {}
    PROVE  \E m \in S : \A k \in S : m <= k
<1>. DEFINE R == {ss \in Nat \X Nat : ss[1] < ss[2]}
<1>1. IsWellFoundedOn(R, Nat)
  BY NatLessThanWellFounded DEF OpToRel
<1>. HIDE DEF R
<1>2. PICK m \in S : \A k \in S : ~(<<k, m>> \in R)
  BY <1>1, WFMin
<1>3. ASSUME NEW k \in S, k < m PROVE FALSE
  <2>1. <<k, m>> \in R
    BY <1>3 DEF R
  <2>. QED BY <1>2, <2>1
<1>. QED BY <1>3

\* What holds at first and from one to the next holds up to the last.
LEMMA UpTheNumbers ==
    ASSUME NEW n \in Nat, NEW S, 0 \in S, \A k \in 0 .. n - 1 : k \in S => k + 1 \in S
    PROVE  \A k \in 0 .. n : k \in S
<1>1. SUFFICES ASSUME {k \in 0 .. n : k \notin S} # {} PROVE FALSE
  OBVIOUS
<1>2. {k \in 0 .. n : k \notin S} \in SUBSET Nat
  OBVIOUS
<1>3. PICK k \in {j \in 0 .. n : j \notin S} : \A j \in {i \in 0 .. n : i \notin S} : k <= j
  BY <1>1, <1>2, LeastNumber
<1>4. k # 0 /\ k \in 0 .. n
  BY <1>3
<1>5. k - 1 \in 0 .. n - 1 /\ k - 1 \in S /\ (k - 1) + 1 = k
  BY <1>3, <1>4
<1>. QED BY <1>3, <1>5

\* The recursive functions exist: there is one up to every number.
LEMMA PerformedUnrolls ==
    ASSUME NEW before, NEW m \in Migrations
    PROVE  /\ Performed(before, m)[0] = before
           /\ \A k \in 1 .. Len(Ops[m]) : Performed(before, m)[k] = Execute(Performed(before, m)[k - 1], Ops[m][k])
<1>. DEFINE Body(g, k) == IF k = 0 THEN before ELSE Execute(g[k - 1], Ops[m][k])
            P(n) == \E g : g = [k \in 0 .. n |-> Body(g, k)]
            last == Len(Ops[m])
            run == CHOOSE g : g = [k \in 0 .. last |-> Body(g, k)]
            S == {n \in Nat : P(n)}
<1>1. P(0)
  <2>. DEFINE g == [k \in 0 .. 0 |-> before]
  <2>1. g = [k \in 0 .. 0 |-> Body(g, k)]
    OBVIOUS
  <2>. QED BY <2>1
<1>2. ASSUME NEW n \in Nat, P(n) PROVE P(n + 1)
  <2>1. PICK g : g = [k \in 0 .. n |-> Body(g, k)]
    BY <1>2
  <2>. DEFINE h == [k \in 0 .. n + 1 |-> IF k = n + 1 THEN Execute(g[n], Ops[m][n + 1]) ELSE g[k]]
  <2>2. ASSUME NEW k \in 0 .. n + 1 PROVE h[k] = Body(h, k)
    <3>1. CASE k = n + 1
      BY <3>1
    <3>2. CASE k # n + 1
      <4>1. k \in 0 .. n /\ h[k] = g[k] /\ (k # 0 => k - 1 \in 0 .. n /\ h[k - 1] = g[k - 1])
        BY <3>2
      <4>2. g[k] = Body(g, k)
        BY <2>1, <4>1
      <4>. QED BY <4>1, <4>2
    <3>. QED BY <3>1, <3>2
  <2>3. h = [k \in 0 .. n + 1 |-> h[k]]
    OBVIOUS
  <2>. HIDE DEF h
  <2>4. h = [k \in 0 .. n + 1 |-> Body(h, k)]
    BY <2>2, <2>3
  <2>. QED BY <2>4
<1>. HIDE DEF P
<1>3. last \in Nat
  BY OpsAssumption
<1>4. last \in S
  <2>1. 0 \in S /\ \A k \in 0 .. last - 1 : k \in S => k + 1 \in S
    BY <1>1, <1>2
  <2>. HIDE DEF S, last
  <2>2. \A k \in 0 .. last : k \in S
    BY <1>3, <2>1, UpTheNumbers
  <2>. QED BY <1>3, <2>2
<1>5. run = [k \in 0 .. last |-> Body(run, k)]
  BY <1>4 DEF P
<1>6. Performed(before, m) = run
  BY DEF Performed
<1>. HIDE DEF run
<1>7. run[0] = before /\ \A k \in 1 .. last : run[k] = Execute(run[k - 1], Ops[m][k])
  BY <1>3, <1>5
<1>. QED BY <1>6, <1>7

LEMMA ReplayUnrolls ==
    ASSUME NEW R
    PROVE  /\ ReplayOf(R)[0] = EmptyDb
           /\ \A m \in 1 .. N : ReplayOf(R)[m] = IF m \in R THEN Performed(ReplayOf(R)[m - 1], m)[Len(Ops[m])]
                                                 ELSE ReplayOf(R)[m - 1]
<1>. DEFINE Body(g, m) == IF m = 0 THEN EmptyDb
                          ELSE IF m \in R THEN Performed(g[m - 1], m)[Len(Ops[m])] ELSE g[m - 1]
            P(n) == \E g : g = [m \in 0 .. n |-> Body(g, m)]
            after == CHOOSE g : g = [m \in 0 .. N |-> Body(g, m)]
            S == {n \in Nat : P(n)}
<1>1. P(0)
  <2>. DEFINE g == [m \in 0 .. 0 |-> EmptyDb]
  <2>1. g = [m \in 0 .. 0 |-> Body(g, m)]
    OBVIOUS
  <2>. QED BY <2>1
<1>2. ASSUME NEW n \in Nat, P(n) PROVE P(n + 1)
  <2>1. PICK g : g = [m \in 0 .. n |-> Body(g, m)]
    BY <1>2
  <2>. DEFINE new == IF n + 1 \in R THEN Performed(g[n], n + 1)[Len(Ops[n + 1])] ELSE g[n]
              h == [m \in 0 .. n + 1 |-> IF m = n + 1 THEN new ELSE g[m]]
  <2>2. ASSUME NEW m \in 0 .. n + 1 PROVE h[m] = Body(h, m)
    <3>1. CASE m = n + 1
      <4>1. m # 0 /\ m - 1 = n /\ h[m] = new /\ h[n] = g[n]
        BY <3>1
      <4>. QED BY <3>1, <4>1
    <3>2. CASE m # n + 1
      <4>1. m \in 0 .. n /\ h[m] = g[m] /\ (m # 0 => m - 1 \in 0 .. n /\ h[m - 1] = g[m - 1])
        BY <3>2
      <4>2. g[m] = Body(g, m)
        BY <2>1, <4>1
      <4>. QED BY <4>1, <4>2
    <3>. QED BY <3>1, <3>2
  <2>3. h = [m \in 0 .. n + 1 |-> h[m]]
    OBVIOUS
  <2>. HIDE DEF h
  <2>4. h = [m \in 0 .. n + 1 |-> Body(h, m)]
    BY <2>2, <2>3
  <2>. QED BY <2>4
<1>. HIDE DEF P
<1>3. N \in S
  <2>1. 0 \in S /\ \A k \in 0 .. N - 1 : k \in S => k + 1 \in S
    BY <1>1, <1>2
  <2>. HIDE DEF S
  <2>2. \A k \in 0 .. N : k \in S
    BY <2>1, UpTheNumbers, SizeAssumption
  <2>. QED BY <2>2, SizeAssumption
<1>4. after = [m \in 0 .. N |-> Body(after, m)]
  BY <1>3 DEF P
<1>5. ReplayOf(R) = after
  BY DEF ReplayOf
<1>. HIDE DEF after
<1>6. after[0] = EmptyDb /\ \A m \in 1 .. N :
        after[m] = IF m \in R THEN Performed(after[m - 1], m)[Len(Ops[m])] ELSE after[m - 1]
  BY <1>4, SizeAssumption
<1>. QED BY <1>5, <1>6

\* The one history of all migrations, step by step.
HistoryOk ==
    /\ After[0] = EmptyDb
    /\ \A m \in 0 .. N : DbOk(After[m])
    /\ \A m \in Migrations :
          /\ Len(Ops[m]) \in Nat
          /\ Full(m)[0] = After[m - 1] /\ Full(m)[Len(Ops[m])] = After[m]
          /\ \A k \in 0 .. Len(Ops[m]) : DbOk(Full(m)[k])
          /\ \A k \in 1 .. Len(Ops[m]) :
                /\ Full(m)[k] = Execute(Full(m)[k - 1], Ops[m][k])
                /\ Full(m)[k - 1] = Execute(Full(m)[k], Backwards(Ops[m][k]))
                /\ Accepts(Full(m)[k - 1], Ops[m][k]) /\ Accepts(Full(m)[k], Backwards(Ops[m][k]))

LEMMA HistoryFacts == CleanHistory => HistoryOk
<1>. SUFFICES ASSUME CleanHistory PROVE HistoryOk
  OBVIOUS
<1>1. After[0] = EmptyDb /\ \A m \in Migrations : After[m] = Full(m)[Len(Ops[m])]
  BY ReplayUnrolls DEF After, Full, Migrations
<1>2. ASSUME NEW m \in Migrations
      PROVE  /\ Len(Ops[m]) \in Nat /\ Full(m)[0] = After[m - 1]
             /\ \A k \in 1 .. Len(Ops[m]) :
                   /\ Full(m)[k] = Execute(Full(m)[k - 1], Ops[m][k])
                   /\ Full(m)[k - 1] = Execute(Full(m)[k], Backwards(Ops[m][k]))
                   /\ Accepts(Full(m)[k - 1], Ops[m][k]) /\ Accepts(Full(m)[k], Backwards(Ops[m][k]))
  <2>1. Len(Ops[m]) \in Nat
    BY OpsAssumption
  <2>2. /\ Full(m)[0] = After[m - 1]
        /\ \A k \in 1 .. Len(Ops[m]) : Full(m)[k] = Execute(Full(m)[k - 1], Ops[m][k])
    BY PerformedUnrolls DEF Full
  <2>3. \A k \in 1 .. Len(Ops[m]) :
            /\ Accepts(Full(m)[k - 1], Ops[m][k])
            /\ Accepts(Full(m)[k], Backwards(Ops[m][k]))
            /\ Execute(Full(m)[k], Backwards(Ops[m][k])) = Full(m)[k - 1]
    BY DEF CleanHistory, Full, After
  <2>. QED BY <2>1, <2>2, <2>3
<1>3. ASSUME NEW m \in Migrations, DbOk(After[m - 1]) PROVE \A k \in 0 .. Len(Ops[m]) : DbOk(Full(m)[k])
  <2>. DEFINE S == {k \in 0 .. Len(Ops[m]) : DbOk(Full(m)[k])}
  <2>1. 0 \in S
    BY <1>2, <1>3
  <2>2. ASSUME NEW k \in 0 .. Len(Ops[m]) - 1, k \in S PROVE k + 1 \in S
    <3>1. k + 1 \in 1 .. Len(Ops[m]) /\ (k + 1) - 1 = k
      BY <1>2
    <3>2. DbOk(Full(m)[k]) /\ Accepts(Full(m)[k], Ops[m][k + 1])
            /\ Full(m)[k + 1] = Execute(Full(m)[k], Ops[m][k + 1])
      BY <1>2, <2>2, <3>1
    <3>3. DbOk(Full(m)[k + 1])
      BY <3>1, <3>2, ExecuteType, OperationShape
    <3>. QED BY <3>1, <3>3
  <2>. HIDE DEF S
  <2>3. \A k \in 0 .. Len(Ops[m]) : k \in S
    BY <1>2, <2>1, <2>2, UpTheNumbers
  <2>. QED BY <2>3 DEF S
<1>4. \A m \in 0 .. N : DbOk(After[m])
  <2>. DEFINE S == {m \in 0 .. N : DbOk(After[m])}
  <2>1. 0 \in S
    BY <1>1, SizeAssumption DEF EmptyDb, DbOk
  <2>2. ASSUME NEW m \in 0 .. N - 1, m \in S PROVE m + 1 \in S
    <3>1. m + 1 \in Migrations /\ (m + 1) - 1 = m /\ m + 1 \in 0 .. N
      BY SizeAssumption DEF Migrations
    <3>2. DbOk(Full(m + 1)[Len(Ops[m + 1])])
      <4>1. DbOk(After[m]) /\ Len(Ops[m + 1]) \in 0 .. Len(Ops[m + 1])
        BY <1>2, <2>2, <3>1
      <4>. QED BY <1>3, <3>1, <4>1
    <3>. QED BY <1>1, <3>1, <3>2
  <2>. HIDE DEF S
  <2>3. \A m \in 0 .. N : m \in S
    BY <2>1, <2>2, UpTheNumbers, SizeAssumption
  <2>. QED BY <2>3 DEF S
<1>5. \A m \in Migrations : m - 1 \in 0 .. N
  BY SizeAssumption DEF Migrations
<1>. QED BY <1>1, <1>2, <1>3, <1>4, <1>5 DEF HistoryOk

\* A table that is dropped, or created and dropped again, has the columns
\* that the operation says.
LEMMA DropsWhole ==
    ASSUME CleanHistory, NEW m \in Migrations, NEW k \in 1 .. Len(Ops[m])
    PROVE  /\ Ops[m][k].kind = "drop" => Full(m)[k - 1].tables[Ops[m][k].table] = Ops[m][k].fields
           /\ Backwards(Ops[m][k]).kind = "drop" => Full(m)[k].tables[Ops[m][k].table] = Ops[m][k].fields
<1>. DEFINE op == Ops[m][k]
            b == Backwards(op)
            before == Full(m)[k - 1]
            after == Full(m)[k]
<1>1. k \in 0 .. Len(Ops[m]) /\ k - 1 \in 0 .. Len(Ops[m])
  BY OpsAssumption
<1>2. /\ DbOk(before) /\ DbOk(after) /\ Accepts(before, op) /\ Accepts(after, b)
      /\ after = Execute(before, op) /\ before = Execute(after, b)
  BY <1>1, HistoryFacts DEF HistoryOk
<1>3. /\ op \in Sendable /\ b \in Sendable /\ b.table = op.table /\ b.fields = op.fields
      /\ (op.kind = "drop" => b.kind = "create") /\ (b.kind = "drop" => op.kind = "create")
  <2>1. op \in Operations
    BY OperationShape
  <2>2. /\ op.kind \in {"create", "drop", "add", "remove", "call"}
        /\ b.kind = [create |-> "drop", drop |-> "create", add |-> "remove",
                     remove |-> "add", call |-> "uncall"][op.kind]
    BY <2>1 DEF Operations, Backwards
  <2>. QED BY <2>2, OperationShape
<1>. HIDE DEF op, b, before, after
<1>4. op.kind = "drop" => before.tables[op.table] = op.fields
  <2>. SUFFICES ASSUME op.kind = "drop" PROVE before.tables[op.table] = op.fields
    OBVIOUS
  <2>1. after.tables[op.table] = Absent
    BY <1>2, <1>3, ExecuteChanges
  <2>2. before.tables[op.table] = IF Exists(after, op.table) THEN after.tables[op.table] ELSE op.fields
    BY <1>2, <1>3, ExecuteChanges
  <2>. QED BY <2>1, <2>2 DEF Exists
<1>5. b.kind = "drop" => after.tables[op.table] = op.fields
  <2>. SUFFICES ASSUME b.kind = "drop" PROVE after.tables[op.table] = op.fields
    OBVIOUS
  <2>1. before.tables[op.table] = Absent
    BY <1>2, <1>3, ExecuteChanges
  <2>2. after.tables[op.table] = IF Exists(before, op.table) THEN before.tables[op.table] ELSE op.fields
    BY <1>2, <1>3, ExecuteChanges
  <2>. QED BY <2>1, <2>2 DEF Exists
<1>. QED BY <1>4, <1>5 DEF op, b, before, after

\* What a migration does not change is as before all the while.
LEMMA StaysWithin ==
    ASSUME CleanHistory, NEW m \in Migrations, NEW o \in Things, o \notin Changed(m)
    PROVE  \A k \in 0 .. Len(Ops[m]) : View(Full(m)[k], o) = View(After[m - 1], o)
<1>. DEFINE S == {k \in 0 .. Len(Ops[m]) : View(Full(m)[k], o) = View(After[m - 1], o)}
<1>1. Len(Ops[m]) \in Nat /\ Full(m)[0] = After[m - 1]
  BY HistoryFacts DEF HistoryOk
<1>2. 0 \in S
  BY <1>1
<1>3. ASSUME NEW k \in 0 .. Len(Ops[m]) - 1, k \in S PROVE k + 1 \in S
  <2>1. k + 1 \in 1 .. Len(Ops[m]) /\ (k + 1) - 1 = k /\ k \in 0 .. Len(Ops[m])
    BY <1>1
  <2>2. DbOk(Full(m)[k]) /\ Accepts(Full(m)[k], Ops[m][k + 1]) /\ Full(m)[k + 1] = Execute(Full(m)[k], Ops[m][k + 1])
    BY <2>1, HistoryFacts DEF HistoryOk
  <2>3. Ops[m][k + 1].kind = "drop" => Full(m)[k].tables[Ops[m][k + 1].table] = Ops[m][k + 1].fields
    BY <2>1, DropsWhole
  <2>4. Ops[m][k + 1] \in Sendable /\ o \notin Writes(Ops[m][k + 1])
    BY <2>1, OperationShape
  <2>5. View(Full(m)[k + 1], o) = View(Full(m)[k], o)
    BY <2>2, <2>3, <2>4, Untouched
  <2>. QED BY <1>3, <2>1, <2>5
<1>. HIDE DEF S
<1>4. \A k \in 0 .. Len(Ops[m]) : k \in S
  BY <1>1, <1>2, <1>3, UpTheNumbers
<1>. QED BY <1>4 DEF S

\* Nor do migrations that do not change it.
LEMMA StaysBetween ==
    ASSUME CleanHistory, NEW o \in Things, NEW i \in 0 .. N, NEW j \in i .. N,
           \A n \in Migrations : i < n /\ n <= j => o \notin Changed(n)
    PROVE  View(After[j], o) = View(After[i], o)
<1>. DEFINE S == {k \in 0 .. j - i : View(After[i + k], o) = View(After[i], o)}
<1>1. i \in Nat /\ j \in Nat /\ j - i \in Nat /\ N \in Nat /\ j <= N
  BY SizeAssumption
<1>2. 0 \in S
  BY <1>1
<1>3. ASSUME NEW k \in 0 .. (j - i) - 1, k \in S PROVE k + 1 \in S
  <2>. DEFINE m == i + (k + 1)
  <2>1. m \in Migrations /\ m - 1 = i + k /\ k + 1 \in 0 .. j - i /\ i < m /\ m <= j
    BY <1>1 DEF Migrations
  <2>2. Len(Ops[m]) \in 0 .. Len(Ops[m]) /\ After[m] = Full(m)[Len(Ops[m])]
    BY <2>1, HistoryFacts DEF HistoryOk
  <2>. HIDE DEF m
  <2>3. View(After[m], o) = View(After[m - 1], o)
    BY <2>1, <2>2, StaysWithin
  <2>. QED BY <1>3, <2>1, <2>3 DEF m
<1>. HIDE DEF S
<1>4. \A k \in 0 .. j - i : k \in S
  BY <1>1, <1>2, <1>3, UpTheNumbers
<1>5. j - i \in S /\ i + (j - i) = j
  BY <1>1, <1>4
<1>. QED BY <1>5 DEF S

(***************************************************************************)
(* The recorded migrations, and the one that is worked on.  Since those    *)
(* that touch one thing are linked, the recorded ones that change it are   *)
(* the first of those that do: an index of the history tells what it is.   *)
(***************************************************************************)
LEMMA LargestNumber ==
    ASSUME NEW n \in Nat, NEW S \in SUBSET (0 .. n), S # {}
    PROVE  \E m \in S : \A k \in S : k <= m
<1>. DEFINE T == {n - k : k \in S}
<1>1. T \in SUBSET Nat /\ T # {}
  <2>1. \A k \in S : k \in 0 .. n /\ n - k \in Nat
    OBVIOUS
  <2>. QED BY <2>1
<1>2. PICK t \in T : \A u \in T : t <= u
  BY <1>1, LeastNumber
<1>3. PICK m \in S : t = n - m
  BY <1>2
<1>4. ASSUME NEW k \in S PROVE k <= m
  <2>1. n - m <= n - k
    BY <1>2, <1>3
  <2>. QED BY <2>1
<1>. QED BY <1>4

\* Recorded are those whose dependencies are; so with one more, or one less.
Standing(R) == R \subseteq Migrations /\ \A e \in Deps : e[2] \in R => e[1] \in R

Beside(R, m) == m \in Migrations /\ m \notin R /\ Standing(R) /\ Standing(R \union {m})

\* What is recorded has what it follows recorded.
LEMMA FollowedStand ==
    ASSUME NEW R, Standing(R), NEW n \in R, NEW m \in Migrations, Follows(n, m)
    PROVE  m \in R
<1>1. DependentsClosed(Migrations \ R)
  BY DepsAssumption DEF DependentsClosed, Standing
<1>2. m \in Migrations \ R => n \in Migrations \ R
  BY <1>1 DEF Follows
<1>. QED BY <1>2

\* Those that change what m changes or uses come before it and are recorded,
\* or after it and are not.
LEMMA Around ==
    ASSUME Linked, NEW R, NEW m, Beside(R, m), NEW o, o \in Changed(m) \union Used(m),
           NEW n \in Migrations, o \in Changed(n), n # m
    PROVE  n \in R <=> n < m
<1>1. m \in Migrations /\ m \notin R /\ Standing(R) /\ Standing(R \union {m})
  BY DEF Beside
<1>2. n < m \/ m < n
  BY <1>1, SizeAssumption DEF Migrations
<1>3. CASE n < m
  <2>1. Follows(m, n)
    BY <1>1, <1>3 DEF Linked
  <2>2. n \in R \union {m}
    BY <1>1, <2>1, FollowedStand
  <2>. QED BY <1>3, <2>2
<1>4. CASE m < n
  <2>1. Follows(n, m)
    BY <1>1, <1>4 DEF Linked
  <2>2. n \notin R
    BY <1>1, <2>1, FollowedStand
  <2>. QED BY <1>1, <1>4, <2>2, SizeAssumption DEF Migrations
<1>. QED BY <1>2, <1>3, <1>4

\* There is an index for every thing.
LEMMA Positions ==
    ASSUME Linked, NEW R, Standing(R), NEW o
    PROVE  \E i \in 0 .. N : UpTo(o, R, i)
<1>. DEFINE T == {n \in R : o \in Changed(n)}
<1>1. T \in SUBSET (0 .. N) /\ T \subseteq Migrations
  <2>1. \A n \in T : n \in Migrations
    BY DEF Standing
  <2>2. \A n \in Migrations : n \in 0 .. N
    BY SizeAssumption DEF Migrations
  <2>. QED BY <2>1, <2>2
<1>2. CASE T = {}
  <2>1. UpTo(o, R, 0)
    BY <1>2 DEF UpTo, Migrations
  <2>. QED BY <2>1, SizeAssumption
<1>3. CASE T # {}
  <2>1. PICK i \in T : \A n \in T : n <= i
    BY <1>1, <1>3, LargestNumber, SizeAssumption
  <2>2. ASSUME NEW n \in Migrations, o \in Changed(n), n <= i PROVE n \in R
    <3>1. CASE n = i
      BY <3>1
    <3>2. CASE n # i
      <4>1. n < i /\ i \in Migrations
        BY <1>1, <2>2, <3>2, SizeAssumption DEF Migrations
      <4>2. Follows(i, n)
        BY <2>2, <4>1 DEF Linked
      <4>. QED BY <2>2, <4>2, FollowedStand
    <3>. QED BY <3>1, <3>2
  <2>3. UpTo(o, R, i)
    BY <2>1, <2>2 DEF UpTo
  <2>. QED BY <1>1, <2>3
<1>. QED BY <1>2, <1>3

LEMMA BesideFacts ==
    ASSUME NEW R, NEW m, Beside(R, m)
    PROVE  /\ m \in Migrations /\ m \in Int /\ m - 1 \in 0 .. N /\ m \in 0 .. N /\ N \in Nat
           /\ \A n \in Migrations : n \in Int /\ (n <= m - 1 <=> n < m) /\ (n <= m <=> n < m \/ n = m)
           /\ m \notin R
BY SizeAssumption DEF Beside, Migrations

\* Before m, one way or the other.
LEMMA BeforeOperations ==
    ASSUME CleanHistory, Linked, NEW R, NEW m, Beside(R, m), NEW d
    PROVE  Agrees(d, R) <=> Between(d, R, m, 0)
<1>1. Full(m)[0] = After[m - 1]
  BY BesideFacts, HistoryFacts DEF HistoryOk
<1>2. ASSUME NEW o \in Things, o \in Changed(m) PROVE UpTo(o, R, m - 1)
  BY <1>2, Around, BesideFacts DEF UpTo
<1>3. Agrees(d, R) => Between(d, R, m, 0)
  BY <1>1, <1>2, BesideFacts DEF Agrees, Between
<1>4. ASSUME Between(d, R, m, 0), NEW o \in Things, NEW i \in 0 .. N, UpTo(o, R, i)
      PROVE  View(d, o) = View(After[i], o)
  <2>1. CASE o \in Changed(m)
    <3>1. i <= m - 1
      BY <1>4, <2>1, BesideFacts DEF UpTo
    <3>2. \A n \in Migrations : i < n /\ n <= m - 1 => o \notin Changed(n)
      BY <1>2, <1>4, <2>1, BesideFacts DEF UpTo
    <3>3. View(After[m - 1], o) = View(After[i], o)
      BY <3>1, <3>2, StaysBetween, BesideFacts
    <3>. QED BY <1>1, <1>4, <2>1, <3>3 DEF Between
  <2>2. CASE o \notin Changed(m)
    BY <1>4, <2>2 DEF Between
  <2>. QED BY <2>1, <2>2
<1>. QED BY <1>3, <1>4 DEF Agrees

\* And after it.
LEMMA AfterOperations ==
    ASSUME CleanHistory, Linked, NEW R, NEW m, Beside(R, m), NEW d
    PROVE  Agrees(d, R \union {m}) <=> Between(d, R, m, Len(Ops[m]))
<1>1. Full(m)[Len(Ops[m])] = After[m]
  BY BesideFacts, HistoryFacts DEF HistoryOk
<1>2. ASSUME NEW o \in Things, o \in Changed(m) PROVE UpTo(o, R \union {m}, m)
  BY <1>2, Around, BesideFacts DEF UpTo
<1>3. ASSUME NEW o \in Things, o \notin Changed(m), NEW i \in 0 .. N
      PROVE  UpTo(o, R \union {m}, i) <=> UpTo(o, R, i)
  BY <1>3 DEF UpTo
<1>4. Agrees(d, R \union {m}) => Between(d, R, m, Len(Ops[m]))
  BY <1>1, <1>2, <1>3, BesideFacts DEF Agrees, Between
<1>5. ASSUME Between(d, R, m, Len(Ops[m])), NEW o \in Things, NEW i \in 0 .. N, UpTo(o, R \union {m}, i)
      PROVE  View(d, o) = View(After[i], o)
  <2>1. CASE o \in Changed(m)
    <3>1. m <= i
      BY <1>5, <2>1, BesideFacts DEF UpTo
    <3>2. \A n \in Migrations : m < n /\ n <= i => o \notin Changed(n)
      BY <1>2, <1>5, <2>1, BesideFacts DEF UpTo
    <3>3. View(After[i], o) = View(After[m], o)
      BY <3>1, <3>2, StaysBetween, BesideFacts
    <3>. QED BY <1>1, <1>5, <2>1, <3>3 DEF Between
  <2>2. CASE o \notin Changed(m)
    BY <1>3, <1>5, <2>2 DEF Between
  <2>. QED BY <2>1, <2>2
<1>. QED BY <1>4, <1>5 DEF Agrees

\* A statement of m that is next where the history is, is accepted and does
\* there what it does in the history.
LEMMA SendKeeps ==
    ASSUME CleanHistory, Linked, NEW R, NEW m, Beside(R, m), NEW d, DbOk(d),
           NEW k \in 0 .. Len(Ops[m]), NEW j \in 0 .. Len(Ops[m]), Between(d, R, m, k),
           NEW st \in Sendable, Writes(st) \subseteq Changed(m), Reads(st) \subseteq Used(m),
           Accepts(Full(m)[k], st), Full(m)[j] = Execute(Full(m)[k], st),
           st.kind = "drop" => Full(m)[k].tables[st.table] = st.fields
    PROVE  Accepts(d, st) /\ DbOk(Execute(d, st)) /\ Between(Execute(d, st), R, m, j)
<1>. DEFINE f == Full(m)[k]
<1>1. m \in Migrations /\ DbOk(f)
  BY BesideFacts, HistoryFacts DEF HistoryOk
<1>2. Writes(st) \subseteq Things /\ Reads(st) \subseteq Things
  BY WhatIsWritten
<1>3. ASSUME NEW o \in Writes(st) \union Reads(st) PROVE View(d, o) = View(f, o)
  <2>1. CASE o \in Changed(m)
    BY <1>2, <1>3, <2>1 DEF Between
  <2>2. CASE o \notin Changed(m)
    <3>1. o \in Used(m) /\ o \in Things
      BY <1>2, <1>3, <2>2
    <3>2. UpTo(o, R, m - 1)
      BY <2>2, <3>1, Around, BesideFacts DEF UpTo
    <3>3. View(d, o) = View(After[m - 1], o)
      BY <2>2, <3>1, <3>2, BesideFacts DEF Between
    <3>4. View(f, o) = View(After[m - 1], o)
      BY <1>1, <2>2, <3>1, StaysWithin
    <3>. QED BY <3>3, <3>4
  <2>. QED BY <2>1, <2>2
<1>. HIDE DEF f
<1>4. Accepts(d, st)
  BY <1>3, AcceptsSame DEF f
<1>5. st.kind = "drop" => d.tables[st.table] = st.fields
  <2>. SUFFICES ASSUME st.kind = "drop" PROVE d.tables[st.table] = st.fields
    OBVIOUS
  <2>1. Whole(st.table) \in Writes(st)
    BY WhatIsWritten
  <2>2. View(d, Whole(st.table)) = View(f, Whole(st.table))
    BY <1>3, <2>1
  <2>3. d.tables[st.table] = f.tables[st.table]
    BY <2>2, Views
  <2>. QED BY <2>3 DEF f
<1>6. ASSUME NEW o \in Writes(st) PROVE View(Execute(d, st), o) = View(Full(m)[j], o)
  <2>1. View(Execute(d, st), o) = View(Execute(f, st), o)
    BY <1>1, <1>3, ExecutesSame
  <2>. QED BY <2>1 DEF f
<1>7. ASSUME NEW o \in Things, o \notin Writes(st)
      PROVE  View(Execute(d, st), o) = View(d, o) /\ View(Full(m)[j], o) = View(f, o)
  <2>1. View(Execute(d, st), o) = View(d, o)
    BY <1>4, <1>5, <1>7, Untouched
  <2>2. View(Execute(f, st), o) = View(f, o)
    BY <1>1, <1>7, Untouched DEF f
  <2>. QED BY <2>1, <2>2 DEF f
<1>8. Between(Execute(d, st), R, m, j)
  <2>1. ASSUME NEW o \in Things, o \in Changed(m) PROVE View(Execute(d, st), o) = View(Full(m)[j], o)
    <3>1. View(d, o) = View(f, o)
      BY <2>1 DEF Between, f
    <3>. QED BY <1>6, <1>7, <2>1, <3>1
  <2>2. ASSUME NEW o \in Things, o \notin Changed(m), NEW i \in 0 .. N, UpTo(o, R, i)
        PROVE  View(Execute(d, st), o) = View(After[i], o)
    <3>1. View(Execute(d, st), o) = View(d, o)
      BY <1>7, <2>2
    <3>. QED BY <2>2, <3>1 DEF Between
  <2>. QED BY <2>1, <2>2 DEF Between
<1>. QED BY <1>4, <1>8, ExecuteType

\* An operation forwards; and one backwards.
LEMMA OneMore ==
    ASSUME CleanHistory, Linked, NEW R, NEW m, Beside(R, m), NEW d, DbOk(d),
           NEW k \in 1 .. Len(Ops[m]), Between(d, R, m, k - 1)
    PROVE  /\ Accepts(d, Ops[m][k]) /\ DbOk(Execute(d, Ops[m][k]))
           /\ Between(Execute(d, Ops[m][k]), R, m, k)
<1>1. m \in Migrations /\ k \in 0 .. Len(Ops[m]) /\ k - 1 \in 0 .. Len(Ops[m])
  BY BesideFacts, OpsAssumption
<1>2. Accepts(Full(m)[k - 1], Ops[m][k]) /\ Full(m)[k] = Execute(Full(m)[k - 1], Ops[m][k])
  BY <1>1, HistoryFacts DEF HistoryOk
<1>3. Ops[m][k].kind = "drop" => Full(m)[k - 1].tables[Ops[m][k].table] = Ops[m][k].fields
  BY <1>1, DropsWhole
<1>4. Ops[m][k] \in Sendable /\ Writes(Ops[m][k]) \subseteq Changed(m) /\ Reads(Ops[m][k]) \subseteq Used(m)
  BY <1>1, OperationShape
<1>. QED BY <1>1, <1>2, <1>3, <1>4, SendKeeps

LEMMA OneLess ==
    ASSUME CleanHistory, Linked, NEW R, NEW m, Beside(R, m), NEW d, DbOk(d),
           NEW k \in 1 .. Len(Ops[m]), Between(d, R, m, k)
    PROVE  /\ Accepts(d, Backwards(Ops[m][k])) /\ DbOk(Execute(d, Backwards(Ops[m][k])))
           /\ Between(Execute(d, Backwards(Ops[m][k])), R, m, k - 1)
<1>. DEFINE b == Backwards(Ops[m][k])
<1>1. m \in Migrations /\ k \in 0 .. Len(Ops[m]) /\ k - 1 \in 0 .. Len(Ops[m])
  BY BesideFacts, OpsAssumption
<1>2. Accepts(Full(m)[k], b) /\ Full(m)[k - 1] = Execute(Full(m)[k], b)
  BY <1>1, HistoryFacts DEF HistoryOk
<1>3. b \in Sendable /\ Writes(b) \subseteq Changed(m) /\ Reads(b) \subseteq Used(m)
  BY <1>1, OperationShape
<1>4. b.kind = "drop" => Full(m)[k].tables[b.table] = b.fields
  BY <1>1, DropsWhole, OperationShape
<1>. HIDE DEF b
<1>5. Accepts(d, b) /\ DbOk(Execute(d, b)) /\ Between(Execute(d, b), R, m, k - 1)
  BY <1>1, <1>2, <1>3, <1>4, SendKeeps
<1>. QED BY <1>5 DEF b

\* The database agrees with what is recorded in the beginning.
LEMMA EmptyAgrees ==
    ASSUME CleanHistory
    PROVE  DbOk(EmptyDb) /\ Agrees(EmptyDb, {})
<1>1. After[0] = EmptyDb /\ 0 \in 0 .. N /\ DbOk(EmptyDb)
  BY HistoryFacts, SizeAssumption DEF HistoryOk
<1>2. ASSUME NEW o \in Things, NEW i \in 0 .. N, UpTo(o, {}, i) PROVE View(EmptyDb, o) = View(After[i], o)
  <2>1. \A n \in Migrations : 0 < n /\ n <= i => o \notin Changed(n)
    BY <1>2 DEF UpTo
  <2>2. View(After[i], o) = View(After[0], o)
    BY <1>1, <1>2, <2>1, StaysBetween, SizeAssumption
  <2>. QED BY <1>1, <2>2
<1>. QED BY <1>1, <1>2 DEF Agrees

\* So does the database that is replayed.
LEMMA ReplayAgrees ==
    ASSUME CleanHistory, Linked, NEW R, Standing(R)
    PROVE  DbOk(ReplayOf(R)[N]) /\ Agrees(ReplayOf(R)[N], R)
<1>. DEFINE First(j) == {n \in R : n <= j}
            S == {j \in 0 .. N : DbOk(ReplayOf(R)[j]) /\ Agrees(ReplayOf(R)[j], First(j))}
<1>1. 0 \in S
  <2>1. \A n \in R : ~(n <= 0)
    BY SizeAssumption DEF Standing, Migrations
  <2>2. First(0) = {}
    BY <2>1
  <2>3. ReplayOf(R)[0] = EmptyDb /\ 0 \in 0 .. N
    BY ReplayUnrolls, SizeAssumption
  <2>. HIDE DEF First
  <2>. QED BY <2>2, <2>3, EmptyAgrees
<1>2. ASSUME NEW j \in 0 .. N - 1, j \in S PROVE j + 1 \in S
  <2>. DEFINE m == j + 1
              F == First(j)
  <2>1. m \in Migrations /\ m \in 1 .. N /\ m - 1 = j /\ m \in 0 .. N
    BY SizeAssumption DEF Migrations
  <2>2. DbOk(ReplayOf(R)[m - 1]) /\ Agrees(ReplayOf(R)[m - 1], F)
    BY <1>2, <2>1
  <2>3. \A n \in R : n \in Migrations /\ (n <= m <=> n <= j \/ n = m) /\ (n <= j => n # m)
    BY SizeAssumption DEF Standing, Migrations
  <2>4. ReplayOf(R)[m] = IF m \in R THEN Performed(ReplayOf(R)[m - 1], m)[Len(Ops[m])] ELSE ReplayOf(R)[m - 1]
    BY <2>1, ReplayUnrolls
  <2>5. CASE m \notin R
    <3>1. First(m) = F
      BY <2>3, <2>5
    <3>. QED BY <2>1, <2>2, <2>4, <2>5, <3>1
  <2>6. CASE m \in R
    <3>1. First(m) = F \union {m} /\ m \notin F
      BY <2>3, <2>6
    <3>2. Beside(F, m)
      <4>1. \A e \in Deps : e[1] \in Migrations /\ e[2] \in Migrations /\ e[1] < e[2]
        BY DepsAssumption
      <4>2. \A e \in Deps : e[2] <= j => e[1] <= j
        BY <4>1, SizeAssumption DEF Migrations
      <4>3. \A e \in Deps : e[2] = m => e[1] <= j
        BY <4>1, SizeAssumption DEF Migrations
      <4>. QED BY <2>1, <3>1, <4>2, <4>3 DEF Beside, Standing
    <3>. DEFINE run == Performed(ReplayOf(R)[m - 1], m)
                last == Len(Ops[m])
                T == {k \in 0 .. last : DbOk(run[k]) /\ Between(run[k], F, m, k)}
    <3>3. /\ last \in Nat /\ run[0] = ReplayOf(R)[m - 1]
          /\ \A k \in 1 .. last : run[k] = Execute(run[k - 1], Ops[m][k])
      BY <2>1, OpsAssumption, PerformedUnrolls
    <3>. HIDE DEF m, F, run
    <3>4. 0 \in T
      BY <2>2, <3>2, <3>3, BeforeOperations
    <3>5. ASSUME NEW k \in 0 .. last - 1, k \in T PROVE k + 1 \in T
      <4>1. k + 1 \in 1 .. last /\ (k + 1) - 1 = k /\ k + 1 \in 0 .. last
        BY <3>3
      <4>2. run[k + 1] = Execute(run[k], Ops[m][k + 1])
        BY <3>3, <4>1
      <4>3. DbOk(run[k]) /\ Between(run[k], F, m, (k + 1) - 1)
        BY <3>5, <4>1
      <4>4. DbOk(Execute(run[k], Ops[m][k + 1])) /\ Between(Execute(run[k], Ops[m][k + 1]), F, m, k + 1)
        BY <3>2, <4>1, <4>3, OneMore
      <4>. QED BY <4>1, <4>2, <4>4
    <3>. HIDE DEF T
    <3>6. \A k \in 0 .. last : k \in T
      BY <3>3, <3>4, <3>5, UpTheNumbers
    <3>7. DbOk(run[last]) /\ Between(run[last], F, m, last)
      BY <3>3, <3>6 DEF T
    <3>8. Agrees(run[last], F \union {m})
      BY <3>2, <3>7, AfterOperations
    <3>9. DbOk(ReplayOf(R)[m]) /\ Agrees(ReplayOf(R)[m], First(m))
      BY <2>4, <2>6, <3>1, <3>7, <3>8 DEF run
    <3>. QED BY <2>1, <3>9 DEF m
  <2>. QED BY <2>5, <2>6
<1>3. First(N) = R
  <2>1. \A n \in R : n <= N
    BY SizeAssumption DEF Standing, Migrations
  <2>. QED BY <2>1
<1>. HIDE DEF S
<1>4. \A j \in 0 .. N : j \in S
  BY <1>1, <1>2, UpTheNumbers, SizeAssumption
<1>5. N \in S
  BY <1>4, SizeAssumption
<1>. QED BY <1>3, <1>5 DEF S

\* Only one database agrees with a set of migrations.
LEMMA OneAgrees ==
    ASSUME Linked, NEW R, Standing(R), NEW d, NEW e, DbOk(d), DbOk(e), Agrees(d, R), Agrees(e, R)
    PROVE  d = e
<1>1. ASSUME NEW o \in Things PROVE View(d, o) = View(e, o)
  <2>1. PICK i \in 0 .. N : UpTo(o, R, i)
    BY Positions
  <2>. QED BY <2>1 DEF Agrees
<1>2. ASSUME NEW t \in Table PROVE d.tables[t] = e.tables[t]
  <2>1. Whole(t) \in Things
    BY DEF Things
  <2>. QED BY <1>1, <2>1, Views
<1>3. ASSUME NEW c \in Custom PROVE d.calls[c] = e.calls[c]
  <2>1. Code(c) \in Things
    BY DEF Things
  <2>. QED BY <1>1, <2>1, Views
<1>4. /\ d.tables \in [Table -> (SUBSET Fields) \union {Absent}] /\ d.calls \in [Custom -> Int]
      /\ d = [tables |-> d.tables, calls |-> d.calls]
  BY DEF DbOk
<1>5. /\ e.tables \in [Table -> (SUBSET Fields) \union {Absent}] /\ e.calls \in [Custom -> Int]
      /\ e = [tables |-> e.tables, calls |-> e.calls]
  BY DEF DbOk
<1>6. d.tables = e.tables /\ d.calls = e.calls
  BY <1>2, <1>3, <1>4, <1>5
<1>. QED BY <1>4, <1>5, <1>6

(***************************************************************************)
(* The inductive invariant of calls that run alone and are not interrupted. *)
(* Between two calls the database agrees with the recorded migrations; in  *)
(* the middle of a migration it agrees with them but for the operations    *)
(* that are done, or are still to be undone.                               *)
(***************************************************************************)
Left(l) == IF l.kind = "run" THEN l.done ELSE Len(Ops[l.cur]) - l.done

PlaceInv(p) ==
    /\ loc[p].phase \in {"create", "check"} =>
          Agrees(db, applied) /\ loc[p].cur = 0 /\ loc[p].done = 0
    /\ loc[p].phase = "ops" =>
          /\ loc[p].done <= Len(Ops[loc[p].cur])
          /\ Between(db, applied \ {loc[p].cur}, loc[p].cur, Left(loc[p]))
    /\ loc[p].phase = "unmark" => Agrees(db, applied \ {loc[p].cur})
    /\ loc[p].phase \in {"ops", "unmark"} /\ loc[p].kind = "rollback" => rows[loc[p].cur] > 0
    /\ loc[p].phase = "failed" => loc[p].cur = 0

SchemaInv ==
    faults = 0 =>
        /\ DbOk(db)
        /\ \A p \in Proc : PlaceInv(p)
        /\ (\A p \in Proc : ~Active(p)) => Agrees(db, applied)

LEMMA AppliedStand == AloneInv => Standing(applied)
BY DEF AloneInv, IInv, DependenciesApplied, Standing, applied

\* The next migration that a call is to work on can be there or not: what it
\* depends on is recorded, and nothing that depends on it is.
LEMMA NextBeside ==
    ASSUME AloneInv, NEW p \in Proc, Active(p), NEW m \in Migrations, IsNext(loc[p], m),
           loc[p].kind = "run" => rows[m] = 0, loc[p].kind = "rollback" => rows[m] > 0
    PROVE  /\ Beside(applied \ {m}, m)
           /\ loc[p].kind = "run" => applied \ {m} = applied
           /\ loc[p].kind = "rollback" => (applied \ {m}) \union {m} = applied
<1>1. Standing(applied) /\ CallInv(p) /\ m \in loc[p].todo
  BY AppliedStand DEF AloneInv, IInv, IsNext
<1>2. \A e \in Deps : e[1] \in Migrations /\ e[2] \in Migrations /\ e[1] < e[2]
  BY DepsAssumption
<1>3. CASE loc[p].kind = "run"
  <2>1. m \notin applied
    BY <1>3, SizeAssumption DEF applied
  <2>2. ASSUME NEW e \in Deps, e[2] = m PROVE e[1] \in applied
    <3>1. e[1] \notin loc[p].todo
      BY <1>2, <1>3, <2>2, SizeAssumption DEF IsNext, Migrations
    <3>. QED BY <1>1, <1>2, <1>3, <3>1 DEF CallInv, RunInv, applied
  <2>3. applied \ {m} = applied
    BY <2>1
  <2>. QED BY <1>1, <1>3, <2>1, <2>2, <2>3 DEF Beside, Standing
<1>4. CASE loc[p].kind = "rollback"
  <2>1. m \in applied
    BY <1>4 DEF applied
  <2>2. ASSUME NEW e \in Deps, e[1] = m PROVE e[2] \notin applied
    <3>1. e[2] \in loc[p].plan
      BY <1>1, <1>4, <2>2 DEF CallInv, RollbackInv, DependentsClosed
    <3>2. e[2] \notin loc[p].todo
      BY <1>2, <1>4, <2>2, SizeAssumption DEF IsNext, Migrations
    <3>3. rows[e[2]] = 0
      BY <1>1, <1>4, <3>1, <3>2 DEF CallInv, RollbackInv
    <3>. QED BY <3>3 DEF applied
  <2>3. (applied \ {m}) \union {m} = applied
    BY <2>1
  <2>4. Standing(applied \ {m})
    BY <1>1, <2>2 DEF Standing
  <2>. QED BY <1>1, <1>4, <2>3, <2>4 DEF Beside
<1>. QED BY <1>3, <1>4 DEF AloneInv, IInv, CallInv, KindInv

\* A call that goes on starts the next migration from nothing.
LEMMA AdvancePlace ==
    ASSUME NEW l \in LocType, NEW m
    PROVE  \/ Advance(l, m).phase = "idle"
           \/ Advance(l, m).phase = "check" /\ Advance(l, m).cur = 0 /\ Advance(l, m).done = 0
<1>1. CASE l.todo \ {m} # {}
  <2>1. Advance(l, m) = [l EXCEPT !.phase = "check", !.todo = @ \ {m}, !.cur = 0, !.done = 0]
    BY <1>1 DEF Advance
  <2>. QED BY <2>1 DEF LocType
<1>. QED BY <1>1 DEF Advance, Idle

\* The invariant after a step of p is a matter of p: nobody else is active.
LEMMA PlaceOfOne ==
    ASSUME NEW p \in Proc, \A q \in Proc \ {p} : ~Active(q) /\ PlaceInv(q) /\ loc'[q] = loc[q],
           DbOk(db'), PlaceInv(p)', ~Active(p)' => Agrees(db', applied')
    PROVE  SchemaInv'
<1>1. ASSUME NEW q \in Proc \ {p} PROVE PlaceInv(q)'
  <2>1. loc'[q].phase \in {"idle", "failed"} /\ (loc'[q].phase = "failed" => loc'[q].cur = 0)
    BY <1>1 DEF Active, PlaceInv
  <2>. QED BY <2>1 DEF PlaceInv
<1>. QED BY <1>1 DEF SchemaInv

\* A call that goes on to the next migration, or returns.
LEMMA PlaceOfAdvance ==
    ASSUME NEW p \in Proc, NEW l \in LocType, NEW m, loc'[p] = Advance(l, m), Agrees(db', applied')
    PROVE  PlaceInv(p)'
<1>1. \/ loc'[p].phase = "idle"
      \/ loc'[p].phase = "check" /\ loc'[p].cur = 0 /\ loc'[p].done = 0
  BY AdvancePlace
<1>. QED BY <1>1 DEF PlaceInv

\* A call begins; it asks what is recorded; it executes an operation; it
\* records the migration, or forgets it.
LEMMA SchemaBegins ==
    ASSUME SchemaInv, TypeOK, faults = 0, NEW p \in Proc, \A q \in Proc : ~Active(q),
           UNCHANGED <<db, rows>>, NEW l, loc' = [loc EXCEPT ![p] = l],
           l.phase \in {"idle", "create", "check"}, l.cur = 0, l.done = 0
    PROVE  SchemaInv'
<1>1. loc'[p] = l /\ \A q \in Proc \ {p} : loc'[q] = loc[q]
  BY DEF TypeOK
<1>2. DbOk(db) /\ Agrees(db, applied) /\ \A q \in Proc : PlaceInv(q)
  BY DEF SchemaInv
<1>3. applied' = applied
  BY DEF applied
<1>4. PlaceInv(p)'
  BY <1>1, <1>2, <1>3 DEF PlaceInv
<1>. QED BY <1>1, <1>2, <1>3, <1>4, PlaceOfOne

LEMMA SchemaChecks ==
    ASSUME CleanHistory, Linked, AloneInv, SchemaInv, faults = 0, NEW p \in Proc, Check(p),
           \A q \in Proc \ {p} : ~Active(q) /\ loc'[q] = loc[q]
    PROVE  SchemaInv'
<1>1. loc[p] \in LocType /\ rows \in [Migrations -> Nat] /\ loc \in [Proc -> LocType] /\ Active(p)
  BY DEF AloneInv, IInv, TypeOK, Check, Active
<1>2. PICK m \in Migrations : IsNext(loc[p], m) /\ loc' = [loc EXCEPT ![p] =
              IF ~ledger THEN Fail(@)
              ELSE IF (rows[m] > 0) = (@.kind = "run") THEN Advance(@, m)
              ELSE [@ EXCEPT !.phase = "ops", !.cur = m]]
  BY DEF Check
<1>. DEFINE o == [loc[p] EXCEPT !.phase = "ops", !.cur = m]
            f == Fail(loc[p])
<1>3. \/ loc'[p] = f
      \/ loc'[p] = Advance(loc[p], m)
      \/ loc'[p] = o /\ (rows[m] > 0) # (loc[p].kind = "run")
  BY <1>1, <1>2
<1>4. /\ DbOk(db) /\ Agrees(db, applied) /\ (\A q \in Proc : PlaceInv(q))
      /\ loc[p].cur = 0 /\ loc[p].done = 0
  BY DEF SchemaInv, PlaceInv, Check
<1>5. db' = db /\ rows' = rows /\ applied' = applied
  BY DEF Check, applied
<1>6. /\ f.phase = "failed" /\ f.cur = 0
      /\ o.phase = "ops" /\ o.cur = m /\ o.done = 0 /\ o.kind = loc[p].kind
  BY <1>1, <1>4 DEF Fail, LocType
<1>. HIDE DEF o, f
<1>7. CASE loc'[p] = f
  BY <1>4, <1>5, <1>6, <1>7, PlaceOfOne DEF PlaceInv
<1>8. CASE loc'[p] = Advance(loc[p], m)
  <2>1. PlaceInv(p)'
    BY <1>1, <1>4, <1>5, <1>8, PlaceOfAdvance
  <2>. QED BY <1>4, <1>5, <2>1, PlaceOfOne
<1>9. CASE loc'[p] = o /\ (rows[m] > 0) # (loc[p].kind = "run")
  <2>1. loc[p].kind \in {"run", "rollback"}
    BY <1>1 DEF AloneInv, IInv, CallInv, KindInv
  <2>2. (loc[p].kind = "run" => rows[m] = 0) /\ (loc[p].kind = "rollback" => rows[m] > 0)
    BY <1>1, <1>9
  <2>3. /\ Beside(applied \ {m}, m)
        /\ loc[p].kind = "run" => applied \ {m} = applied
        /\ loc[p].kind = "rollback" => (applied \ {m}) \union {m} = applied
    BY <1>1, <1>2, <2>2, NextBeside
  <2>4. Len(Ops[m]) \in Nat
    BY OpsAssumption
  <2>5. Left(o) = IF loc[p].kind = "run" THEN 0 ELSE Len(Ops[m])
    BY <1>6, <2>4 DEF Left
  <2>6. Between(db, applied \ {m}, m, Left(o))
    <3>1. CASE loc[p].kind = "run"
      BY <1>4, <2>3, <2>5, <3>1, BeforeOperations
    <3>2. CASE loc[p].kind = "rollback"
      <4>1. Agrees(db, (applied \ {m}) \union {m})
        BY <1>4, <2>3, <3>2
      <4>2. Between(db, applied \ {m}, m, Len(Ops[m]))
        BY <2>3, <4>1, AfterOperations
      <4>. QED BY <2>5, <3>2, <4>2
    <3>. QED BY <2>1, <3>1, <3>2
  <2>7. PlaceInv(p)'
    <3>1. loc'[p] = o /\ loc'[p].phase = "ops" /\ loc'[p].cur = m /\ loc'[p].done <= Len(Ops[loc'[p].cur])
      BY <1>6, <1>9, <2>4
    <3>2. Between(db', applied' \ {loc'[p].cur}, loc'[p].cur, Left(loc'[p]))
      BY <1>5, <1>9, <2>6, <3>1
    <3>3. loc'[p].kind = "rollback" => rows'[loc'[p].cur] > 0
      BY <1>5, <1>6, <1>9, <2>2
    <3>. QED BY <3>1, <3>2, <3>3 DEF PlaceInv
  <2>8. Active(p)'
    BY <1>6, <1>9 DEF Active
  <2>. QED BY <1>4, <1>5, <2>7, <2>8, PlaceOfOne
<1>. QED BY <1>3, <1>7, <1>8, <1>9

LEMMA SchemaOperates ==
    ASSUME CleanHistory, Linked, AloneInv, SchemaInv, faults = 0, NEW p \in Proc, Operation(p),
           \A q \in Proc \ {p} : ~Active(q) /\ loc'[q] = loc[q]
    PROVE  SchemaInv'
<1>. DEFINE m == loc[p].cur
            R == applied \ {m}
            last == Len(Ops[m])
            st == Statement(loc[p])
            k == Left(loc[p])
<1>1. /\ loc[p] \in LocType /\ rows \in [Migrations -> Nat] /\ loc \in [Proc -> LocType]
      /\ Active(p) /\ loc[p].phase = "ops" /\ loc[p].done < last
  BY DEF AloneInv, IInv, TypeOK, Operation, Active
<1>2. /\ DbOk(db) /\ \A q \in Proc : PlaceInv(q)
      /\ Between(db, R, m, k)
      /\ loc[p].kind = "rollback" => rows[m] > 0
  BY <1>1 DEF SchemaInv, PlaceInv
<1>3. loc[p].kind \in {"run", "rollback"} /\ IsNext(loc[p], m) /\ m \in Migrations /\ loc[p].done \in Nat
  BY <1>1 DEF AloneInv, IInv, CallInv, KindInv, CurrentInv, IsNext, LocType
<1>4. last \in Nat
  BY <1>3, OpsAssumption
<1>5. Beside(R, m)
  <2>1. loc[p].kind = "run" => rows[m] = 0
    BY <1>1 DEF AloneInv
  <2>. QED BY <1>1, <1>2, <1>3, <2>1, NextBeside
<1>6. LET j == IF loc[p].kind = "run" THEN loc[p].done + 1 ELSE last - (loc[p].done + 1)
      IN  Accepts(db, st) /\ DbOk(Execute(db, st)) /\ Between(Execute(db, st), R, m, j)
  <2>1. CASE loc[p].kind = "run"
    <3>. DEFINE i == loc[p].done + 1
    <3>1. i \in 1 .. last /\ i - 1 = k /\ st = Ops[m][i]
      BY <1>1, <1>3, <1>4, <2>1 DEF Left, Statement, Forwards
    <3>. HIDE DEF i, k, st, R, m
    <3>2. Between(db, R, m, i - 1)
      BY <1>2, <3>1
    <3>3. /\ Accepts(db, Ops[m][i]) /\ DbOk(Execute(db, Ops[m][i]))
          /\ Between(Execute(db, Ops[m][i]), R, m, i)
      BY <1>2, <1>5, <3>1, <3>2, OneMore
    <3>. QED BY <2>1, <3>1, <3>3 DEF i
  <2>2. CASE loc[p].kind = "rollback"
    <3>1. k \in 1 .. last /\ k - 1 = last - (loc[p].done + 1) /\ st = Backwards(Ops[m][k])
      BY <1>1, <1>3, <1>4, <2>2 DEF Left, Statement
    <3>. HIDE DEF k, st, R, m
    <3>2. /\ Accepts(db, Backwards(Ops[m][k])) /\ DbOk(Execute(db, Backwards(Ops[m][k])))
          /\ Between(Execute(db, Backwards(Ops[m][k])), R, m, k - 1)
      BY <1>2, <1>5, <3>1, OneLess
    <3>. QED BY <2>2, <3>1, <3>2
  <2>. QED BY <1>3, <2>1, <2>2
<1>7. db' = Execute(db, st) /\ loc' = [loc EXCEPT ![p].done = @ + 1] /\ rows' = rows /\ applied' = applied
  BY <1>6 DEF Operation, applied
<1>8. /\ loc'[p].phase = "ops" /\ loc'[p].cur = m /\ loc'[p].done = loc[p].done + 1
      /\ loc'[p].kind = loc[p].kind
  BY <1>1, <1>7 DEF LocType
<1>9. Left(loc'[p]) = IF loc[p].kind = "run" THEN loc[p].done + 1 ELSE last - (loc[p].done + 1)
  BY <1>8 DEF Left
<1>10. PlaceInv(p)'
  <2>1. Between(db', applied' \ {loc'[p].cur}, loc'[p].cur, Left(loc'[p]))
    BY <1>6, <1>7, <1>8, <1>9
  <2>2. loc'[p].done <= Len(Ops[loc'[p].cur])
    BY <1>1, <1>3, <1>4, <1>8
  <2>3. loc'[p].kind = "rollback" => rows'[loc'[p].cur] > 0
    BY <1>2, <1>7, <1>8
  <2>. QED BY <1>8, <2>1, <2>2, <2>3 DEF PlaceInv
<1>11. Active(p)' /\ DbOk(db')
  BY <1>6, <1>7, <1>8 DEF Active
<1>. QED BY <1>2, <1>10, <1>11, PlaceOfOne

LEMMA SchemaMarks ==
    ASSUME CleanHistory, Linked, AloneInv, SchemaInv, faults = 0, NEW p \in Proc,
           MarkApplied(p) \/ Recheck(p) \/ MarkUnapplied(p),
           \A q \in Proc \ {p} : ~Active(q) /\ loc'[q] = loc[q]
    PROVE  SchemaInv'
<1>. DEFINE m == loc[p].cur
            R == applied \ {m}
<1>1. /\ loc[p] \in LocType /\ rows \in [Migrations -> Nat] /\ loc \in [Proc -> LocType]
      /\ Active(p) /\ loc[p].phase \in {"ops", "unmark"} /\ db' = db
  BY DEF AloneInv, IInv, TypeOK, MarkApplied, Recheck, MarkUnapplied, OperationsDone, Active
<1>2. DbOk(db) /\ (\A q \in Proc : PlaceInv(q)) /\ (loc[p].kind = "rollback" => rows[m] > 0)
  BY <1>1 DEF SchemaInv, PlaceInv
<1>3. loc[p].kind \in {"run", "rollback"} /\ IsNext(loc[p], m) /\ m \in Migrations
  BY <1>1 DEF AloneInv, IInv, CallInv, KindInv, CurrentInv, IsNext, LocType
<1>4. loc[p].kind = "run" => loc[p].phase = "ops" /\ rows[m] = 0
  BY <1>1 DEF AloneInv, IInv, CallInv, KindInv
<1>5. Beside(R, m) /\ Len(Ops[m]) \in Nat
  <2>1. Beside(R, m)
    BY <1>1, <1>2, <1>3, <1>4, NextBeside
  <2>2. Len(Ops[m]) \in Nat
    BY <1>3, OpsAssumption
  <2>. QED BY <2>1, <2>2
<1>6. CASE MarkApplied(p)
  <2>1. loc[p].phase = "ops" /\ loc[p].kind = "run" /\ Left(loc[p]) = Len(Ops[m])
    BY <1>6 DEF MarkApplied, OperationsDone, Left
  <2>2. Between(db, R, m, Len(Ops[m]))
    BY <1>2, <2>1 DEF PlaceInv
  <2>3. Agrees(db, R \union {m})
    BY <1>5, <2>2, AfterOperations
  <2>4. rows' = [x \in Migrations |-> IF x = m THEN rows[x] + 1 ELSE rows[x]] /\ loc'[p] = Advance(loc[p], m)
    BY <1>1, <1>3, <1>6 DEF MarkApplied
  <2>5. applied' = R \union {m}
    BY <1>1, <1>3, <2>4 DEF applied
  <2>6. Agrees(db', applied')
    BY <1>1, <2>3, <2>5
  <2>. QED BY <1>1, <1>2, <2>4, <2>6, PlaceOfAdvance, PlaceOfOne
<1>7. CASE Recheck(p)
  <2>1. loc[p].phase = "ops" /\ loc[p].kind = "rollback" /\ Left(loc[p]) = 0
    BY <1>5, <1>7 DEF Recheck, OperationsDone, Left
  <2>2. Between(db, R, m, 0)
    BY <1>2, <2>1 DEF PlaceInv
  <2>3. Agrees(db, R)
    BY <1>5, <2>2, BeforeOperations
  <2>. DEFINE u == [loc[p] EXCEPT !.phase = "unmark"]
  <2>4. rows' = rows /\ applied' = applied /\ loc'[p] = u
    BY <1>1, <1>2, <1>7, <2>1 DEF Recheck, applied
  <2>5. u.phase = "unmark" /\ u.cur = m
    BY <1>1 DEF LocType
  <2>. HIDE DEF u
  <2>6. loc'[p].phase = "unmark" /\ loc'[p].cur = m
    BY <2>4, <2>5
  <2>7. Agrees(db', applied' \ {loc'[p].cur}) /\ rows'[loc'[p].cur] > 0
    BY <1>1, <1>2, <2>1, <2>3, <2>4, <2>6
  <2>8. PlaceInv(p)' /\ Active(p)'
    BY <2>6, <2>7 DEF PlaceInv, Active
  <2>. QED BY <1>1, <1>2, <2>8, PlaceOfOne
<1>8. CASE MarkUnapplied(p)
  <2>1. Agrees(db, R)
    BY <1>2, <1>8 DEF PlaceInv, MarkUnapplied
  <2>2. rows' = [x \in Migrations |-> IF x = m THEN 0 ELSE rows[x]] /\ loc'[p] = Advance(loc[p], m)
    BY <1>1, <1>3, <1>8 DEF MarkUnapplied
  <2>3. applied' = R
    BY <1>1, <1>3, <2>2 DEF applied
  <2>4. Agrees(db', applied')
    BY <1>1, <2>1, <2>3
  <2>. QED BY <1>1, <1>2, <2>2, <2>4, PlaceOfAdvance, PlaceOfOne
<1>. QED BY <1>6, <1>7, <1>8

\* Every step keeps the invariant.
LEMMA SchemaStep ==
    ASSUME {"run", "rollback"} \subseteq Alone, CleanHistory, Linked, AloneInv, SchemaInv, [Next]_vars
    PROVE  SchemaInv'
<1>1. TypeOK /\ loc \in [Proc -> LocType] /\ faults \in Nat
  BY BoundsAssumption DEF AloneInv, IInv, TypeOK
<1>2. CASE UNCHANGED vars
  BY <1>2 DEF vars, SchemaInv, PlaceInv, Active, applied
<1>3. ASSUME NEW p \in Proc, BeginRun(p), faults = 0 PROVE SchemaInv'
  <2>. DEFINE l == Begin("run", "create", Migrations)
  <2>1. l.phase = "create" /\ l.cur = 0 /\ l.done = 0
    BY DEF Begin
  <2>2. (\A q \in Proc : ~Active(q)) /\ loc' = [loc EXCEPT ![p] = l] /\ UNCHANGED <<db, rows>>
    BY <1>3 DEF BeginRun, MayBegin
  <2>. HIDE DEF l
  <2>. QED BY <1>1, <1>3, <2>1, <2>2, SchemaBegins
<1>4. ASSUME NEW p \in Proc, NEW app, NEW target, BeginRollback(p, app, target), faults = 0 PROVE SchemaInv'
  <2>. DEFINE plan == RollbackPlan(app, target)
              l == IF plan = {} THEN Idle ELSE Begin("rollback", "check", plan)
  <2>1. l.phase \in {"idle", "check"} /\ l.cur = 0 /\ l.done = 0
    BY DEF Begin, Idle
  <2>2. (\A q \in Proc : ~Active(q)) /\ loc' = [loc EXCEPT ![p] = l] /\ UNCHANGED <<db, rows>>
    BY <1>4 DEF BeginRollback, MayBegin
  <2>. HIDE DEF l
  <2>. QED BY <1>1, <1>4, <2>1, <2>2, SchemaBegins
<1>5. ASSUME NEW p \in Proc, Step(p), faults = 0 PROVE SchemaInv'
  <2>1. \A q \in Proc \ {p} : ~Active(q) /\ loc'[q] = loc[q]
    <3>1. Active(p)
      BY <1>5 DEF Step, CreateLedger, Check, Operation, MarkApplied, Recheck, MarkUnapplied,
                  OperationsDone, Active
    <3>2. \A q \in Proc \ {p} : loc'[q] = loc[q]
      BY <1>1, <1>5 DEF Step, CreateLedger, Check, Operation, MarkApplied, Recheck, MarkUnapplied
    <3>. QED BY <3>1, <3>2 DEF AloneInv
  <2>2. CASE CreateLedger(p)
    <3>. DEFINE c == [loc[p] EXCEPT !.phase = "check"]
    <3>1. /\ DbOk(db) /\ Agrees(db, applied) /\ (\A q \in Proc : PlaceInv(q))
          /\ loc[p].cur = 0 /\ loc[p].done = 0
      BY <1>5, <2>2 DEF SchemaInv, PlaceInv, CreateLedger
    <3>2. (loc'[p] = Idle \/ loc'[p] = c) /\ db' = db /\ applied' = applied
      BY <1>1, <2>2 DEF CreateLedger, applied
    <3>3. c.phase = "check" /\ c.cur = 0 /\ c.done = 0
      BY <1>1, <3>1 DEF LocType
    <3>. HIDE DEF c
    <3>4. \/ loc'[p].phase = "idle"
          \/ loc'[p].phase = "check" /\ loc'[p].cur = 0 /\ loc'[p].done = 0
      BY <3>2, <3>3 DEF Idle
    <3>5. PlaceInv(p)'
      BY <3>1, <3>2, <3>4 DEF PlaceInv
    <3>. QED BY <2>1, <3>1, <3>2, <3>5, PlaceOfOne
  <2>. QED BY <1>5, <2>1, <2>2, SchemaChecks, SchemaOperates, SchemaMarks DEF Step
<1>6. ASSUME NEW p \in Proc, Interrupt(p) PROVE SchemaInv'
  BY <1>1, <1>6 DEF Interrupt, SchemaInv
<1>7. CASE Next /\ faults # 0
  <2>1. ASSUME NEW p \in Proc, Step(p) PROVE faults' = faults
    BY <2>1 DEF Step, CreateLedger, Check, Operation, MarkApplied, Recheck, MarkUnapplied
  <2>2. faults' \in {faults, faults + 1}
    BY <1>7, <2>1 DEF Next, BeginRun, BeginRollback, Interrupt
  <2>3. faults' # 0
    BY <1>1, <1>7, <2>2
  <2>. QED BY <2>3 DEF SchemaInv
<1>. QED BY <1>2, <1>3, <1>4, <1>5, <1>6, <1>7 DEF Next

(***************************************************************************)
(* Where calls run alone and the migrations can be done and undone once in *)
(* their order, each linked to the earlier ones that touch what it touches: *)
(* no call fails at an operation until one is interrupted, and between two *)
(* calls the schema is the one that the recorded migrations describe.      *)
(***************************************************************************)
THEOREM SchemaFollowsLedger ==
    {"run", "rollback"} \subseteq Alone /\ CleanHistory /\ Linked => (Spec => []SchemaMatchesLedger)
<1>. SUFFICES ASSUME {"run", "rollback"} \subseteq Alone, CleanHistory, Linked
              PROVE  Spec => []SchemaMatchesLedger
  OBVIOUS
<1>1. Init => AloneInv /\ SchemaInv
  <2>. SUFFICES ASSUME Init PROVE AloneInv /\ SchemaInv
    OBVIOUS
  <2>1. AloneInv
    BY InitIInv DEF Init, AloneInv, Active, Idle
  <2>2. \A p \in Proc : loc[p].phase = "idle"
    BY DEF Init, Idle
  <2>3. db = EmptyDb /\ applied = {}
    BY SizeAssumption DEF Init, applied
  <2>4. DbOk(db) /\ Agrees(db, applied)
    BY <2>3, EmptyAgrees
  <2>5. \A p \in Proc : PlaceInv(p)
    BY <2>2 DEF PlaceInv
  <2>. QED BY <2>1, <2>4, <2>5 DEF SchemaInv
<1>2. AloneInv /\ SchemaInv /\ [Next]_vars => AloneInv' /\ SchemaInv'
  BY AloneStep, SchemaStep
<1>3. AloneInv /\ SchemaInv => SchemaMatchesLedger
  <2>. SUFFICES ASSUME AloneInv, SchemaInv PROVE SchemaMatchesLedger
    OBVIOUS
  <2>1. ASSUME faults = 0, \A p \in Proc : ~Active(p) PROVE db = Replayed
    <3>1. DbOk(db) /\ Agrees(db, applied) /\ Standing(applied)
      BY <2>1, AppliedStand DEF SchemaInv
    <3>2. DbOk(ReplayOf(applied)[N]) /\ Agrees(ReplayOf(applied)[N], applied)
      BY <3>1, ReplayAgrees
    <3>. QED BY <3>1, <3>2, OneAgrees DEF Replayed
  <2>2. faults = 0 => \A p \in Proc : loc[p].phase = "failed" => loc[p].cur = 0
    BY DEF SchemaInv, PlaceInv
  <2>. QED BY <2>1, <2>2 DEF SchemaMatchesLedger, AloneInv, IInv
<1>. QED BY <1>1, <1>2, <1>3, PTL DEF Spec
=============================================================================
