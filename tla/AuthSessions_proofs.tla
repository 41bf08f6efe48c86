-------------------------- MODULE AuthSessions_proofs --------------------------
(***************************************************************************)
(* Proofs about AuthSessions for every number of requests, users,          *)
(* passwords and sessions.                                                 *)
(***************************************************************************)
EXTENDS AuthSessions, TLAPS

(***************************************************************************)
(* The inductive invariant.  What a request knows of its session and of    *)
(* the user it found depends on where it is; a session, in the store or    *)
(* open in a request, names nobody or the user its id was made for.        *)
(***************************************************************************)
PlaceInv(r) ==
    /\ req[r].at = "get_by_id" => req[r].record.user # Absent
    /\ req[r].at \in {"rehash", "login"} => req[r].found \in Found

StateInv == TypeOK /\ \A r \in Request : PlaceInv(r)

StoredInv(i) == store[i] # NoRecord => Issued(i) /\ store[i].user \in {Absent, owner[i]}

OpenInv(r) == req[r].id # Absent => /\ Issued(req[r].id)
                                    /\ req[r].record.user \in {Absent, owner[req[r].id]}

OwnerInv == (\A i \in Id : StoredInv(i)) /\ (\A r \in Request : OpenInv(r))

IInv == StateInv /\ OwnerInv

-----------------------------------------------------------------------------
LEMMA IdleType == Idle \in RequestType
BY DEF Idle, RequestType, Empty, Record, NotFound

LEMMA PasswordType ==
    ASSUME NEW p \in Password, FreeSalts # {}
    PROVE  FromPassword(p) \in Hash
<1>1. (CHOOSE s \in FreeSalts : TRUE) \in FreeSalts
  OBVIOUS
<1>. QED BY <1>1 DEF FromPassword, FreeSalts, Hash

LEMMA NewIdFree ==
    ASSUME NEW i \in Id, ~Issued(i)
    PROVE  NewId \in Id /\ ~Issued(NewId)
BY DEF NewId

LEMMA StoreDeletes ==
    ASSUME TypeOK, NEW r \in Request, NEW i, Deleted(r, i)
    PROVE  /\ store' \in [Id -> Record \union {NoRecord}]
           /\ holders' \in [Id -> SUBSET Request]
           /\ \A j \in Id : store'[j] \in {store[j], NoRecord}
BY DEF Deleted, TypeOK

LEMMA RequestCloses ==
    ASSUME TypeOK, NEW r \in Request, Closed(r)
    PROVE  /\ req' \in [Request -> RequestType]
           /\ holders' \in [Id -> SUBSET Request]
           /\ req'[r] = Idle
           /\ \A q \in Request : q # r => req'[q] = req[q]
BY IdleType DEF Closed, TypeOK

\* What login leaves of the request.
LEMMA LoginType ==
    ASSUME StateInv, NEW r \in Request, req[r].at = "login"
    PROVE  LET new == LoggedIn(r, Absent) IN
           /\ new \in [Request -> RequestType]
           /\ new[r].at = "handle" /\ new[r].id = Absent
           /\ \A q \in Request : q # r => new[q] = req[q]
<1>. USE DEF StateInv, TypeOK
<1>1. req[r] \in RequestType /\ req[r].found \in Found
  BY DEF PlaceInv
<1>2. SessionAuthHash(key, req[r].found.hash) \in SessionHash
  BY <1>1 DEF SessionAuthHash, SessionHash, Found
<1>3. [user |-> req[r].found.user, hash |-> SessionAuthHash(key, req[r].found.hash),
       data |-> TRUE] \in Record
  BY <1>1, <1>2, AbsentAssumption DEF Record, Found
<1>. QED BY <1>1, <1>3 DEF LoggedIn, RequestType, Found

-----------------------------------------------------------------------------
LEMMA StateInit == Init => StateInv
<1>. SUFFICES ASSUME Init PROVE StateInv
  OBVIOUS
<1>1. users \in [User -> Hash \union {Absent}]
  BY DEF Init, Hash
<1>2. req \in [Request -> RequestType]
  BY IdleType DEF Init
<1>3. \A r \in Request : PlaceInv(r)
  BY DEF Init, PlaceInv, Idle
<1>. QED BY <1>1, <1>2, <1>3, KeyAssumption DEF Init, StateInv, TypeOK

LEMMA StateStep == StateInv /\ [Next]_vars => StateInv'
<1>. SUFFICES ASSUME StateInv, [Next]_vars PROVE StateInv'
  OBVIOUS
<1>. USE DEF StateInv, TypeOK
<1>1. ASSUME NEW r \in Request, Begin(r) PROVE StateInv'
  <2>1. req[r] \in RequestType
    OBVIOUS
  <2>2. CASE req' = [req EXCEPT ![r].at = "handle"]
    BY <1>1, <2>1, <2>2 DEF Begin, RequestType, PlaceInv
  <2>3. ASSUME NEW i \in Id, store[i] # NoRecord,
               req' = [req EXCEPT ![r] =
                 [Idle EXCEPT !.at = IF store[i].user = Absent THEN "handle" ELSE "get_by_id",
                              !.id = i, !.record = store[i]]]
        PROVE  StateInv'
    <3>1. store[i] \in Record
      BY <2>3
    <3>2. req'[r] = [at |-> IF store[i].user = Absent THEN "handle" ELSE "get_by_id",
                     id |-> i, record |-> store[i], modified |-> FALSE,
                     user |-> Absent, found |-> NotFound]
      BY <2>3 DEF Idle
    <3>3. req'[r] \in RequestType
      BY <3>1, <3>2 DEF RequestType
    <3>4. PlaceInv(r)'
      BY <3>2 DEF PlaceInv
    <3>. QED BY <1>1, <2>3, <3>3, <3>4 DEF Begin, PlaceInv
  <2>. QED BY <1>1, <2>2, <2>3 DEF Begin
<1>2. ASSUME NEW r \in Request, GetById(r) PROVE StateInv'
  <2>1. /\ req[r] \in RequestType
        /\ req[r].record \in Record
        /\ req[r].record.user \in User
    BY <1>2 DEF GetById, PlaceInv, RequestType, Record
  <2>2. ASSUME NEW u \in User \union {Absent}, NEW record \in Record, NEW b \in BOOLEAN,
               req' = Resume(r, u, record, b)
        PROVE  StateInv'
    <3>1. req' \in [Request -> RequestType]
      BY <2>1, <2>2 DEF Resume, RequestType
    <3>2. req'[r].at = "handle" /\ \A q \in Request : q # r => req'[q] = req[q]
      BY <2>1, <2>2 DEF Resume, RequestType
    <3>. QED BY <1>2, <3>1, <3>2 DEF GetById, PlaceInv
  <2>3. ASSUME users[req[r].record.user] # Absent
        PROVE  [req[r].record EXCEPT !.hash = SessionAuthHash(key, users[req[r].record.user])]
                   \in Record
    <3>1. SessionAuthHash(key, users[req[r].record.user]) \in SessionHash
      BY <2>1, <2>3 DEF SessionAuthHash, SessionHash
    <3>. QED BY <2>1, <3>1, AbsentAssumption DEF Record
  <2>. QED BY <1>2, <2>1, <2>2, <2>3 DEF GetById
<1>3. ASSUME NEW r \in Request, Touch(r) PROVE StateInv'
  <2>1. req[r] \in RequestType /\ req[r].record \in Record
    BY DEF RequestType
  <2>2. [req[r].record EXCEPT !.data = TRUE] \in Record
    BY <2>1 DEF Record
  <2>3. req'[r] = [req[r] EXCEPT !.record = [@ EXCEPT !.data = TRUE], !.modified = TRUE]
    BY <1>3, <2>1 DEF Touch
  <2>4. req'[r] \in RequestType /\ req'[r].at = "handle"
    BY <1>3, <2>1, <2>2, <2>3 DEF Touch, RequestType
  <2>. QED BY <1>3, <2>4 DEF Touch, PlaceInv
<1>4. ASSUME NEW r \in Request, NEW u \in User, NEW p \in Password, Authenticate(r, u, p)
      PROVE  StateInv'
  <2>1. req[r] \in RequestType
    OBVIOUS
  <2>2. users[u] \in Hash
    BY <1>4 DEF Authenticate
  <2>3. (IF users[u].obsolete THEN FromPassword(p) ELSE users[u]) \in Hash
    BY <1>4, <2>2, PasswordType DEF Authenticate
  <2>4. req'[r] \in RequestType /\ req'[r].found \in Found
    BY <1>4, <2>1, <2>3 DEF Authenticate, RequestType, Found
  <2>5. req'[r].at # "get_by_id"
    BY <1>4, <2>1 DEF Authenticate, RequestType
  <2>. QED BY <1>4, <2>4, <2>5 DEF Authenticate, PlaceInv
<1>5. ASSUME NEW r \in Request, Rehash(r) PROVE StateInv'
  <2>1. req[r] \in RequestType /\ req[r].found \in Found
    BY <1>5 DEF Rehash, PlaceInv
  <2>2. users' \in [User -> Hash \union {Absent}]
    BY <1>5, <2>1 DEF Rehash, Found
  <2>3. req'[r] \in RequestType /\ req'[r].found = req[r].found /\ req'[r].at = "login"
    BY <1>5, <2>1 DEF Rehash, RequestType
  <2>. QED BY <1>5, <2>1, <2>2, <2>3 DEF Rehash, PlaceInv
<1>6. ASSUME NEW r \in Request, DoNotLogin(r) PROVE StateInv'
  <2>1. req[r] \in RequestType
    OBVIOUS
  <2>2. req'[r] \in RequestType /\ req'[r].at = "handle"
    BY <1>6, <2>1 DEF DoNotLogin, RequestType
  <2>. QED BY <1>6, <2>2 DEF DoNotLogin, PlaceInv
<1>7. ASSUME NEW r \in Request, Login(r) PROVE StateInv'
  <2>1. req' \in [Request -> RequestType] /\ req'[r].at = "handle"
    BY <1>7, LoginType DEF Login
  <2>2. \A q \in Request : q # r => req'[q] = req[q]
    BY <1>7, LoginType DEF Login
  <2>3. store' \in [Id -> Record \union {NoRecord}] /\ holders' \in [Id -> SUBSET Request]
    BY <1>7, StoreDeletes DEF Login
  <2>. QED BY <1>7, <2>1, <2>2, <2>3 DEF Login, PlaceInv
<1>8. ASSUME NEW r \in Request, Logout(r) PROVE StateInv'
  <2>1. req'[r] = [Idle EXCEPT !.at = "handle", !.modified = TRUE]
    BY <1>8 DEF Logout
  <2>2. req'[r] \in RequestType /\ req'[r].at = "handle"
    BY <2>1, IdleType DEF RequestType, Idle
  <2>3. store' \in [Id -> Record \union {NoRecord}] /\ holders' \in [Id -> SUBSET Request]
    BY <1>8, StoreDeletes DEF Logout
  <2>. QED BY <1>8, <2>2, <2>3 DEF Logout, PlaceInv
<1>9. ASSUME NEW r \in Request, NEW p \in Password, ChangePassword(r, p) PROVE StateInv'
  BY <1>9, PasswordType DEF ChangePassword, PlaceInv
<1>10. ASSUME NEW r \in Request, Finish(r) PROVE StateInv'
  <2>1. req[r].record \in Record
    BY DEF RequestType
  <2>2. store' \in [Id -> Record \union {NoRecord}] /\ accepted' \subseteq Id
    BY <1>10, <2>1, NewIdFree DEF Finish, Accepted
  <2>3. owner' \in [Id -> User \union {Nobody, Absent}]
    BY <1>10, <2>1, NewIdFree DEF Finish, Record
  <2>4. /\ req' \in [Request -> RequestType] /\ holders' \in [Id -> SUBSET Request]
        /\ req'[r] = Idle /\ \A q \in Request : q # r => req'[q] = req[q]
    BY <1>10, RequestCloses DEF Finish
  <2>. QED BY <1>10, <2>2, <2>3, <2>4 DEF Finish, PlaceInv, Idle
<1>11. ASSUME NEW r \in Request, Abandon(r) PROVE StateInv'
  <2>1. /\ req' \in [Request -> RequestType] /\ holders' \in [Id -> SUBSET Request]
        /\ req'[r] = Idle /\ \A q \in Request : q # r => req'[q] = req[q]
    BY <1>11, RequestCloses DEF Abandon
  <2>. QED BY <1>11, <2>1 DEF Abandon, PlaceInv, Idle
<1>12. ASSUME NEW u \in User, DeleteUser(u) PROVE StateInv'
  BY <1>12 DEF DeleteUser, PlaceInv
<1>13. CASE RotateKey
  BY <1>13, KeyAssumption DEF RotateKey, PlaceInv
<1>14. CASE UNCHANGED vars
  BY <1>14 DEF vars, PlaceInv
<1>. QED
  BY <1>1, <1>2, <1>3, <1>4, <1>5, <1>6, <1>7, <1>8, <1>9, <1>10, <1>11, <1>12, <1>13, <1>14
     DEF Next

(***************************************************************************)
(* Rows, sessions and requests keep their shapes, and a session that names *)
(* a user holds a session hash: the `expect` of session_auth_hash_valid    *)
(* never panics.                                                           *)
(***************************************************************************)
THEOREM TypeCorrect == Spec => []TypeOK
<1>1. StateInv => TypeOK
  BY DEF StateInv
<1>. QED BY <1>1, StateInit, StateStep, PTL DEF Spec

-----------------------------------------------------------------------------
(* Whose session is it?                                                    *)

LEMMA OwnerInit == Init => OwnerInv
BY DEF Init, OwnerInv, StoredInv, OpenInv, Idle

\* A request that does not end and keeps its id and its user, and one that
\* drops its id, keep the invariant; the sessions of others are not touched.
LEMMA OwnerKept ==
    ASSUME IInv, NEW r \in Request,
           \A i \in Id : store'[i] \in {store[i], NoRecord}, UNCHANGED owner,
           \A q \in Request : q # r => req'[q] = req[q],
           \/ req'[r].id = Absent
           \/ req'[r].id = req[r].id /\ req'[r].record.user = req[r].record.user
    PROVE  OwnerInv'
<1>1. \A i \in Id : StoredInv(i)'
  BY DEF IInv, OwnerInv, StoredInv, Issued
<1>2. \A q \in Request : OpenInv(q)'
  BY DEF IInv, OwnerInv, OpenInv, Issued
<1>. QED BY <1>1, <1>2 DEF OwnerInv

LEMMA OwnerStep == IInv /\ [Next]_vars => OwnerInv'
<1>. SUFFICES ASSUME IInv, [Next]_vars PROVE OwnerInv'
  OBVIOUS
<1>. USE DEF IInv, StateInv
<1>1. ASSUME NEW r \in Request, Begin(r) PROVE OwnerInv'
  <2>1. CASE req' = [req EXCEPT ![r].at = "handle"]
    <3>1. req'[r].id = req[r].id /\ req'[r].record = req[r].record
      BY <2>1 DEF TypeOK, RequestType
    <3>2. \A q \in Request : q # r => req'[q] = req[q]
      BY <2>1 DEF TypeOK
    <3>. QED BY <1>1, <3>1, <3>2, OwnerKept DEF Begin
  <2>2. ASSUME NEW i \in Id, store[i] # NoRecord,
               req' = [req EXCEPT ![r] =
                 [Idle EXCEPT !.at = IF store[i].user = Absent THEN "handle" ELSE "get_by_id",
                              !.id = i, !.record = store[i]]]
        PROVE  OwnerInv'
    <3>1. req'[r].id = i /\ req'[r].record = store[i]
      BY <2>2 DEF TypeOK, Idle
    <3>2. \A q \in Request : q # r => req'[q] = req[q]
      BY <2>2 DEF TypeOK
    <3>3. OpenInv(r)'
      BY <1>1, <2>2, <3>1 DEF Begin, OwnerInv, StoredInv, OpenInv, Issued
    <3>. QED BY <1>1, <3>2, <3>3 DEF Begin, OwnerInv, StoredInv, OpenInv, Issued
  <2>. QED BY <1>1, <2>1, <2>2 DEF Begin
<1>2. ASSUME NEW r \in Request, GetById(r) PROVE OwnerInv'
  <2>1. req[r] \in RequestType /\ req[r].record \in Record
    BY DEF TypeOK, RequestType
  <2>2. ASSUME NEW u, NEW record, NEW b, req' = Resume(r, u, record, b),
               record.user = req[r].record.user
        PROVE  /\ req'[r].id = req[r].id /\ req'[r].record.user = req[r].record.user
               /\ \A q \in Request : q # r => req'[q] = req[q]
    BY <2>1, <2>2 DEF Resume, TypeOK, RequestType
  <2>3. ASSUME NEW h
        PROVE  [req[r].record EXCEPT !.hash = h].user = req[r].record.user
    BY <2>1 DEF Record
  <2>4. /\ req'[r].id = req[r].id /\ req'[r].record.user = req[r].record.user
        /\ \A q \in Request : q # r => req'[q] = req[q]
    <3> DEFINE record == req[r].record
               moved  == [record EXCEPT !.hash = SessionAuthHash(key, users[record.user])]
    <3>1. \/ req' = Resume(r, record.user, record, FALSE)
          \/ req' = Resume(r, record.user, moved, TRUE)
          \/ req' = Resume(r, Absent, record, FALSE)
      BY <1>2 DEF GetById
    <3>2. moved.user = record.user
      BY <2>3
    <3> HIDE DEF moved
    <3>. QED BY <3>1, <3>2, <2>2
  <2>. QED BY <1>2, <2>4, OwnerKept DEF GetById
<1>3. ASSUME NEW r \in Request, Touch(r) PROVE OwnerInv'
  <2>1. req[r] \in RequestType /\ req[r].record \in Record
    BY DEF TypeOK, RequestType
  <2>2. req'[r].id = req[r].id /\ req'[r].record.user = req[r].record.user
    BY <1>3, <2>1 DEF Touch, TypeOK, RequestType, Record
  <2>. QED BY <1>3, <2>2, OwnerKept DEF Touch, TypeOK
<1>4. ASSUME NEW r \in Request, NEW u \in User, NEW p \in Password, Authenticate(r, u, p)
      PROVE  OwnerInv'
  <2>1. req'[r].id = req[r].id /\ req'[r].record = req[r].record
    BY <1>4 DEF Authenticate, TypeOK, RequestType
  <2>. QED BY <1>4, <2>1, OwnerKept DEF Authenticate, TypeOK
<1>5. ASSUME NEW r \in Request, Rehash(r) PROVE OwnerInv'
  <2>1. req'[r].id = req[r].id /\ req'[r].record = req[r].record
    BY <1>5 DEF Rehash, TypeOK, RequestType
  <2>. QED BY <1>5, <2>1, OwnerKept DEF Rehash, TypeOK
<1>6. ASSUME NEW r \in Request, DoNotLogin(r) PROVE OwnerInv'
  <2>1. req'[r].id = req[r].id /\ req'[r].record = req[r].record
    BY <1>6 DEF DoNotLogin, TypeOK, RequestType
  <2>. QED BY <1>6, <2>1, OwnerKept DEF DoNotLogin, TypeOK
<1>7. ASSUME NEW r \in Request, Login(r) PROVE OwnerInv'
  <2>1. req'[r].id = Absent /\ \A q \in Request : q # r => req'[q] = req[q]
    BY <1>7, LoginType DEF Login
  <2>2. \A i \in Id : store'[i] \in {store[i], NoRecord}
    BY <1>7, StoreDeletes DEF Login
  <2>. QED BY <1>7, <2>1, <2>2, OwnerKept DEF Login
<1>8. ASSUME NEW r \in Request, Logout(r) PROVE OwnerInv'
  <2>1. req'[r].id = Absent /\ \A q \in Request : q # r => req'[q] = req[q]
    BY <1>8 DEF Logout, TypeOK, Idle
  <2>2. \A i \in Id : store'[i] \in {store[i], NoRecord}
    BY <1>8, StoreDeletes DEF Logout
  <2>. QED BY <1>8, <2>1, <2>2, OwnerKept DEF Logout
<1>9. ASSUME NEW r \in Request, NEW p \in Password, ChangePassword(r, p) PROVE OwnerInv'
  BY <1>9 DEF ChangePassword, OwnerInv, StoredInv, OpenInv, Issued
<1>10. ASSUME NEW r \in Request, Finish(r) PROVE OwnerInv'
  <2>1. req'[r].id = Absent /\ \A q \in Request : q # r => req'[q] = req[q]
    BY <1>10, RequestCloses DEF Finish, Idle
  <2>2. CASE ~(req[r].modified /\ req[r].record # Empty)
    BY <1>10, <2>1, <2>2, OwnerKept DEF Finish
  \* A session that was open: the request knew whose it is.
  <2>3. CASE req[r].id # Absent /\ store' = [store EXCEPT ![req[r].id] = req[r].record]
             /\ UNCHANGED owner
    <3>1. req[r].id \in Id /\ OpenInv(r)
      BY <2>3 DEF TypeOK, RequestType, OwnerInv
    <3>2. \A i \in Id : StoredInv(i)'
      BY <2>3, <3>1 DEF TypeOK, OwnerInv, StoredInv, OpenInv, Issued
    <3>. QED BY <2>1, <2>3, <3>2 DEF OwnerInv, OpenInv, Issued
  \* A new id, which no session and no request has.
  <2>4. CASE /\ \E i \in Id : ~Issued(i)
             /\ store' = [store EXCEPT ![NewId] = req[r].record]
             /\ owner' = [owner EXCEPT ![NewId] = IF req[r].record.user = Absent THEN Nobody
                                                  ELSE req[r].record.user]
    <3>1. NewId \in Id /\ ~Issued(NewId)
      BY <2>4, NewIdFree
    <3>2. /\ store'[NewId] = req[r].record
          /\ owner'[NewId] # Absent
          /\ req[r].record.user \in {Absent, owner'[NewId]}
      BY <2>4, <3>1, AbsentAssumption DEF TypeOK
    <3>3. \A i \in Id : i # NewId => store'[i] = store[i] /\ owner'[i] = owner[i]
      BY <2>4, <3>1 DEF TypeOK
    <3>4. \A i \in Id : StoredInv(i)'
      BY <3>1, <3>2, <3>3 DEF OwnerInv, StoredInv, Issued
    <3>5. ASSUME NEW q \in Request PROVE OpenInv(q)'
      <4>1. CASE q = r
        BY <2>1, <4>1 DEF OpenInv
      <4>2. CASE q # r
        <5>1. req'[q] = req[q] /\ OpenInv(q) /\ req[q].id \in Id \union {Absent}
          BY <2>1, <4>2 DEF OwnerInv, TypeOK, RequestType
        <5>. QED BY <3>1, <3>3, <5>1 DEF OpenInv, Issued
      <4>. QED BY <4>1, <4>2
    <3>. QED BY <3>4, <3>5 DEF OwnerInv
  <2>. QED BY <1>10, <2>2, <2>3, <2>4 DEF Finish
<1>11. ASSUME NEW r \in Request, Abandon(r) PROVE OwnerInv'
  <2>1. req'[r].id = Absent /\ \A q \in Request : q # r => req'[q] = req[q]
    BY <1>11, RequestCloses DEF Abandon, Idle
  <2>. QED BY <1>11, <2>1, OwnerKept DEF Abandon
<1>12. ASSUME NEW u \in User, DeleteUser(u) PROVE OwnerInv'
  BY <1>12 DEF DeleteUser, OwnerInv, StoredInv, OpenInv, Issued
<1>13. CASE RotateKey
  BY <1>13 DEF RotateKey, OwnerInv, StoredInv, OpenInv, Issued
<1>14. CASE UNCHANGED vars
  BY <1>14 DEF vars, OwnerInv, StoredInv, OpenInv, Issued
<1>. QED
  BY <1>1, <1>2, <1>3, <1>4, <1>5, <1>6, <1>7, <1>8, <1>9, <1>10, <1>11, <1>12, <1>13, <1>14
     DEF Next

(***************************************************************************)
(* However the requests of any number of visitors overlap, log in, log out *)
(* and fail, a session id serves the user it was made for or nobody.       *)
(***************************************************************************)
THEOREM IdsServeOneUser == Spec => []IdServesOneUser
<1>1. Init => IInv
  BY StateInit, OwnerInit DEF IInv
<1>2. IInv /\ [Next]_vars => IInv'
  BY StateStep, OwnerStep DEF IInv
<1>3. IInv => IdServesOneUser
  BY DEF IInv, OwnerInv, StoredInv, IdServesOneUser
<1>. QED BY <1>1, <1>2, <1>3, PTL DEF Spec

(***************************************************************************)
(* A session works only while its user's password is the one it was logged *)
(* in with: the step in which get_user_with_saved_id accepts it.           *)
(***************************************************************************)
LEMMA AcceptProvesPassword ==
    ASSUME StateInv, [Next]_vars, NEW r \in Request,
           req[r].at = "get_by_id", req'[r].at = "handle", req'[r].user # Absent
    PROVE  /\ users[req'[r].user] # Absent
           /\ users[req'[r].user].password = req[r].record.hash.of.password
<1>. USE DEF StateInv, TypeOK
<1>1. req[r] \in RequestType /\ Idle \in RequestType
  BY IdleType
<1>2. ASSUME NEW q \in Request,
             \/ Begin(q) \/ Touch(q) \/ Rehash(q) \/ DoNotLogin(q) \/ Login(q) \/ Logout(q)
             \/ (\E u \in User, p \in Password : Authenticate(q, u, p))
      PROVE  FALSE
  <2>1. req[q].at # "get_by_id"
    BY <1>2 DEF Begin, Active, Touch, Rehash, DoNotLogin, Login, Logout, Authenticate
  <2>2. req'[r] = req[r]
    BY <1>2, <2>1, LoginType
       DEF Begin, Touch, Rehash, DoNotLogin, Login, Logout, Authenticate
  <2>. QED BY <2>2
<1>3. ASSUME NEW q \in Request, Finish(q) \/ Abandon(q) PROVE FALSE
  <2>1. Closed(q)
    BY <1>3 DEF Finish, Abandon
  <2>. QED BY <2>1, RequestCloses DEF Idle
<1>4. CASE UNCHANGED req
  BY <1>4
<1>5. ASSUME NEW q \in Request, GetById(q)
      PROVE  /\ users[req'[r].user] # Absent
             /\ users[req'[r].user].password = req[r].record.hash.of.password
  <2>1. q = r
    BY <1>5 DEF GetById, Resume
  <2>2. ASSUME NEW u, NEW record, NEW b, req' = Resume(r, u, record, b)
        PROVE  req'[r].user = u
    BY <1>1, <2>2 DEF Resume, RequestType
  <2> DEFINE record == req[r].record
             row    == users[record.user]
  <2>3. CASE row # Absent /\ record.hash = SessionAuthHash(key, row)
             /\ req' = Resume(r, record.user, record, FALSE)
    <3>1. req'[r].user = record.user
      BY <2>2, <2>3
    <3>2. record.hash.of = row
      BY <2>3 DEF SessionAuthHash
    <3>. QED BY <2>3, <3>1, <3>2
  <2>4. CASE row # Absent
             /\ (\E k \in FallbackKeys : record.hash = SessionAuthHash(k, row))
             /\ \E new : req' = Resume(r, record.user, new, TRUE)
    <3>1. req'[r].user = record.user
      BY <2>2, <2>4
    <3>2. record.hash.of = row
      BY <2>4 DEF SessionAuthHash
    <3>. QED BY <2>4, <3>1, <3>2
  <2>5. CASE req' = Resume(r, Absent, record, FALSE)
    BY <2>2, <2>5
  <2>. QED BY <1>5, <2>1, <2>3, <2>4, <2>5 DEF GetById
<1>. QED
  BY <1>2, <1>3, <1>4, <1>5 DEF Next, vars, ChangePassword, DeleteUser, RotateKey

THEOREM SessionsProvePasswords == Spec => SessionProvesPassword
<1>1. StateInv /\ [Next]_vars =>
        [\A r \in Request :
           req[r].at = "get_by_id" /\ req'[r].at = "handle" /\ req'[r].user # Absent =>
              /\ users[req'[r].user] # Absent
              /\ users[req'[r].user].password = req[r].record.hash.of.password]_vars
  BY AcceptProvesPassword
<1>. QED BY <1>1, StateInit, StateStep, PTL DEF Spec, SessionProvesPassword

-----------------------------------------------------------------------------
(* What stays deleted                                                      *)

\* Between requests nothing is left of the last one.
RestInv(r) == req[r].at = "idle" => req[r] = Idle

\* Whoever has a deleted session open had it open when it was deleted.
LostInv(i) ==
    Issued(i) /\ store[i] = NoRecord =>
        \A r \in Request : Active(r) /\ req[r].id = i => r \in holders[i]

HolderInv == (\A r \in Request : RestInv(r)) /\ (\A i \in Id : LostInv(i))

LEMMA RecordsExist == \A record \in Record : record # NoRecord
BY AbsentAssumption DEF Record, NoRecord

LEMMA HolderInit == Init => HolderInv
BY DEF Init, HolderInv, RestInv, LostInv, Issued

\* A request that goes on with the session it had, or with none.
LEMMA HolderKept ==
    ASSUME HolderInv, NEW r \in Request, UNCHANGED <<store, owner, holders>>,
           \A q \in Request : q # r => req'[q] = req[q],
           req'[r].at # "idle" \/ req'[r] = req[r],
           req'[r].id = Absent \/ (req'[r].id = req[r].id /\ Active(r))
    PROVE  HolderInv'
<1>1. \A q \in Request : RestInv(q)'
  BY DEF HolderInv, RestInv
<1>2. ASSUME NEW i \in Id PROVE LostInv(i)'
  BY AbsentAssumption DEF HolderInv, LostInv, Issued, Active
<1>. QED BY <1>1, <1>2 DEF HolderInv

\* A request that deletes its session and goes on without.
LEMMA HolderDeletes ==
    ASSUME IInv, HolderInv, NEW r \in Request, Deleted(r, req[r].id), UNCHANGED owner,
           \A q \in Request : q # r => req'[q] = req[q],
           req'[r].at # "idle", req'[r].id = Absent
    PROVE  HolderInv'
<1>1. \A q \in Request : RestInv(q)'
  BY DEF HolderInv, RestInv
<1>2. ASSUME NEW i \in Id, NEW q \in Request, LostInv(i),
             Issued(i)', store'[i] = NoRecord, Active(q)', req'[q].id = i
      PROVE  q \in holders'[i]
  <2>1. q # r /\ Active(q) /\ req[q].id = i
    BY <1>2, AbsentAssumption DEF Active
  <2>2. CASE i = req[r].id
    BY <2>1, <2>2 DEF Deleted
  <2>3. CASE i # req[r].id
    BY <1>2, <2>1, <2>3 DEF Deleted, LostInv, Issued
  <2>. QED BY <2>2, <2>3
<1>3. \A i \in Id : LostInv(i)'
  BY <1>2 DEF HolderInv, LostInv
<1>. QED BY <1>1, <1>3 DEF HolderInv

\* A request that ends, whatever it saves.
LEMMA HolderCloses ==
    ASSUME IInv, HolderInv, NEW r \in Request, Active(r), Closed(r), UNCHANGED <<store, owner>>
    PROVE  HolderInv'
<1>1. /\ \A q \in Request : q # r => req'[q] = req[q]
      /\ req'[r] = Idle
  BY RequestCloses DEF IInv, StateInv
<1>2. \A q \in Request : RestInv(q)'
  BY <1>1 DEF HolderInv, RestInv
<1>3. ASSUME NEW i \in Id PROVE LostInv(i)'
  <2>1. holders'[i] = holders[i] \ {r}
    BY DEF Closed
  <2>. QED BY <1>1, <2>1 DEF HolderInv, LostInv, Issued, Active, Idle
<1>. QED BY <1>2, <1>3 DEF HolderInv

LEMMA HolderStep == IInv /\ HolderInv /\ [Next]_vars => HolderInv'
<1>. SUFFICES ASSUME IInv, HolderInv, [Next]_vars PROVE HolderInv'
  OBVIOUS
<1>. USE DEF IInv, StateInv, TypeOK
<1>1. ASSUME NEW r \in Request, Begin(r) PROVE HolderInv'
  <2>1. /\ req[r] = Idle /\ \A q \in Request : q # r => req'[q] = req[q]
        /\ UNCHANGED <<store, owner, holders>>
    BY <1>1 DEF Begin, Active, HolderInv, RestInv
  <2>2. CASE req' = [req EXCEPT ![r].at = "handle"]
    <3>1. req'[r].at = "handle" /\ req'[r].id = Absent
      BY <2>1, <2>2 DEF Idle
    <3>. QED BY <2>1, <3>1, HolderKept
  <2>3. ASSUME NEW i \in Id, store[i] # NoRecord,
               req' = [req EXCEPT ![r] =
                 [Idle EXCEPT !.at = IF store[i].user = Absent THEN "handle" ELSE "get_by_id",
                              !.id = i, !.record = store[i]]]
        PROVE  HolderInv'
    <3>1. req'[r].at # "idle" /\ req'[r].id = i
      BY <2>3 DEF Idle
    <3>2. \A q \in Request : RestInv(q)'
      BY <2>1, <3>1 DEF HolderInv, RestInv
    <3>3. \A j \in Id : LostInv(j)'
      BY <1>1, <2>1, <2>3, <3>1 DEF Begin, HolderInv, LostInv, Issued, Active
    <3>. QED BY <3>2, <3>3 DEF HolderInv
  <2>. QED BY <1>1, <2>2, <2>3 DEF Begin
<1>2. ASSUME NEW r \in Request, GetById(r) PROVE HolderInv'
  <2>1. req'[r].id = req[r].id /\ req'[r].at = "handle" /\ Active(r)
    BY <1>2 DEF GetById, Resume, RequestType, Active
  <2>. QED BY <1>2, <2>1, HolderKept DEF GetById, Resume
<1>3. ASSUME NEW r \in Request, Touch(r) PROVE HolderInv'
  <2>1. req'[r].id = req[r].id /\ req'[r].at = "handle" /\ Active(r)
    BY <1>3 DEF Touch, RequestType, Active
  <2>. QED BY <1>3, <2>1, HolderKept DEF Touch
<1>4. ASSUME NEW r \in Request, NEW u \in User, NEW p \in Password, Authenticate(r, u, p)
      PROVE  HolderInv'
  <2>1. req'[r].id = req[r].id /\ req'[r].at # "idle" /\ Active(r)
    BY <1>4 DEF Authenticate, RequestType, Active
  <2>. QED BY <1>4, <2>1, HolderKept DEF Authenticate
<1>5. ASSUME NEW r \in Request, Rehash(r) PROVE HolderInv'
  <2>1. req'[r].id = req[r].id /\ req'[r].at # "idle" /\ Active(r)
    BY <1>5 DEF Rehash, RequestType, Active
  <2>. QED BY <1>5, <2>1, HolderKept DEF Rehash
<1>6. ASSUME NEW r \in Request, DoNotLogin(r) PROVE HolderInv'
  <2>1. req'[r].id = req[r].id /\ req'[r].at # "idle" /\ Active(r)
    BY <1>6 DEF DoNotLogin, RequestType, Active
  <2>. QED BY <1>6, <2>1, HolderKept DEF DoNotLogin
<1>7. ASSUME NEW r \in Request, Login(r) PROVE HolderInv'
  BY <1>7, LoginType, HolderDeletes DEF Login
<1>8. ASSUME NEW r \in Request, Logout(r) PROVE HolderInv'
  <2>1. req'[r].at = "handle" /\ req'[r].id = Absent
    BY <1>8 DEF Logout, Idle
  <2>. QED BY <1>8, <2>1, HolderDeletes DEF Logout
<1>9. ASSUME NEW r \in Request, NEW p \in Password, ChangePassword(r, p) PROVE HolderInv'
  BY <1>9 DEF ChangePassword, HolderInv, RestInv, LostInv, Issued, Active
<1>10. ASSUME NEW r \in Request, Finish(r) PROVE HolderInv'
  <2>1. Closed(r) /\ Active(r) /\ req[r].record \in Record
    BY <1>10 DEF Finish, Active, RequestType
  <2>2. CASE UNCHANGED <<store, owner>>
    BY <2>1, <2>2, HolderCloses
  <2>3. /\ \A q \in Request : q # r => req'[q] = req[q]
        /\ req'[r] = Idle
        /\ \A i \in Id : holders'[i] = holders[i] \ {r}
    BY <2>1, RequestCloses DEF Closed
  <2>4. \A q \in Request : RestInv(q)'
    BY <2>3 DEF HolderInv, RestInv
  \* A record is no NoRecord: the session is not deleted any more.
  <2>5. CASE req[r].id # Absent /\ store' = [store EXCEPT ![req[r].id] = req[r].record]
             /\ UNCHANGED owner
    <3>1. \A i \in Id : LostInv(i)'
      BY <2>1, <2>3, <2>5, RecordsExist DEF HolderInv, LostInv, Issued, Active, Idle, RequestType
    <3>. QED BY <2>4, <3>1 DEF HolderInv
  <2>6. CASE /\ \E i \in Id : ~Issued(i)
             /\ store' = [store EXCEPT ![NewId] = req[r].record]
             /\ owner' = [owner EXCEPT ![NewId] = IF req[r].record.user = Absent THEN Nobody
                                                  ELSE req[r].record.user]
    <3>1. NewId \in Id
      BY <2>6, NewIdFree
    <3>2. \A i \in Id : LostInv(i)'
      BY <2>1, <2>3, <2>6, <3>1, RecordsExist DEF HolderInv, LostInv, Issued, Active, Idle
    <3>. QED BY <2>4, <3>2 DEF HolderInv
  <2>. QED BY <1>10, <2>2, <2>5, <2>6 DEF Finish
<1>11. ASSUME NEW r \in Request, Abandon(r) PROVE HolderInv'
  BY <1>11, HolderCloses DEF Abandon
<1>12. ASSUME NEW u \in User, DeleteUser(u) PROVE HolderInv'
  BY <1>12 DEF DeleteUser, HolderInv, RestInv, LostInv, Issued, Active
<1>13. CASE RotateKey
  BY <1>13 DEF RotateKey, HolderInv, RestInv, LostInv, Issued, Active
<1>14. CASE UNCHANGED vars
  BY <1>14 DEF vars, HolderInv, RestInv, LostInv, Issued, Active
<1>. QED
  BY <1>1, <1>2, <1>3, <1>4, <1>5, <1>6, <1>7, <1>8, <1>9, <1>10, <1>11, <1>12, <1>13, <1>14
     DEF Next

\* Only a request that ends writes a session back.
LEMMA OnlyHoldersRestore ==
    ASSUME IInv, HolderInv, [Next]_vars, NEW i \in Id,
           Issued(i), store[i] = NoRecord, store'[i] # NoRecord
    PROVE  holders[i] # {}
<1>. USE DEF IInv, StateInv
<1>1. ASSUME NEW r \in Request, Finish(r) PROVE holders[i] # {}
  <2>1. CASE (\E j \in Id : ~Issued(j)) /\ store' = [store EXCEPT ![NewId] = req[r].record]
    BY <2>1, NewIdFree DEF TypeOK
  <2>2. CASE store' = [store EXCEPT ![req[r].id] = req[r].record]
    BY <1>1, <2>2 DEF Finish, HolderInv, LostInv, Active, TypeOK
  <2>. QED BY <1>1, <2>1, <2>2 DEF Finish
<1>2. ASSUME NEW r \in Request, Login(r) \/ Logout(r) PROVE FALSE
  BY <1>2, StoreDeletes DEF Login, Logout
<1>. QED
  BY <1>1, <1>2 DEF Next, vars, Begin, GetById, Touch, Authenticate, Rehash, DoNotLogin,
                    ChangePassword, Abandon, DeleteUser, RotateKey

(***************************************************************************)
(* However requests overlap, a logout and the new id of a login are final  *)
(* for every request that had not opened the session by then.              *)
(***************************************************************************)
THEOREM DeletedSessionsStayDeleted == Spec => DeletedStaysDeleted
<1>1. Init => IInv /\ HolderInv
  BY StateInit, OwnerInit, HolderInit DEF IInv
<1>2. IInv /\ HolderInv /\ [Next]_vars => (IInv /\ HolderInv)'
  BY StateStep, OwnerStep, HolderStep DEF IInv
<1>3. IInv /\ HolderInv /\ [Next]_vars =>
        [\A i \in Id : Issued(i) /\ store[i] = NoRecord /\ store'[i] # NoRecord
           => holders[i] # {}]_vars
  BY OnlyHoldersRestore
<1>. QED BY <1>1, <1>2, <1>3, PTL DEF Spec, DeletedStaysDeleted

-----------------------------------------------------------------------------
(* Sessions migrate to the new key                                         *)

Signed(rec) == rec.user # Absent

\* The password is the one the session was logged in with.
Current(rec) == Signed(rec) /\ rec.hash.of = users[rec.user]

\* The session hash is under the key, or under one that is forgotten.
UnderKey(rec) == Signed(rec) /\ rec.hash.key = key
Outdated(rec) == Signed(rec) /\ rec.hash.key < key - 1

KnownKey(rec) == Signed(rec) => rec.hash.key <= key

\* The hash that authenticate made is not in use before it is saved, so a
\* session whose password changed is never current again.
FreshInv(r) ==
    req[r].at = "rehash" =>
        /\ \A u \in User : users[u] # req[r].found.hash
        /\ \A i \in Id : Signed(store[i]) => store[i].hash.of # req[r].found.hash
        /\ \A q \in Request :
             /\ Signed(req[q].record) => req[q].record.hash.of # req[r].found.hash
             /\ q # r => req[q].found.hash # req[r].found.hash

\* A request that acts for a user has moved its session to the current key; if
\* it acts for nobody although the password stays, the key is forgotten.
ActsInv(r) ==
    /\ req[r].at = "get_by_id" => ~req[r].modified
    /\ req[r].user # Absent => req[r].record.user = req[r].user /\ UnderKey(req[r].record)
    /\ req[r].at \notin {"idle", "get_by_id"} /\ Current(req[r].record) =>
         UnderKey(req[r].record) \/ Outdated(req[r].record)

\* All copies of a session are of one login.
SameLogin(a, b) ==
    /\ a.user = b.user
    /\ Signed(a) => a.hash.of = b.hash.of /\ (Outdated(a) <=> Outdated(b))

\* A copy under the current key that will not be written back came from there.
CopyInv(r) ==
    /\ \A q \in Request : req[r].id # Absent /\ req[q].id = req[r].id =>
         SameLogin(req[r].record, req[q].record)
    /\ \A i \in Id : req[r].id = i /\ store[i] # NoRecord =>
         /\ SameLogin(req[r].record, store[i])
         /\ UnderKey(req[r].record) /\ ~req[r].modified /\ Current(store[i]) =>
              UnderKey(store[i])

AcceptedInv(i) ==
    i \in accepted =>
        /\ Issued(i)
        /\ ~Outdated(store[i])
        /\ Current(store[i]) => UnderKey(store[i])
        /\ \A r \in Request : req[r].id = i => ~Outdated(req[r].record)

FreshSessions == \A r \in Request : FreshInv(r)

KeyInv ==
    /\ \A i \in Id : KnownKey(store[i]) /\ AcceptedInv(i)
    /\ \A r \in Request : KnownKey(req[r].record) /\ ActsInv(r) /\ CopyInv(r)

MigrationInv == IInv /\ HolderInv /\ FreshSessions /\ KeyInv

LEMMA MigrationInit == Init => FreshSessions /\ KeyInv
<1>. SUFFICES ASSUME Init PROVE FreshSessions /\ KeyInv
  OBVIOUS
<1>1. /\ \A i \in Id : ~Signed(store[i])
      /\ \A r \in Request : /\ req[r].at = "idle" /\ req[r].id = Absent /\ req[r].user = Absent
                            /\ ~Signed(req[r].record)
  BY DEF Init, Signed, NoRecord, Idle, Empty
<1>2. FreshSessions
  BY <1>1 DEF FreshSessions, FreshInv
<1>3. \A i \in Id : KnownKey(store[i]) /\ AcceptedInv(i)
  BY <1>1 DEF Init, KnownKey, AcceptedInv
<1>4. \A r \in Request : KnownKey(req[r].record) /\ ActsInv(r)
  BY <1>1 DEF KnownKey, ActsInv
<1>5. \A r \in Request : CopyInv(r)
  BY <1>1, AbsentAssumption DEF CopyInv
<1>. QED BY <1>2, <1>3, <1>4, <1>5 DEF KeyInv

-----------------------------------------------------------------------------
(* New hashes are new                                                      *)

LEMMA FreshPassword ==
    ASSUME NEW p \in Password, FreeSalts # {}
    PROVE  FromPassword(p) \notin HashesInUse
<1>1. FromPassword(p).salt \in FreeSalts
  BY DEF FromPassword
<1>2. FromPassword(p) # Absent
  BY PasswordType, AbsentAssumption
<1>. QED BY <1>1, <1>2 DEF FreeSalts

LEMMA SignedHash ==
    ASSUME NEW record \in Record, Signed(record)
    PROVE  /\ record.user \in User /\ record.hash \in SessionHash
           /\ record.hash # Absent
           /\ record.hash.of \in Hash /\ record.hash.key \in 1 .. MaxKey
BY AbsentAssumption DEF Record, Signed, SessionHash

LEMMA HashesUsed ==
    ASSUME TypeOK
    PROVE  /\ \A u \in User : users[u] \in HashesInUse
           /\ \A i \in Id : Signed(store[i]) => store[i].hash.of \in HashesInUse
           /\ \A r \in Request : /\ Signed(req[r].record) => req[r].record.hash.of \in HashesInUse
                                 /\ req[r].found.hash \in HashesInUse
<1>1. ASSUME NEW i \in Id, Signed(store[i]) PROVE store[i].hash # Absent
  <2>1. store[i] \in Record
    BY <1>1 DEF TypeOK, Signed, NoRecord
  <2>. QED BY <1>1, <2>1, SignedHash
<1>2. ASSUME NEW r \in Request, Signed(req[r].record) PROVE req[r].record.hash # Absent
  <2>1. req[r].record \in Record
    BY DEF TypeOK, RequestType
  <2>. QED BY <1>2, <2>1, SignedHash
<1>. QED BY <1>1, <1>2 DEF HashesInUse

LEMMA RehashFound ==
    ASSUME StateInv, NEW r \in Request, req[r].at = "rehash"
    PROVE  req[r].found.hash # Absent
BY AbsentAssumption DEF StateInv, PlaceInv, Found

\* A step that brings no hash into use.
LEMMA FreshKept ==
    ASSUME StateInv, FreshSessions, NEW r \in Request,
           \A q \in Request : q # r => req'[q] = req[q],
           req'[r].at # "rehash",
           req'[r].found.hash \in {req[r].found.hash, Absent},
           Signed(req'[r].record) =>
              \/ Signed(req[r].record) /\ req'[r].record.hash.of = req[r].record.hash.of
              \/ \E i \in Id : req'[r].record = store[i],
           \A u \in User : users'[u] \in {users[u], Absent},
           \A i \in Id : store'[i] = store[i] \/ store'[i] = req[r].record \/ store'[i] = NoRecord
    PROVE  FreshSessions'
<1>. SUFFICES ASSUME NEW q \in Request, req'[q].at = "rehash" PROVE FreshInv(q)'
  BY DEF FreshSessions, FreshInv
<1>. DEFINE h == req[q].found.hash
<1>1. q # r /\ req'[q] = req[q] /\ FreshInv(q) /\ h # Absent
  BY RehashFound DEF FreshSessions
<1>2. \A u \in User : users'[u] # h
  BY <1>1 DEF FreshInv
<1>3. \A i \in Id : Signed(store'[i]) => store'[i].hash.of # h
  BY <1>1 DEF FreshInv, Signed, NoRecord
<1>4. /\ Signed(req'[r].record) => req'[r].record.hash.of # h
      /\ req'[r].found.hash # h
  BY <1>1 DEF FreshInv
<1>5. ASSUME NEW o \in Request
      PROVE  /\ Signed(req'[o].record) => req'[o].record.hash.of # h
             /\ o # q => req'[o].found.hash # h
  BY <1>1, <1>4 DEF FreshInv
<1>. QED BY <1>1, <1>2, <1>3, <1>5 DEF FreshInv, Signed

LEMMA FreshStep == IInv /\ FreshSessions /\ [Next]_vars => FreshSessions'
<1>. SUFFICES ASSUME IInv, FreshSessions, [Next]_vars PROVE FreshSessions'
  OBVIOUS
<1>. USE DEF IInv, StateInv, TypeOK
<1>1. ASSUME NEW r \in Request, Begin(r) PROVE FreshSessions'
  <2>1. /\ req[r] \in RequestType
        /\ \A q \in Request : q # r => req'[q] = req[q]
        /\ UNCHANGED <<users, store>>
    BY <1>1 DEF Begin
  <2>2. CASE req' = [req EXCEPT ![r].at = "handle"]
    <3>1. /\ req'[r].at = "handle" /\ req'[r].found = req[r].found
          /\ req'[r].record = req[r].record
      BY <2>1, <2>2 DEF RequestType
    <3>. QED BY <2>1, <3>1, FreshKept
  <2>3. ASSUME NEW i \in Id, store[i] # NoRecord,
               req' = [req EXCEPT ![r] =
                 [Idle EXCEPT !.at = IF store[i].user = Absent THEN "handle" ELSE "get_by_id",
                              !.id = i, !.record = store[i]]]
        PROVE  FreshSessions'
    <3>1. req'[r].at # "rehash" /\ req'[r].record = store[i] /\ req'[r].found.hash = Absent
      BY <2>3 DEF Idle, NotFound
    <3>. QED BY <2>1, <3>1, FreshKept
  <2>. QED BY <1>1, <2>2, <2>3 DEF Begin
<1>2. ASSUME NEW r \in Request, GetById(r) PROVE FreshSessions'
  <2>1. /\ req[r] \in RequestType /\ req[r].record \in Record
        /\ \A q \in Request : q # r => req'[q] = req[q]
        /\ UNCHANGED <<users, store>>
    BY <1>2 DEF GetById, Resume, RequestType
  <2>. DEFINE record == req[r].record
              moved  == [record EXCEPT !.hash = SessionAuthHash(key, users[record.user])]
  <2>2. ASSUME NEW u, NEW new, NEW b, req' = Resume(r, u, new, b)
        PROVE  req'[r].at = "handle" /\ req'[r].found = req[r].found /\ req'[r].record = new
    BY <2>1, <2>2 DEF Resume, RequestType
  <2>3. CASE \E k \in FallbackKeys : record.hash = SessionAuthHash(k, users[record.user])
             /\ req' = Resume(r, record.user, moved, TRUE)
    <3>1. req'[r].record = moved /\ req'[r].at = "handle" /\ req'[r].found = req[r].found
      BY <2>2, <2>3
    <3>2. moved.user = record.user /\ moved.hash.of = record.hash.of
      BY <2>1, <2>3 DEF Record, SessionAuthHash
    <3>3. Signed(moved) => Signed(record)
      BY <3>2 DEF Signed
    <3>. QED BY <2>1, <3>1, <3>2, <3>3, FreshKept
  <2>4. CASE req' = Resume(r, record.user, record, FALSE) \/ req' = Resume(r, Absent, record, FALSE)
    <3>1. req'[r].record = record /\ req'[r].at = "handle" /\ req'[r].found = req[r].found
      BY <2>2, <2>4
    <3>. QED BY <2>1, <3>1, FreshKept
  <2>. QED BY <1>2, <2>3, <2>4 DEF GetById
<1>3. ASSUME NEW r \in Request, Touch(r) PROVE FreshSessions'
  <2>1. /\ req'[r].at = "handle" /\ req'[r].found = req[r].found
        /\ req'[r].record.user = req[r].record.user /\ req'[r].record.hash = req[r].record.hash
    BY <1>3 DEF Touch, RequestType, Record
  <2>. QED BY <1>3, <2>1, FreshKept DEF Touch, Signed
\* authenticate finds the hash of the row, or makes one that nobody has.
<1>4. ASSUME NEW r \in Request, NEW u \in User, NEW p \in Password, Authenticate(r, u, p)
      PROVE  FreshSessions'
  <2>1. /\ req[r] \in RequestType /\ req[r].record \in Record
        /\ \A q \in Request : q # r => req'[q] = req[q]
        /\ req'[r].record = req[r].record
        /\ req'[r].at = IF users[u].obsolete THEN "rehash" ELSE "login"
        /\ req'[r].found.hash = IF users[u].obsolete THEN FromPassword(p) ELSE users[u]
        /\ UNCHANGED <<users, store>>
    BY <1>4 DEF Authenticate, RequestType
  <2>2. users[u].obsolete => FromPassword(p) \notin HashesInUse
    BY <1>4, FreshPassword DEF Authenticate
  <2>3. \A q \in Request : req'[q].record = req[q].record
    BY <2>1
  <2>4. ASSUME NEW q \in Request, q # r, req'[q].at = "rehash" PROVE FreshInv(q)'
    <3>1. FreshInv(q) /\ req'[q] = req[q] /\ req[q].at = "rehash"
      BY <2>1, <2>4 DEF FreshSessions
    <3>2. req'[r].found.hash # req[q].found.hash
      BY <2>1, <2>2, <3>1, HashesUsed DEF FreshInv
    <3>. QED BY <2>1, <2>3, <3>1, <3>2 DEF FreshInv, Signed
  <2>5. ASSUME req'[r].at = "rehash" PROVE FreshInv(r)'
    <3>1. req'[r].found.hash = FromPassword(p) /\ FromPassword(p) \notin HashesInUse
      BY <2>1, <2>2, <2>5
    <3>. QED BY <2>1, <2>3, <3>1, HashesUsed DEF FreshInv, Signed
  <2>. QED BY <2>4, <2>5 DEF FreshSessions, FreshInv
<1>5. ASSUME NEW r \in Request, Rehash(r) PROVE FreshSessions'
  <2>1. /\ req[r].at = "rehash" /\ req[r] \in RequestType
        /\ \A q \in Request : q # r => req'[q] = req[q]
        /\ req'[r].record = req[r].record /\ req'[r].found = req[r].found
        /\ req'[r].at = "login" /\ UNCHANGED store
        /\ \A u \in User : users'[u] \in {users[u], req[r].found.hash}
    BY <1>5 DEF Rehash, RequestType
  <2>2. ASSUME NEW q \in Request, req'[q].at = "rehash" PROVE FreshInv(q)'
    <3>1. FreshInv(q) /\ req'[q] = req[q] /\ q # r
      BY <2>1, <2>2 DEF FreshSessions
    <3>. QED BY <2>1, <2>2, <3>1 DEF FreshInv, Signed
  <2>. QED BY <2>2 DEF FreshSessions, FreshInv
<1>6. ASSUME NEW r \in Request, DoNotLogin(r) PROVE FreshSessions'
  <2>1. /\ req'[r].at = "handle" /\ req'[r].found.hash = Absent
        /\ req'[r].record = req[r].record
    BY <1>6 DEF DoNotLogin, RequestType, NotFound
  <2>. QED BY <1>6, <2>1, FreshKept DEF DoNotLogin
\* The hash that goes into the session is the one that was found.
<1>7. ASSUME NEW r \in Request, Login(r) PROVE FreshSessions'
  <2>1. /\ req[r].at = "login"
        /\ \A q \in Request : q # r => req'[q] = req[q]
        /\ req'[r].at = "handle"
    BY <1>7, LoginType DEF Login
  <2>2. /\ req'[r].found.hash = Absent
        /\ req'[r].record.hash.of = req[r].found.hash
    BY <1>7 DEF Login, LoggedIn, RequestType, NotFound, SessionAuthHash
  <2>3. \A i \in Id : store'[i] \in {store[i], NoRecord}
    BY <1>7, StoreDeletes DEF Login
  <2>4. ASSUME NEW q \in Request, req'[q].at = "rehash" PROVE FreshInv(q)'
    <3>1. FreshInv(q) /\ req'[q] = req[q] /\ q # r /\ req[q].found.hash # Absent
      BY <2>1, <2>4, RehashFound DEF FreshSessions
    <3>2. \A i \in Id : Signed(store'[i]) => store'[i].hash.of # req[q].found.hash
      BY <2>3, <2>4, <3>1 DEF FreshInv, Signed, NoRecord
    <3>3. UNCHANGED users
      BY <1>7 DEF Login
    <3>4. ASSUME NEW o \in Request
          PROVE  /\ Signed(req'[o].record) => req'[o].record.hash.of # req[q].found.hash
                 /\ o # q => req'[o].found.hash # req[q].found.hash
      BY <2>1, <2>2, <2>4, <3>1 DEF FreshInv
    <3>. QED BY <2>4, <3>1, <3>2, <3>3, <3>4 DEF FreshInv, Signed
  <2>. QED BY <2>4 DEF FreshSessions, FreshInv
<1>8. ASSUME NEW r \in Request, Logout(r) PROVE FreshSessions'
  <2>1. /\ req'[r].at = "handle" /\ req'[r].found.hash = Absent /\ ~Signed(req'[r].record)
        /\ \A i \in Id : store'[i] \in {store[i], NoRecord}
    BY <1>8, StoreDeletes DEF Logout, Idle, NotFound, Signed, Empty
  <2>. QED BY <1>8, <2>1, FreshKept DEF Logout
<1>9. ASSUME NEW r \in Request, NEW p \in Password, ChangePassword(r, p) PROVE FreshSessions'
  <2>1. /\ FromPassword(p) \notin HashesInUse /\ UNCHANGED <<store, req>>
        /\ \A u \in User : users'[u] \in {users[u], FromPassword(p)}
    BY <1>9, FreshPassword DEF ChangePassword
  <2>. QED BY <2>1, HashesUsed DEF FreshSessions, FreshInv, Signed
<1>10. ASSUME NEW r \in Request, Finish(r) \/ Abandon(r) PROVE FreshSessions'
  <2>1. /\ \A q \in Request : q # r => req'[q] = req[q]
        /\ req'[r] = Idle /\ UNCHANGED users
    BY <1>10, RequestCloses DEF Finish, Abandon
  <2>2. \A i \in Id : store'[i] = store[i] \/ store'[i] = req[r].record
    BY <1>10 DEF Finish, Abandon
  <2>3. req'[r].at # "rehash" /\ req'[r].found.hash = Absent /\ ~Signed(req'[r].record)
    BY <2>1 DEF Idle, NotFound, Empty, Signed
  <2>. QED BY <2>1, <2>2, <2>3, FreshKept
<1>11. ASSUME NEW u \in User, DeleteUser(u) PROVE FreshSessions'
  <2>1. UNCHANGED <<store, req>> /\ \A v \in User : users'[v] \in {users[v], Absent}
    BY <1>11 DEF DeleteUser
  <2>. QED BY <2>1, RehashFound DEF FreshSessions, FreshInv, Signed
<1>12. CASE RotateKey \/ UNCHANGED vars
  BY <1>12 DEF RotateKey, vars, FreshSessions, FreshInv, Signed
<1>. QED
  BY <1>1, <1>2, <1>3, <1>4, <1>5, <1>6, <1>7, <1>8, <1>9, <1>10, <1>11, <1>12 DEF Next

-----------------------------------------------------------------------------
(* What the steps do to the sessions                                       *)

\* The sessions and their hashes stay, and no password comes back.
LEMMA KeyKept ==
    ASSUME KeyInv, UNCHANGED <<store, key, owner, accepted>>,
           \A r \in Request :
              /\ req'[r].id = req[r].id /\ req'[r].user = req[r].user
              /\ req'[r].record.user = req[r].record.user
              /\ req'[r].record.hash = req[r].record.hash
              /\ req[r].modified => req'[r].modified
              /\ req'[r].at = "get_by_id" => req'[r].at = req[r].at /\ req'[r].modified = req[r].modified
              /\ req'[r].at \notin {"idle", "get_by_id"} =>
                   \/ req[r].at \notin {"idle", "get_by_id"}
                   \/ ~Signed(req[r].record),
           \A i \in Id : Current(store[i])' => Current(store[i]),
           \A r \in Request : Current(req[r].record)' => Current(req[r].record)
    PROVE  KeyInv'
<1>1. \A r \in Request : /\ Signed(req[r].record)' <=> Signed(req[r].record)
                         /\ UnderKey(req[r].record)' <=> UnderKey(req[r].record)
                         /\ Outdated(req[r].record)' <=> Outdated(req[r].record)
                         /\ KnownKey(req[r].record)' <=> KnownKey(req[r].record)
  BY DEF Signed, UnderKey, Outdated, KnownKey
<1>2. \A i \in Id : /\ Signed(store[i])' <=> Signed(store[i])
                    /\ UnderKey(store[i])' <=> UnderKey(store[i])
                    /\ Outdated(store[i])' <=> Outdated(store[i])
                    /\ KnownKey(store[i])' <=> KnownKey(store[i])
  BY DEF Signed, UnderKey, Outdated, KnownKey
<1>3. \A i \in Id : KnownKey(store[i])' /\ AcceptedInv(i)'
  BY <1>1, <1>2 DEF KeyInv, AcceptedInv, Issued
<1>4. \A r \in Request : KnownKey(req[r].record)' /\ ActsInv(r)'
  BY <1>1 DEF KeyInv, ActsInv, Current, Signed
<1>5. ASSUME NEW r \in Request PROVE CopyInv(r)'
  <2>1. CopyInv(r)
    BY DEF KeyInv
  <2>2. ASSUME NEW q \in Request, req'[r].id # Absent, req'[q].id = req'[r].id
        PROVE  SameLogin(req[r].record, req[q].record)'
    <3>1. SameLogin(req[r].record, req[q].record)
      BY <2>1, <2>2 DEF CopyInv
    <3>2. /\ req'[r].record.user = req[r].record.user /\ req'[r].record.hash = req[r].record.hash
          /\ req'[q].record.user = req[q].record.user /\ req'[q].record.hash = req[q].record.hash
      OBVIOUS
    <3>. QED
      BY <1>1, <3>1, <3>2 DEF SameLogin
  <2>3. ASSUME NEW i \in Id, req'[r].id = i, store'[i] # NoRecord
        PROVE  /\ SameLogin(req[r].record, store[i])'
               /\ UnderKey(req[r].record)' /\ ~req'[r].modified /\ Current(store[i])' =>
                    UnderKey(store[i])'
    BY <1>1, <1>2, <2>1, <2>3 DEF CopyInv, SameLogin
  <2>. QED BY <2>2, <2>3 DEF CopyInv
<1>. QED BY <1>3, <1>4, <1>5 DEF KeyInv

\* A request drops its id; what it goes on with is in order.
LEMMA KeyDropped ==
    ASSUME KeyInv, NEW r \in Request, UNCHANGED <<users, key, owner, accepted>>,
           \A q \in Request : q # r => req'[q] = req[q],
           req'[r].id = Absent, KnownKey(req[r].record)', ActsInv(r)',
           \A i \in Id : store'[i] \in {store[i], NoRecord}
    PROVE  KeyInv'
<1>1. ~Signed(NoRecord)
  BY DEF Signed, NoRecord
<1>2. ASSUME NEW i \in Id PROVE KnownKey(store[i])' /\ AcceptedInv(i)'
  <2>1. \A q \in Request : req'[q].id = i => req'[q] = req[q]
    BY AbsentAssumption
  <2>. QED BY <1>1, <2>1 DEF KeyInv, AcceptedInv, KnownKey, Issued, Outdated, Current, UnderKey
<1>3. ASSUME NEW q \in Request PROVE KnownKey(req[q].record)' /\ ActsInv(q)'
  BY DEF KeyInv, KnownKey, ActsInv, Current, UnderKey, Outdated
<1>4. ASSUME NEW q \in Request PROVE CopyInv(q)'
  <2>1. CASE q = r
    BY <2>1, AbsentAssumption DEF CopyInv
  <2>2. CASE q # r
    <3>1. CopyInv(q) /\ req'[q] = req[q]
      BY <2>2 DEF KeyInv
    <3>2. ASSUME NEW o \in Request, req'[q].id # Absent, req'[o].id = req'[q].id
          PROVE  SameLogin(req[q].record, req[o].record)'
      BY <3>1, <3>2 DEF CopyInv, SameLogin, Outdated
    <3>3. ASSUME NEW i \in Id, req'[q].id = i, store'[i] # NoRecord
          PROVE  /\ SameLogin(req[q].record, store[i])'
                 /\ UnderKey(req[q].record)' /\ ~req'[q].modified /\ Current(store[i])' =>
                      UnderKey(store[i])'
      BY <3>1, <3>3 DEF CopyInv, SameLogin, Outdated, UnderKey, Current
    <3>. QED BY <3>2, <3>3 DEF CopyInv
  <2>. QED BY <2>1, <2>2
<1>. QED BY <1>2, <1>3, <1>4 DEF KeyInv

\* A request opens a session: its copy is what the store holds.
LEMMA KeyOpens ==
    ASSUME KeyInv, NEW r \in Request, NEW i \in Id, UNCHANGED <<users, store, key, owner, accepted>>,
           \A q \in Request : q # r => req'[q] = req[q],
           store[i] # NoRecord, req'[r].id = i, req'[r].record = store[i], ~req'[r].modified,
           req'[r].user = Absent, req'[r].at = "handle" => ~Signed(store[i]),
           req'[r].at \in {"handle", "get_by_id"}
    PROVE  KeyInv'
<1>1. \A a, b : /\ SameLogin(a, b)' <=> SameLogin(a, b)
                /\ Outdated(a)' <=> Outdated(a)
                /\ UnderKey(a)' <=> UnderKey(a)
                /\ Current(a)' <=> Current(a)
                /\ KnownKey(a)' <=> KnownKey(a)
  BY DEF SameLogin, Signed, Outdated, UnderKey, Current, KnownKey
<1>2. \A a, b : SameLogin(a, a) /\ (SameLogin(a, b) => SameLogin(b, a))
  BY DEF SameLogin, Signed
<1>3. \A j \in Id : KnownKey(store[j])' /\ AcceptedInv(j)'
  BY <1>1 DEF KeyInv, AcceptedInv, Issued, KnownKey, Outdated, UnderKey, Current
<1>4. \A q \in Request : KnownKey(req[q].record)' /\ ActsInv(q)'
  BY <1>1 DEF KeyInv, ActsInv, KnownKey, Current, UnderKey, Outdated
<1>5. ASSUME NEW q \in Request, NEW o \in Request, req'[q].id # Absent, req'[o].id = req'[q].id
      PROVE  SameLogin(req'[q].record, req'[o].record)
  <2>1. \A x \in Request : x # r /\ req[x].id = i => SameLogin(req[x].record, store[i])
    BY DEF KeyInv, CopyInv
  <2>2. q # r /\ o # r => SameLogin(req[q].record, req[o].record)
    BY <1>5 DEF KeyInv, CopyInv
  <2>. QED BY <1>2, <1>5, <2>1, <2>2
<1>6. ASSUME NEW q \in Request, NEW j \in Id, req'[q].id = j, store[j] # NoRecord
      PROVE  /\ SameLogin(req'[q].record, store[j])
             /\ UnderKey(req'[q].record) /\ ~req'[q].modified /\ Current(store[j]) =>
                  UnderKey(store[j])
  BY <1>2, <1>6 DEF KeyInv, CopyInv
<1>7. \A q \in Request : CopyInv(q)'
  BY <1>5, <1>6 DEF CopyInv, SameLogin, Signed, Outdated, UnderKey, Current
<1>. QED BY <1>3, <1>4, <1>7 DEF KeyInv

\* A request that ends: the session that it saves, and the one it acted with.
LEMMA KeyFinish ==
    ASSUME IInv, KeyInv, NEW r \in Request, Finish(r)
    PROVE  KeyInv'
<1>. USE DEF IInv, StateInv, TypeOK
<1>. DEFINE record == req[r].record
            saved  == req[r].modified /\ record # Empty
<1>1. /\ \A q \in Request : q # r => req'[q] = req[q]
      /\ req'[r] = Idle /\ UNCHANGED <<users, key>> /\ req[r].at = "handle"
  BY RequestCloses DEF Finish
<1>2. \A a, b : /\ SameLogin(a, b)' <=> SameLogin(a, b)
                /\ Outdated(a)' <=> Outdated(a)
                /\ UnderKey(a)' <=> UnderKey(a)
                /\ Current(a)' <=> Current(a)
                /\ KnownKey(a)' <=> KnownKey(a)
  BY <1>1 DEF SameLogin, Signed, Outdated, UnderKey, Current, KnownKey
<1>3. \A a : UnderKey(a) => ~Outdated(a)
  BY KeyAssumption DEF UnderKey, Outdated
<1>4. /\ req[r].user # Absent => record.user = req[r].user /\ UnderKey(record)
      /\ Current(record) => UnderKey(record) \/ Outdated(record)
      /\ KnownKey(record)
  BY <1>1 DEF KeyInv, ActsInv
<1>5. /\ req'[r].id = Absent /\ req'[r].user = Absent /\ ~Signed(req'[r].record)
      /\ req'[r].at = "idle" /\ ~Signed(NoRecord)
  BY <1>1 DEF Idle, Empty, Signed, NoRecord
<1>6. \A q \in Request : KnownKey(req[q].record)' /\ ActsInv(q)'
  BY <1>1, <1>2, <1>5 DEF KeyInv, ActsInv, KnownKey, Current, UnderKey, Outdated
<1>7. \A q \in Request : CopyInv(q) /\ OpenInv(q)
  BY DEF KeyInv, OwnerInv
\* Who else has the session open has a copy of the same login.
<1>8. \A q, o \in Request : req'[q].id # Absent /\ req'[o].id = req'[q].id =>
        SameLogin(req'[q].record, req'[o].record)
  BY <1>1, <1>5, <1>7 DEF CopyInv
<1>9. ASSUME \A q \in Request, i \in Id : q # r /\ req[q].id = i /\ store'[i] # NoRecord =>
                /\ SameLogin(req[q].record, store'[i])
                /\ UnderKey(req[q].record) /\ ~req[q].modified /\ Current(store'[i]) =>
                     UnderKey(store'[i])
      PROVE  \A q \in Request : CopyInv(q)'
  <2>1. ASSUME NEW q \in Request, NEW i \in Id, req'[q].id = i, store'[i] # NoRecord
        PROVE  /\ SameLogin(req'[q].record, store'[i])
               /\ UnderKey(req'[q].record) /\ ~req'[q].modified /\ Current(store'[i]) =>
                    UnderKey(store'[i])
    BY <1>1, <1>5, <1>9, <2>1, AbsentAssumption
  <2>. QED BY <1>1, <1>8, <2>1 DEF CopyInv, SameLogin, Signed, Outdated, UnderKey, Current
<1>10. ASSUME \A i \in Id : KnownKey(store'[i]),
              \A i \in accepted' :
                 /\ owner'[i] # Absent
                 /\ ~Outdated(store'[i])
                 /\ Current(store'[i]) => UnderKey(store'[i])
                 /\ \A q \in Request : q # r /\ req[q].id = i => ~Outdated(req[q].record)
       PROVE  \A i \in Id : KnownKey(store[i])' /\ AcceptedInv(i)'
  BY <1>1, <1>2, <1>5, <1>10, AbsentAssumption
     DEF AcceptedInv, Issued, KnownKey, Outdated, Current, UnderKey
<1>11. \A i \in accepted : AcceptedInv(i) /\ i \in Id
  BY DEF KeyInv
\* The session under a new id: nobody else knows it.
<1>12. CASE /\ req[r].id = Absent /\ \E i \in Id : ~Issued(i)
            /\ store' = [store EXCEPT ![NewId] = record]
            /\ owner' = [owner EXCEPT ![NewId] = IF record.user = Absent THEN Nobody
                                                 ELSE record.user]
            /\ UNCHANGED accepted
  <2>1. NewId \in Id /\ ~Issued(NewId)
    BY <1>12, NewIdFree
  <2>2. \A q \in Request : req[q].id # NewId
    BY <1>7, <2>1, AbsentAssumption DEF OpenInv, Issued
  <2>3. \A i \in Id : KnownKey(store'[i])
    BY <1>4, <1>12, <2>1 DEF KeyInv
  <2>4. NewId \notin accepted
    BY <1>11, <2>1 DEF AcceptedInv
  <2>5. \A i \in accepted' : i # NewId /\ store'[i] = store[i] /\ owner'[i] = owner[i]
    BY <1>11, <1>12, <2>1, <2>4
  <2>6. \A i \in Id : KnownKey(store[i])' /\ AcceptedInv(i)'
    BY <1>10, <1>11, <1>12, <2>3, <2>5 DEF AcceptedInv, Issued
  <2>7. \A q \in Request : CopyInv(q)'
    BY <1>7, <1>9, <1>12, <2>1, <2>2 DEF CopyInv
  <2>. QED BY <1>6, <2>6, <2>7 DEF KeyInv
<1>13. CASE /\ saved /\ req[r].id # Absent
            /\ store' = [store EXCEPT ![req[r].id] = record]
            /\ accepted' = accepted \union Accepted(r)
            /\ UNCHANGED owner
  <2>1. req[r].id \in Id /\ Issued(req[r].id)
    BY <1>7, <1>13 DEF RequestType, OpenInv
  <2>2. \A q \in Request : req[q].id = req[r].id => SameLogin(req[q].record, record)
    BY <1>7, <1>13 DEF CopyInv
  <2>3. \A i \in Id : KnownKey(store'[i])
    BY <1>4, <1>13, <2>1 DEF KeyInv
  <2>4. ASSUME NEW q \in Request, NEW i \in Id, q # r, req[q].id = i, store'[i] # NoRecord
        PROVE  /\ SameLogin(req[q].record, store'[i])
               /\ UnderKey(req[q].record) /\ ~req[q].modified /\ Current(store'[i]) =>
                    UnderKey(store'[i])
    <3>1. CASE i # req[r].id
      BY <1>7, <1>13, <2>1, <2>4, <3>1 DEF CopyInv
    <3>2. CASE i = req[r].id
      <4>1. store'[i] = record /\ SameLogin(req[q].record, record)
        BY <1>13, <2>1, <2>2, <2>4, <3>2
      <4>2. UnderKey(req[q].record) => ~Outdated(record)
        BY <1>3, <4>1 DEF SameLogin, UnderKey
      <4>. QED BY <1>4, <4>1, <4>2
    <3>. QED BY <3>1, <3>2
  <2>5. ASSUME NEW i \in accepted'
        PROVE  /\ owner'[i] # Absent
               /\ ~Outdated(store'[i])
               /\ Current(store'[i]) => UnderKey(store'[i])
               /\ \A q \in Request : q # r /\ req[q].id = i => ~Outdated(req[q].record)
    <3>1. CASE i \in accepted /\ i # req[r].id
      BY <1>11, <1>13, <2>1, <3>1 DEF AcceptedInv, Issued
    <3>2. CASE i \in accepted /\ i = req[r].id
      <4>1. store'[i] = record /\ ~Outdated(record)
        BY <1>11, <1>13, <2>1, <3>2 DEF AcceptedInv
      <4>. QED BY <1>4, <1>11, <1>13, <3>2, <4>1 DEF AcceptedInv, Issued
    <3>3. CASE i \in Accepted(r)
      <4>1. i = req[r].id /\ UnderKey(record) /\ store'[i] = record
        BY <1>4, <1>13, <2>1, <3>3 DEF Accepted
      <4>2. ~Outdated(record)
        BY <1>3, <4>1
      <4>3. \A q \in Request : req[q].id = i => ~Outdated(req[q].record)
        BY <2>2, <4>1, <4>2 DEF SameLogin, Outdated
      <4>. QED BY <1>13, <2>1, <4>1, <4>2, <4>3 DEF Issued
    <3>. QED BY <1>13, <3>1, <3>2, <3>3
  <2>6. \A i \in Id : KnownKey(store[i])' /\ AcceptedInv(i)'
    BY <1>10, <2>3, <2>5
  <2>7. \A q \in Request : CopyInv(q)'
    BY <1>9, <2>4
  <2>. QED BY <1>6, <2>6, <2>7 DEF KeyInv
\* Nothing is saved: what the store holds of the session is in order already.
<1>14. CASE ~saved /\ accepted' = accepted \union Accepted(r) /\ UNCHANGED <<store, owner>>
  <2>1. \A q \in Request : CopyInv(q)'
    BY <1>7, <1>9, <1>14 DEF CopyInv
  <2>2. ASSUME NEW i \in accepted'
        PROVE  /\ owner'[i] # Absent
               /\ ~Outdated(store'[i])
               /\ Current(store'[i]) => UnderKey(store'[i])
               /\ \A q \in Request : q # r /\ req[q].id = i => ~Outdated(req[q].record)
    <3>1. CASE i \in accepted
      BY <1>11, <1>14, <3>1 DEF AcceptedInv, Issued
    <3>2. CASE i \in Accepted(r)
      <4>1. i \in Id /\ i = req[r].id /\ UnderKey(record)
        BY <1>4, <3>2 DEF Accepted
      <4>2. ~Outdated(record) /\ record # Empty
        BY <1>3, <4>1 DEF UnderKey, Signed, Empty
      <4>3. \A q \in Request : req[q].id = i => ~Outdated(req[q].record)
        BY <1>7, <4>1, <4>2, AbsentAssumption DEF CopyInv, SameLogin, Outdated
      <4>4. Issued(i)
        BY <1>7, <4>1, AbsentAssumption DEF OpenInv
      <4>5. store[i] # NoRecord => SameLogin(record, store[i])
        BY <1>7, <4>1 DEF CopyInv
      <4>6. ~Outdated(store[i])
        BY <1>5, <4>1, <4>2, <4>5 DEF SameLogin, Outdated, UnderKey
      <4>7. Current(store[i]) => UnderKey(store[i])
        BY <1>5, <1>7, <1>14, <4>1, <4>2 DEF CopyInv, Current
      <4>. QED BY <1>14, <4>3, <4>4, <4>6, <4>7 DEF Issued
    <3>. QED BY <1>14, <3>1, <3>2
  <2>3. \A i \in Id : KnownKey(store[i])' /\ AcceptedInv(i)'
    BY <1>10, <1>14, <2>2 DEF KeyInv
  <2>. QED BY <1>6, <2>1, <2>3 DEF KeyInv
<1>. QED BY <1>12, <1>13, <1>14 DEF Finish

\* The row is read and the session hash compared.
LEMMA KeyGetById ==
    ASSUME IInv, KeyInv, NEW r \in Request, GetById(r)
    PROVE  KeyInv'
<1>. USE DEF IInv, StateInv, TypeOK
<1>. DEFINE record == req[r].record
            row    == users[record.user]
            new    == req'[r].record
<1>1. /\ req[r] \in RequestType /\ record \in Record /\ Signed(record)
      /\ \A q \in Request : q # r => req'[q] = req[q]
      /\ UNCHANGED <<users, store, key, owner, accepted>>
      /\ req[r].at = "get_by_id"
  BY DEF GetById, Resume, RequestType, PlaceInv, Signed
<1>2. /\ record.user \in User /\ record.hash \in SessionHash
      /\ record.hash.key \in 1 .. MaxKey /\ KnownKey(record)
      /\ ~req[r].modified
  BY <1>1, SignedHash DEF KeyInv, ActsInv
<1>3. ASSUME NEW u, NEW x, NEW b, req' = Resume(r, u, x, b)
      PROVE  /\ req'[r].at = "handle" /\ req'[r].id = req[r].id /\ req'[r].user = u
             /\ req'[r].record = x /\ req'[r].modified = b
  BY <1>1, <1>3 DEF Resume, RequestType
<1>4. /\ req'[r].id = req[r].id /\ req'[r].at = "handle"
      /\ new.user = record.user /\ new.hash.of = record.hash.of
      /\ new.hash.key = key \/ new = record
      /\ new.hash.key < key - 1 <=> record.hash.key < key - 1
      /\ req'[r].user # Absent => new.user = req'[r].user /\ new.hash.key = key
      /\ ~req'[r].modified => new = record
      /\ Current(new) => new.hash.key = key \/ new.hash.key < key - 1
  <2>1. CASE row # Absent /\ record.hash = SessionAuthHash(key, row)
             /\ req' = Resume(r, record.user, record, FALSE)
    <3>1. new = record /\ req'[r].user = record.user
      BY <1>3, <2>1
    <3>2. record.hash.key = key
      BY <2>1 DEF SessionAuthHash
    <3>. QED BY <1>3, <2>1, <3>1, <3>2
  <2>2. CASE /\ \E k \in FallbackKeys : record.hash = SessionAuthHash(k, row)
             /\ req' = Resume(r, record.user,
                              [record EXCEPT !.hash = SessionAuthHash(key, row)], TRUE)
    <3>1. new = [record EXCEPT !.hash = SessionAuthHash(key, row)]
      BY <1>3, <2>2
    <3>2. /\ new.user = record.user /\ new.hash.of = row /\ new.hash.key = key
      BY <1>1, <3>1 DEF Record, SessionAuthHash
    <3>3. record.hash.of = row /\ record.hash.key = key - 1
      BY <2>2 DEF SessionAuthHash, FallbackKeys
    <3>4. req'[r].user = record.user /\ req'[r].modified = TRUE
          /\ req'[r].id = req[r].id /\ req'[r].at = "handle"
      BY <1>3, <2>2
    <3>. QED BY <3>2, <3>3, <3>4, KeyAssumption
  <2>3. CASE /\ \/ row = Absent
                \/ \A k \in {key} \union FallbackKeys : record.hash # SessionAuthHash(k, row)
             /\ req' = Resume(r, Absent, record, FALSE)
    <3>1. new = record /\ req'[r].user = Absent
      BY <1>3, <2>3
    <3>2. ASSUME Current(record) PROVE record.hash.key = key \/ record.hash.key < key - 1
      <4>1. row = record.hash.of /\ row # Absent
        BY <1>1, <3>2, SignedHash, AbsentAssumption DEF Current
      <4>2. \A k \in {key} \union FallbackKeys : record.hash.key # k
        BY <1>2, <2>3, <4>1 DEF SessionAuthHash, SessionHash
      <4>3. record.hash.key <= key
        BY <1>1, <1>2 DEF KnownKey
      <4>. QED BY <1>2, <4>2, <4>3, KeyAssumption DEF FallbackKeys
    <3>. QED BY <1>3, <2>3, <3>1, <3>2
  <2>. QED BY <2>1, <2>2, <2>3 DEF GetById
<1>5. /\ Signed(new) /\ KnownKey(new)
      /\ Outdated(new) <=> Outdated(record)
      /\ UnderKey(new) <=> new.hash.key = key
  BY <1>1, <1>2, <1>4, KeyAssumption DEF Signed, KnownKey, Outdated, UnderKey
<1>6. \A a, b : /\ SameLogin(a, b)' <=> SameLogin(a, b)
                /\ Outdated(a)' <=> Outdated(a)
                /\ UnderKey(a)' <=> UnderKey(a)
                /\ Current(a)' <=> Current(a)
  BY <1>1 DEF SameLogin, Signed, Outdated, UnderKey, Current
<1>7. SameLogin(new, new) /\ \A a : /\ SameLogin(record, a) => SameLogin(new, a)
                                    /\ SameLogin(a, record) => SameLogin(a, new)
  BY <1>1, <1>4, <1>5 DEF SameLogin, Signed
<1>8. \A i \in Id : KnownKey(store[i])' /\ AcceptedInv(i)'
  BY <1>1, <1>4, <1>5
     DEF KeyInv, AcceptedInv, KnownKey, Issued, Outdated, UnderKey, Current, Signed
<1>9. ASSUME NEW q \in Request PROVE KnownKey(req[q].record)' /\ ActsInv(q)'
  <2>1. CASE q = r
    BY <1>1, <1>4, <1>5, <2>1 DEF ActsInv, KnownKey, Current, UnderKey, Outdated, Signed
  <2>2. CASE q # r
    BY <1>1, <2>2 DEF KeyInv, ActsInv, KnownKey, Current, UnderKey, Outdated, Signed
  <2>. QED BY <2>1, <2>2
<1>10. ASSUME NEW q \in Request, NEW o \in Request, req'[q].id # Absent, req'[o].id = req'[q].id
       PROVE  SameLogin(req'[q].record, req'[o].record)
  <2>1. req[q].id # Absent /\ req[o].id = req[q].id
    BY <1>1, <1>4, <1>10
  <2>2. SameLogin(req[q].record, req[o].record)
    BY <2>1 DEF KeyInv, CopyInv
  <2>3. (q # r => req'[q].record = req[q].record) /\ (o # r => req'[o].record = req[o].record)
    BY <1>1
  <2>. QED BY <1>7, <2>2, <2>3
<1>11. ASSUME NEW q \in Request, NEW i \in Id, req'[q].id = i, store[i] # NoRecord
       PROVE  /\ SameLogin(req'[q].record, store[i])
              /\ UnderKey(req'[q].record) /\ ~req'[q].modified /\ Current(store[i]) =>
                   UnderKey(store[i])
  <2>1. req[q].id = i /\ CopyInv(q)
    BY <1>1, <1>4, <1>11 DEF KeyInv
  <2>2. /\ SameLogin(req[q].record, store[i])
        /\ UnderKey(req[q].record) /\ ~req[q].modified /\ Current(store[i]) => UnderKey(store[i])
    BY <1>11, <2>1 DEF CopyInv
  <2>. QED BY <1>1, <1>2, <1>4, <1>7, <2>2
<1>12. \A q \in Request : CopyInv(q)'
  BY <1>1, <1>10, <1>11 DEF CopyInv, SameLogin, Signed, Outdated, UnderKey, Current
<1>. QED BY <1>8, <1>9, <1>12 DEF KeyInv

LEMMA KeyStep == IInv /\ HolderInv /\ FreshSessions /\ KeyInv /\ [Next]_vars => KeyInv'
<1>. SUFFICES ASSUME IInv, HolderInv, FreshSessions, KeyInv, [Next]_vars PROVE KeyInv'
  OBVIOUS
<1>. USE DEF IInv, StateInv, TypeOK
<1>1. ASSUME NEW r \in Request, Begin(r) PROVE KeyInv'
  <2>1. /\ req[r] = Idle /\ \A q \in Request : q # r => req'[q] = req[q]
        /\ UNCHANGED <<users, store, key, owner, accepted>>
    BY <1>1 DEF Begin, Active, HolderInv, RestInv
  <2>2. CASE req' = [req EXCEPT ![r].at = "handle"]
    <3>1. /\ req'[r].at = "handle" /\ req'[r].id = Absent /\ req'[r].user = Absent
          /\ ~Signed(req'[r].record)
      BY <2>1, <2>2 DEF Idle, Empty, Signed
    <3>2. KnownKey(req[r].record)' /\ ActsInv(r)'
      BY <3>1 DEF KnownKey, ActsInv, Current, Signed
    <3>. QED BY <2>1, <3>1, <3>2, KeyDropped
  <2>3. ASSUME NEW i \in Id, store[i] # NoRecord,
               req' = [req EXCEPT ![r] =
                 [Idle EXCEPT !.at = IF store[i].user = Absent THEN "handle" ELSE "get_by_id",
                              !.id = i, !.record = store[i]]]
        PROVE  KeyInv'
    <3>1. /\ req'[r].at = IF store[i].user = Absent THEN "handle" ELSE "get_by_id"
          /\ req'[r].id = i /\ req'[r].record = store[i]
          /\ req'[r].user = Absent /\ ~req'[r].modified
      BY <2>3 DEF Idle
    <3>2. req'[r].at = "handle" => ~Signed(store[i])
      BY <3>1 DEF Signed
    <3>3. req'[r].at \in {"handle", "get_by_id"}
      BY <3>1
    <3>. QED BY <2>1, <2>3, <3>1, <3>2, <3>3, KeyOpens
  <2>. QED BY <1>1, <2>2, <2>3 DEF Begin
<1>2. ASSUME NEW r \in Request, GetById(r) PROVE KeyInv'
  BY <1>2, KeyGetById
<1>3. ASSUME NEW r \in Request, Touch(r) PROVE KeyInv'
  <2>1. /\ req'[r].at = "handle" /\ req[r].at = "handle"
        /\ req'[r].id = req[r].id /\ req'[r].user = req[r].user /\ req'[r].modified
        /\ req'[r].record.user = req[r].record.user /\ req'[r].record.hash = req[r].record.hash
        /\ \A q \in Request : q # r => req'[q] = req[q]
        /\ UNCHANGED <<users, store, key, owner, accepted>>
    BY <1>3 DEF Touch, RequestType, Record
  <2>. QED BY <2>1, KeyKept DEF Current, Signed
<1>4. ASSUME NEW r \in Request, NEW u \in User, NEW p \in Password, Authenticate(r, u, p)
      PROVE  KeyInv'
  <2>1. /\ req'[r].at \in {"rehash", "login"} /\ req[r].at = "handle"
        /\ req'[r].id = req[r].id /\ req'[r].user = req[r].user
        /\ req'[r].modified = req[r].modified /\ req'[r].record = req[r].record
        /\ \A q \in Request : q # r => req'[q] = req[q]
        /\ UNCHANGED <<users, store, key, owner, accepted>>
    BY <1>4 DEF Authenticate, RequestType
  <2>. QED BY <2>1, KeyKept DEF Current, Signed
\* The hash that is saved is no session's yet: no session comes to life.
<1>5. ASSUME NEW r \in Request, Rehash(r) PROVE KeyInv'
  <2>1. /\ req'[r].at = "login" /\ req[r].at = "rehash"
        /\ req'[r].id = req[r].id /\ req'[r].user = req[r].user
        /\ req'[r].modified = req[r].modified /\ req'[r].record = req[r].record
        /\ \A q \in Request : q # r => req'[q] = req[q]
        /\ UNCHANGED <<store, key, owner, accepted>>
        /\ \A u \in User : users'[u] \in {users[u], req[r].found.hash}
    BY <1>5 DEF Rehash, RequestType
  <2>2. FreshInv(r)
    BY DEF FreshSessions
  <2>3. \A i \in Id : Current(store[i])' => Current(store[i])
    <3>1. ASSUME NEW i \in Id, Signed(store[i]) PROVE store[i].user \in User
      BY <3>1, SignedHash DEF Signed, NoRecord
    <3>. QED BY <2>1, <2>2, <3>1 DEF Current, Signed, FreshInv
  <2>4. \A q \in Request : Current(req[q].record)' => Current(req[q].record)
    <3>1. ASSUME NEW q \in Request, Signed(req[q].record) PROVE req[q].record.user \in User
      BY <3>1, SignedHash DEF RequestType
    <3>. QED BY <2>1, <2>2, <3>1 DEF Current, Signed, FreshInv
  <2>. QED BY <2>1, <2>3, <2>4, KeyKept
<1>6. ASSUME NEW r \in Request, DoNotLogin(r) PROVE KeyInv'
  <2>1. /\ req'[r].at = "handle" /\ req[r].at = "login"
        /\ req'[r].id = req[r].id /\ req'[r].user = req[r].user
        /\ req'[r].modified = req[r].modified /\ req'[r].record = req[r].record
        /\ \A q \in Request : q # r => req'[q] = req[q]
        /\ UNCHANGED <<users, store, key, owner, accepted>>
    BY <1>6 DEF DoNotLogin, RequestType
  <2>. QED BY <2>1, KeyKept DEF Current, Signed
<1>7. ASSUME NEW r \in Request, Login(r) PROVE KeyInv'
  <2>1. /\ req'[r].id = Absent /\ req'[r].at = "handle"
        /\ \A q \in Request : q # r => req'[q] = req[q]
    BY <1>7, LoginType DEF Login
  <2>2. /\ req'[r].user = req[r].found.user /\ req'[r].record.user = req[r].found.user
        /\ req'[r].record.hash.key = key
    BY <1>7 DEF Login, LoggedIn, RequestType, SessionAuthHash
  <2>3. \A i \in Id : store'[i] \in {store[i], NoRecord}
    BY <1>7, StoreDeletes DEF Login
  <2>4. UNCHANGED <<users, key, owner, accepted>>
    BY <1>7 DEF Login
  <2>5. KnownKey(req[r].record)' /\ ActsInv(r)'
    BY <2>1, <2>2, <2>4, KeyAssumption DEF KnownKey, ActsInv, UnderKey, Signed, Current
  <2>. QED BY <2>1, <2>3, <2>4, <2>5, KeyDropped
<1>8. ASSUME NEW r \in Request, Logout(r) PROVE KeyInv'
  <2>1. /\ req'[r].id = Absent /\ req'[r].at = "handle" /\ req'[r].user = Absent
        /\ ~Signed(req'[r].record)
        /\ \A q \in Request : q # r => req'[q] = req[q]
        /\ \A i \in Id : store'[i] \in {store[i], NoRecord}
        /\ UNCHANGED <<users, key, owner, accepted>>
    BY <1>8, StoreDeletes DEF Logout, Idle, Empty, Signed
  <2>2. KnownKey(req[r].record)' /\ ActsInv(r)'
    BY <2>1 DEF KnownKey, ActsInv, Signed, Current
  <2>. QED BY <2>1, <2>2, KeyDropped
<1>9. ASSUME NEW r \in Request, NEW p \in Password, ChangePassword(r, p) PROVE KeyInv'
  <2>1. /\ FromPassword(p) \notin HashesInUse /\ UNCHANGED <<store, req, key, owner, accepted>>
        /\ \A u \in User : users'[u] \in {users[u], FromPassword(p)}
    BY <1>9, FreshPassword DEF ChangePassword
  <2>2. \A i \in Id : Current(store[i])' => Current(store[i])
    <3>1. ASSUME NEW i \in Id, Signed(store[i]) PROVE store[i].user \in User
      BY <3>1, SignedHash DEF Signed, NoRecord
    <3>. QED BY <2>1, <3>1, HashesUsed DEF Current, Signed
  <2>3. \A q \in Request : Current(req[q].record)' => Current(req[q].record)
    <3>1. ASSUME NEW q \in Request, Signed(req[q].record) PROVE req[q].record.user \in User
      BY <3>1, SignedHash DEF RequestType
    <3>. QED BY <2>1, <3>1, HashesUsed DEF Current, Signed
  <2>. QED BY <2>1, <2>2, <2>3, KeyKept
<1>10. ASSUME NEW r \in Request, Finish(r) PROVE KeyInv'
  BY <1>10, KeyFinish
<1>11. ASSUME NEW r \in Request, Abandon(r) PROVE KeyInv'
  <2>1. /\ \A q \in Request : q # r => req'[q] = req[q]
        /\ req'[r] = Idle /\ UNCHANGED <<users, store, key, owner, accepted>>
    BY <1>11, RequestCloses DEF Abandon
  <2>2. req'[r].id = Absent /\ KnownKey(req[r].record)' /\ ActsInv(r)'
    BY <2>1 DEF KnownKey, ActsInv, Signed, Current, Idle, Empty
  <2>. QED BY <2>1, <2>2, KeyDropped
<1>12. ASSUME NEW u \in User, DeleteUser(u) PROVE KeyInv'
  <2>1. /\ UNCHANGED <<store, req, key, owner, accepted>>
        /\ \A v \in User : users'[v] \in {users[v], Absent}
    BY <1>12 DEF DeleteUser
  <2>2. \A i \in Id : Current(store[i])' => Current(store[i])
    <3>1. ASSUME NEW i \in Id, Signed(store[i])
          PROVE  store[i].user \in User /\ store[i].hash.of # Absent
      BY <3>1, SignedHash, AbsentAssumption DEF Signed, NoRecord
    <3>. QED BY <2>1, <3>1 DEF Current, Signed
  <2>3. \A q \in Request : Current(req[q].record)' => Current(req[q].record)
    <3>1. ASSUME NEW q \in Request, Signed(req[q].record)
          PROVE  req[q].record.user \in User /\ req[q].record.hash.of # Absent
      BY <3>1, SignedHash, AbsentAssumption DEF RequestType
    <3>. QED BY <2>1, <3>1 DEF Current, Signed
  <2>. QED BY <2>1, <2>2, <2>3, KeyKept
\* Nothing is open when the server restarts, and nothing is accepted yet.
<1>13. CASE RotateKey
  <2>1. /\ \A r \in Request : req[r].id = Absent /\ ~Signed(req[r].record)
                              /\ req[r].user = Absent /\ req[r].at = "idle"
        /\ UNCHANGED <<users, store, req, owner>> /\ key' = key + 1 /\ accepted' = {}
    BY <1>13 DEF RotateKey, Active, HolderInv, RestInv, Idle, Empty, Signed
  <2>2. ASSUME NEW i \in Id PROVE KnownKey(store[i])' /\ AcceptedInv(i)'
    <3>1. Signed(store[i]) => store[i].hash.key \in 1 .. MaxKey /\ store[i].hash.key <= key
      BY SignedHash DEF KeyInv, KnownKey, Signed, NoRecord
    <3>. QED BY <2>1, <3>1, KeyAssumption DEF KnownKey, AcceptedInv, Signed
  <2>3. ASSUME NEW r \in Request
        PROVE  KnownKey(req[r].record)' /\ ActsInv(r)' /\ CopyInv(r)'
    BY <2>1, AbsentAssumption DEF KnownKey, ActsInv, CopyInv, Signed, Current
  <2>. QED BY <2>2, <2>3 DEF KeyInv
<1>14. CASE UNCHANGED vars
  BY <1>14, KeyKept DEF vars, Current, Signed
<1>. QED
  BY <1>1, <1>2, <1>3, <1>4, <1>5, <1>6, <1>7, <1>8, <1>9, <1>10, <1>11, <1>12, <1>13, <1>14
     DEF Next

(***************************************************************************)
(* A session that was accepted since the last restart is under the current *)
(* key, whichever of the overlapping requests wrote it last, as long as    *)
(* the password stays.                                                     *)
(***************************************************************************)
THEOREM AcceptedSessionsMigrate == Spec => []SessionsMigrate
<1>1. Init => MigrationInv
  BY StateInit, OwnerInit, HolderInit, MigrationInit DEF MigrationInv, IInv
<1>2. MigrationInv /\ [Next]_vars => MigrationInv'
  BY StateStep, OwnerStep, HolderStep, FreshStep, KeyStep DEF MigrationInv, IInv
<1>3. MigrationInv => SessionsMigrate
  BY DEF MigrationInv, IInv, StateInv, KeyInv, AcceptedInv, Current, Signed, UnderKey,
         SessionsMigrate
<1>. QED BY <1>1, <1>2, <1>3, PTL DEF Spec
=============================================================================
