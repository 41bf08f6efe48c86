----------------------------- MODULE AuthSessions -----------------------------
(***************************************************************************)
(* cot::auth over the session of a request: AuthMiddleware asks the        *)
(* session who is logged in and checks the session hash against the user's *)
(* row; handlers authenticate, log in, log out and change passwords; the   *)
(* session layer writes the session back when the request ends.  Requests  *)
(* with the same cookie each work on a copy of the session of their own,   *)
(* and every await is a step, so they interleave between any two of them.  *)
(*                                                                         *)
(* External: tower_sessions::Session (an id, a copy of the record, is it   *)
(* modified) and SessionManager; the session store is a map, which         *)
(* SessionStores shows of two of the four.  One server process runs at a   *)
(* time; it restarts to rotate its secret key.                             *)
(***************************************************************************)
EXTENDS Integers

CONSTANTS
    Request,   \* requests in flight
    User,      \* primary keys of DatabaseUser
    Password,
    Id,        \* session ids; one that was used is never drawn again
    Absent,    \* no id, no user, no row, no hash
    Nobody,    \* whom a session belongs to before anyone logs in
    Salt,      \* what makes two hashes of one password differ
    MaxKey     \* bound on key rotations

Hash == [password : Password, salt : Salt, obsolete : BOOLEAN]
SessionHash == [key : 1 .. MaxKey, of : Hash]

ASSUME AbsentAssumption ==
    Absent \notin Id \union User \union Hash \union SessionHash \union {Nobody} \union BOOLEAN
ASSUME KeyAssumption == MaxKey \in Nat \ {0}

VARIABLES
    users,     \* users[u]: the password hash in the row of u, or Absent
    store,     \* store[i]: the record of session i, or NoRecord
    req,       \* req[r]: where request r is, and its session
    key,       \* the secret key; the one before it is the fallback key
    owner,     \* history: the user session i was created for, or Nobody
    accepted,  \* history: sessions that were accepted under the current key
    holders    \* history: requests that had session i open when it was deleted

vars == <<users, store, req, key, owner, accepted, holders>>

\* Record::data: the user's id, the session hash, and is there anything in it?
Empty    == [user |-> Absent, hash |-> Absent, data |-> FALSE]
NoRecord == [user |-> Absent, hash |-> Absent, data |-> Absent]

\* user: whom Auth::user answers; found: what authenticate answered last.
NotFound == [user |-> Absent, hash |-> Absent]
Idle == [at |-> "idle", id |-> Absent, record |-> Empty, modified |-> FALSE,
         user |-> Absent, found |-> NotFound]

Active(r) == req[r].at # "idle"
Issued(i) == owner[i] # Absent
NewId     == CHOOSE i \in Id : ~Issued(i)

\* DatabaseUser::session_auth_hash: a MAC of the password hash.
SessionAuthHash(k, hash) == [key |-> k, of |-> hash]

FallbackKeys == {k \in {key - 1} : k > 0}

HashesInUse ==
    {users[u] : u \in User}
        \union {store[i].hash.of : i \in {j \in Id : store[j].hash # Absent}}
        \union {req[r].record.hash.of : r \in {q \in Request : req[q].record.hash # Absent}}
        \union {req[r].found.hash : r \in Request}

FreeSalts == {s \in Salt : \A h \in HashesInUse \ {Absent} : h.salt # s}

\* PasswordHash::from_password: a new random salt.
FromPassword(p) == [password |-> p, salt |-> CHOOSE s \in FreeSalts : TRUE, obsolete |-> FALSE]

-----------------------------------------------------------------------------
Init ==
    /\ \E salt \in [User -> Salt], p \in [User -> Password], old \in [User -> BOOLEAN] :
         /\ \A u, v \in User : salt[u] = salt[v] => u = v
         /\ users = [u \in User |-> [password |-> p[u], salt |-> salt[u], obsolete |-> old[u]]]
    /\ store = [i \in Id |-> NoRecord]
    /\ req = [r \in Request |-> Idle]
    /\ key = 1
    /\ owner = [i \in Id |-> Absent]
    /\ accepted = {}
    /\ holders = [i \in Id |-> {}]

\* A request arrives, with the cookie of some session or with none;
\* session.get(USER_ID_SESSION_KEY) loads its record.  An id that the store
\* does not know is dropped.
Begin(r) ==
    /\ ~Active(r)
    /\ \/ req' = [req EXCEPT ![r].at = "handle"]
       \/ \E i \in Id :
            /\ store[i] # NoRecord
            /\ req' = [req EXCEPT ![r] =
                  [Idle EXCEPT !.at = IF store[i].user = Absent THEN "handle" ELSE "get_by_id",
                               !.id = i, !.record = store[i]]]
    /\ UNCHANGED <<users, store, key, owner, accepted, holders>>

\* The request goes on as user u, or as AnonymousUser.
Resume(r, u, record, modified) ==
    [req EXCEPT ![r].at = "handle", ![r].user = u, ![r].record = record, ![r].modified = modified]

\* Mutants: the hash is not compared; the fallback keys are accepted but the
\* session keeps the old hash.
GetByIdUnchecked(r) ==
    LET record == req[r].record IN
    /\ req[r].at = "get_by_id"
    /\ req' = Resume(r, IF users[record.user] = Absent THEN Absent ELSE record.user, record, FALSE)
    /\ UNCHANGED <<users, store, key, owner, accepted, holders>>
GetByIdNotUpdated(r) ==
    LET record == req[r].record
        row    == users[record.user] IN
    /\ req[r].at = "get_by_id"
    /\ req' = IF row # Absent /\ record.hash \in
                   {SessionAuthHash(k, row) : k \in {key} \union FallbackKeys}
              THEN Resume(r, record.user, record, FALSE)
              ELSE Resume(r, Absent, record, FALSE)
    /\ UNCHANGED <<users, store, key, owner, accepted, holders>>

\* get_user_with_saved_id and session_auth_hash_valid: the row, then the hash
\* under the current key, then under the fallback keys; those put the hash
\* under the current key into the session.
GetById(r) ==
    LET record  == req[r].record
        row     == users[record.user]
        current == SessionAuthHash(key, row)
    IN
    /\ req[r].at = "get_by_id"
    /\ \/ /\ row # Absent /\ record.hash = current
          /\ req' = Resume(r, record.user, record, FALSE)
       \/ /\ row # Absent /\ record.hash # current
          /\ \E k \in FallbackKeys : record.hash = SessionAuthHash(k, row)
          /\ req' = Resume(r, record.user, [record EXCEPT !.hash = current], TRUE)
       \/ /\ \/ row = Absent
             \/ \A k \in {key} \union FallbackKeys : record.hash # SessionAuthHash(k, row)
          /\ req' = Resume(r, Absent, record, FALSE)
    /\ UNCHANGED <<users, store, key, owner, accepted, holders>>

-----------------------------------------------------------------------------
(* What a handler may do, in any order                                     *)

\* A handler puts something into the session.
Touch(r) ==
    /\ req[r].at = "handle"
    /\ req' = [req EXCEPT ![r].record.data = TRUE, ![r].modified = TRUE]
    /\ UNCHANGED <<users, store, key, owner, accepted, holders>>

\* DatabaseUser::authenticate: the row is read and the password verified.  An
\* obsolete hash is replaced by a new one, for now in the object only.
Authenticate(r, u, p) ==
    LET row == users[u] IN
    /\ req[r].at = "handle"
    /\ row # Absent /\ row.password = p       \* else the request goes on as it was
    /\ row.obsolete => FreeSalts # {}
    /\ req' = [req EXCEPT
         ![r].at    = IF row.obsolete THEN "rehash" ELSE "login",
         ![r].found = [user |-> u, hash |-> IF row.obsolete THEN FromPassword(p) ELSE row]]
    /\ UNCHANGED <<users, store, key, owner, accepted, holders>>

\* user.save(): an upsert of the whole row.
Rehash(r) ==
    /\ req[r].at = "rehash"
    /\ users' = [users EXCEPT ![req[r].found.user] = req[r].found.hash]
    /\ req' = [req EXCEPT ![r].at = "login"]
    /\ UNCHANGED <<store, key, owner, accepted, holders>>

\* The handler wanted to check the password only.
DoNotLogin(r) ==
    /\ req[r].at = "login"
    /\ req' = [req EXCEPT ![r].at = "handle", ![r].found = NotFound]
    /\ UNCHANGED <<users, store, key, owner, accepted, holders>>

\* The store's delete, and the history that goes with it.
Deleted(r, i) ==
    /\ store' = [j \in Id |-> IF j = i THEN NoRecord ELSE store[j]]
    /\ holders' = [j \in Id |-> IF j # i THEN holders[j]
                                ELSE {o \in Request \ {r} : Active(o) /\ req[o].id = i}]

LoggedIn(r, i) ==
    LET found == req[r].found IN
    [req EXCEPT ![r] = [@ EXCEPT
          !.at = "handle", !.id = i, !.user = found.user, !.found = NotFound, !.modified = TRUE,
          !.record = [user |-> found.user, hash |-> SessionAuthHash(key, found.hash), data |-> TRUE]]]

\* Mutant: the session keeps its id.
LoginSameId(r) ==
    /\ req[r].at = "login"
    /\ req' = LoggedIn(r, req[r].id)
    /\ UNCHANGED <<users, store, key, owner, accepted, holders>>

\* AuthInner::login: cycle_id deletes the old record and forgets the id, then
\* the user's id and the session hash go into the copy of the session.  What
\* else the session holds stays.
Login(r) ==
    /\ req[r].at = "login"
    /\ Deleted(r, req[r].id)
    /\ req' = LoggedIn(r, Absent)
    /\ UNCHANGED <<users, key, owner, accepted>>

\* Mutant: the record is deleted and the request still has its id.
LogoutKeepsId(r) ==
    /\ req[r].at = "handle"
    /\ Deleted(r, req[r].id)
    /\ req' = [req EXCEPT ![r] = [Idle EXCEPT !.at = "handle", !.id = req[r].id,
                                              !.modified = TRUE]]
    /\ UNCHANGED <<users, key, owner, accepted>>

\* AuthInner::logout: flush clears the copy, deletes the record and forgets
\* the id; the user is anonymous from now on.
Logout(r) ==
    /\ req[r].at = "handle"
    /\ Deleted(r, req[r].id)
    /\ req' = [req EXCEPT ![r] = [Idle EXCEPT !.at = "handle", !.modified = TRUE]]
    /\ UNCHANGED <<users, key, owner, accepted>>

\* set_password and save, of the user the request acts for.
ChangePassword(r, p) ==
    /\ req[r].at = "handle" /\ req[r].user # Absent
    /\ FreeSalts # {}
    /\ users' = [users EXCEPT ![req[r].user] = FromPassword(p)]
    /\ UNCHANGED <<store, req, key, owner, accepted, holders>>

-----------------------------------------------------------------------------
Closed(r) ==
    /\ req' = [req EXCEPT ![r] = Idle]
    /\ holders' = [i \in Id |-> holders[i] \ {r}]

\* The session with which the request acted for a user, if any.
Accepted(r) ==
    {i \in Id : i = req[r].id /\ req[r].user # Absent /\ req[r].user = req[r].record.user}

\* The response is on its way: SessionManager saves a session that is
\* modified and not empty, under a new id if it has none.
Finish(r) ==
    LET record == req[r].record
        saved  == req[r].modified /\ record # Empty
    IN
    /\ req[r].at = "handle"
    /\ \/ /\ saved /\ req[r].id = Absent
          /\ \E i \in Id : ~Issued(i)
          /\ store' = [store EXCEPT ![NewId] = record]
          /\ owner' = [owner EXCEPT ![NewId] = IF record.user = Absent THEN Nobody
                                               ELSE record.user]
          /\ UNCHANGED accepted
       \/ /\ saved /\ req[r].id # Absent
          /\ store' = [store EXCEPT ![req[r].id] = record]
          /\ accepted' = accepted \union Accepted(r)
          /\ UNCHANGED owner
       \/ /\ ~saved
          /\ accepted' = accepted \union Accepted(r)
          /\ UNCHANGED <<store, owner>>
    /\ Closed(r)
    /\ UNCHANGED <<users, key>>

\* The client goes away, a statement fails, the response is a server error:
\* the session is not saved.
Abandon(r) ==
    /\ Active(r)
    /\ Closed(r)
    /\ UNCHANGED <<users, store, key, owner, accepted>>

\* An administrator deletes the user.
DeleteUser(u) ==
    /\ users[u] # Absent
    /\ users' = [users EXCEPT ![u] = Absent]
    /\ UNCHANGED <<store, req, key, owner, accepted, holders>>

\* The server restarts with a new secret key and the old one as the fallback.
RotateKey ==
    /\ key < MaxKey
    /\ \A r \in Request : ~Active(r)
    /\ key' = key + 1
    /\ accepted' = {}
    /\ UNCHANGED <<users, store, req, owner, holders>>

Next ==
    \/ \E r \in Request :
         \/ Begin(r) \/ GetById(r) \/ Touch(r)
         \/ \E u \in User, p \in Password : Authenticate(r, u, p)
         \/ Rehash(r) \/ DoNotLogin(r) \/ Login(r) \/ Logout(r)
         \/ \E p \in Password : ChangePassword(r, p)
         \/ Finish(r) \/ Abandon(r)
    \/ \E u \in User : DeleteUser(u)
    \/ RotateKey

Spec == Init /\ [][Next]_vars

-----------------------------------------------------------------------------
(* Properties                                                              *)

\* Requests and passwords differ by name only: any two may be swapped.
Swaps(S)  == {[v \in S |-> IF v = p THEN q ELSE IF v = q THEN p ELSE v] : p, q \in S}
Symmetric == Swaps(Request) \union Swaps(Password)

\* Rows, sessions and requests have their shapes.  A session that names a
\* user holds a session hash, which session_auth_hash_valid expects ("Session
\* hash should be present in the session object"), and `expect`s.
Record ==
    {r \in [user : User \union {Absent}, hash : {Absent} \union SessionHash, data : BOOLEAN] :
        (r.user = Absent) = (r.hash = Absent)}
Found == [user : User, hash : Hash]
RequestType ==
    [at : {"idle", "get_by_id", "handle", "rehash", "login"}, id : Id \union {Absent},
     record : Record, modified : BOOLEAN, user : User \union {Absent},
     found : Found \union {NotFound}]

TypeOK ==
    /\ users \in [User -> Hash \union {Absent}]
    /\ store \in [Id -> Record \union {NoRecord}]
    /\ req \in [Request -> RequestType]
    /\ key \in 1 .. MaxKey
    /\ owner \in [Id -> User \union {Nobody, Absent}]
    /\ accepted \subseteq Id
    /\ holders \in [Id -> SUBSET Request]

\* A request acts for a user because of its session only if the password the
\* session was logged in with is the user's at the moment the row is read:
\* when a user changes the password, all their sessions are invalidated,
\* whatever requests of theirs overlap.
SessionProvesPassword ==
    [][\A r \in Request :
         req[r].at = "get_by_id" /\ req'[r].at = "handle" /\ req'[r].user # Absent =>
            /\ users[req'[r].user] # Absent
            /\ users[req'[r].user].password = req[r].record.hash.of.password]_vars

\* A session id serves one user for all its life, the one who logged in when
\* it was made: an id handed out to an anonymous visitor, or to somebody else,
\* never becomes a logged in session.
IdServesOneUser ==
    \A i \in Id : store[i] # NoRecord => store[i].user \in {Absent, owner[i]}

\* The documentation of fallback_secret_keys: sessions migrate to the new key.
\* A session that the server accepted since the last rotation keeps its user
\* logged in through the next one, if the password stays: its hash is under the
\* current key, whichever of the overlapping requests wrote it last.  Rows,
\* sessions and requests keep to their shapes.
SessionsMigrate ==
    /\ TypeOK
    /\ (\A r \in Request : ~Active(r)) =>
        \A i \in Id : /\ i \in accepted
                        /\ store[i] # NoRecord /\ store[i].user # Absent
                        /\ store[i].hash.of = users[store[i].user]
                        => store[i].hash.key = key

\* A session that was deleted, by a logout or because a login gave it a new
\* id, comes back only through a request that had it open when it was deleted.
DeletedStaysDeleted ==
    [][\A i \in Id : Issued(i) /\ store[i] = NoRecord /\ store'[i] # NoRecord
         => holders[i] # {}]_vars

=============================================================================
