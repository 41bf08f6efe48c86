----------------------------- MODULE SessionRedis -----------------------------
(***************************************************************************)
(* cot::session::store::redis::RedisStore: one key per session, holding    *)
(* the record as JSON (its id is part of the text) with a time to live.    *)
(* Every operation sends one or more commands to Redis; a command is       *)
(* atomic, an operation is not: `save` first writes if the key exists (XX) *)
(* and, when it does not, goes on to create, which writes if it does not   *)
(* exist (NX) under id after id.                                           *)
(*                                                                         *)
(* Redis is external: it drops a key when its time is over and refuses     *)
(* `EX 0`, which the store sends for a record with less than a second to   *)
(* live.                                                                   *)
(***************************************************************************)
EXTENDS Integers

CONSTANTS
    Client, Id, Data, Absent, Operation,
    Expiring,    \* the data of records that have less than a second to live
    MaxRetries   \* MAX_COLLISION_RETRIES of store.rs

VARIABLES
    keys,    \* keys[i]: the record under key i
    call,    \* call[c]: the call of client c
    held     \* held[c]: did the key of c's call hold a record at some moment of it?

vars == <<keys, call, held>>

NoRecord == [id |-> Absent, data |-> Absent]

\* json: the text that is sent, made once per operation (and once more when
\* save goes on to create).
Idle == [at |-> "idle", op |-> "none", id |-> Absent, json |-> NoRecord,
         tries |-> 0, result |-> NoRecord]

\* The first step of each operation.
Start == [create |-> "setnx", save |-> "setxx", load |-> "get", delete |-> "del"]

Invoked(op, i, d) ==
    [Idle EXCEPT !.at = Start[op], !.op = op, !.id = i,
                 !.json = IF op \in {"create", "save"} THEN [id |-> i, data |-> d]
                          ELSE NoRecord]

Running(c) == call[c].at \notin {"idle", "done", "failed", "abandoned"}

To(c, step) == [call EXCEPT ![c].at = step]

\* History: keys held at this moment count for the calls that run.
Watched(k, l) == [c \in Client |->
    /\ l[c].at # "idle"
    /\ l[c].op = "save"
    /\ held[c] \/ k[l[c].json.id] # NoRecord]

Init == /\ keys = [i \in Id |-> NoRecord]
        /\ call = [c \in Client |-> Idle]
        /\ held = [c \in Client |-> FALSE]

Invoke(c) ==
    /\ call[c].at = "idle"
    /\ \E op \in Operation, i \in Id, d \in Data :
            call' = [call EXCEPT ![c] = Invoked(op, i, d)]
    /\ UNCHANGED keys

\* Redis answers a SET with `EX 0` with an error.
Refused(c) ==
    /\ call[c].at \in {"setxx", "setnx"}
    /\ call[c].json.data \in Expiring
    /\ call' = To(c, "failed")
    /\ UNCHANGED keys

\* SET key XX: write if the key exists, else go on to create.
SetExisting(c) ==
    LET i == call[c].id IN
    /\ call[c].at = "setxx"
    /\ call[c].json.data \notin Expiring
    /\ \/ /\ keys[i] # NoRecord
          /\ keys' = [keys EXCEPT ![i] = call[c].json]
          /\ call' = To(c, "done")
       \/ /\ keys[i] = NoRecord
          /\ call' = To(c, "setnx")
          /\ UNCHANGED keys

\* A random id for the next attempt, if there is one.
Retry(c, fresh) ==
    IF call[c].tries < MaxRetries
    THEN [call EXCEPT ![c].id = fresh, ![c].tries = @ + 1]
    ELSE To(c, "failed")

\* Mutant: NX is forgotten.
SetNewUnconditional(c) ==
    /\ call[c].at = "setnx"
    /\ call[c].json.data \notin Expiring
    /\ keys' = [keys EXCEPT ![call[c].id] = call[c].json]
    /\ call' = To(c, "done")

\* One attempt of create's loop: SET key NX.  A taken key brings a new random
\* id for the next attempt; the text stays as it is.
SetNew(c) ==
    LET i == call[c].id IN
    /\ call[c].at = "setnx"
    /\ call[c].json.data \notin Expiring
    /\ \/ /\ keys[i] = NoRecord
          /\ keys' = [keys EXCEPT ![i] = call[c].json]
          /\ call' = To(c, "done")
       \/ /\ keys[i] # NoRecord
          /\ \E fresh \in Id :
                call' = Retry(c, fresh)
          /\ UNCHANGED keys

Get(c) ==
    /\ call[c].at = "get"
    /\ call' = [To(c, "done") EXCEPT ![c].result = keys[call[c].id]]
    /\ UNCHANGED keys

Del(c) ==
    /\ call[c].at = "del"
    /\ keys' = [keys EXCEPT ![call[c].id] = NoRecord]
    /\ call' = To(c, "done")

\* A command fails, the pool has no connection, or the caller drops the call.
Abandon(c) ==
    /\ Running(c)
    /\ call' = To(c, "abandoned")
    /\ UNCHANGED keys

Return(c) ==
    /\ call[c].at \in {"done", "failed", "abandoned"}
    /\ call' = [call EXCEPT ![c] = Idle]
    /\ UNCHANGED keys

\* The time to live of a key is over.
Lapse ==
    /\ \E i \in Id : keys[i] # NoRecord /\ keys' = [keys EXCEPT ![i] = NoRecord]
    /\ UNCHANGED call

Next ==
    /\ \/ \E c \in Client :
            \/ Invoke(c) \/ Abandon(c) \/ Return(c)
            \/ Refused(c) \/ SetExisting(c) \/ SetNew(c) \/ Get(c) \/ Del(c)
       \/ Lapse
    /\ held' = Watched(keys', call')

Spec == Init /\ [][Next]_vars

-----------------------------------------------------------------------------
(* Properties                                                              *)

CallAt == {"idle", "setxx", "setnx", "get", "del", "done", "failed", "abandoned"}

\* Keys and calls have the shapes the store gives them.
TypeOK ==
    LET Record == [id : Id, data : Data] \union {NoRecord} IN
    /\ keys \in [Id -> Record]
    /\ call \in [Client -> [at : CallAt, op : {"none", "create", "save", "load", "delete"},
                            id : Id \union {Absent}, json : Record,
                            tries : 0 .. MaxRetries, result : Record]]
    /\ held \in [Client -> BOOLEAN]

\* A save that returned Ok left its key holding a record at some moment of the
\* call: its own, or that of the writer it lost the race to.
SaveHolds == \A c \in Client : call[c].op = "save" /\ call[c].at = "done" => held[c]

\* A create never replaces a record that is there, whoever wrote it: only a
\* save or a delete of that id does.
CreateSpares ==
    \A i \in Id : keys[i] # NoRecord /\ keys'[i] \notin {keys[i], NoRecord}
        => \E c \in Client : call[c].at = "setxx" /\ call[c].id = i

=============================================================================
