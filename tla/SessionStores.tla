---------------------------- MODULE SessionStores ----------------------------
(***************************************************************************)
(* SessionMiddleware::config_to_session_store picks one of four stores by  *)
(* configuration; SessionStoreWrapper passes the middleware's calls on.    *)
(* The state of a store that was not picked is Off.                        *)
(***************************************************************************)
EXTENDS Integers, FiniteSets

CONSTANTS
    Client, Id, Data, Absent, Operation, Off,
    Lifetime, MaxTime,                                            \* SessionMemory
    Pk, Isolation,                                                \* SessionDb
    FileData, Length, File, MayAbandon, MaxRemovals, MaxFlight,   \* SessionFile
    Expiring,                                                     \* SessionRedis
    MaxRetries                                                    \* all but SessionMemory

ASSUME AbsentAssumption == Absent \notin Data \union FileData \union Id \union Pk \union File
ASSUME OperationAssumption == Operation \subseteq {"create", "save", "load", "delete"}
ASSUME IsolationAssumption == Isolation \in {"read committed", "consistent reads"}
ASSUME LengthAssumption == \A d \in FileData : Length[d] \in Nat \ {0}
\* Durations; and more primary keys than rows, committed or not, and memories of them.
ASSUME LifetimeAssumption == Lifetime \subseteq Int
ASSUME PkAssumption ==
    /\ IsFiniteSet(Client) /\ IsFiniteSet(Id)
    /\ IsFiniteSet(Pk) => Cardinality(Pk) > Cardinality(Id) + 2 * Cardinality(Client)
ASSUME BoundsAssumption == {MaxTime, MaxRemovals, MaxFlight, MaxRetries} \subseteq Nat

VARIABLES
    kind,                                       \* SessionStoreTypeConfig
    call,                                       \* the calls, as the store sees them
    store, now,                                 \* SessionMemory
    table, own,                                 \* SessionDb
    dir, entry, content, flight, removals,      \* SessionFile
    keys, held                                  \* SessionRedis

memory   == <<store, now>>
database == <<table, own>>
file     == <<dir, entry, content, flight, removals>>
redis    == <<keys, held>>
vars     == <<kind, call, memory, database, file, redis>>

Memory == INSTANCE SessionMemory
Db     == INSTANCE SessionDb
Files  == INSTANCE SessionFile WITH Data <- FileData
Redis  == INSTANCE SessionRedis WITH Data <- Data \union Expiring

NoMemory   == store = Off /\ now = Off
NoDatabase == table = Off /\ own = Off
NoFile     == dir = Off /\ entry = Off /\ content = Off /\ flight = Off /\ removals = Off
NoRedis    == keys = Off /\ held = Off

Init ==
    \/ kind = "memory"   /\ Memory!Init /\ NoDatabase /\ NoFile /\ NoRedis
    \/ kind = "database" /\ Db!Init     /\ NoMemory   /\ NoFile /\ NoRedis
    \/ kind = "file"     /\ Files!Init  /\ NoMemory   /\ NoDatabase /\ NoRedis
    \/ kind = "redis"    /\ Redis!Init  /\ NoMemory   /\ NoDatabase /\ NoFile

Next ==
    /\ UNCHANGED kind
    /\ \/ kind = "memory"   /\ Memory!Next /\ UNCHANGED <<database, file, redis>>
       \/ kind = "database" /\ Db!Next     /\ UNCHANGED <<memory, file, redis>>
       \/ kind = "file"     /\ Files!Next  /\ UNCHANGED <<memory, database, redis>>
       \/ kind = "redis"    /\ Redis!Next  /\ UNCHANGED <<memory, database, file>>

Spec == Init /\ [][Next]_vars

-----------------------------------------------------------------------------
(* Properties                                                              *)

\* The stores keep to the shapes of their data.
TypeOK ==
    \/ kind = "memory"
    \/ kind = "database" /\ Db!TypeOK
    \/ kind = "file" /\ Files!TypeOK
    \/ kind = "redis" /\ Redis!TypeOK

\* The abstract map of the stores that implement it.  Nothing happens to it
\* when one of the other two is picked: a file store's loads may fail on what
\* its saves left, and both may store a record under an id nobody knows.
Mapped == kind \in {"memory", "database"}

Map == INSTANCE SessionMap
         WITH map    <- [i \in Id |-> CASE kind = "memory"   -> Memory!Live(i)
                                        [] kind = "database" -> table[i].data
                                        [] OTHER             -> Absent],
              call   <- [c \in Client |->
                            CASE kind = "memory"   -> Memory!AbstractCall(c)
                              [] kind = "database" -> Db!AbstractCall(c)
                              [] OTHER -> [at |-> "idle", op |-> "none",
                                           id |-> Absent, data |-> Absent]],
              lapses <- (kind = "memory")

\* In memory and in the database, however the statements of concurrent calls
\* interleave, fail, are dropped or lose their answers, a save, a load, a
\* create or a delete happens at once or not at all, surely so when it
\* succeeds, and no load finds an expired record that was kept in memory.
ImplementsMap == Map!Spec

\* DbStore: what a transaction of save is about to commit follows the row that
\* is committed now, under its primary key, and no other transaction has an
\* uncommitted row with the same key.  All the stores keep to their shapes.
CommitsInPlace == TypeOK /\ (kind = "database" => Db!CommitsInPlace)

\* FileStore: a deleted session stays deleted while no call names its id,
\* though writes of calls that have returned may still be on their way.
QuietStaysAbsent == [][kind = "file" => Files!QuietStaysAbsent]_vars

\* What a call returns is so.  FileStore: a record that load hands out carries
\* the id it was asked for, whatever calls overlap, collide and retry.
\* RedisStore: a save that returned Ok left its key holding a record at some
\* moment of the call, its own or that of the writer it lost the race to.
ReturnsHold ==
    /\ kind = "file" => Files!LoadedIsOwn
    /\ kind = "redis" => Redis!SaveHolds

\* RedisStore: a create never replaces a record, whoever wrote it.
CreateSpares == [][kind = "redis" => Redis!CreateSpares]_vars

=============================================================================
