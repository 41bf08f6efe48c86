----------------------------- MODULE SessionFile -----------------------------
(***************************************************************************)
(* cot::session::store::file::FileStore: one file per session, named after *)
(* its id, holding the record as JSON.  Nothing locks a file: `save` opens *)
(* and truncates it, then writes; `create` opens it with O_EXCL, then      *)
(* writes; `load` asks whether it exists, opens it, then reads.            *)
(*                                                                         *)
(* The file system is external: names point to files, a file lives on for  *)
(* those who opened it, a write starts at offset zero and leaves what is   *)
(* beyond it.  So is tokio::fs::File: write_all hands the bytes to a       *)
(* blocking thread and returns, and nobody awaits that thread when the     *)
(* file is dropped without flush.  JSON text is a sequence of blocks; the  *)
(* texts of two data values may differ in length.                          *)
(***************************************************************************)
EXTENDS Integers, Sequences, FiniteSets

CONSTANTS
    Client, Id, Data, Absent, Operation,
    Length,      \* Length[d]: how many blocks the JSON of a record with d has
    File,        \* inodes; a new file waits for one that is not in use
    MaxRetries,  \* MAX_COLLISION_RETRIES of store.rs
    MayAbandon,  \* may a caller drop a call at one of its awaits?
    MaxRemovals, \* bound on how often somebody removes the directory
    MaxFlight    \* bound on writes handed over and not yet executed

VARIABLES
    dir,       \* does the store's directory exist?
    entry,     \* entry[i]: the file named i, or Absent
    content,   \* content[f]: the blocks of file f
    flight,    \* writes a blocking thread has still to execute
    call,      \* call[c]: the call of client c
    removals   \* how often the directory was removed

vars == <<dir, entry, content, flight, call, removals>>

\* serde_json::to_string of a record.
Json(i, d) == [k \in 1 .. Length[d] |-> [id |-> i, data |-> d, part |-> k]]

NoResult == [id |-> Absent, data |-> Absent]

Idle == [at |-> "idle", op |-> "none", id |-> Absent, data |-> Absent,
         file |-> Absent, tries |-> 0, result |-> NoResult]

\* The first step of each operation.
Start == [create |-> "create", save |-> "open", load |-> "exists", delete |-> "delete"]

Invoked(op, i, d) ==
    [Idle EXCEPT !.at = Start[op], !.op = op, !.id = i,
                 !.data = IF op \in {"create", "save"} THEN d ELSE Absent]

Running(c) == call[c].at \notin {"idle", "done", "failed"}

To(c, step) == [call EXCEPT ![c].at = step]

\* The call returns an error; or it returns Ok and leaves nothing to look at.
Failed(c)   == [call EXCEPT ![c] = [Idle EXCEPT !.at = "failed", !.op = call[c].op]]
Finished(c) == [call EXCEPT ![c] = Idle]

\* Files that a name, a call or a write refers to.
Used(names, calls, writes) ==
    {names[i] : i \in Id} \union {calls[c].file : c \in Client} \union {w.file : w \in writes}

FreeFiles == File \ Used(entry, call, flight)
NewFile == CHOOSE f \in FreeFiles : TRUE

\* What a write of `text` from offset zero leaves in a file.
Overwritten(old, text) == text \o SubSeq(old, Len(text) + 1, Len(old))

\* The file system frees what nobody refers to any more.
Kept(text) == [f \in File |-> IF f \in Used(entry', call', flight') THEN text[f] ELSE << >>]

Init == /\ dir = TRUE          \* FileStore::new creates it
        /\ entry = [i \in Id |-> Absent]
        /\ content = [f \in File |-> << >>]
        /\ flight = {}
        /\ call = [c \in Client |-> Idle]
        /\ removals = 0

-----------------------------------------------------------------------------
Invoke(c) ==
    /\ call[c].at = "idle"
    /\ \E op \in Operation, i \in Id, d \in Data :
            call' = [call EXCEPT ![c] = Invoked(op, i, d)]
    /\ UNCHANGED <<dir, entry, content, flight, removals>>

\* save opens an existing file and truncates it; a missing file (or
\* directory) sends a clone of the record to create.
OpenToSave(c) ==
    LET f == entry[call[c].id] IN
    /\ call[c].at = "open"
    /\ \/ /\ f # Absent
          /\ content' = [content EXCEPT ![f] = << >>]
          /\ call' = [call EXCEPT ![c].at = "write", ![c].file = f]
       \/ /\ f = Absent
          /\ call' = To(c, "create")
          /\ UNCHANGED content
    /\ UNCHANGED <<dir, entry, flight, removals>>

\* The loop of create is over its budget, or tries again.
Retry(c, step, i) ==
    IF call[c].tries < MaxRetries
    THEN [call EXCEPT ![c].at = step, ![c].id = i, ![c].tries = @ + 1]
    ELSE Failed(c)

\* One attempt of create's loop: open with create_new.  A taken name costs an
\* attempt and brings a new random id, a missing directory costs one too.
OpenNew(c) ==
    LET i == call[c].id IN
    /\ call[c].at = "create"
    /\ \/ /\ dir
          /\ entry[i] = Absent
          /\ FreeFiles # {}
          /\ entry' = [entry EXCEPT ![i] = NewFile]
          /\ content' = [content EXCEPT ![NewFile] = << >>]
          /\ call' = [call EXCEPT ![c].at = "write", ![c].file = NewFile]
       \/ /\ entry[i] # Absent
          /\ \E fresh \in Id : call' = Retry(c, "create", fresh)
          /\ UNCHANGED <<entry, content>>
       \/ /\ ~dir
          /\ call' = To(c, "mkdir")
          /\ UNCHANGED <<entry, content>>
    /\ UNCHANGED <<dir, flight, removals>>

CreateDir(c) ==
    /\ call[c].at = "mkdir"
    /\ dir' = TRUE
    /\ call' = Retry(c, "create", call[c].id)
    /\ UNCHANGED <<entry, content, flight, removals>>

\* Mutant: the text names the first id, as if it were made before the loop.
WriteStale(c) ==
    /\ call[c].at = "write"
    /\ \E i \in Id :
         flight' = flight \union {[file |-> call[c].file, text |-> Json(i, call[c].data)]}
    /\ call' = Finished(c)
    /\ UNCHANGED <<dir, entry, content, removals>>

\* The record is serialised with the id it has by now; write_all returns when
\* a blocking thread has the bytes, and so does the operation.
Write(c) ==
    /\ call[c].at = "write"
    /\ Cardinality(flight) < MaxFlight
    /\ flight' = flight \union
                    {[file |-> call[c].file, text |-> Json(call[c].id, call[c].data)]}
    /\ call' = Finished(c)
    /\ UNCHANGED <<dir, entry, content, removals>>

\* Mutant: the write goes to the path and creates the file again.
ExecuteByName ==
    \E w \in flight :
        /\ content' = [content EXCEPT ![w.file] = Overwritten(@, w.text)]
        /\ entry' = [entry EXCEPT ![w.text[1].id] = w.file]
        /\ flight' = flight \ {w}
        /\ UNCHANGED <<dir, call, removals>>

\* A blocking thread executes a write.  Threads do not keep the order in
\* which the writes were handed over.
Execute ==
    \E w \in flight :
        /\ flight' = flight \ {w}
        /\ UNCHANGED <<dir, entry, call, removals>>
        /\ content' = Kept([content EXCEPT ![w.file] = Overwritten(@, w.text)])

\* load: is_file; no file, no record.
Exists(c) ==
    /\ call[c].at = "exists"
    /\ call' = IF entry[call[c].id] = Absent THEN Finished(c) ELSE To(c, "openToLoad")
    /\ UNCHANGED <<dir, entry, content, flight, removals>>

\* The file may be gone by now: an I/O error, not a missing record.
OpenToLoad(c) ==
    LET f == entry[call[c].id] IN
    /\ call[c].at = "openToLoad"
    /\ call' = IF f = Absent THEN Failed(c)
               ELSE [call EXCEPT ![c].at = "read", ![c].file = f]
    /\ UNCHANGED <<dir, entry, content, flight, removals>>

\* The texts serde_json::from_str accepts: one whole record.
Record(text) == {r \in [id : Id, data : Data] : text = Json(r.id, r.data)}

Read(c) ==
    LET records == Record(content[call[c].file]) IN
    /\ call[c].at = "read"
    /\ \/ /\ records = {}
          /\ call' = Failed(c)
       \/ \E r \in records :
             call' = [To(c, "done") EXCEPT ![c].file = Absent, ![c].result = r]
    /\ UNCHANGED <<dir, entry, flight, removals>>
    /\ content' = Kept(content)

Delete(c) ==
    /\ call[c].at = "delete"
    /\ entry' = [entry EXCEPT ![call[c].id] = Absent]
    /\ call' = Finished(c)
    /\ UNCHANGED <<dir, flight, removals>>
    /\ content' = Kept(content)

\* The caller drops the future at one of its awaits.
Abandon(c) ==
    /\ MayAbandon
    /\ Running(c)
    /\ call' = Finished(c)
    /\ UNCHANGED <<dir, entry, flight, removals>>
    /\ content' = Kept(content)

Return(c) ==
    /\ call[c].at \in {"done", "failed"}
    /\ call' = Finished(c)
    /\ UNCHANGED <<dir, entry, content, flight, removals>>

\* Somebody removes the directory and the sessions with it.
RemoveDir ==
    /\ dir /\ removals < MaxRemovals
    /\ dir' = FALSE
    /\ entry' = [i \in Id |-> Absent]
    /\ removals' = removals + 1
    /\ UNCHANGED <<flight, call>>
    /\ content' = Kept(content)

Step(c) ==
    \/ OpenToSave(c) \/ OpenNew(c) \/ CreateDir(c) \/ Write(c)
    \/ Exists(c) \/ OpenToLoad(c) \/ Read(c) \/ Delete(c)

Next ==
    \/ \E c \in Client : Invoke(c) \/ Step(c) \/ Abandon(c) \/ Return(c)
    \/ Execute
    \/ RemoveDir

Spec == Init /\ [][Next]_vars

-----------------------------------------------------------------------------
(* Properties                                                              *)

CallAt == {"idle", "open", "create", "mkdir", "write", "exists", "openToLoad",
           "read", "delete", "done", "failed"}

\* Names, files, writes and calls have the shapes the store gives them; a
\* file of a removed directory has no name; create keeps to its budget.
TypeOK ==
    /\ dir \in BOOLEAN
    /\ entry \in [Id -> File \union {Absent}]
    /\ ~dir => \A i \in Id : entry[i] = Absent
    /\ DOMAIN content = File
    /\ flight \subseteq [file : File, text : {Json(i, d) : i \in Id, d \in Data}]
    /\ call \in [Client -> [at : CallAt, op : {"none", "create", "save", "load", "delete"},
                            id : Id \union {Absent}, data : Data \union {Absent},
                            file : File \union {Absent}, tries : 0 .. MaxRetries,
                            result : [id : Id, data : Data] \union {NoResult}]]
    /\ removals \in 0 .. MaxRemovals

\* Whatever calls overlap, collide and retry, a record that load hands out
\* carries the id it was asked for.
LoadedIsOwn ==
    \A c \in Client : call[c].result # NoResult => call[c].result.id = call[c].id

\* A deleted session stays deleted while no call names its id, though writes
\* of calls that have returned may still be on their way.
QuietStaysAbsent ==
    \A i \in Id : entry[i] = Absent /\ (\A c \in Client : call[c].id # i)
                      => entry'[i] = Absent

\* The tests load right after a save has returned and expect the record: a
\* load that follows completed saves does not fail.
SavedIsReadable ==
    \A c \in Client : call[c].op = "load" => call[c].at # "failed"

=============================================================================
