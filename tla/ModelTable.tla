------------------------------ MODULE ModelTable ------------------------------
(***************************************************************************)
(* What the ORM of cot promises about the table of a model.  Insert, save, *)
(* update and delete, of one instance or of a whole slice, take effect at  *)
(* one moment between the call and its end, for all instances or for none. *)
(* A call that fails may have taken effect, as a whole.                    *)
(***************************************************************************)
EXTENDS Sequences, Functions

CONSTANTS
    Client,    \* callers, each with one call at a time
    Key,       \* primary keys
    Data,      \* the contents of an instance
    Automatic, \* the key of an instance that shall get one
    Absent     \* no row, no keys

VARIABLES
    rows,      \* rows[k]: the contents of the row with key k
    call       \* call[c]: the call of c and the keys of the rows it is about

vars == <<rows, call>>

Inserts    == {"insert", "bulkInsert"}
Operations == Inserts \union {"save", "bulkSave", "update", "delete"}
Instance   == [key : Key \union {Automatic}, data : Data]

Idle == [op |-> "none", batch |-> <<>>, keys |-> Absent]

Init ==
    /\ rows = [k \in Key |-> Absent]
    /\ call = [c \in Client |-> Idle]

Submit(c) ==
    /\ call[c] = Idle
    /\ call'[c] \in [op : Operations, batch : Seq(Instance), keys : {Absent}]
    /\ call' = [call EXCEPT ![c] = call'[c]]
    /\ UNCHANGED rows

\* An instance without a key becomes a new row, one with a key is about the
\* row with that key.
Targets(op, batch, ks) ==
    /\ IsInjective(ks)
    /\ \A i \in DOMAIN batch :
          /\ batch[i].key \in {ks[i], Automatic}
          /\ batch[i].key = Automatic \/ op \in Inserts => rows[ks[i]] = Absent
          /\ op = "update" => rows[ks[i]] # Absent

Effect(c) ==
    LET op    == call[c].op
        batch == call[c].batch
    IN
    /\ op # "none" /\ call[c].keys = Absent
    /\ \E ks \in [DOMAIN batch -> Key] :
          /\ Targets(op, batch, ks)
          /\ rows' = [k \in Key |->
                IF \A i \in DOMAIN batch : ks[i] # k THEN rows[k]
                ELSE IF op = "delete" THEN Absent
                ELSE batch[CHOOSE i \in DOMAIN batch : ks[i] = k].data]
          /\ call' = [call EXCEPT ![c].keys = ks]

End(c) ==
    /\ call[c] # Idle
    /\ call' = [call EXCEPT ![c] = Idle]
    /\ UNCHANGED rows

Next == \E c \in Client : Submit(c) \/ Effect(c) \/ End(c)

Spec == Init /\ [][Next]_vars

=============================================================================
