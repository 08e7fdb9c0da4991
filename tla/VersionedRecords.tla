-------------------------- MODULE VersionedRecords --------------------------
(***************************************************************************)
(* What the Server promises about the table of private records, said       *)
(* without requests, handlers or SQL: a set of versioned rows that only    *)
(* three atomic changes can touch.  The table definition is migration      *)
(* 003_create_records.up.sql; the three changes are the INSERT, UPDATE and *)
(* DELETE statements of internal/server/postgres/record_repository.go.     *)
(*                                                                         *)
(* RecordService implements this specification (the request handlers), and *)
(* CacheSync uses it as the Server a synchronizing Client talks to.        *)
(***************************************************************************)
EXTENDS Integers

CONSTANTS
  RecordIDs,    \* the UUIDs that NewRecordID can return
  Users,        \* owners, users.id
  Types,        \* record types: text, credentials, card, binary
  Data,         \* title and private payload, told apart only by equality
  MaxRevision,  \* the largest value of the BIGINT column revision
  NoRow         \* "no row with this id": never inserted, or deleted

ASSUME MaxRevisionAssumption == MaxRevision \in Nat \ {0}

VARIABLES
  rows,         \* rows[i] is the row with id i, or NoRow
  stored        \* history: the ids that were ever inserted

tableVars == <<rows, stored>>

Revisions == 1 .. MaxRevision

(***************************************************************************)
(* The additional authenticated data a payload is encrypted under          *)
(* (recordcrypto.BuildAAD): it decrypts only where all three are the same. *)
(***************************************************************************)
Seals == [owner : Users, id : RecordIDs, type : Types]

Rows == [owner : Users, type : Types, revision : Revisions,
         data : Data, seal : Seals]

ASSUME NoRowAssumption == NoRow \notin Rows

Seal(u, i, t) == [owner |-> u, id |-> i, type |-> t]

\* A row as INSERT leaves it: revision has DEFAULT 1.
NewRow(u, i, t, d) ==
  [owner |-> u, type |-> t, revision |-> 1, data |-> d, seal |-> Seal(u, i, t)]

Exists(i) == rows[i] # NoRow

TableInit ==
  /\ rows = [i \in RecordIDs |-> NoRow]
  /\ stored = {}

-----------------------------------------------------------------------------
\* A new record gets an id no record had before: version 4 UUIDs do not repeat.
Create(u, i, t, d) ==
  /\ i \notin stored
  /\ rows' = [rows EXCEPT ![i] = NewRow(u, i, t, d)]
  /\ stored' = stored \cup {i}

\* New content under the next revision; owner, type and seal stay.
Replace(i, d) ==
  /\ Exists(i)
  /\ rows[i].revision < MaxRevision
  /\ rows' = [rows EXCEPT ![i].revision = @ + 1, ![i].data = d]
  /\ UNCHANGED stored

\* Deletion is physical: no tombstone stays behind.
Remove(i) ==
  /\ Exists(i)
  /\ rows' = [rows EXCEPT ![i] = NoRow]
  /\ UNCHANGED stored

TableNext ==
  \E i \in RecordIDs :
    \/ \E u \in Users, t \in Types, d \in Data : Create(u, i, t, d)
    \/ \E d \in Data : Replace(i, d)
    \/ Remove(i)

TableSpec == TableInit /\ [][TableNext]_tableVars
=============================================================================
