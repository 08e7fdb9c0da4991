------------------------------ MODULE CacheSync ------------------------------
(***************************************************************************)
(* Explicit synchronization of the Client's encrypted cache with the       *)
(* Server: Application.Sync of internal/client/usecase/sync_application.go *)
(* with the plan of sync_plan.go, over the SQLite repository of            *)
(* internal/client/cache.                                                  *)
(*                                                                         *)
(* The Server is VersionedRecords: other devices of the user change its    *)
(* table between any two steps of a sync.  A sync asks it for a list and   *)
(* then for one record after another; it reads the cache in two statements *)
(* and writes it in one transaction.  Syncs is the set of processes that   *)
(* may sync the same cache (gkeep sync, the TUI); nothing in the code      *)
(* keeps two of them apart.                                                *)
(*                                                                         *)
(* Authentication and opening the cache come first and change neither the  *)
(* table nor the records of the cache (see the session and cache file      *)
(* components); here they are part of Begin.                               *)
(***************************************************************************)
EXTENDS VersionedRecords

CONSTANTS
  Syncs         \* processes that run Sync on one cache

VARIABLES
  cached,       \* cached[i]: the row of cached_records with id i, or NoRow
  step,         \* step[s]: the next step of sync s
  listed,       \* listed[s]: the Server's table as ListRecords showed it to s
  local,        \* local[s]: the revisions ListState returned to s
  todo,         \* todo[s]: the records s has still to get
  loaded,       \* loaded[s]: the records s got so far
  unreadable,   \* history: the rows ValidateRecords of s could not read
  mirror        \* history: the list of the last sync that succeeded

syncVars == <<step, listed, local, todo, loaded, unreadable>>
vars == <<rows, stored, cached, syncVars, mirror>>

(***************************************************************************)
(* A row of the cache: id and revision are open columns, the rest is the   *)
(* ciphertext, bound to account, id and revision.  A row that is not       *)
(* readable fails to decrypt or has a format this client does not know.    *)
(* Revision 0 stands for any value of the open columns that ListState      *)
(* refuses.                                                                *)
(***************************************************************************)
CacheRows == [revision : 0 .. MaxRevision, type : Types, data : Data, readable : BOOLEAN]

ASSUME NoCacheRowAssumption == NoRow \notin CacheRows \cup Revisions

Steps == {"idle", "list", "state", "validate", "get", "apply"}

Tables == [RecordIDs -> Rows \cup {NoRow}]

\* The row prepareEncryptedRow makes of a record.
CacheRow(row) ==
  [revision |-> row.revision, type |-> row.type, data |-> row.data, readable |-> TRUE]

CacheOf(table) ==
  [i \in RecordIDs |-> IF table[i] = NoRow THEN NoRow ELSE CacheRow(table[i])]

IDs(table) == {i \in RecordIDs : table[i] # NoRow}

NoTable == [i \in RecordIDs |-> NoRow]

Init ==
  /\ TableInit
  /\ cached = NoTable
  /\ step = [s \in Syncs |-> "idle"]
  /\ listed = [s \in Syncs |-> NoTable]
  /\ local = [s \in Syncs |-> NoTable]
  /\ todo = [s \in Syncs |-> {}]
  /\ loaded = [s \in Syncs |-> NoTable]
  /\ unreadable = [s \in Syncs |-> {}]
  /\ mirror = NoTable

-----------------------------------------------------------------------------
(***************************************************************************)
(* buildSyncPlan, as sets of ids.  Of the server's table it looks at ids   *)
(* and revisions only.                                                     *)
(***************************************************************************)
NewIDs(server, state) == IDs(server) \ IDs(state)

UpdatedIDs(server, state) ==
  {i \in IDs(server) \cap IDs(state) : server[i].revision # state[i]}

ChangedIDs(server, state) == NewIDs(server, state) \cup UpdatedIDs(server, state)

\* Mutation: whatever was not loaded again is taken for removed.
RemovedIDsUnchanged(server, state) == IDs(state) \ ChangedIDs(server, state)

RemovedIDs(server, state) == IDs(state) \ IDs(server)

-----------------------------------------------------------------------------
Goto(s, next) == step' = [step EXCEPT ![s] = next]

\* Authenticated, session saved, cache open.
Begin(s) ==
  /\ step[s] = "idle"
  /\ Goto(s, "list")
  /\ UNCHANGED <<tableVars, cached, listed, local, todo, loaded, unreadable, mirror>>

ListServer(s) ==
  /\ step[s] = "list"
  /\ listed' = [listed EXCEPT ![s] = rows]
  /\ Goto(s, "state")
  /\ UNCHANGED <<tableVars, cached, local, todo, loaded, unreadable, mirror>>

\* Mutation: the open columns are not validated.
ListLocalUnchecked(s) ==
  /\ step[s] = "state"
  /\ local' = [local EXCEPT ![s] =
                 [i \in RecordIDs |-> IF cached[i] = NoRow THEN NoRow ELSE cached[i].revision]]
  /\ Goto(s, "validate")
  /\ UNCHANGED <<tableVars, cached, listed, todo, loaded, unreadable, mirror>>

\* ListState fails as a whole on one row whose open columns are invalid.
ListLocal(s) ==
  /\ step[s] = "state"
  /\ \A i \in IDs(cached) : cached[i].revision # 0
  /\ local' = [local EXCEPT ![s] =
                 [i \in RecordIDs |-> IF cached[i] = NoRow THEN NoRow ELSE cached[i].revision]]
  /\ Goto(s, "validate")
  /\ UNCHANGED <<tableVars, cached, listed, todo, loaded, unreadable, mirror>>

\* Mutation: the records are loaded by the plan alone, readable or not.
ValidateByPlan(s) ==
  /\ step[s] = "validate"
  /\ unreadable' = [unreadable EXCEPT ![s] = {i \in IDs(cached) : ~ cached[i].readable}]
  /\ todo' = [todo EXCEPT ![s] = ChangedIDs(listed[s], local[s])]
  /\ Goto(s, "get")
  /\ UNCHANGED <<tableVars, cached, listed, local, loaded, mirror>>

\* With a row that cannot be read every record of the list is loaded again.
Validate(s) ==
  /\ step[s] = "validate"
  /\ LET broken == {i \in IDs(cached) : ~ cached[i].readable} IN
       /\ unreadable' = [unreadable EXCEPT ![s] = broken]
       /\ todo' = [todo EXCEPT ![s] = IF broken = {} THEN ChangedIDs(listed[s], local[s])
                                                     ELSE IDs(listed[s])]
  /\ Goto(s, "get")
  /\ UNCHANGED <<tableVars, cached, listed, local, loaded, mirror>>

\* Mutation: the revision of the record that arrives is not compared.
SameTypeAsListed(s, i) == Exists(i) /\ rows[i].type = listed[s][i].type

\* validateSyncRecord: the record is still the one the list named.
SameAsListed(s, i) ==
  /\ Exists(i)
  /\ rows[i].type = listed[s][i].type
  /\ rows[i].revision = listed[s][i].revision

\* The code goes through the list by id; any order is allowed here.
GetRecord(s, i) ==
  /\ step[s] = "get"
  /\ i \in todo[s]
  /\ SameAsListed(s, i)
  /\ loaded' = [loaded EXCEPT ![s][i] = rows[i]]
  /\ todo' = [todo EXCEPT ![s] = @ \ {i}]
  /\ UNCHANGED <<tableVars, cached, step, listed, local, unreadable, mirror>>

\* Mutation: while a row cannot be read, validate and load once more.
AllLoadedRevalidating(s) ==
  /\ step[s] = "get"
  /\ todo[s] = {}
  /\ Goto(s, IF unreadable[s] = {} THEN "apply" ELSE "validate")
  /\ UNCHANGED <<tableVars, cached, listed, local, todo, loaded, unreadable, mirror>>

\* No row is read again before the changes are applied.
AllLoaded(s) ==
  /\ step[s] = "get"
  /\ todo[s] = {}
  /\ Goto(s, "apply")
  /\ UNCHANGED <<tableVars, cached, listed, local, todo, loaded, unreadable, mirror>>

\* The cache after ApplyChanges: the upserts, then the deletes.
Applied(s) ==
  [i \in RecordIDs |->
     IF loaded[s][i] # NoRow THEN CacheRow(loaded[s][i])
     ELSE IF i \in RemovedIDs(listed[s], local[s]) THEN NoRow
     ELSE cached[i]]

\* Sync s is over and keeps nothing.
Forget(s) ==
  /\ Goto(s, "idle")
  /\ listed' = [listed EXCEPT ![s] = NoTable]
  /\ local' = [local EXCEPT ![s] = NoTable]
  /\ todo' = [todo EXCEPT ![s] = {}]
  /\ loaded' = [loaded EXCEPT ![s] = NoTable]
  /\ unreadable' = [unreadable EXCEPT ![s] = {}]

\* One transaction; from here on the sync has succeeded, whatever Close says.
Apply(s) ==
  /\ step[s] = "apply"
  /\ cached' = Applied(s)
  /\ mirror' = listed[s]
  /\ Forget(s)
  /\ UNCHANGED tableVars

(***************************************************************************)
(* What was read decides that the sync cannot go on: ListState refuses a   *)
(* row whose open columns are invalid, validateSyncRecord a record that is *)
(* gone or no longer the one the list named.                               *)
(***************************************************************************)
Refuse(s) ==
  /\ \/ step[s] = "state" /\ \E i \in IDs(cached) : cached[i].revision = 0
     \/ step[s] = "get" /\ \E i \in todo[s] : ~ SameAsListed(s, i)
  /\ Forget(s)
  /\ UNCHANGED <<tableVars, cached, mirror>>

(***************************************************************************)
(* The sync is ended at any step: a request or a statement fails or runs   *)
(* out of time, the transaction rolls back, the user cancels, the process  *)
(* dies.  The cache file keeps what was committed.                         *)
(***************************************************************************)
Abort(s) ==
  /\ step[s] # "idle"
  /\ Forget(s)
  /\ UNCHANGED <<tableVars, cached, mirror>>

SyncStep(s) ==
  \/ ListServer(s) \/ ListLocal(s) \/ Validate(s)
  \/ \E i \in RecordIDs : GetRecord(s, i)
  \/ AllLoaded(s) \/ Apply(s) \/ Refuse(s)

\* Another device of the user changes the table.
ServerChanges ==
  /\ TableNext
  /\ UNCHANGED <<cached, syncVars, mirror>>

\* A row is damaged on disk, or was written by another client version.
Damage(i) ==
  /\ cached[i] # NoRow /\ cached[i].readable
  /\ \E r \in 0 .. MaxRevision :
       cached' = [cached EXCEPT ![i].readable = FALSE, ![i].revision = r]
  /\ UNCHANGED <<tableVars, syncVars, mirror>>

Next ==
  \/ ServerChanges
  \/ \E i \in RecordIDs : Damage(i)
  \/ \E s \in Syncs : Begin(s) \/ SyncStep(s) \/ Abort(s)

(***************************************************************************)
(* Every statement and every request returns, so a sync takes the next of  *)
(* its own steps unless it is aborted: nothing makes one fail, and nothing *)
(* makes a user start one.                                                 *)
(***************************************************************************)
Fairness == \A s \in Syncs : WF_vars(SyncStep(s))

Spec == Init /\ [][Next]_vars /\ Fairness

-----------------------------------------------------------------------------
LocalStates == [RecordIDs -> Revisions \cup {NoRow}]

TypeOK ==
  /\ rows \in Tables
  /\ stored \subseteq RecordIDs
  /\ cached \in [RecordIDs -> CacheRows \cup {NoRow}]
  /\ step \in [Syncs -> Steps]
  /\ listed \in [Syncs -> Tables]
  /\ local \in [Syncs -> LocalStates]
  /\ todo \in [Syncs -> SUBSET RecordIDs]
  /\ loaded \in [Syncs -> Tables]
  /\ unreadable \in [Syncs -> SUBSET RecordIDs]
  /\ mirror \in Tables

(***************************************************************************)
(* "After a successful synchronization the cache corresponds to the state  *)
(* of the Server at the moment of the operation", and keeps doing so until *)
(* the next one (docs/CLI.md, docs/PROJECT_REQUIREMENTS.md): whatever can  *)
(* be read offline is one and the same past table of the Server, never a   *)
(* mixture of two, although the records of a sync come one by one and      *)
(* failed syncs and damage come in between.                                *)
(***************************************************************************)
CacheMirrorsServer ==
  \A i \in RecordIDs :
    /\ cached[i] = NoRow <=> mirror[i] = NoRow
    /\ cached[i] # NoRow /\ cached[i].readable => cached[i] = CacheRow(mirror[i])

(***************************************************************************)
(* A sync that reports success has rewritten or removed every row its      *)
(* validation could not read, also the rows whose revision looked          *)
(* unchanged and the ones whose open revision column was damaged.          *)
(***************************************************************************)
SyncRepairs ==
  [][\A s \in Syncs : Apply(s) =>
       \A i \in unreadable[s] : cached'[i] = NoRow \/ cached'[i].readable]_vars

(***************************************************************************)
(* What the user reads offline never gets older: a row is never replaced   *)
(* by an older revision of its record than the cache already had, and only *)
(* a record deleted on the Server leaves the cache.                        *)
(***************************************************************************)
CacheNeverStepsBack ==
  [][\A i \in RecordIDs :
       /\ mirror[i] # NoRow /\ cached'[i] # NoRow /\ cached'[i].readable
            => cached'[i].revision >= mirror[i].revision
       /\ cached[i] # NoRow /\ cached'[i] = NoRow => ~ Exists(i)]_vars

(***************************************************************************)
(* A sync the user started ends although nothing fails: whatever other     *)
(* devices and damage do between its steps, there is one it can take, and  *)
(* it does not go round, for the loop over the records gets shorter with   *)
(* every answer.                                                           *)
(***************************************************************************)
EverySyncEnds == \A s \in Syncs : step[s] # "idle" ~> step[s] = "idle"
=============================================================================
