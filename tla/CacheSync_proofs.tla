--------------------------- MODULE CacheSync_proofs ---------------------------
(***************************************************************************)
(* Theorems about CacheSync, for any number of records, users, types and   *)
(* contents and any range of revisions, with one process that syncs the    *)
(* cache at a time.  (With two the cache need not be a table of the        *)
(* Server: the run cache_sync_two.)                                        *)
(***************************************************************************)
EXTENDS CacheSync, TLAPS

OneSync == \E s : Syncs = {s}

(***************************************************************************)
(* The inductive invariant.  It speaks about ages: a copy of a record that *)
(* left the Server is its row or an older one, because an id is never used *)
(* again and a revision never given twice.  So two copies with the same    *)
(* revision are the same, which is all the plan of a sync compares.        *)
(***************************************************************************)
IsPast(v, i) ==
  v # NoRow => /\ i \in stored
               /\ Exists(i) => v = rows[i] \/ v.revision < rows[i].revision

RowsStored == \A i \in RecordIDs : Exists(i) => i \in stored

MirrorIsPast == \A i \in RecordIDs : IsPast(mirror[i], i)

\* The list is not older than the mirror, and what it lacks is gone for good.
ListFits(s) ==
  step[s] \in {"state", "validate", "get", "apply"} =>
    \A i \in RecordIDs :
      /\ IsPast(listed[s][i], i)
      /\ mirror[i] # NoRow /\ listed[s][i] = NoRow => ~ Exists(i)
      /\ mirror[i] # NoRow /\ listed[s][i] # NoRow =>
           mirror[i] = listed[s][i] \/ mirror[i].revision < listed[s][i].revision

\* The local state has the ids of the cache, and the revision of what can be read.
LocalFits(s) ==
  /\ step[s] \in {"validate", "get", "apply"} =>
       \A i \in RecordIDs : local[s][i] = NoRow <=> mirror[i] = NoRow
  /\ step[s] = "validate" =>
       \A i \in RecordIDs : cached[i] # NoRow /\ cached[i].readable =>
                              local[s][i] = cached[i].revision

\* A record of the list is loaded, still to be got, or in the cache already.
PlanFits(s) ==
  step[s] \in {"get", "apply"} =>
    /\ unreadable[s] \subseteq IDs(local[s])
    /\ todo[s] \subseteq IDs(listed[s])
    /\ \A i \in IDs(listed[s]) :
         \/ i \in todo[s]
         \/ loaded[s][i] # NoRow
         \/ unreadable[s] = {} /\ mirror[i] = listed[s][i]

LoadFits(s) ==
  /\ step[s] \notin {"get", "apply"} => loaded[s] = NoTable
  /\ step[s] = "apply" => todo[s] = {}
  /\ \A i \in RecordIDs : loaded[s][i] \in {NoRow, listed[s][i]}

SyncFits(s) == ListFits(s) /\ LocalFits(s) /\ PlanFits(s) /\ LoadFits(s)

IInv ==
  /\ TypeOK /\ CacheMirrorsServer
  /\ RowsStored /\ MirrorIsPast
  /\ \A s \in Syncs : SyncFits(s)

-----------------------------------------------------------------------------
\* A row of the cache made of a row of the Server is a row, and readable.
LEMMA CacheRowTypes ==
  ASSUME NEW row \in Rows
  PROVE  CacheRow(row) \in CacheRows /\ CacheRow(row) # NoRow /\ CacheRow(row).readable
<1>1. CacheRow(row) \in CacheRows
  BY MaxRevisionAssumption DEF CacheRow, CacheRows, Rows, Revisions
<1>2. QED
  BY <1>1, NoCacheRowAssumption DEF CacheRow

LEMMA NewRowTypes ==
  ASSUME NEW u \in Users, NEW i \in RecordIDs, NEW t \in Types, NEW d \in Data
  PROVE  NewRow(u, i, t, d) \in Rows
BY MaxRevisionAssumption DEF NewRow, Rows, Revisions, Seal, Seals

\* A step of the table changes one record: it is made, gets a later revision,
\* or is removed.
LEMMA TableSteps ==
  ASSUME rows \in Tables, TableNext
  PROVE  \E i \in RecordIDs :
           /\ \A j \in RecordIDs \ {i} : rows'[j] = rows[j]
           /\ \/ i \notin stored /\ rows'[i] \in Rows /\ stored' = stored \cup {i}
              \/ /\ stored' = stored /\ Exists(i) /\ rows'[i] \in Rows
                 /\ rows'[i].revision = rows[i].revision + 1
              \/ stored' = stored /\ rows'[i] = NoRow
           /\ rows' \in Tables
<1>1. PICK i \in RecordIDs :
        \/ \E u \in Users, t \in Types, d \in Data : Create(u, i, t, d)
        \/ \E d \in Data : Replace(i, d)
        \/ Remove(i)
  BY DEF TableNext
<1>2. CASE \E u \in Users, t \in Types, d \in Data : Create(u, i, t, d)
  BY <1>2, NewRowTypes DEF Create, Tables
<1>3. ASSUME NEW d \in Data, Replace(i, d)
      PROVE  /\ \A j \in RecordIDs \ {i} : rows'[j] = rows[j]
             /\ stored' = stored /\ Exists(i) /\ rows'[i] \in Rows
             /\ rows'[i].revision = rows[i].revision + 1
             /\ rows' \in Tables
  <2>1. rows[i] \in Rows /\ rows[i].revision < MaxRevision
    BY <1>3 DEF Replace, Exists, Tables
  <2>2. rows'[i] = [rows[i] EXCEPT !.revision = rows[i].revision + 1, !.data = d]
    BY <1>3 DEF Replace, Tables
  <2>3. rows'[i] \in Rows /\ rows'[i].revision = rows[i].revision + 1
    <3>1. rows[i].revision + 1 \in Revisions
      BY <2>1, MaxRevisionAssumption DEF Rows, Revisions
    <3>2. QED
      BY <2>1, <2>2, <3>1 DEF Rows
  <2>4. QED
    BY <1>3, <2>3 DEF Replace, Tables
<1>4. CASE Remove(i)
  BY <1>4 DEF Remove, Tables
<1>5. QED
  BY <1>1, <1>2, <1>3, <1>4

\* What is past stays past, and what is gone stays gone.
LEMMA PastStays ==
  ASSUME rows \in Tables, RowsStored, TableNext,
         NEW j \in RecordIDs, NEW v \in Rows \cup {NoRow}, IsPast(v, j)
  PROVE  /\ v # NoRow => j \in stored' /\ (Exists(j)' => v = rows'[j] \/ v.revision < rows'[j].revision)
         /\ j \in stored /\ ~ Exists(j) => ~ Exists(j)'
<1>1. PICK i \in RecordIDs :
        /\ \A k \in RecordIDs \ {i} : rows'[k] = rows[k]
        /\ \/ i \notin stored /\ rows'[i] \in Rows /\ stored' = stored \cup {i}
           \/ /\ stored' = stored /\ Exists(i) /\ rows'[i] \in Rows
              /\ rows'[i].revision = rows[i].revision + 1
           \/ stored' = stored /\ rows'[i] = NoRow
  BY TableSteps
<1>2. CASE j # i
  BY <1>1, <1>2 DEF IsPast, Exists
<1>3. CASE j = i
  <2>1. CASE i \notin stored
    BY <1>1, <1>3, <2>1 DEF IsPast, Exists, RowsStored
  <2>2. CASE Exists(i) /\ rows'[i] \in Rows /\ rows'[i].revision = rows[i].revision + 1
             /\ stored' = stored
    <3>1. rows[i] \in Rows /\ rows[i].revision \in Int
      BY <2>2 DEF Exists, Tables, Rows, Revisions
    <3>2. v # NoRow => v.revision \in Int
      BY DEF Rows, Revisions
    <3>3. QED
      BY <1>3, <2>2, <3>1, <3>2 DEF IsPast, Exists
  <2>3. CASE rows'[i] = NoRow /\ stored' = stored
    BY <1>3, <2>3 DEF IsPast, Exists
  <2>4. QED
    BY <1>1, <2>1, <2>2, <2>3
<1>4. QED
  BY <1>2, <1>3

LEMMA ServerInvariant ==
  ASSUME IInv, ServerChanges
  PROVE  IInv'
<1>1. TableNext /\ UNCHANGED <<cached, syncVars, mirror>>
  BY DEF ServerChanges
<1>2. rows \in Tables /\ RowsStored
  BY DEF IInv, TypeOK
<1>3. /\ rows' \in Tables /\ stored' \subseteq RecordIDs /\ RowsStored'
  <2>1. PICK i \in RecordIDs :
           /\ \A j \in RecordIDs \ {i} : rows'[j] = rows[j]
           /\ \/ i \notin stored /\ rows'[i] \in Rows /\ stored' = stored \cup {i}
              \/ /\ stored' = stored /\ Exists(i) /\ rows'[i] \in Rows
                 /\ rows'[i].revision = rows[i].revision + 1
              \/ stored' = stored /\ rows'[i] = NoRow
           /\ rows' \in Tables
    BY <1>1, <1>2, TableSteps
  <2>2. stored \subseteq RecordIDs
    BY DEF IInv, TypeOK
  <2>3. QED
    BY <1>2, <2>1, <2>2 DEF RowsStored, Exists
<1>4. TypeOK' /\ CacheMirrorsServer'
  BY <1>1, <1>3 DEF IInv, TypeOK, CacheMirrorsServer, syncVars
<1>5. MirrorIsPast'
  <2> SUFFICES ASSUME NEW i \in RecordIDs PROVE IsPast(mirror[i], i)'
    BY DEF MirrorIsPast
  <2>1. mirror[i] \in Rows \cup {NoRow} /\ IsPast(mirror[i], i)
    BY DEF IInv, TypeOK, Tables, MirrorIsPast
  <2>2. QED
    BY <1>1, <1>2, <2>1, PastStays DEF IsPast
<1>6. ASSUME NEW s \in Syncs PROVE SyncFits(s)'
  <2>1. LocalFits(s)' /\ PlanFits(s)' /\ LoadFits(s)'
    BY <1>1 DEF IInv, SyncFits, LocalFits, PlanFits, LoadFits, syncVars
  <2>2. ListFits(s)'
    <3> SUFFICES ASSUME step[s] \in {"state", "validate", "get", "apply"}, NEW i \in RecordIDs
                 PROVE  /\ IsPast(listed[s][i], i)'
                        /\ mirror[i] # NoRow /\ listed[s][i] = NoRow => ~ Exists(i)'
                        /\ mirror[i] # NoRow /\ listed[s][i] # NoRow =>
                             mirror[i] = listed[s][i] \/ mirror[i].revision < listed[s][i].revision
      BY <1>1 DEF ListFits, syncVars
    <3>1. /\ IsPast(listed[s][i], i) /\ listed[s][i] \in Rows \cup {NoRow}
          /\ mirror[i] # NoRow /\ listed[s][i] = NoRow => ~ Exists(i)
          /\ mirror[i] # NoRow /\ listed[s][i] # NoRow =>
                             mirror[i] = listed[s][i] \/ mirror[i].revision < listed[s][i].revision
      BY DEF IInv, TypeOK, Tables, SyncFits, ListFits
    <3>2. mirror[i] # NoRow => i \in stored
      BY DEF IInv, MirrorIsPast, IsPast
    <3>3. QED
      BY <1>1, <1>2, <3>1, <3>2, PastStays DEF IsPast, syncVars
  <2>3. QED
    BY <2>1, <2>2 DEF SyncFits
<1>7. QED
  BY <1>3, <1>4, <1>5, <1>6 DEF IInv

-----------------------------------------------------------------------------
\* Damage changes no id, and makes no row readable.
LEMMA DamageInvariant ==
  ASSUME IInv, NEW i \in RecordIDs, Damage(i)
  PROVE  IInv'
<1>1. PICK r \in 0 .. MaxRevision :
        cached' = [cached EXCEPT ![i].readable = FALSE, ![i].revision = r]
  BY DEF Damage
<1>2. UNCHANGED <<tableVars, syncVars, mirror>> /\ cached[i] # NoRow
  BY DEF Damage
<1>3. cached[i] \in CacheRows
  BY <1>2 DEF IInv, TypeOK
<1>4. cached'[i] = [cached[i] EXCEPT !.readable = FALSE, !.revision = r]
  BY <1>1, <1>3 DEF IInv, TypeOK, CacheRows
<1>5. cached'[i] \in CacheRows /\ ~ cached'[i].readable
  BY <1>3, <1>4 DEF CacheRows
<1>6. cached'[i] # NoRow
  BY <1>5, NoCacheRowAssumption
<1>7. \A j \in RecordIDs \ {i} : cached'[j] = cached[j]
  BY <1>1 DEF IInv, TypeOK
<1>8. cached' \in [RecordIDs -> CacheRows \cup {NoRow}]
  BY <1>1, <1>5, <1>7 DEF IInv, TypeOK
<1>9. TypeOK'
  BY <1>2, <1>8 DEF IInv, TypeOK, tableVars, syncVars
<1>10. CacheMirrorsServer'
  BY <1>2, <1>5, <1>6, <1>7 DEF IInv, CacheMirrorsServer
<1>11. RowsStored' /\ MirrorIsPast'
  BY <1>2 DEF IInv, RowsStored, MirrorIsPast, IsPast, Exists, tableVars
<1>12. ASSUME NEW s \in Syncs PROVE SyncFits(s)'
  <2>1. SyncFits(s)
    BY DEF IInv
  <2>2. ListFits(s)' /\ PlanFits(s)' /\ LoadFits(s)'
    BY <1>2, <2>1 DEF SyncFits, ListFits, PlanFits, LoadFits, IsPast, Exists, tableVars, syncVars
  <2>3. LocalFits(s)'
    BY <1>2, <1>5, <1>7, <2>1 DEF SyncFits, LocalFits, syncVars
  <2>4. QED
    BY <2>2, <2>3 DEF SyncFits
<1>13. QED
  BY <1>9, <1>10, <1>11, <1>12 DEF IInv

\* A step that leaves the table, the cache and the mirror alone.
LEMMA QuietInvariant ==
  ASSUME IInv, TypeOK', UNCHANGED <<tableVars, cached, mirror>>,
         \A s \in Syncs : SyncFits(s)'
  PROVE  IInv'
BY DEF IInv, CacheMirrorsServer, RowsStored, MirrorIsPast, IsPast, Exists, tableVars

\* A sync that has nothing fits everything.
LEMMA ForgetFits ==
  ASSUME IInv, NEW s \in Syncs, Syncs = {s}, Forget(s)
  PROVE  /\ \A d \in Syncs : SyncFits(d)'
         /\ step' \in [Syncs -> Steps]
         /\ listed' \in [Syncs -> Tables]
         /\ local' \in [Syncs -> LocalStates]
         /\ todo' \in [Syncs -> SUBSET RecordIDs]
         /\ loaded' \in [Syncs -> Tables]
         /\ unreadable' \in [Syncs -> SUBSET RecordIDs]
<1>1. /\ step'[s] = "idle" /\ listed'[s] = NoTable /\ loaded'[s] = NoTable
      /\ step' \in [Syncs -> Steps]
  BY DEF Forget, Goto, IInv, TypeOK, Steps
<1>2. SyncFits(s)'
  BY <1>1 DEF SyncFits, ListFits, LocalFits, PlanFits, LoadFits, NoTable
<1>3. NoTable \in Tables /\ NoTable \in LocalStates
  BY DEF NoTable, Tables, LocalStates
<1>4. QED
  BY <1>1, <1>2, <1>3 DEF Forget, IInv, TypeOK

LEMMA StepTypes ==
  ASSUME TypeOK, NEW s \in Syncs, NEW next \in Steps, Goto(s, next)
  PROVE  step' \in [Syncs -> Steps] /\ step'[s] = next
BY DEF TypeOK, Goto

LEMMA BeginInvariant ==
  ASSUME IInv, NEW s \in Syncs, Syncs = {s}, Begin(s)
  PROVE  IInv'
<1>1. step' \in [Syncs -> Steps] /\ step'[s] = "list"
  BY StepTypes DEF Begin, IInv, Steps
<1>2. TypeOK'
  BY <1>1 DEF IInv, TypeOK, Begin, tableVars
<1>3. SyncFits(s)'
  BY <1>1 DEF IInv, Begin, SyncFits, ListFits, LocalFits, PlanFits, LoadFits
<1>4. QED
  BY <1>2, <1>3, QuietInvariant DEF Begin

LEMMA ListServerInvariant ==
  ASSUME IInv, NEW s \in Syncs, Syncs = {s}, ListServer(s)
  PROVE  IInv'
<1>1. step' \in [Syncs -> Steps] /\ step'[s] = "state" /\ step[s] = "list"
  BY StepTypes DEF ListServer, IInv, Steps
<1>2. listed' \in [Syncs -> Tables] /\ listed'[s] = rows
  BY DEF ListServer, IInv, TypeOK
<1>3. UNCHANGED <<tableVars, cached, local, todo, loaded, unreadable, mirror>>
  BY DEF ListServer
<1>4. TypeOK'
  BY <1>1, <1>2, <1>3 DEF IInv, TypeOK, tableVars
<1>5. ListFits(s)'
  BY <1>1, <1>2, <1>3 DEF IInv, ListFits, RowsStored, MirrorIsPast, IsPast, Exists, tableVars
<1>6. LocalFits(s)' /\ PlanFits(s)' /\ LoadFits(s)'
  BY <1>1, <1>3 DEF IInv, SyncFits, LocalFits, PlanFits, LoadFits, NoTable
<1>7. QED
  BY <1>3, <1>4, <1>5, <1>6, QuietInvariant DEF SyncFits

LEMMA ListLocalInvariant ==
  ASSUME IInv, NEW s \in Syncs, Syncs = {s}, ListLocal(s)
  PROVE  IInv'
<1>1. step' \in [Syncs -> Steps] /\ step'[s] = "validate" /\ step[s] = "state"
  BY StepTypes DEF ListLocal, IInv, Steps
<1> DEFINE state == [i \in RecordIDs |-> IF cached[i] = NoRow THEN NoRow ELSE cached[i].revision]
<1>2. \A i \in RecordIDs : cached[i] # NoRow => cached[i].revision \in Revisions
  <2> SUFFICES ASSUME NEW i \in RecordIDs, cached[i] # NoRow PROVE cached[i].revision \in Revisions
    OBVIOUS
  <2>1. cached[i] \in CacheRows /\ cached[i].revision # 0
    BY DEF ListLocal, IDs, IInv, TypeOK
  <2>2. QED
    BY <2>1, MaxRevisionAssumption DEF CacheRows, Revisions
<1>3. state \in LocalStates
  BY <1>2 DEF LocalStates
<1>4. local' \in [Syncs -> LocalStates] /\ local'[s] = state
  BY <1>3 DEF ListLocal, IInv, TypeOK
<1>5. UNCHANGED <<tableVars, cached, listed, todo, loaded, unreadable, mirror>>
  BY DEF ListLocal
<1>6. TypeOK'
  BY <1>1, <1>4, <1>5 DEF IInv, TypeOK, tableVars
<1>7. LocalFits(s)'
  <2>1. \A i \in RecordIDs : local'[s][i] = NoRow <=> mirror[i] = NoRow
    BY <1>2, <1>4, NoCacheRowAssumption DEF IInv, CacheMirrorsServer
  <2>2. QED
    BY <1>1, <1>4, <1>5, <2>1 DEF LocalFits
<1>8. ListFits(s)' /\ PlanFits(s)' /\ LoadFits(s)'
  BY <1>1, <1>5 DEF IInv, SyncFits, ListFits, PlanFits, LoadFits, IsPast, Exists, tableVars
<1>9. QED
  BY <1>5, <1>6, <1>7, <1>8, QuietInvariant DEF SyncFits

LEMMA ValidateInvariant ==
  ASSUME IInv, NEW s \in Syncs, Syncs = {s}, Validate(s)
  PROVE  IInv'
<1> DEFINE broken == {i \in IDs(cached) : ~ cached[i].readable}
           plan == IF broken = {} THEN ChangedIDs(listed[s], local[s]) ELSE IDs(listed[s])
<1>1. step' \in [Syncs -> Steps] /\ step'[s] = "get" /\ step[s] = "validate"
  BY StepTypes DEF Validate, IInv, Steps
<1>2. broken \subseteq RecordIDs /\ plan \subseteq RecordIDs /\ plan \subseteq IDs(listed[s])
  BY DEF IDs, ChangedIDs, NewIDs, UpdatedIDs
<1>3. /\ unreadable' \in [Syncs -> SUBSET RecordIDs] /\ unreadable'[s] = broken
      /\ todo' \in [Syncs -> SUBSET RecordIDs] /\ todo'[s] = plan
  BY <1>2 DEF Validate, IInv, TypeOK
<1>4. UNCHANGED <<tableVars, cached, listed, local, loaded, mirror>>
  BY DEF Validate
<1>5. TypeOK'
  BY <1>1, <1>3, <1>4 DEF IInv, TypeOK, tableVars
<1>6. SyncFits(s)
  BY DEF IInv
<1>7. broken \subseteq IDs(local[s])
  BY <1>1, <1>6 DEF SyncFits, LocalFits, IDs, IInv, CacheMirrorsServer
<1>8. ASSUME broken = {}, NEW i \in IDs(listed[s]), i \notin plan
      PROVE  mirror[i] = listed[s][i]
  <2>1. i \in RecordIDs /\ listed[s][i] # NoRow
    BY DEF IDs
  <2>2. local[s][i] # NoRow /\ listed[s][i].revision = local[s][i]
    BY <1>8, <2>1 DEF ChangedIDs, NewIDs, UpdatedIDs, IDs
  <2>3. mirror[i] # NoRow /\ cached[i] # NoRow
    BY <1>1, <1>6, <2>1, <2>2 DEF SyncFits, LocalFits, IInv, CacheMirrorsServer
  <2>4. cached[i].readable
    BY <1>8, <2>1, <2>3 DEF IDs
  <2>5. cached[i] = CacheRow(mirror[i]) /\ local[s][i] = cached[i].revision
    BY <1>1, <1>6, <2>1, <2>3, <2>4 DEF SyncFits, LocalFits, IInv, CacheMirrorsServer
  <2>6. mirror[i].revision = listed[s][i].revision
    BY <2>2, <2>5 DEF CacheRow
  <2>7. mirror[i].revision \in Int
    BY <2>1, <2>3 DEF IInv, TypeOK, Tables, Rows, Revisions
  <2>8. QED
    BY <1>1, <1>6, <2>1, <2>3, <2>6, <2>7 DEF SyncFits, ListFits
<1>9. PlanFits(s)'
  <2>1. \A i \in IDs(listed[s]) : i \in plan \/ (broken = {} /\ mirror[i] = listed[s][i])
    BY <1>8
  <2>2. QED
    BY <1>2, <1>3, <1>4, <1>7, <2>1 DEF PlanFits
<1>10. ListFits(s)' /\ LocalFits(s)' /\ LoadFits(s)'
  BY <1>1, <1>4, <1>6 DEF SyncFits, ListFits, LocalFits, LoadFits, IsPast, Exists, tableVars
<1>11. QED
  BY <1>4, <1>5, <1>9, <1>10, QuietInvariant DEF SyncFits

LEMMA GetRecordInvariant ==
  ASSUME IInv, NEW s \in Syncs, Syncs = {s}, NEW i \in RecordIDs, GetRecord(s, i)
  PROVE  IInv'
<1>1. step[s] = "get" /\ i \in todo[s] /\ SameAsListed(s, i)
  BY DEF GetRecord
<1>2. UNCHANGED <<tableVars, cached, step, listed, local, unreadable, mirror>>
  BY DEF GetRecord
<1>3. SyncFits(s) /\ listed[s] \in Tables /\ rows \in Tables
  BY DEF IInv, TypeOK
<1>4. rows[i] \in Rows /\ rows[i] # NoRow /\ rows[i].revision \in Int
  BY <1>1, <1>3 DEF SameAsListed, Exists, Tables, Rows, Revisions
\* The revision is the one that was listed, so it is the very same row, once
\* something was listed at all.
<1>5. listed[s][i] # NoRow => listed[s][i] = rows[i]
  BY <1>1, <1>3, <1>4 DEF SyncFits, ListFits, IsPast, SameAsListed, Exists
<1>6. loaded'[s] = [loaded[s] EXCEPT ![i] = rows[i]] /\ loaded' \in [Syncs -> Tables]
  BY <1>3, <1>4 DEF GetRecord, IInv, TypeOK, Tables
<1>7. todo'[s] = todo[s] \ {i} /\ todo' \in [Syncs -> SUBSET RecordIDs]
  BY DEF GetRecord, IInv, TypeOK
<1>8. TypeOK'
  BY <1>2, <1>6, <1>7 DEF IInv, TypeOK, tableVars
<1>9. listed[s][i] # NoRow
  BY <1>1, <1>3 DEF SyncFits, PlanFits, IDs
<1>10. LoadFits(s)'
  BY <1>1, <1>2, <1>3, <1>5, <1>6, <1>9 DEF SyncFits, LoadFits, IInv, TypeOK, Tables
<1>11. PlanFits(s)'
  BY <1>1, <1>2, <1>3, <1>4, <1>6, <1>7 DEF SyncFits, PlanFits, IInv, TypeOK, Tables, IDs
<1>12. ListFits(s)' /\ LocalFits(s)'
  BY <1>2, <1>3 DEF SyncFits, ListFits, LocalFits, IsPast, Exists, tableVars
<1>13. QED
  BY <1>2, <1>8, <1>10, <1>11, <1>12, QuietInvariant DEF SyncFits

LEMMA AllLoadedInvariant ==
  ASSUME IInv, NEW s \in Syncs, Syncs = {s}, AllLoaded(s)
  PROVE  IInv'
<1>1. step' \in [Syncs -> Steps] /\ step'[s] = "apply" /\ step[s] = "get" /\ todo[s] = {}
  BY StepTypes DEF AllLoaded, IInv, Steps
<1>2. TypeOK'
  BY <1>1 DEF IInv, TypeOK, AllLoaded, tableVars
<1>3. SyncFits(s)'
  BY <1>1 DEF IInv, AllLoaded, SyncFits, ListFits, LocalFits, PlanFits, LoadFits, IsPast, Exists,
              tableVars
<1>4. QED
  BY <1>2, <1>3, QuietInvariant DEF AllLoaded

(***************************************************************************)
(* What ApplyChanges leaves in the cache: the rows of the list, readable   *)
(* unless they were there, unharmed at the time of the validation, and     *)
(* have been damaged since.                                                *)
(***************************************************************************)
LEMMA AppliedRows ==
  ASSUME IInv, NEW s \in Syncs, step[s] = "apply", NEW i \in RecordIDs
  PROVE  /\ Applied(s)[i] = NoRow <=> listed[s][i] = NoRow
         /\ Applied(s)[i] # NoRow =>
              \/ Applied(s)[i] = CacheRow(listed[s][i]) /\ Applied(s)[i].readable
              \/ /\ unreadable[s] = {}
                 /\ Applied(s)[i] = cached[i]
                 /\ mirror[i] = listed[s][i]
                 /\ Applied(s)[i].readable => Applied(s)[i] = CacheRow(listed[s][i])
         /\ Applied(s)[i] \in CacheRows \cup {NoRow}
<1>1. SyncFits(s) /\ listed[s] \in Tables /\ loaded[s] \in Tables
  BY DEF IInv, TypeOK
<1>2. Applied(s)[i] = IF loaded[s][i] # NoRow THEN CacheRow(loaded[s][i])
                      ELSE IF i \in RemovedIDs(listed[s], local[s]) THEN NoRow
                      ELSE cached[i]
  BY DEF Applied
<1>3. CASE loaded[s][i] # NoRow
  <2>1. loaded[s][i] = listed[s][i] /\ listed[s][i] \in Rows /\ listed[s][i] # NoRow
    BY <1>1, <1>3 DEF SyncFits, LoadFits, Tables
  <2>2. QED
    BY <1>2, <1>3, <2>1, CacheRowTypes
<1>4. CASE loaded[s][i] = NoRow /\ listed[s][i] = NoRow
  <2>1. local[s][i] # NoRow => i \in RemovedIDs(listed[s], local[s])
    BY <1>4 DEF RemovedIDs, IDs
  <2>2. local[s][i] = NoRow => cached[i] = NoRow
    BY <1>1 DEF SyncFits, LocalFits, IInv, CacheMirrorsServer
  <2>3. QED
    BY <1>2, <1>4, <2>1, <2>2
<1>5. CASE loaded[s][i] = NoRow /\ listed[s][i] # NoRow
  <2>1. i \in IDs(listed[s]) /\ i \notin RemovedIDs(listed[s], local[s])
    BY <1>5 DEF IDs, RemovedIDs
  <2>2. unreadable[s] = {} /\ mirror[i] = listed[s][i]
    BY <1>1, <1>5, <2>1 DEF SyncFits, PlanFits, LoadFits
  <2>3. Applied(s)[i] = cached[i]
    BY <1>2, <1>5, <2>1
  <2>4. /\ cached[i] = NoRow <=> mirror[i] = NoRow
        /\ cached[i] # NoRow /\ cached[i].readable => cached[i] = CacheRow(mirror[i])
        /\ cached[i] \in CacheRows \cup {NoRow}
    BY DEF IInv, CacheMirrorsServer, TypeOK
  <2>5. QED
    BY <1>5, <2>2, <2>3, <2>4
<1>6. QED
  BY <1>3, <1>4, <1>5

LEMMA ApplyInvariant ==
  ASSUME IInv, NEW s \in Syncs, Syncs = {s}, Apply(s)
  PROVE  IInv'
<1>1. /\ step[s] = "apply" /\ cached' = Applied(s) /\ mirror' = listed[s]
      /\ Forget(s) /\ UNCHANGED tableVars
  BY DEF Apply
<1>2. listed[s] \in Tables /\ SyncFits(s)
  BY DEF IInv, TypeOK
<1>3. cached' \in [RecordIDs -> CacheRows \cup {NoRow}]
  BY <1>1, AppliedRows DEF Applied
<1>4. TypeOK' /\ \A d \in Syncs : SyncFits(d)'
  BY <1>1, <1>2, <1>3, ForgetFits DEF IInv, TypeOK, tableVars
<1>5. CacheMirrorsServer'
  <2> SUFFICES ASSUME NEW i \in RecordIDs
               PROVE  /\ Applied(s)[i] = NoRow <=> listed[s][i] = NoRow
                      /\ Applied(s)[i] # NoRow /\ Applied(s)[i].readable =>
                           Applied(s)[i] = CacheRow(listed[s][i])
    BY <1>1 DEF CacheMirrorsServer
  <2>1. QED
    BY <1>1, AppliedRows
<1>6. RowsStored' /\ MirrorIsPast'
  BY <1>1, <1>2 DEF IInv, RowsStored, MirrorIsPast, SyncFits, ListFits, IsPast, Exists, tableVars
<1>7. QED
  BY <1>4, <1>5, <1>6 DEF IInv

LEMMA AbortInvariant ==
  ASSUME IInv, NEW s \in Syncs, Syncs = {s}, Abort(s)
  PROVE  IInv'
<1>1. Forget(s) /\ UNCHANGED <<tableVars, cached, mirror>>
  BY DEF Abort
<1>2. TypeOK' /\ \A d \in Syncs : SyncFits(d)'
  BY <1>1, ForgetFits DEF IInv, TypeOK, tableVars
<1>3. QED
  BY <1>1, <1>2, QuietInvariant

LEMMA InitInvariant == Init => IInv
<1> SUFFICES ASSUME Init PROVE IInv
  OBVIOUS
<1>1. NoTable \in Tables /\ NoTable \in LocalStates
      /\ NoTable \in [RecordIDs -> CacheRows \cup {NoRow}]
  BY DEF NoTable, Tables, LocalStates
<1>2. rows \in Tables /\ stored = {} /\ \A i \in RecordIDs : ~ Exists(i)
  BY DEF Init, TableInit, Tables, Exists
<1>3. TypeOK
  BY <1>1, <1>2 DEF Init, TypeOK, Steps
<1>4. CacheMirrorsServer /\ RowsStored /\ MirrorIsPast
  BY <1>2 DEF Init, CacheMirrorsServer, RowsStored, MirrorIsPast, IsPast, NoTable
<1>5. ASSUME NEW s \in Syncs PROVE SyncFits(s)
  BY DEF Init, SyncFits, ListFits, LocalFits, PlanFits, LoadFits, NoTable
<1>6. QED
  BY <1>3, <1>4, <1>5 DEF IInv

LEMMA NextInvariant == OneSync /\ IInv /\ [Next]_vars => IInv'
<1> SUFFICES ASSUME NEW s, Syncs = {s}, IInv, [Next]_vars PROVE IInv'
  BY DEF OneSync
<1>1. CASE ServerChanges
  BY <1>1, ServerInvariant
<1>2. ASSUME NEW i \in RecordIDs, Damage(i) PROVE IInv'
  BY <1>2, DamageInvariant
<1>3. CASE Begin(s)
  BY <1>3, BeginInvariant
<1>4. CASE ListServer(s)
  BY <1>4, ListServerInvariant
<1>5. CASE ListLocal(s)
  BY <1>5, ListLocalInvariant
<1>6. CASE Validate(s)
  BY <1>6, ValidateInvariant
<1>7. ASSUME NEW i \in RecordIDs, GetRecord(s, i) PROVE IInv'
  BY <1>7, GetRecordInvariant
<1>8. CASE AllLoaded(s)
  BY <1>8, AllLoadedInvariant
<1>9. CASE Apply(s)
  BY <1>9, ApplyInvariant
<1>10. CASE Abort(s)
  BY <1>10, AbortInvariant
<1>11. CASE Refuse(s)
  <2>1. Abort(s)
    BY <1>11 DEF Refuse, Abort
  <2>2. QED
    BY <2>1, AbortInvariant
<1>12. CASE UNCHANGED vars
  BY <1>12 DEF vars, tableVars, syncVars, IInv, TypeOK, CacheMirrorsServer, RowsStored,
     MirrorIsPast, IsPast, Exists, SyncFits, ListFits, LocalFits, PlanFits, LoadFits
<1>13. QED
  BY <1>1, <1>2, <1>3, <1>4, <1>5, <1>6, <1>7, <1>8, <1>9, <1>10, <1>11, <1>12
  DEF Next, SyncStep

-----------------------------------------------------------------------------
\* IInv holds for ever.
THEOREM Invariance ==
  ASSUME OneSync
  PROVE  Spec => []IInv
<1>1. IInv /\ [Next]_vars => IInv'
  BY NextInvariant
<1>2. QED
  BY <1>1, InitInvariant, PTL DEF Spec

(***************************************************************************)
(* Every variable has its type, in every reachable state.                  *)
(***************************************************************************)
THEOREM TypeCorrect ==
  ASSUME OneSync
  PROVE  Spec => []TypeOK
<1>1. IInv => TypeOK
  BY DEF IInv
<1>2. QED
  BY <1>1, Invariance, PTL

(***************************************************************************)
(* What can be read offline is one past table of the Server, never a       *)
(* mixture of two, however many syncs failed half way and whatever was     *)
(* damaged (Sync and ApplyChanges).                                        *)
(***************************************************************************)
THEOREM CacheIsMirror ==
  ASSUME OneSync
  PROVE  Spec => []CacheMirrorsServer
<1>1. IInv => CacheMirrorsServer
  BY DEF IInv
<1>2. QED
  BY <1>1, Invariance, PTL

\* Of the actions only Apply and Damage change the cache.
LEMMA CacheChanges ==
  ASSUME Next, NEW s, Syncs = {s}
  PROVE  \/ UNCHANGED <<cached, mirror>>
         \/ \E i \in RecordIDs : Damage(i)
         \/ Apply(s)
BY DEF Next, ServerChanges, Begin, SyncStep, ListServer, ListLocal, Validate, GetRecord,
       AllLoaded, Refuse, Abort

(***************************************************************************)
(* A sync that succeeds has repaired or removed every row its validation   *)
(* could not read (ValidateRecords and the reload of the whole list).      *)
(***************************************************************************)
THEOREM SyncsRepair ==
  ASSUME OneSync
  PROVE  Spec => SyncRepairs
<1> DEFINE Repaired == \A s \in Syncs : Apply(s) =>
             \A i \in unreadable[s] : cached'[i] = NoRow \/ cached'[i].readable
<1>1. ASSUME IInv PROVE Repaired
  <2> SUFFICES ASSUME NEW s \in Syncs, Apply(s), NEW i \in unreadable[s]
               PROVE  cached'[i] = NoRow \/ cached'[i].readable
    OBVIOUS
  <2>1. i \in RecordIDs
    BY <1>1 DEF IInv, TypeOK
  <2>2. QED
    BY <1>1, <2>1, AppliedRows DEF Apply
<1>2. QED
  BY <1>1, Invariance, PTL DEF SyncRepairs

(***************************************************************************)
(* What the user reads offline never gets older, and only a record that is *)
(* gone from the Server leaves the cache (buildSyncPlan and ApplyChanges). *)
(***************************************************************************)
THEOREM CacheAges ==
  ASSUME OneSync
  PROVE  Spec => CacheNeverStepsBack
<1> DEFINE Ages == \A i \in RecordIDs :
             /\ mirror[i] # NoRow /\ cached'[i] # NoRow /\ cached'[i].readable
                  => cached'[i].revision >= mirror[i].revision
             /\ cached[i] # NoRow /\ cached'[i] = NoRow => ~ Exists(i)
<1>1. ASSUME IInv, [Next]_vars PROVE [Ages]_vars
  <2> SUFFICES ASSUME Next, NEW s, Syncs = {s}, NEW i \in RecordIDs
               PROVE  /\ mirror[i] # NoRow /\ cached'[i] # NoRow /\ cached'[i].readable
                           => cached'[i].revision >= mirror[i].revision
                      /\ cached[i] # NoRow /\ cached'[i] = NoRow => ~ Exists(i)
    BY <1>1 DEF OneSync
  <2>1. mirror[i] # NoRow => mirror[i] \in Rows /\ mirror[i].revision \in Int
    BY <1>1 DEF IInv, TypeOK, Tables, Rows, Revisions
  <2>2. IInv'
    BY <1>1, NextInvariant DEF OneSync
  <2>3. CASE mirror' = mirror
    <3>1. /\ cached'[i] = NoRow <=> mirror[i] = NoRow
          /\ cached'[i] # NoRow /\ cached'[i].readable => cached'[i] = CacheRow(mirror[i])
          /\ cached[i] = NoRow <=> mirror[i] = NoRow
      BY <1>1, <2>2, <2>3 DEF IInv, CacheMirrorsServer
    <3>2. QED
      BY <2>1, <3>1 DEF CacheRow
  <2>4. CASE Apply(s)
    <3>1. step[s] = "apply" /\ cached' = Applied(s) /\ SyncFits(s)
      BY <1>1, <2>4 DEF Apply, IInv
    <3>2. /\ cached'[i] = NoRow <=> listed[s][i] = NoRow
          /\ cached'[i] # NoRow /\ cached'[i].readable => cached'[i] = CacheRow(listed[s][i])
      BY <1>1, <3>1, AppliedRows
    <3>3. /\ mirror[i] # NoRow /\ listed[s][i] = NoRow => ~ Exists(i)
          /\ mirror[i] # NoRow /\ listed[s][i] # NoRow =>
               mirror[i] = listed[s][i] \/ mirror[i].revision < listed[s][i].revision
      BY <3>1 DEF SyncFits, ListFits
    <3>4. cached[i] = NoRow <=> mirror[i] = NoRow
      BY <1>1 DEF IInv, CacheMirrorsServer
    <3>5. listed[s][i] # NoRow => listed[s][i].revision \in Int
      BY <1>1 DEF IInv, TypeOK, Tables, Rows, Revisions
    <3>6. QED
      BY <2>1, <3>2, <3>3, <3>4, <3>5 DEF CacheRow
  <2>5. QED
    BY <2>3, <2>4, CacheChanges DEF Damage
<1>2. QED
  BY <1>1, Invariance, PTL DEF Spec, CacheNeverStepsBack
=============================================================================
