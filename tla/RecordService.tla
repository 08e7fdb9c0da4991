---------------------------- MODULE RecordService ----------------------------
(***************************************************************************)
(* The record requests of the Server, each handler cut at its database     *)
(* statements: internal/server/service/records.go over                     *)
(* internal/server/postgres/record_repository.go.  A handler holds no lock *)
(* and no transaction between two statements, so those of other requests   *)
(* come in between.                                                        *)
(*                                                                         *)
(* A client stands for one process of the client program with a valid      *)
(* token (its owner is UserOf[c]; the HTTP middleware and the gRPC         *)
(* interceptor put that id into the request).  It has one request at a     *)
(* time, may lose the answer, and keeps in opened[c] the last version an   *)
(* answer showed it.  The expected revision of an update or a delete is    *)
(* the one of opened[c] in the TUI; with --revision the CLI user types any.*)
(*                                                                         *)
(* Requests the handlers refuse before their first statement (invalid      *)
(* title, payload, id or revision; no token) change nothing and are left   *)
(* out.                                                                    *)
(***************************************************************************)
EXTENDS VersionedRecords

CONSTANTS
  Clients,
  UserOf,       \* UserOf[c]: the user whose token client c sends
  None          \* no request, no answer, nothing opened

ASSUME UserOfAssumption == UserOf \in [Clients -> Users]

VARIABLES
  pc,           \* pc[c]: the next statement of the handler that serves c
  request,      \* request[c]: the request being served
  answer,       \* answer[c]: the answer on its way to c
  opened        \* opened[c]: the version c was last shown

vars == <<rows, stored, pc, request, answer, opened>>

(***************************************************************************)
(* "read" is the SELECT of Get, List and Update, "write" the INSERT,       *)
(* UPDATE or DELETE, "exists" the SELECT EXISTS after a missed write.      *)
(***************************************************************************)
Steps == {"idle", "read", "write", "exists", "answer"}

Requests ==
  [op : {"create"}, id : RecordIDs, type : Types, data : Data]
    \cup [op : {"get"}, id : RecordIDs]
    \cup [op : {"list"}]
    \cup [op : {"update"}, id : RecordIDs, type : Types, expected : Revisions,
          data : Data]
    \cup [op : {"delete"}, id : RecordIDs, expected : Revisions]

\* A version of a record as an answer carries it.  A list carries metadata
\* only; the title in it is enough of Data to tell two versions apart.
Versions == [id : RecordIDs, row : Rows]

Statuses == {"ok", "not_found", "conflict", "wrong_type", "undecryptable", "failed"}

Answers == [status : Statuses, versions : SUBSET Versions]

ASSUME NoneAssumption == None \notin Requests \cup Answers \cup Versions

Refuse(status) == [status |-> status, versions |-> {}]
Give(versions) == [status |-> "ok", versions |-> versions]
Version(i, row) == [id |-> i, row |-> row]

Init ==
  /\ TableInit
  /\ pc = [c \in Clients |-> "idle"]
  /\ request = [c \in Clients |-> None]
  /\ answer = [c \in Clients |-> None]
  /\ opened = [c \in Clients |-> None]

-----------------------------------------------------------------------------
\* Client c sends request r; the handler starts at the given statement.
Send(c, r, step) ==
  /\ pc[c] = "idle"
  /\ request' = [request EXCEPT ![c] = r]
  /\ pc' = [pc EXCEPT ![c] = step]
  /\ UNCHANGED <<rows, stored, answer, opened>>

\* Ids held by create handlers that have not answered yet.
Issued ==
  {request[c].id : c \in {d \in Clients : request[d] # None /\ request[d].op = "create"}}

\* Create generates the id and encrypts for it before the INSERT.
CallCreate(c, i, t, d) ==
  /\ i \notin stored \cup Issued
  /\ Send(c, [op |-> "create", id |-> i, type |-> t, data |-> d], "write")

CallGet(c, i) == i \in stored /\ Send(c, [op |-> "get", id |-> i], "read")

CallList(c) == Send(c, [op |-> "list"], "read")

\* t is the type of the payload the client sends, r the revision it expects.
CallUpdate(c, i, t, r, d) ==
  /\ i \in stored
  /\ Send(c, [op |-> "update", id |-> i, type |-> t, expected |-> r, data |-> d], "read")

CallDelete(c, i, r) ==
  /\ i \in stored
  /\ Send(c, [op |-> "delete", id |-> i, expected |-> r], "write")

-----------------------------------------------------------------------------
At(c, step, op) == pc[c] = step /\ request[c].op = op

\* The handler of c is done with answer a.
Respond(c, a) ==
  /\ answer' = [answer EXCEPT ![c] = a]
  /\ pc' = [pc EXCEPT ![c] = "answer"]
  /\ UNCHANGED <<request, opened>>

\* The handler of c goes on to its next statement.
Goto(c, step) ==
  /\ pc' = [pc EXCEPT ![c] = step]
  /\ UNCHANGED <<request, answer, opened>>

\* Mutation: the condition on user_id is forgotten.
OwnedByAnyone(c, i) == Exists(i)

\* WHERE user_id = $1 AND id = $2
Owned(c, i) == Exists(i) /\ rows[i].owner = UserOf[c]

\* The seal under which Get decrypts row i: the columns of the row.
Decryptable(i) == rows[i].seal = Seal(rows[i].owner, i, rows[i].type)

ReadRow(c) ==
  /\ At(c, "read", "get")
  /\ LET i == request[c].id IN
       Respond(c, IF ~ Owned(c, i) THEN Refuse("not_found")
                  ELSE IF ~ Decryptable(i) THEN Refuse("undecryptable")
                  ELSE Give({Version(i, rows[i])}))
  /\ UNCHANGED tableVars

ListRows(c) ==
  /\ At(c, "read", "list")
  /\ Respond(c, Give({Version(i, rows[i]) : i \in {j \in RecordIDs : Owned(c, j)}}))
  /\ UNCHANGED tableVars

\* Mutation: Update does not compare the type of the row with the payload's.
UpdateRefusalAnyType(c) ==
  LET r == request[c] IN
    IF ~ Owned(c, r.id) THEN "not_found"
    ELSE IF rows[r.id].revision # r.expected THEN "conflict"
    ELSE "ok"

\* What Update decides from its SELECT, in the order of the code.
UpdateRefusal(c) ==
  LET r == request[c] IN
    IF ~ Owned(c, r.id) THEN "not_found"
    ELSE IF rows[r.id].type # r.type THEN "wrong_type"
    ELSE IF rows[r.id].revision # r.expected THEN "conflict"
    ELSE "ok"

ReadForUpdate(c) ==
  /\ At(c, "read", "update")
  /\ IF UpdateRefusal(c) = "ok" THEN Goto(c, "write")
                                ELSE Respond(c, Refuse(UpdateRefusal(c)))
  /\ UNCHANGED tableVars

InsertRow(c) ==
  /\ At(c, "write", "create")
  /\ LET r == request[c]
         new == NewRow(UserOf[c], r.id, r.type, r.data)
     IN  /\ rows' = [rows EXCEPT ![r.id] = new]
         /\ stored' = stored \cup {r.id}
         /\ Respond(c, Give({Version(r.id, new)}))

\* Mutation: the write trusts the revision that the SELECT compared.
MatchesAnyRevision(c) == Owned(c, request[c].id)

\* WHERE user_id = $1 AND id = $2 AND revision = $3
Matches(c) == Owned(c, request[c].id) /\ rows[request[c].id].revision = request[c].expected

\* Mutation: the UPDATE does not advance the revision.
UpdatedInPlace(c) ==
  LET r == request[c] IN
    [rows[r.id] EXCEPT !.data = r.data, !.seal = Seal(UserOf[c], r.id, r.type)]

\* The ciphertext was sealed with the type of the request; type is not set.
Updated(c) ==
  LET r == request[c] IN
    [rows[r.id] EXCEPT !.revision = @ + 1, !.data = r.data,
                       !.seal = Seal(UserOf[c], r.id, r.type)]

\* The answer to an UPDATE that took effect: the type it returned is compared.
UpdateAnswer(c) ==
  IF rows[request[c].id].type = request[c].type
    THEN Give({Version(request[c].id, Updated(c))}) ELSE Refuse("failed")

\* Mutation: nothing stops the revision at the end of the column's range.
UpdateRowUnbounded(c) ==
  /\ At(c, "write", "update")
  /\ Matches(c)
  /\ rows' = [rows EXCEPT ![request[c].id] = Updated(c)]
  /\ Respond(c, UpdateAnswer(c))
  /\ UNCHANGED stored

\* revision + 1 past the column's range is an error of the statement.
UpdateRow(c) ==
  /\ At(c, "write", "update")
  /\ Matches(c)
  /\ IF rows[request[c].id].revision = MaxRevision
       THEN Respond(c, Refuse("failed")) /\ UNCHANGED rows
       ELSE /\ rows' = [rows EXCEPT ![request[c].id] = Updated(c)]
            /\ Respond(c, UpdateAnswer(c))
  /\ UNCHANGED stored

DeleteRow(c) ==
  /\ At(c, "write", "delete")
  /\ Matches(c)
  /\ rows' = [rows EXCEPT ![request[c].id] = NoRow]
  /\ Respond(c, Give({}))
  /\ UNCHANGED stored

\* Mutation: a missed write is reported as a missing record right away.
MissRowUnasked(c) ==
  /\ At(c, "write", "update") \/ At(c, "write", "delete")
  /\ ~ Matches(c)
  /\ Respond(c, Refuse("not_found"))
  /\ UNCHANGED tableVars

\* UPDATE returned no row, or DELETE affected none: ask why.
MissRow(c) ==
  /\ At(c, "write", "update") \/ At(c, "write", "delete")
  /\ ~ Matches(c)
  /\ Goto(c, "exists")
  /\ UNCHANGED tableVars

CheckExists(c) ==
  /\ pc[c] = "exists"
  /\ Respond(c, Refuse(IF Owned(c, request[c].id) THEN "conflict" ELSE "not_found"))
  /\ UNCHANGED tableVars

\* A statement fails without an effect: pool, connection, cancelled context.
\* One that took effect while its result got lost is a write whose answer is lost.
StatementFails(c) ==
  /\ pc[c] \in {"read", "write", "exists"}
  /\ Respond(c, Refuse("failed"))
  /\ UNCHANGED tableVars

-----------------------------------------------------------------------------
\* Client c is free again; nothing of the request stays.
Finish(c) ==
  /\ pc[c] = "answer"
  /\ pc' = [pc EXCEPT ![c] = "idle"]
  /\ request' = [request EXCEPT ![c] = None]
  /\ answer' = [answer EXCEPT ![c] = None]
  /\ UNCHANGED tableVars

\* The answer arrives.  Of a list the user opens at most one entry.
Deliver(c) ==
  /\ Finish(c)
  /\ IF answer[c].versions = {}
       THEN UNCHANGED opened
       ELSE \E v \in answer[c].versions : opened' = [opened EXCEPT ![c] = v]

\* The answer is lost (timeout, broken connection, crash of either side): the
\* client cannot tell whether the change it asked for was made.
Lose(c) == Finish(c) /\ UNCHANGED opened

Call(c) ==
  \/ CallList(c)
  \/ \E i \in RecordIDs :
       \/ CallGet(c, i)
       \/ \E t \in Types, d \in Data : CallCreate(c, i, t, d)
       \/ \E r \in Revisions : CallDelete(c, i, r)
       \/ \E t \in Types, r \in Revisions, d \in Data : CallUpdate(c, i, t, r, d)

Handle(c) ==
  \/ ReadRow(c) \/ ListRows(c) \/ ReadForUpdate(c)
  \/ InsertRow(c) \/ UpdateRow(c) \/ DeleteRow(c)
  \/ MissRow(c) \/ CheckExists(c) \/ StatementFails(c)

Next == \E c \in Clients : Call(c) \/ Handle(c) \/ Deliver(c) \/ Lose(c)

Spec == Init /\ [][Next]_vars

-----------------------------------------------------------------------------
TypeOK ==
  /\ rows \in [RecordIDs -> Rows \cup {NoRow}]
  /\ stored \subseteq RecordIDs
  /\ pc \in [Clients -> Steps]
  /\ request \in [Clients -> Requests \cup {None}]
  /\ answer \in [Clients -> Answers \cup {None}]
  /\ opened \in [Clients -> Versions \cup {None}]
  /\ \A c \in Clients : pc[c] = "idle" <=> request[c] = None
  /\ \A c \in Clients : pc[c] = "answer" <=> answer[c] # None

\* Versions that left the database: on their way to c, or held by it.
CopiesOf(c) ==
  (IF answer[c] = None THEN {} ELSE answer[c].versions)
    \cup (IF opened[c] = None THEN {} ELSE {opened[c]})

Copies == UNION {CopiesOf(c) : c \in Clients}

(***************************************************************************)
(* Optimistic locking compares nothing but revisions, so a revision must   *)
(* name one version for all time: two copies of a record with the same     *)
(* revision are the same version, whoever holds them and whatever happened *)
(* to the row since.                                                       *)
(***************************************************************************)
RevisionNamesVersion ==
  \A v, w \in Copies \cup {Version(i, rows[i]) : i \in {j \in RecordIDs : Exists(j)}} :
    v.id = w.id /\ v.row.revision = w.row.revision => v = w

\* The version client c has in front of it is the one its request names.
BasedOnOpened(c) ==
  /\ opened[c] # None
  /\ opened[c].id = request[c].id
  /\ opened[c].row.revision = request[c].expected

(***************************************************************************)
(* No lost update (docs/CLI.md: --revision is there "not to overwrite the  *)
(* changes of another device"): when an update or a delete changes a row,  *)
(* the version it replaces is exactly the one the client was shown under   *)
(* that revision, although other requests ran between its two statements.  *)
(***************************************************************************)
NoLostUpdate ==
  [][\A c \in Clients :
       /\ pc[c] = "write" /\ pc'[c] = "answer" /\ answer'[c].status = "ok"
       /\ request[c].op \in {"update", "delete"}
       /\ BasedOnOpened(c)
       => rows[request[c].id] = opened[c].row]_vars

(***************************************************************************)
(* A refusal is still true when it arrives: "not found" means the record   *)
(* is gone for good, "conflict" that the version the user works on is no   *)
(* longer the current one, "wrong type" that no row has the type sent.     *)
(* updateDeleteMissError decides this in a statement of its own, after the *)
(* write that missed.                                                      *)
(***************************************************************************)
RefusalsHold ==
  \A c \in Clients : pc[c] = "answer" =>
    CASE answer[c].status = "not_found"  -> ~ Owned(c, request[c].id)
      [] answer[c].status = "conflict"   ->
           BasedOnOpened(c) => rows[request[c].id] # opened[c].row
      [] answer[c].status = "wrong_type" ->
           Exists(request[c].id) => rows[request[c].id].type # request[c].type
      [] OTHER -> TRUE

(***************************************************************************)
(* The payload of every row opens under the row's own owner, id and type,  *)
(* so no Get ever answers that it cannot decrypt what the Server itself    *)
(* wrote.  Update seals under the type it was sent, UPDATE keeps the type  *)
(* of the row: that both agree was checked one statement earlier.          *)
(***************************************************************************)
RowsDecrypt == \A i \in RecordIDs : Exists(i) => Decryptable(i)

(***************************************************************************)
(* A client is shown, and changes, records of its own user only.           *)
(***************************************************************************)
OwnRecordsOnly ==
  \A c \in Clients : \A v \in CopiesOf(c) : v.row.owner = UserOf[c]

(***************************************************************************)
(* Whatever the interleaving of handlers, the table only changes in the    *)
(* three ways of VersionedRecords: revisions start at 1 and grow by one,   *)
(* owner and type stay, a deleted id does not come back.                   *)
(***************************************************************************)
ImplementsTable == TableSpec
=============================================================================
