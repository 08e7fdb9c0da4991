---------------------------- MODULE Server_proofs ----------------------------
(***************************************************************************)
(* Theorems about the Server.                                              *)
(*                                                                         *)
(* Part one: the record service (RecordService), for any number of         *)
(* clients, users, ids, types and contents and any range of revisions.     *)
(*                                                                         *)
(* Part two: the process the service runs in (Transports), for any number  *)
(* of transports and of requests.                                          *)
(***************************************************************************)
EXTENDS RecordService, Transports, TLAPS

(***************************************************************************)
(* What an answer of c may carry and where the handler goes from here,     *)
(* said once for the steps of all handlers.                                *)
(***************************************************************************)
LEMMA RespondTypes ==
  ASSUME TypeOK, NEW c \in Clients, NEW a \in Answers, pc[c] \notin {"idle", "answer"},
         Respond(c, a)
  PROVE  /\ pc' \in [Clients -> Steps]
         /\ request' \in [Clients -> Requests \cup {None}]
         /\ answer' \in [Clients -> Answers \cup {None}]
         /\ opened' \in [Clients -> Versions \cup {None}]
         /\ \A d \in Clients : pc'[d] = "idle" <=> request'[d] = None
         /\ \A d \in Clients : pc'[d] = "answer" <=> answer'[d] # None
BY NoneAssumption DEF TypeOK, Respond, Steps

LEMMA GotoTypes ==
  ASSUME TypeOK, NEW c \in Clients, NEW step \in {"read", "write", "exists"},
         pc[c] \notin {"idle", "answer"}, Goto(c, step)
  PROVE  /\ pc' \in [Clients -> Steps]
         /\ request' \in [Clients -> Requests \cup {None}]
         /\ answer' \in [Clients -> Answers \cup {None}]
         /\ opened' \in [Clients -> Versions \cup {None}]
         /\ \A d \in Clients : pc'[d] = "idle" <=> request'[d] = None
         /\ \A d \in Clients : pc'[d] = "answer" <=> answer'[d] # None
BY DEF TypeOK, Goto, Steps

LEMMA SendTypes ==
  ASSUME TypeOK, NEW c \in Clients, NEW r \in Requests, NEW step \in {"read", "write"},
         Send(c, r, step)
  PROVE  TypeOK'
BY NoneAssumption DEF TypeOK, Send, Steps

LEMMA RefuseTypes ==
  ASSUME NEW status \in Statuses
  PROVE  Refuse(status) \in Answers
BY DEF Refuse, Answers

LEMMA GiveTypes ==
  ASSUME NEW versions \in SUBSET Versions
  PROVE  Give(versions) \in Answers
BY DEF Give, Answers, Statuses

LEMMA VersionTypes ==
  ASSUME NEW i \in RecordIDs, NEW row \in Rows
  PROVE  Version(i, row) \in Versions
BY DEF Version, Versions

\* The row an INSERT makes, and the row an UPDATE makes of a matching one.
LEMMA NewRowTypes ==
  ASSUME NEW u \in Users, NEW i \in RecordIDs, NEW t \in Types, NEW d \in Data
  PROVE  NewRow(u, i, t, d) \in Rows
BY MaxRevisionAssumption DEF NewRow, Rows, Revisions, Seal, Seals

\* The request of a handler has the fields its statement reads.
LEMMA RequestTypes ==
  ASSUME TypeOK, NEW c \in Clients, pc[c] # "idle"
  PROVE  /\ request[c] \in Requests
         /\ request[c].op # "list" => request[c].id \in RecordIDs
         /\ request[c].op = "create" => request[c].type \in Types /\ request[c].data \in Data
         /\ request[c].op = "update" =>
              /\ request[c].type \in Types
              /\ request[c].expected \in Revisions
              /\ request[c].data \in Data
         /\ request[c].op = "delete" => request[c].expected \in Revisions
<1>1. request[c] \in Requests
  BY DEF TypeOK
<1>2. QED
  BY <1>1 DEF Requests

-----------------------------------------------------------------------------
(***************************************************************************)
(* The inductive invariant.  Every part speaks about one hazard of         *)
(* handlers that hold nothing between their statements.                    *)
(***************************************************************************)
RowsStored == \A i \in RecordIDs : Exists(i) => i \in stored

\* Which statement each kind of request can be at, and what it may assume.
HandlersFit ==
  \A c \in Clients :
    /\ pc[c] = "read" => request[c].op \in {"get", "list", "update"}
    /\ pc[c] = "write" => request[c].op \in {"create", "update", "delete"}
    /\ pc[c] = "exists" => request[c].op \in {"update", "delete"}
    /\ pc[c] # "idle" /\ request[c].op \in {"get", "update", "delete"} => request[c].id \in stored
    /\ pc[c] = "write" /\ request[c].op = "create" => request[c].id \notin stored

\* No two creates hold the same id.
FreshIDs ==
  \A c, d \in Clients :
    /\ pc[c] # "idle" /\ request[c].op = "create"
    /\ pc[d] # "idle" /\ request[d].op = "create"
    /\ request[c].id = request[d].id
    => c = d

\* The type an update compared with its SELECT is still the type of the row.
TypeChecked ==
  \A c \in Clients :
    pc[c] = "write" /\ request[c].op = "update" /\ Exists(request[c].id) =>
      rows[request[c].id].type = request[c].type

\* A copy that left the database is the current version or an older one.
CopiesNotAhead ==
  \A c \in Clients : \A v \in CopiesOf(c) :
    /\ v.id \in stored
    /\ Exists(v.id) => v.row = rows[v.id] \/ v.row.revision < rows[v.id].revision

\* Two copies with the same revision are the same version.
CopiesAgree ==
  \A c, d \in Clients : \A v \in CopiesOf(c), w \in CopiesOf(d) :
    v.id = w.id /\ v.row.revision = w.row.revision => v = w

IInv ==
  /\ TypeOK /\ RowsStored /\ HandlersFit /\ FreshIDs
  /\ TypeChecked /\ RowsDecrypt /\ OwnRecordsOnly
  /\ CopiesNotAhead /\ CopiesAgree

-----------------------------------------------------------------------------
(***************************************************************************)
(* How the copies change: an answer adds its versions, nothing else adds   *)
(* any, and a client that finishes keeps some of those it had.             *)
(***************************************************************************)
LEMMA CopiesAfterRespond ==
  ASSUME TypeOK, NEW c \in Clients, NEW a \in Answers, pc[c] \notin {"idle", "answer"},
         Respond(c, a)
  PROVE  /\ CopiesOf(c)' = CopiesOf(c) \cup a.versions
         /\ \A d \in Clients \ {c} : CopiesOf(d)' = CopiesOf(d)
<1>1. answer[c] = None /\ answer'[c] = a /\ a # None /\ opened' = opened
  BY NoneAssumption DEF TypeOK, Respond
<1>2. CopiesOf(c)' = CopiesOf(c) \cup a.versions
  BY <1>1 DEF CopiesOf
<1>3. ASSUME NEW d \in Clients \ {c}
      PROVE  CopiesOf(d)' = CopiesOf(d)
  BY <1>1 DEF CopiesOf, Respond, TypeOK
<1>4. QED
  BY <1>2, <1>3

LEMMA CopiesAfterSend ==
  ASSUME NEW c \in Clients, NEW r, NEW step, Send(c, r, step)
  PROVE  \A d \in Clients : CopiesOf(d)' = CopiesOf(d)
BY DEF Send, CopiesOf

LEMMA CopiesAfterGoto ==
  ASSUME NEW c \in Clients, NEW step, Goto(c, step)
  PROVE  \A d \in Clients : CopiesOf(d)' = CopiesOf(d)
BY DEF Goto, CopiesOf

LEMMA CopiesAfterFinish ==
  ASSUME TypeOK, NEW c \in Clients, Deliver(c) \/ Lose(c)
  PROVE  \A d \in Clients : CopiesOf(d)' \subseteq CopiesOf(d)
<1>1. answer' = [answer EXCEPT ![c] = None] /\ answer[c] \in Answers /\ answer[c] # None
  BY DEF TypeOK, Deliver, Lose, Finish
<1>2. \A d \in Clients : opened'[d] # opened[d] => d = c /\ opened'[d] \in answer[c].versions
  BY <1>1 DEF TypeOK, Deliver, Lose, Finish, Answers
<1>3. QED
  BY <1>1, <1>2 DEF CopiesOf, TypeOK

-----------------------------------------------------------------------------
\* A new request changes no row and no copy.
LEMMA CallKeepsIInv ==
  ASSUME IInv, NEW c \in Clients, Call(c)
  PROVE  IInv'
<1> DEFINE Sends(r, step) ==
      /\ Send(c, r, step)
      /\ step = "read" => r.op \in {"get", "list", "update"}
      /\ step = "write" => r.op \in {"create", "delete"}
      /\ r.op \in {"get", "update", "delete"} => r.id \in stored
      /\ r.op = "create" => r.id \notin stored \cup Issued
    Sent == \E r \in Requests, step \in {"read", "write"} : Sends(r, step)
<1>1. Sent
  <2>1. CASE CallList(c)
    <3>1. [op |-> "list"] \in Requests
      BY DEF Requests
    <3>2. QED
      BY <2>1, <3>1 DEF CallList
  <2>2. ASSUME NEW i \in RecordIDs, CallGet(c, i)
        PROVE  Sent
    <3>1. [op |-> "get", id |-> i] \in Requests
      BY DEF Requests
    <3>2. QED
      BY <2>2, <3>1 DEF CallGet
  <2>3. ASSUME NEW i \in RecordIDs, NEW t \in Types, NEW d \in Data, CallCreate(c, i, t, d)
        PROVE  Sent
    <3>1. [op |-> "create", id |-> i, type |-> t, data |-> d] \in Requests
      BY DEF Requests
    <3>2. QED
      BY <2>3, <3>1 DEF CallCreate
  <2>4. ASSUME NEW i \in RecordIDs, NEW q \in Revisions, CallDelete(c, i, q)
        PROVE  Sent
    <3>1. [op |-> "delete", id |-> i, expected |-> q] \in Requests
      BY DEF Requests
    <3>2. QED
      BY <2>4, <3>1 DEF CallDelete
  <2>5. ASSUME NEW i \in RecordIDs, NEW t \in Types, NEW q \in Revisions, NEW d \in Data,
               CallUpdate(c, i, t, q, d)
        PROVE  Sent
    <3>1. [op |-> "update", id |-> i, type |-> t, expected |-> q, data |-> d] \in Requests
      BY DEF Requests
    <3>2. QED
      BY <2>5, <3>1 DEF CallUpdate
  <2>6. QED
    BY <2>1, <2>2, <2>3, <2>4, <2>5 DEF Call
<1>2. PICK r \in Requests, step \in {"read", "write"} : Sends(r, step)
  BY <1>1
<1>3. /\ UNCHANGED <<rows, stored>>
      /\ pc[c] = "idle"
      /\ pc' = [pc EXCEPT ![c] = step]
      /\ request' = [request EXCEPT ![c] = r]
  BY <1>2 DEF Send
<1>4. TypeOK'
  BY <1>2, SendTypes DEF IInv
<1>5. RowsStored' /\ RowsDecrypt'
  BY <1>3 DEF IInv, RowsStored, RowsDecrypt, Exists, Decryptable
<1>6. HandlersFit'
  BY <1>2, <1>3 DEF IInv, HandlersFit, TypeOK
<1>7. FreshIDs'
  <2>1. \A d \in Clients : pc[d] # "idle" /\ request[d].op = "create" => request[d].id \in Issued
    BY DEF IInv, TypeOK, Issued
  <2>2. QED
    BY <1>2, <1>3, <2>1 DEF IInv, FreshIDs, TypeOK
<1>8. TypeChecked'
  BY <1>2, <1>3 DEF IInv, TypeChecked, TypeOK, Exists
<1>9. OwnRecordsOnly' /\ CopiesNotAhead' /\ CopiesAgree'
  BY <1>2, <1>3, CopiesAfterSend DEF IInv, OwnRecordsOnly, CopiesNotAhead, CopiesAgree, Exists
<1>10. QED
  BY <1>4, <1>5, <1>6, <1>7, <1>8, <1>9 DEF IInv

(***************************************************************************)
(* A handler answers without touching the table: every version it gives    *)
(* away is the current one of a row of its user.                           *)
(***************************************************************************)
LEMMA AnswerKeepsIInv ==
  ASSUME IInv, NEW c \in Clients, NEW a \in Answers,
         pc[c] \in {"read", "write", "exists"}, Respond(c, a), UNCHANGED tableVars,
         \A v \in a.versions : Owned(c, v.id) /\ v.row = rows[v.id] /\ v.id \in RecordIDs
  PROVE  IInv'
<1>1. TypeOK'
  BY RespondTypes DEF IInv, TypeOK, tableVars
<1>2. UNCHANGED <<rows, stored, request>> /\ pc' = [pc EXCEPT ![c] = "answer"]
  BY DEF Respond, tableVars
<1>3. RowsStored' /\ RowsDecrypt'
  BY <1>2 DEF IInv, RowsStored, RowsDecrypt, Exists, Decryptable
<1>4. HandlersFit' /\ FreshIDs' /\ TypeChecked'
  BY <1>2 DEF IInv, HandlersFit, FreshIDs, TypeChecked, TypeOK, Exists
<1>5. /\ CopiesOf(c)' = CopiesOf(c) \cup a.versions
      /\ \A d \in Clients \ {c} : CopiesOf(d)' = CopiesOf(d)
  BY CopiesAfterRespond DEF IInv
<1>6. OwnRecordsOnly'
  BY <1>5 DEF IInv, OwnRecordsOnly, Owned
<1>7. CopiesNotAhead'
  BY <1>2, <1>5 DEF IInv, CopiesNotAhead, RowsStored, Owned, Exists
<1>8. CopiesAgree'
  <2>1. ASSUME NEW d \in Clients, NEW e \in Clients, NEW v \in CopiesOf(d)', NEW w \in CopiesOf(e)',
               v.id = w.id, v.row.revision = w.row.revision
        PROVE  v = w
    <3>1. v \in Versions /\ w \in Versions
      BY <1>1 DEF TypeOK, CopiesOf, Answers
    <3>2. \A x \in a.versions : x.row = rows[x.id] /\ Exists(x.id)
      BY DEF Owned
    <3>3. \A f \in Clients : \A x \in CopiesOf(f) : Exists(x.id) =>
            x.row = rows[x.id] \/ x.row.revision < rows[x.id].revision
      BY DEF IInv, CopiesNotAhead
    <3>4. v.row = w.row
      <4>1. CASE v \in CopiesOf(d) /\ w \in CopiesOf(e)
        BY <2>1, <4>1 DEF IInv, CopiesAgree
      <4>2. CASE v \in a.versions
        BY <1>5, <2>1, <3>1, <3>2, <3>3, <4>2 DEF Versions, Rows, Revisions
      <4>3. CASE w \in a.versions
        BY <1>5, <2>1, <3>1, <3>2, <3>3, <4>3 DEF Versions, Rows, Revisions
      <4>4. QED
        BY <1>5, <4>1, <4>2, <4>3
    <3>5. QED
      BY <2>1, <3>1, <3>4 DEF Versions
  <2>2. QED
    BY <2>1 DEF CopiesAgree
<1>9. QED
  BY <1>1, <1>3, <1>4, <1>6, <1>7, <1>8 DEF IInv

\* A handler goes on to its next statement.
LEMMA GotoKeepsIInv ==
  ASSUME IInv, NEW c \in Clients, NEW step \in {"write", "exists"},
         pc[c] \in {"read", "write"}, request[c].op \in {"update", "delete"},
         Goto(c, step), UNCHANGED tableVars,
         step = "write" => (Exists(request[c].id) => rows[request[c].id].type = request[c].type)
  PROVE  IInv'
<1>1. TypeOK'
  BY GotoTypes DEF IInv, TypeOK, tableVars
<1>2. UNCHANGED <<rows, stored, request>> /\ pc' = [pc EXCEPT ![c] = step]
  BY DEF Goto, tableVars
<1>3. RowsStored' /\ RowsDecrypt'
  BY <1>2 DEF IInv, RowsStored, RowsDecrypt, Exists, Decryptable
<1>4. HandlersFit' /\ FreshIDs' /\ TypeChecked'
  BY <1>2 DEF IInv, HandlersFit, FreshIDs, TypeChecked, TypeOK, Exists
<1>5. OwnRecordsOnly' /\ CopiesNotAhead' /\ CopiesAgree'
  BY <1>2, CopiesAfterGoto DEF IInv, OwnRecordsOnly, CopiesNotAhead, CopiesAgree, Exists
<1>6. QED
  BY <1>1, <1>3, <1>4, <1>5 DEF IInv

\* The client is done with its request.
LEMMA FinishKeepsIInv ==
  ASSUME IInv, NEW c \in Clients, Deliver(c) \/ Lose(c)
  PROVE  IInv'
<1>1. /\ UNCHANGED <<rows, stored>>
      /\ pc' = [pc EXCEPT ![c] = "idle"]
      /\ request' = [request EXCEPT ![c] = None]
      /\ answer' = [answer EXCEPT ![c] = None]
  BY DEF Deliver, Lose, Finish, tableVars
<1>2. TypeOK'
  <2>1. opened' \in [Clients -> Versions \cup {None}]
    BY DEF IInv, TypeOK, Deliver, Lose, Finish, Answers
  <2>2. QED
    BY <1>1, <2>1 DEF IInv, TypeOK, Steps, Deliver, Lose, Finish
<1>3. RowsStored' /\ RowsDecrypt'
  BY <1>1 DEF IInv, RowsStored, RowsDecrypt, Exists, Decryptable
<1>4. HandlersFit' /\ FreshIDs' /\ TypeChecked'
  BY <1>1 DEF IInv, HandlersFit, FreshIDs, TypeChecked, TypeOK, Exists
<1>5. \A d \in Clients : CopiesOf(d)' \subseteq CopiesOf(d)
  BY CopiesAfterFinish DEF IInv
<1>6. OwnRecordsOnly' /\ CopiesNotAhead' /\ CopiesAgree'
  BY <1>1, <1>5 DEF IInv, OwnRecordsOnly, CopiesNotAhead, CopiesAgree, Exists
<1>7. QED
  BY <1>2, <1>3, <1>4, <1>6 DEF IInv

-----------------------------------------------------------------------------
(***************************************************************************)
(* The three writes.  The row that INSERT and UPDATE leave behind is newer *)
(* than every copy of that record, and the answer carries that very row.   *)
(***************************************************************************)
LEMMA WriteKeepsIInv ==
  ASSUME IInv, NEW c \in Clients, NEW i \in RecordIDs, NEW new \in Rows,
         pc[c] = "write", request[c].op \in {"create", "update"}, request[c].id = i,
         rows' = [rows EXCEPT ![i] = new], stored' = stored \cup {i},
         Respond(c, Give({Version(i, new)})),
         new.owner = UserOf[c], new.seal = Seal(new.owner, i, new.type),
         request[c].op = "create" => i \notin stored,
         request[c].op = "update" => /\ Exists(i)
                                     /\ new.type = rows[i].type
                                     /\ new.revision = rows[i].revision + 1
  PROVE  IInv'
<1> DEFINE a == Give({Version(i, new)})
<1>1. a \in Answers /\ a.versions = {Version(i, new)}
  BY VersionTypes, GiveTypes DEF Give
<1>2. TypeOK'
  <2>1. rows' \in [RecordIDs -> Rows \cup {NoRow}] /\ stored' \subseteq RecordIDs
    BY DEF IInv, TypeOK
  <2>2. QED
    BY <1>1, <2>1, RespondTypes DEF IInv, TypeOK
<1>3. request' = request /\ pc' = [pc EXCEPT ![c] = "answer"]
  BY DEF Respond
<1>4. rows'[i] = new /\ \A j \in RecordIDs \ {i} : rows'[j] = rows[j]
  BY DEF IInv, TypeOK
<1>5. new # NoRow
  BY NoRowAssumption
<1>6. RowsStored' /\ RowsDecrypt'
  BY <1>4, <1>5 DEF IInv, RowsStored, RowsDecrypt, Exists, Decryptable
<1>7. HandlersFit'
  <2>1. ASSUME NEW d \in Clients, pc'[d] = "write", request[d].op = "create"
        PROVE  request[d].id \notin stored'
    <3>1. d # c /\ pc[d] = "write"
      BY <1>3, <2>1 DEF IInv, TypeOK
    <3>2. CASE request[c].op = "create"
      BY <2>1, <3>1, <3>2 DEF IInv, FreshIDs, HandlersFit
    <3>3. CASE request[c].op = "update"
      BY <2>1, <3>1, <3>3 DEF IInv, RowsStored, HandlersFit, Exists
    <3>4. QED
      BY <3>2, <3>3
  <2>2. QED
    BY <1>3, <2>1 DEF IInv, HandlersFit, TypeOK
<1>8. FreshIDs'
  BY <1>3 DEF IInv, FreshIDs, TypeOK
<1>9. TypeChecked'
  <2>1. ASSUME NEW d \in Clients, pc'[d] = "write", request[d].op = "update",
               rows'[request[d].id] # NoRow
        PROVE  rows'[request[d].id].type = request[d].type
    <3>1. pc[d] = "write" /\ d # c
      BY <1>3, <2>1 DEF IInv, TypeOK
    <3>2. request[d].id \in RecordIDs /\ request[d].id \in stored
      BY <2>1, <3>1, RequestTypes DEF IInv, HandlersFit
    <3>3. CASE request[d].id = i
      BY <1>4, <2>1, <3>1, <3>2, <3>3 DEF IInv, TypeChecked, Exists
    <3>4. CASE request[d].id # i
      BY <1>4, <2>1, <3>1, <3>2, <3>4 DEF IInv, TypeChecked, Exists
    <3>5. QED
      BY <3>3, <3>4
  <2>2. QED
    BY <1>3, <2>1 DEF TypeChecked, Exists
<1>10. /\ CopiesOf(c)' = CopiesOf(c) \cup {Version(i, new)}
       /\ \A d \in Clients \ {c} : CopiesOf(d)' = CopiesOf(d)
  BY <1>1, CopiesAfterRespond DEF IInv
<1>11. OwnRecordsOnly'
  BY <1>10 DEF IInv, OwnRecordsOnly, Version
<1>12. \A d \in Clients : \A v \in CopiesOf(d) : v \in Versions
  BY DEF IInv, TypeOK, CopiesOf, Answers
<1>13. \A d \in Clients : \A v \in CopiesOf(d) : v.id = i => v.row.revision < new.revision
  BY <1>12 DEF IInv, CopiesNotAhead, TypeOK, Exists, Rows, Versions, Revisions
<1>14. CopiesNotAhead'
  <2>1. ASSUME NEW d \in Clients, NEW v \in CopiesOf(d)'
        PROVE  v.id \in stored' /\ (Exists(v.id)' => v.row = rows'[v.id] \/ v.row.revision < rows'[v.id].revision)
    <3>1. CASE v = Version(i, new)
      BY <1>4, <3>1 DEF Version
    <3>2. CASE v \in CopiesOf(d) /\ v.id = i
      BY <1>4, <1>13, <3>2
    <3>3. CASE v \in CopiesOf(d) /\ v.id # i
      BY <1>4, <1>12, <3>3 DEF IInv, CopiesNotAhead, Exists, Versions
    <3>4. QED
      BY <1>10, <3>1, <3>2, <3>3
  <2>2. QED
    BY <2>1 DEF CopiesNotAhead, Exists
<1>15. CopiesAgree'
  <2>1. ASSUME NEW d \in Clients, NEW e \in Clients, NEW v \in CopiesOf(d)', NEW w \in CopiesOf(e)',
               v.id = w.id, v.row.revision = w.row.revision
        PROVE  v = w
    <3>1. CASE v \in CopiesOf(d) /\ w \in CopiesOf(e)
      BY <2>1, <3>1 DEF IInv, CopiesAgree
    <3>2. new.revision \in Nat /\ \A f \in Clients : \A x \in CopiesOf(f) : x.row.revision \in Nat
      BY <1>12 DEF Versions, Rows, Revisions
    <3>3. CASE v = Version(i, new) /\ w # Version(i, new)
      BY <1>10, <1>13, <2>1, <3>2, <3>3 DEF Version
    <3>4. CASE w = Version(i, new) /\ v # Version(i, new)
      BY <1>10, <1>13, <2>1, <3>2, <3>4 DEF Version
    <3>5. QED
      BY <1>10, <3>1, <3>3, <3>4
  <2>2. QED
    BY <2>1 DEF CopiesAgree
<1>16. QED
  BY <1>2, <1>6, <1>7, <1>8, <1>9, <1>11, <1>14, <1>15 DEF IInv

LEMMA InsertKeepsIInv ==
  ASSUME IInv, NEW c \in Clients, InsertRow(c)
  PROVE  IInv'
<1> DEFINE new == NewRow(UserOf[c], request[c].id, request[c].type, request[c].data)
<1>1. pc[c] = "write" /\ request[c].op = "create"
  BY DEF InsertRow, At
<1>2. request[c].id \in RecordIDs /\ request[c].type \in Types /\ request[c].data \in Data
  BY <1>1, RequestTypes DEF IInv
<1>3. new \in Rows
  BY <1>2, NewRowTypes, UserOfAssumption
<1>4. new.owner = UserOf[c] /\ new.seal = Seal(new.owner, request[c].id, new.type)
  BY DEF NewRow
<1>5. request[c].id \notin stored
  BY <1>1 DEF IInv, HandlersFit
<1>6. QED
  BY <1>1, <1>2, <1>3, <1>4, <1>5, WriteKeepsIInv DEF InsertRow

\* What UPDATE makes of a matching row.
LEMMA UpdatedRow ==
  ASSUME IInv, NEW c \in Clients, At(c, "write", "update"), Matches(c),
         rows[request[c].id].revision # MaxRevision
  PROVE  /\ request[c].id \in RecordIDs
         /\ Exists(request[c].id)
         /\ Updated(c) \in Rows
         /\ Updated(c).owner = UserOf[c]
         /\ Updated(c).data = request[c].data
         /\ Updated(c).type = rows[request[c].id].type
         /\ Updated(c).revision = rows[request[c].id].revision + 1
         /\ Updated(c).seal = Seal(UserOf[c], request[c].id, Updated(c).type)
<1> DEFINE i == request[c].id
<1>1. /\ i \in RecordIDs /\ request[c].data \in Data /\ request[c].type \in Types
      /\ Exists(i) /\ rows[i] \in Rows /\ rows[i].owner = UserOf[c]
  BY RequestTypes DEF IInv, TypeOK, At, Matches, Owned, Exists
<1>2. rows[i].type = request[c].type
  BY <1>1 DEF IInv, TypeChecked, At
<1>3. rows[i].revision + 1 \in Revisions
  BY <1>1, MaxRevisionAssumption DEF Rows, Revisions
<1>4. Seal(UserOf[c], i, request[c].type) \in Seals
  BY <1>1, UserOfAssumption DEF Seal, Seals
<1>5. QED
  BY <1>1, <1>2, <1>3, <1>4 DEF Updated, Rows

LEMMA UpdateKeepsIInv ==
  ASSUME IInv, NEW c \in Clients, UpdateRow(c)
  PROVE  IInv'
<1>1. /\ At(c, "write", "update") /\ Matches(c)
      /\ pc[c] = "write" /\ request[c].op = "update" /\ request[c].id \in stored
  BY DEF UpdateRow, At, IInv, HandlersFit
<1>2. CASE rows[request[c].id].revision = MaxRevision
  <2>1. Respond(c, Refuse("failed")) /\ UNCHANGED tableVars /\ Refuse("failed").versions = {}
    BY <1>2 DEF UpdateRow, tableVars, Refuse
  <2>2. Refuse("failed") \in Answers
    BY RefuseTypes DEF Statuses
  <2>3. QED
    BY <1>1, <2>1, <2>2, AnswerKeepsIInv
<1>3. CASE rows[request[c].id].revision # MaxRevision
  <2>1. /\ rows' = [rows EXCEPT ![request[c].id] = Updated(c)]
        /\ Respond(c, Give({Version(request[c].id, Updated(c))}))
        /\ stored' = stored \cup {request[c].id}
    <3>1. rows[request[c].id].type = request[c].type
      BY <1>1 DEF IInv, TypeChecked, Matches, Owned
    <3>2. QED
      BY <1>1, <1>3, <3>1 DEF UpdateRow, UpdateAnswer
  <2>2. /\ request[c].id \in RecordIDs /\ Exists(request[c].id)
        /\ Updated(c) \in Rows /\ Updated(c).owner = UserOf[c]
        /\ Updated(c).type = rows[request[c].id].type
        /\ Updated(c).revision = rows[request[c].id].revision + 1
        /\ Updated(c).seal = Seal(Updated(c).owner, request[c].id, Updated(c).type)
    BY <1>1, <1>3, UpdatedRow
  <2>3. request[c].op \in {"create", "update"} /\ request[c].op # "create"
    BY <1>1
  <2> HIDE DEF Updated
  <2>4. QED
    BY <1>1, <2>1, <2>2, <2>3, WriteKeepsIInv
<1>4. QED
  BY <1>2, <1>3

LEMMA DeleteKeepsIInv ==
  ASSUME IInv, NEW c \in Clients, DeleteRow(c)
  PROVE  IInv'
<1> DEFINE i == request[c].id
<1>1. /\ pc[c] = "write" /\ request[c].op = "delete"
      /\ rows' = [rows EXCEPT ![i] = NoRow] /\ stored' = stored
      /\ Respond(c, Give({}))
  BY DEF DeleteRow, At
<1>2. i \in RecordIDs /\ i \in stored
  BY <1>1, RequestTypes DEF IInv, HandlersFit
<1>3. Give({}) \in Answers /\ Give({}).versions = {}
  BY GiveTypes DEF Give
<1>4. TypeOK'
  <2>1. rows' \in [RecordIDs -> Rows \cup {NoRow}] /\ stored' \subseteq RecordIDs
    BY <1>1 DEF IInv, TypeOK
  <2>2. QED
    BY <1>1, <1>3, <2>1, RespondTypes DEF IInv, TypeOK
<1>5. \A j \in RecordIDs : Exists(j)' => Exists(j) /\ rows'[j] = rows[j]
  BY <1>1 DEF IInv, TypeOK, Exists
<1>6. RowsStored' /\ RowsDecrypt'
  BY <1>1, <1>5 DEF IInv, RowsStored, RowsDecrypt, Decryptable, Exists
<1>7. request' = request /\ pc' = [pc EXCEPT ![c] = "answer"]
  BY <1>1 DEF Respond
<1>8. HandlersFit' /\ FreshIDs'
  BY <1>1, <1>7 DEF IInv, HandlersFit, FreshIDs, TypeOK
<1>9. TypeChecked'
  <2>1. ASSUME NEW d \in Clients, pc'[d] = "write", request[d].op = "update", Exists(request[d].id)'
        PROVE  rows'[request[d].id].type = request[d].type
    <3>1. pc[d] = "write" /\ request[d].id \in RecordIDs
      BY <1>7, <2>1, RequestTypes DEF IInv, TypeOK
    <3>2. QED
      BY <1>5, <1>7, <2>1, <3>1 DEF IInv, TypeChecked, Exists
  <2>2. QED
    BY <1>7, <2>1 DEF TypeChecked, Exists
<1>10. \A d \in Clients : CopiesOf(d)' = CopiesOf(d)
  BY <1>1, <1>3, CopiesAfterRespond DEF IInv
<1>11. \A d \in Clients : \A v \in CopiesOf(d) : v.id \in RecordIDs
  BY DEF IInv, TypeOK, CopiesOf, Answers, Versions
<1>12. OwnRecordsOnly' /\ CopiesAgree'
  BY <1>10 DEF IInv, OwnRecordsOnly, CopiesAgree
<1>13. CopiesNotAhead'
  BY <1>1, <1>5, <1>10, <1>11 DEF IInv, CopiesNotAhead, Exists
<1>14. QED
  BY <1>4, <1>6, <1>8, <1>9, <1>12, <1>13 DEF IInv

-----------------------------------------------------------------------------
\* The statements that only read answer with current rows of the client's user.
LEMMA HandleKeepsIInv ==
  ASSUME IInv, NEW c \in Clients, Handle(c)
  PROVE  IInv'
<1>1. CASE ReadRow(c)
  <2> DEFINE i == request[c].id
  <2>1. pc[c] = "read" /\ i \in RecordIDs
    BY <1>1, RequestTypes DEF ReadRow, At, IInv
  <2>2. CASE ~ Owned(c, i)
    <3>1. Respond(c, Refuse("not_found")) /\ UNCHANGED tableVars
      BY <1>1, <2>2 DEF ReadRow
    <3>2. QED
      BY <2>1, <3>1, RefuseTypes, AnswerKeepsIInv DEF Refuse, Statuses
  <2>3. CASE Owned(c, i) /\ ~ Decryptable(i)
    <3>1. Respond(c, Refuse("undecryptable")) /\ UNCHANGED tableVars
      BY <1>1, <2>3 DEF ReadRow
    <3>2. QED
      BY <2>1, <3>1, RefuseTypes, AnswerKeepsIInv DEF Refuse, Statuses
  <2>4. CASE Owned(c, i) /\ Decryptable(i)
    <3>1. Respond(c, Give({Version(i, rows[i])})) /\ UNCHANGED tableVars
      BY <1>1, <2>4 DEF ReadRow
    <3>2. rows[i] \in Rows
      BY <2>1, <2>4 DEF IInv, TypeOK, Owned, Exists
    <3>3. Give({Version(i, rows[i])}) \in Answers
      BY <2>1, <3>2, VersionTypes, GiveTypes
    <3>4. \A v \in Give({Version(i, rows[i])}).versions :
            Owned(c, v.id) /\ v.row = rows[v.id] /\ v.id \in RecordIDs
      BY <2>1, <2>4 DEF Give, Version
    <3>5. QED
      BY <2>1, <3>1, <3>3, <3>4, AnswerKeepsIInv
  <2>5. QED
    BY <2>2, <2>3, <2>4
<1>2. CASE ListRows(c)
  <2> DEFINE own == {Version(i, rows[i]) : i \in {j \in RecordIDs : Owned(c, j)}}
  <2>1. pc[c] = "read" /\ Respond(c, Give(own)) /\ UNCHANGED tableVars
    BY <1>2 DEF ListRows, At
  <2>2. \A i \in RecordIDs : Owned(c, i) => Version(i, rows[i]) \in Versions
    BY VersionTypes DEF IInv, TypeOK, Owned, Exists
  <2>3. Give(own) \in Answers
    BY <2>2, GiveTypes
  <2>4. \A v \in Give(own).versions : Owned(c, v.id) /\ v.row = rows[v.id] /\ v.id \in RecordIDs
    BY DEF Give, Version
  <2>5. QED
    BY <2>1, <2>3, <2>4, AnswerKeepsIInv
<1>3. CASE ReadForUpdate(c)
  <2>1. /\ pc[c] = "read" /\ request[c].op = "update" /\ request[c].id \in RecordIDs
        /\ UNCHANGED tableVars
    BY <1>3, RequestTypes DEF ReadForUpdate, At, IInv
  <2>2. CASE UpdateRefusal(c) = "ok"
    <3>1. Goto(c, "write") /\ (Exists(request[c].id) => rows[request[c].id].type = request[c].type)
      BY <1>3, <2>2 DEF ReadForUpdate, UpdateRefusal
    <3>2. QED
      BY <2>1, <3>1, GotoKeepsIInv
  <2>3. CASE UpdateRefusal(c) # "ok"
    <3>1. Respond(c, Refuse(UpdateRefusal(c))) /\ UpdateRefusal(c) \in Statuses
      BY <1>3, <2>3 DEF ReadForUpdate, UpdateRefusal, Statuses
    <3>2. QED
      BY <2>1, <3>1, RefuseTypes, AnswerKeepsIInv DEF Refuse
  <2>4. QED
    BY <2>2, <2>3
<1>4. CASE MissRow(c)
  <2>1. pc[c] = "write" /\ request[c].op \in {"update", "delete"}
        /\ Goto(c, "exists") /\ UNCHANGED tableVars
    BY <1>4 DEF MissRow, At
  <2>2. QED
    BY <2>1, GotoKeepsIInv
<1>5. CASE CheckExists(c)
  <2>1. /\ pc[c] = "exists" /\ UNCHANGED tableVars
        /\ \E status \in Statuses : Respond(c, Refuse(status))
    BY <1>5 DEF CheckExists, Statuses
  <2>2. QED
    BY <2>1, RefuseTypes, AnswerKeepsIInv DEF Refuse
<1>6. CASE StatementFails(c)
  <2>1. pc[c] \in {"read", "write", "exists"} /\ Respond(c, Refuse("failed")) /\ UNCHANGED tableVars
    BY <1>6 DEF StatementFails
  <2>2. QED
    BY <2>1, RefuseTypes, AnswerKeepsIInv DEF Refuse, Statuses
<1>7. QED
  BY <1>1, <1>2, <1>3, <1>4, <1>5, <1>6, InsertKeepsIInv, UpdateKeepsIInv, DeleteKeepsIInv
  DEF Handle

-----------------------------------------------------------------------------
LEMMA InitIInv == Init => IInv
<1> SUFFICES ASSUME Init PROVE IInv
  OBVIOUS
<1>1. TypeOK
  BY DEF Init, TableInit, TypeOK, Steps
<1>2. \A c \in Clients : CopiesOf(c) = {}
  BY DEF Init, CopiesOf
<1>3. \A i \in RecordIDs : ~ Exists(i)
  BY DEF Init, TableInit, Exists
<1>4. \A c \in Clients : pc[c] = "idle"
  BY DEF Init
<1>5. RowsStored /\ RowsDecrypt
  BY <1>3 DEF RowsStored, RowsDecrypt
<1>6. HandlersFit /\ FreshIDs /\ TypeChecked
  BY <1>4 DEF HandlersFit, FreshIDs, TypeChecked
<1>7. OwnRecordsOnly /\ CopiesNotAhead /\ CopiesAgree
  BY <1>2 DEF OwnRecordsOnly, CopiesNotAhead, CopiesAgree
<1>8. QED
  BY <1>1, <1>5, <1>6, <1>7 DEF IInv

LEMMA NextKeepsIInv == IInv /\ [Next]_vars => IInv'
<1> SUFFICES ASSUME IInv, [Next]_vars PROVE IInv'
  OBVIOUS
<1>1. ASSUME NEW c \in Clients, Call(c) \/ Handle(c) \/ Deliver(c) \/ Lose(c)
      PROVE  IInv'
  BY <1>1, CallKeepsIInv, HandleKeepsIInv, FinishKeepsIInv
<1>2. CASE UNCHANGED vars
  <2>1. \A c \in Clients : CopiesOf(c)' = CopiesOf(c)
    BY <1>2 DEF vars, CopiesOf
  <2>2. TypeOK' /\ RowsStored' /\ HandlersFit' /\ FreshIDs'
    BY <1>2 DEF IInv, vars, TypeOK, RowsStored, HandlersFit, FreshIDs, Exists
  <2>3. TypeChecked' /\ RowsDecrypt'
    BY <1>2 DEF IInv, vars, TypeChecked, RowsDecrypt, Decryptable, Exists
  <2>4. OwnRecordsOnly' /\ CopiesNotAhead' /\ CopiesAgree'
    BY <1>2, <2>1 DEF IInv, vars, OwnRecordsOnly, CopiesNotAhead, CopiesAgree, Exists
  <2>5. QED
    BY <2>2, <2>3, <2>4 DEF IInv
<1>3. QED
  BY <1>1, <1>2 DEF Next

\* The inductive invariant holds in every reachable state.
THEOREM InductiveInvariant == Spec => []IInv
BY InitIInv, NextKeepsIInv, PTL DEF Spec

(***************************************************************************)
(* Every variable keeps its type, revisions stay within the range of the   *)
(* column, and a request or an answer exists exactly while one is due.     *)
(***************************************************************************)
THEOREM TypeCorrect == Spec => []TypeOK
<1>1. IInv => TypeOK
  BY DEF IInv
<1>2. QED
  BY <1>1, InductiveInvariant, PTL

(***************************************************************************)
(* Handlers of the Server never leave a row behind that its own columns    *)
(* cannot decrypt, however updates interleave.                             *)
(***************************************************************************)
THEOREM RowsAlwaysDecrypt == Spec => []RowsDecrypt
<1>1. IInv => RowsDecrypt
  BY DEF IInv
<1>2. QED
  BY <1>1, InductiveInvariant, PTL

\* No answer shows a client a record of another user.
THEOREM OnlyOwnRecords == Spec => []OwnRecordsOnly
<1>1. IInv => OwnRecordsOnly
  BY DEF IInv
<1>2. QED
  BY <1>1, InductiveInvariant, PTL

\* Under IInv a revision names one version among the copies and the rows.
LEMMA IInvNamesVersion == IInv => RevisionNamesVersion
<1> DEFINE Current == {Version(i, rows[i]) : i \in {j \in RecordIDs : Exists(j)}}
<1> SUFFICES ASSUME IInv, NEW v \in Copies \cup Current, NEW w \in Copies \cup Current,
                    v.id = w.id, v.row.revision = w.row.revision
             PROVE  v = w
  BY DEF RevisionNamesVersion
<1>1. \A x \in Copies : x \in Versions
  BY DEF IInv, TypeOK, Copies, CopiesOf, Answers
<1>2. \A x \in Current : x.id \in RecordIDs /\ Exists(x.id) /\ x.row = rows[x.id] /\ x.row \in Rows
  BY DEF IInv, TypeOK, Version, Exists
<1>3. \A x \in Current : x = Version(x.id, rows[x.id])
  BY DEF Version
<1>4. \A x \in Copies : Exists(x.id) => x.row = rows[x.id] \/ x.row.revision < rows[x.id].revision
  BY DEF IInv, CopiesNotAhead, Copies
<1>5. \A x \in Copies : x = Version(x.id, x.row) /\ x.row.revision \in Nat
  BY <1>1 DEF Versions, Version, Rows, Revisions
<1>6. CASE v \in Copies /\ w \in Copies
  BY <1>6 DEF IInv, CopiesAgree, Copies
<1>7. CASE v \in Current /\ w \in Current
  BY <1>3, <1>7
<1>8. CASE v \in Current /\ w \in Copies
  BY <1>2, <1>3, <1>4, <1>5, <1>8 DEF Rows, Revisions
<1>9. CASE v \in Copies /\ w \in Current
  BY <1>2, <1>3, <1>4, <1>5, <1>9 DEF Rows, Revisions
<1>10. QED
  BY <1>6, <1>7, <1>8, <1>9

(***************************************************************************)
(* Two clients that hold the same revision of a record hold the same       *)
(* content, which is what makes a comparison of revisions enough.          *)
(***************************************************************************)
THEOREM RevisionsNameVersions == Spec => []RevisionNamesVersion
BY IInvNamesVersion, InductiveInvariant, PTL

(***************************************************************************)
(* A write that succeeds replaces the version its client was shown.        *)
(***************************************************************************)
THEOREM NoUpdateIsLost == Spec => NoLostUpdate
<1> DEFINE Based(c) ==
      /\ pc[c] = "write" /\ pc'[c] = "answer" /\ answer'[c].status = "ok"
      /\ request[c].op \in {"update", "delete"}
      /\ BasedOnOpened(c)
      => rows[request[c].id] = opened[c].row
<1>1. ASSUME IInv, NEW c \in Clients, pc[c] = "write", pc'[c] = "answer", answer'[c].status = "ok",
             request[c].op \in {"update", "delete"}, BasedOnOpened(c), Next
      PROVE  rows[request[c].id] = opened[c].row
  <2>1. Matches(c)
    <3>1. PICK d \in Clients : Call(d) \/ Handle(d) \/ Deliver(d) \/ Lose(d)
      BY <1>1 DEF Next
    <3>2. d = c
      BY <1>1, <3>1 DEF IInv, TypeOK, Call, CallList, CallGet, CallCreate, CallDelete, CallUpdate,
         Send, Handle, ReadRow, ListRows, ReadForUpdate, InsertRow, UpdateRow, DeleteRow, MissRow,
         CheckExists, StatementFails, Respond, Goto, Deliver, Lose, Finish
    <3>3. Handle(c)
      BY <1>1, <3>1, <3>2 DEF Call, CallList, CallGet, CallCreate, CallDelete, CallUpdate,
         Send, Deliver, Lose, Finish
    <3>4. ~ StatementFails(c)
      BY <1>1 DEF IInv, TypeOK, StatementFails, Respond, Refuse
    <3>5. UpdateRow(c) \/ DeleteRow(c) \/ MissRow(c)
      BY <1>1, <3>3, <3>4 DEF Handle, ReadRow, ListRows, ReadForUpdate, InsertRow, CheckExists, At
    <3>6. ~ MissRow(c)
      BY <1>1 DEF IInv, TypeOK, MissRow, Goto
    <3>7. QED
      BY <3>5, <3>6 DEF UpdateRow, DeleteRow
  <2> DEFINE i == request[c].id
  <2>2. /\ opened[c] \in CopiesOf(c) /\ opened[c].id = i
        /\ opened[c].row.revision = request[c].expected /\ opened[c] \in Versions
    BY <1>1 DEF BasedOnOpened, CopiesOf, IInv, TypeOK
  <2>3. Exists(i) /\ rows[i].revision = request[c].expected
    BY <2>1 DEF Matches, Owned
  <2>4. opened[c].row = rows[i] \/ opened[c].row.revision < rows[i].revision
    BY <1>1, <2>2, <2>3 DEF IInv, CopiesNotAhead
  <2>5. QED
    BY <2>2, <2>3, <2>4 DEF Versions, Rows, Revisions
<1>2. IInv /\ [Next]_vars => [\A c \in Clients : Based(c)]_vars
  BY <1>1
<1>3. QED
  BY <1>2, InductiveInvariant, PTL DEF Spec, NoLostUpdate

-----------------------------------------------------------------------------
(***************************************************************************)
(* RecordService implements VersionedRecords: a statement that changes the *)
(* table is one of its three changes, every other step leaves it alone.    *)
(***************************************************************************)
LEMMA HandlersRefine ==
  ASSUME IInv, NEW c \in Clients, Handle(c)
  PROVE  [TableNext]_tableVars
<1> DEFINE i == request[c].id
<1>1. CASE InsertRow(c)
  <2>1. /\ pc[c] = "write" /\ request[c].op = "create"
    BY <1>1 DEF InsertRow, At
  <2>2. i \in RecordIDs /\ request[c].type \in Types /\ request[c].data \in Data /\ i \notin stored
    BY <2>1, RequestTypes DEF IInv, HandlersFit
  <2>3. Create(UserOf[c], i, request[c].type, request[c].data)
    BY <1>1, <2>2 DEF InsertRow, Create
  <2>4. QED
    BY <2>2, <2>3, UserOfAssumption DEF TableNext
<1>2. CASE UpdateRow(c)
  <2>1. At(c, "write", "update") /\ Matches(c) /\ stored' = stored
    BY <1>2 DEF UpdateRow
  <2>2. CASE rows[i].revision = MaxRevision
    BY <1>2, <2>2 DEF UpdateRow, tableVars
  <2>3. CASE rows[i].revision # MaxRevision
    <3>1. /\ i \in RecordIDs /\ Exists(i) /\ Updated(c).type = rows[i].type
          /\ Updated(c).seal = Seal(UserOf[c], i, Updated(c).type)
      BY <2>1, <2>3, UpdatedRow
    <3>2. rows[i] \in Rows /\ rows[i].owner = UserOf[c] /\ Decryptable(i)
      BY <2>1, <3>1 DEF IInv, TypeOK, RowsDecrypt, Exists, Matches, Owned
    <3>3. rows[i].revision < MaxRevision
      BY <2>3, <3>2, MaxRevisionAssumption DEF Rows, Revisions
    <3>4. rows[i].seal = Seal(UserOf[c], i, request[c].type)
      BY <2>1, <3>1, <3>2 DEF IInv, TypeChecked, At, Decryptable
    <3>5. Updated(c) = [rows[i] EXCEPT !.revision = @ + 1, !.data = request[c].data]
      BY <3>2, <3>4 DEF Updated, Rows
    <3>6. rows' = [rows EXCEPT ![i] = Updated(c)]
      BY <1>2, <2>3 DEF UpdateRow
    <3>7. request[c].data \in Data
      BY <2>1, RequestTypes DEF At, IInv
    <3>8. Replace(i, request[c].data)
      BY <2>1, <3>1, <3>3, <3>5, <3>6 DEF Replace
    <3>9. QED
      BY <3>1, <3>7, <3>8 DEF TableNext
  <2>4. QED
    BY <2>2, <2>3
<1>3. CASE DeleteRow(c)
  <2>1. pc[c] = "write" /\ request[c].op = "delete" /\ Matches(c)
    BY <1>3 DEF DeleteRow, At
  <2>2. i \in RecordIDs
    BY <2>1, RequestTypes DEF IInv
  <2>3. Remove(i)
    BY <1>3, <2>1 DEF DeleteRow, Remove, Matches, Owned
  <2>4. QED
    BY <2>2, <2>3 DEF TableNext
<1>4. CASE ~ (InsertRow(c) \/ UpdateRow(c) \/ DeleteRow(c))
  <2>1. UNCHANGED tableVars
    BY <1>4 DEF Handle, ReadRow, ListRows, ReadForUpdate, MissRow, CheckExists, StatementFails
  <2>2. QED
    BY <2>1
<1>5. QED
  BY <1>1, <1>2, <1>3, <1>4

LEMMA NextRefines ==
  ASSUME IInv, [Next]_vars
  PROVE  [TableNext]_tableVars
<1>1. ASSUME NEW c \in Clients, Call(c) \/ Deliver(c) \/ Lose(c)
      PROVE  UNCHANGED tableVars
  BY <1>1 DEF Call, CallList, CallGet, CallCreate, CallDelete, CallUpdate, Send,
     Deliver, Lose, Finish, tableVars
<1>2. CASE UNCHANGED vars
  BY <1>2 DEF vars, tableVars
<1>3. QED
  BY <1>1, <1>2, HandlersRefine DEF Next

(***************************************************************************)
(* The handlers, cut at their SQL statements and interleaved in any way,   *)
(* implement the table of VersionedRecords: the statement that takes       *)
(* effect is its atomic change, every other step changes nothing of it.    *)
(***************************************************************************)
THEOREM TableImplemented == Spec => ImplementsTable
<1>1. Init => TableInit
  BY DEF Init
<1>2. IInv /\ [Next]_vars => [TableNext]_tableVars
  BY NextRefines
<1>3. QED
  BY <1>1, <1>2, InductiveInvariant, PTL DEF Spec, ImplementsTable, TableSpec

-----------------------------------------------------------------------------
(***************************************************************************)
(* Refusals.  What a handler found out with one statement has to hold      *)
(* until the answer arrives, so the argument is about what no step can     *)
(* undo: NextRefines has shown that every step changes the table in one of *)
(* the three ways of VersionedRecords.                                     *)
(***************************************************************************)
LEMMA RowsGrow ==
  ASSUME IInv, [TableNext]_tableVars, NEW i \in RecordIDs, i \in stored
  PROVE  /\ rows[i] = NoRow => rows'[i] = NoRow
         /\ rows[i] # NoRow /\ rows'[i] # NoRow =>
              /\ rows'[i].owner = rows[i].owner /\ rows'[i].type = rows[i].type
              /\ rows'[i] = rows[i] \/ rows'[i].revision = rows[i].revision + 1
<1>1. CASE UNCHANGED tableVars
  BY <1>1 DEF tableVars, Exists
<1>2. ASSUME NEW j \in RecordIDs, NEW u \in Users, NEW t \in Types, NEW d \in Data,
             Create(u, j, t, d)
      PROVE  rows'[i] = rows[i]
  BY <1>2 DEF Create, IInv, TypeOK
<1>3. ASSUME NEW j \in RecordIDs, NEW d \in Data, Replace(j, d)
      PROVE  \/ rows'[i] = rows[i]
             \/ /\ Exists(i) /\ rows'[i].revision = rows[i].revision + 1
                /\ rows'[i].owner = rows[i].owner /\ rows'[i].type = rows[i].type
  BY <1>3 DEF Replace, IInv, TypeOK, Exists, Rows
<1>4. ASSUME NEW j \in RecordIDs, Remove(j)
      PROVE  rows'[i] = rows[i] \/ ~ Exists(i)'
  BY <1>4 DEF Remove, IInv, TypeOK, Exists
<1>5. QED
  BY <1>1, <1>2, <1>3, <1>4 DEF TableNext, Exists

\* A write that missed, missed because the version it named is not the current one.
MissesHold ==
  \A c \in Clients : pc[c] = "exists" /\ BasedOnOpened(c) => rows[request[c].id] # opened[c].row

\* Only requests that name a record of the table are refused for its sake.
RefusalsFit ==
  \A c \in Clients :
    pc[c] = "answer" /\ answer[c].status \in {"not_found", "conflict", "wrong_type"} =>
      request[c].op \in {"get", "update", "delete"}

RefusalInv == RefusalsHold /\ RefusalsFit /\ MissesHold

\* A version that is not the current one never becomes current again.
LEMMA OpenedStaysOld ==
  ASSUME IInv, [TableNext]_tableVars, NEW c \in Clients, pc[c] # "idle", BasedOnOpened(c),
         rows[request[c].id] # opened[c].row
  PROVE  rows'[request[c].id] # opened[c].row
<1> DEFINE i == request[c].id
<1>1. opened[c] \in CopiesOf(c) /\ opened[c] \in Versions /\ opened[c].id = i
  BY DEF BasedOnOpened, CopiesOf, IInv, TypeOK
<1>2. i \in RecordIDs /\ i \in stored
  BY <1>1 DEF IInv, CopiesNotAhead, Versions
<1>3. opened[c].row \in Rows /\ opened[c].row # NoRow
  BY <1>1, NoRowAssumption DEF Versions
<1>4. CASE rows'[i] = NoRow
  BY <1>3, <1>4
<1>5. CASE rows'[i] # NoRow
  <2>1. Exists(i) /\ (rows'[i] = rows[i] \/ rows'[i].revision = rows[i].revision + 1)
    BY <1>2, <1>5, RowsGrow DEF Exists
  <2>2. opened[c].row.revision < rows[i].revision
    BY <1>1, <2>1 DEF IInv, CopiesNotAhead
  <2>3. rows[i].revision \in Nat /\ opened[c].row.revision \in Nat
    BY <1>2, <1>3, <2>1 DEF IInv, TypeOK, Exists, Rows, Revisions
  <2>4. QED
    BY <2>1, <2>2, <2>3
<1>6. QED
  BY <1>4, <1>5

\* A client whose handler does not move keeps its refusal.
LEMMA RefusalsKeep ==
  ASSUME IInv, RefusalInv, [TableNext]_tableVars, NEW c \in Clients,
         pc[c] \in {"exists", "answer"}, pc'[c] = pc[c], request'[c] = request[c],
         answer'[c] = answer[c], opened'[c] = opened[c]
  PROVE  /\ pc[c] = "exists" /\ BasedOnOpened(c)' => rows'[request[c].id] # opened[c].row
         /\ pc[c] = "answer" =>
              /\ answer[c].status = "not_found" => ~ Owned(c, request[c].id)'
              /\ answer[c].status = "conflict" =>
                   (BasedOnOpened(c)' => rows'[request[c].id] # opened[c].row)
              /\ answer[c].status = "wrong_type" =>
                   (Exists(request[c].id)' => rows'[request[c].id].type # request[c].type)
<1> DEFINE i == request[c].id
<1>1. BasedOnOpened(c)' <=> BasedOnOpened(c)
  BY DEF BasedOnOpened
<1>2. CASE pc[c] = "exists"
  BY <1>1, <1>2, OpenedStaysOld DEF RefusalInv, MissesHold
<1>3. CASE pc[c] = "answer" /\ answer[c].status = "conflict"
  BY <1>1, <1>3, OpenedStaysOld DEF RefusalInv, RefusalsHold
<1>4. CASE pc[c] = "answer" /\ answer[c].status = "not_found"
  <2>1. ~ Owned(c, i)
    BY <1>4 DEF RefusalInv, RefusalsHold
  <2>2. i \in RecordIDs /\ i \in stored
    BY <1>4, RequestTypes DEF IInv, HandlersFit, RefusalInv, RefusalsFit
  <2>3. QED
    BY <1>4, <2>1, <2>2, RowsGrow DEF Owned, Exists
<1>5. CASE pc[c] = "answer" /\ answer[c].status = "wrong_type"
  <2>1. Exists(i) => rows[i].type # request[c].type
    BY <1>5 DEF RefusalInv, RefusalsHold
  <2>2. i \in RecordIDs /\ i \in stored
    BY <1>5, RequestTypes DEF IInv, HandlersFit, RefusalInv, RefusalsFit
  <2>3. QED
    BY <1>5, <2>1, <2>2, RowsGrow DEF Exists
<1>6. QED
  BY <1>2, <1>3, <1>4, <1>5

\* What holds of client c's refusal and of its missed write; RefusalInv for one client.
RefusalOf(c) ==
  /\ pc[c] = "exists" /\ BasedOnOpened(c) => rows[request[c].id] # opened[c].row
  /\ pc[c] = "answer" =>
       /\ answer[c].status = "not_found" => ~ Owned(c, request[c].id)
       /\ answer[c].status = "conflict" =>
            (BasedOnOpened(c) => rows[request[c].id] # opened[c].row)
       /\ answer[c].status = "wrong_type" =>
            (Exists(request[c].id) => rows[request[c].id].type # request[c].type)
       /\ answer[c].status \in {"not_found", "conflict", "wrong_type"} =>
            request[c].op \in {"get", "update", "delete"}

LEMMA RefusalInvSplit ==
  ASSUME \A c \in Clients : RefusalOf(c)'
  PROVE  RefusalInv'
BY DEF RefusalInv, RefusalsHold, RefusalsFit, MissesHold, RefusalOf

\* The statement that refuses sees, in the same instant, why.
LEMMA HandlerRefuses ==
  ASSUME IInv, RefusalInv, NEW c \in Clients, Handle(c)
  PROVE  RefusalOf(c)'
<1> DEFINE i == request[c].id
<1>1. /\ pc \in [Clients -> Steps] /\ answer \in [Clients -> Answers \cup {None}]
      /\ pc[c] # "idle" => request[c] \in Requests
  BY RequestTypes DEF IInv, TypeOK
<1>2. CASE \E versions : Respond(c, Give(versions))
  BY <1>1, <1>2 DEF Respond, Give, RefusalOf
<1>3. CASE Respond(c, Refuse("failed")) \/ Respond(c, Refuse("undecryptable"))
  BY <1>1, <1>3 DEF Respond, Refuse, RefusalOf
<1>4. ASSUME UNCHANGED tableVars, Respond(c, Refuse("not_found")), ~ Owned(c, i),
             request[c].op \in {"get", "update", "delete"}
      PROVE  RefusalOf(c)'
  BY <1>1, <1>4 DEF Respond, Refuse, RefusalOf, Owned, Exists, tableVars
<1>5. ASSUME UNCHANGED tableVars, Respond(c, Refuse("conflict")),
             request[c].op \in {"get", "update", "delete"},
             BasedOnOpened(c) => rows[i] # opened[c].row
      PROVE  RefusalOf(c)'
  BY <1>1, <1>5 DEF Respond, Refuse, RefusalOf, BasedOnOpened, tableVars
<1>6. ASSUME UNCHANGED tableVars, Respond(c, Refuse("wrong_type")),
             request[c].op = "update", rows[i].type # request[c].type
      PROVE  RefusalOf(c)'
  BY <1>1, <1>6 DEF Respond, Refuse, RefusalOf, tableVars
<1>7. CASE ReadRow(c)
  BY <1>2, <1>3, <1>4, <1>7 DEF ReadRow, At
<1>8. CASE ListRows(c)
  BY <1>2, <1>8 DEF ListRows
<1>9. CASE ReadForUpdate(c)
  <2>1. At(c, "read", "update") /\ UNCHANGED tableVars
    BY <1>9 DEF ReadForUpdate
  <2>2. CASE UpdateRefusal(c) = "ok"
    BY <1>1, <1>9, <2>1, <2>2 DEF ReadForUpdate, Goto, RefusalOf
  <2>3. CASE UpdateRefusal(c) # "ok"
    <3>1. Respond(c, Refuse(UpdateRefusal(c)))
      BY <1>9, <2>3 DEF ReadForUpdate
    <3>2. CASE ~ Owned(c, i)
      BY <1>4, <2>1, <3>1, <3>2 DEF UpdateRefusal, At
    <3>3. CASE Owned(c, i) /\ rows[i].type # request[c].type
      BY <1>6, <2>1, <3>1, <3>3 DEF UpdateRefusal, At
    <3>4. CASE Owned(c, i) /\ rows[i].type = request[c].type
      <4>1. rows[i].revision # request[c].expected /\ Respond(c, Refuse("conflict"))
        BY <2>3, <3>1, <3>4 DEF UpdateRefusal
      <4>2. QED
        BY <1>5, <2>1, <4>1 DEF BasedOnOpened, At
    <3>5. QED
      BY <3>2, <3>3, <3>4
  <2>4. QED
    BY <2>2, <2>3
<1>10. CASE InsertRow(c)
  BY <1>2, <1>10 DEF InsertRow
<1>11. CASE UpdateRow(c)
  BY <1>2, <1>3, <1>11 DEF UpdateRow, UpdateAnswer
<1>12. CASE DeleteRow(c)
  BY <1>2, <1>12 DEF DeleteRow
<1>13. CASE MissRow(c)
  <2>1. /\ pc' = [pc EXCEPT ![c] = "exists"] /\ UNCHANGED <<request, answer, opened, rows>>
        /\ ~ Matches(c)
    BY <1>13 DEF MissRow, Goto, tableVars
  <2>2. BasedOnOpened(c) => rows[i] # opened[c].row
    <3>1. SUFFICES ASSUME BasedOnOpened(c), rows[i] = opened[c].row PROVE FALSE
      OBVIOUS
    <3>2. opened[c] \in CopiesOf(c) /\ opened[c].row \in Rows
      BY <3>1 DEF BasedOnOpened, CopiesOf, IInv, TypeOK, Versions
    <3>3. rows[i].owner = UserOf[c] /\ Exists(i)
      BY <3>1, <3>2, NoRowAssumption DEF IInv, OwnRecordsOnly, Exists
    <3>4. QED
      BY <2>1, <3>1, <3>3 DEF Matches, Owned, BasedOnOpened
  <2>3. QED
    BY <1>1, <2>1, <2>2 DEF RefusalOf, BasedOnOpened
<1>14. CASE CheckExists(c)
  <2>1. pc[c] = "exists" /\ UNCHANGED tableVars /\ request[c].op \in {"get", "update", "delete"}
    BY <1>14 DEF CheckExists, IInv, HandlersFit
  <2>2. BasedOnOpened(c) => rows[i] # opened[c].row
    BY <2>1 DEF RefusalInv, MissesHold
  <2>3. CASE Owned(c, i)
    BY <1>5, <1>14, <2>1, <2>2, <2>3 DEF CheckExists
  <2>4. CASE ~ Owned(c, i)
    BY <1>4, <1>14, <2>1, <2>4 DEF CheckExists
  <2>5. QED
    BY <2>3, <2>4
<1>15. CASE StatementFails(c)
  BY <1>3, <1>15 DEF StatementFails
<1>16. QED
  BY <1>7, <1>8, <1>9, <1>10, <1>11, <1>12, <1>13, <1>14, <1>15 DEF Handle

\* Client d does nothing in a step of client c.
LEMMA OthersStay ==
  ASSUME IInv, NEW c \in Clients, NEW d \in Clients \ {c},
         Call(c) \/ Handle(c) \/ Deliver(c) \/ Lose(c)
  PROVE  /\ pc'[d] = pc[d] /\ request'[d] = request[d]
         /\ answer'[d] = answer[d] /\ opened'[d] = opened[d]
<1>1. CASE Call(c)
  BY <1>1 DEF IInv, TypeOK, Call, CallList, CallGet, CallCreate, CallDelete, CallUpdate, Send
<1>2. CASE Handle(c)
  BY <1>2 DEF IInv, TypeOK, Handle, ReadRow, ListRows, ReadForUpdate, InsertRow, UpdateRow,
     DeleteRow, MissRow, CheckExists, StatementFails, Respond, Goto
<1>3. CASE Deliver(c) \/ Lose(c)
  BY <1>3 DEF IInv, TypeOK, Deliver, Lose, Finish
<1>4. QED
  BY <1>1, <1>2, <1>3

LEMMA NextKeepsRefusals == IInv /\ RefusalInv /\ [Next]_vars => RefusalInv'
<1> SUFFICES ASSUME IInv, RefusalInv, [Next]_vars PROVE RefusalInv'
  OBVIOUS
<1>1. [TableNext]_tableVars
  BY NextRefines
<1>2. ASSUME NEW d \in Clients, pc'[d] = pc[d], request'[d] = request[d],
             answer'[d] = answer[d], opened'[d] = opened[d]
      PROVE  RefusalOf(d)'
  <2>1. CASE pc[d] \in {"exists", "answer"}
    BY <1>1, <1>2, <2>1, RefusalsKeep DEF RefusalOf, RefusalInv, RefusalsFit, BasedOnOpened
  <2>2. CASE pc[d] \notin {"exists", "answer"}
    BY <1>2, <2>2 DEF RefusalOf
  <2>3. QED
    BY <2>1, <2>2
<1>3. CASE UNCHANGED vars
  BY <1>2, <1>3, RefusalInvSplit DEF vars
<1>4. ASSUME NEW c \in Clients, Call(c) \/ Handle(c) \/ Deliver(c) \/ Lose(c)
      PROVE  \A d \in Clients : RefusalOf(d)'
  <2>1. ASSUME NEW d \in Clients \ {c}
        PROVE  RefusalOf(d)'
    BY <1>2, <1>4, OthersStay
  <2>2. RefusalOf(c)'
    <3>1. CASE Handle(c)
      BY <3>1, HandlerRefuses
    <3>2. CASE ~ Handle(c)
      <4>1. pc'[c] \notin {"exists", "answer"}
        BY <1>4, <3>2 DEF IInv, TypeOK, Call, CallList, CallGet, CallCreate, CallDelete,
           CallUpdate, Send, Deliver, Lose, Finish
      <4>2. QED
        BY <4>1 DEF RefusalOf
    <3>3. QED
      BY <3>1, <3>2
  <2>3. QED
    BY <2>1, <2>2
<1>5. QED
  BY <1>3, <1>4, RefusalInvSplit DEF Next

(***************************************************************************)
(* "Not found", "conflict" and "wrong type" are true when they arrive, for *)
(* any number of requests that ran since the statement which found out.    *)
(***************************************************************************)
THEOREM RefusalsAreTrue == Spec => []RefusalsHold
<1>1. Init => RefusalInv
  BY DEF Init, RefusalInv, RefusalsHold, RefusalsFit, MissesHold
<1>2. RefusalInv => RefusalsHold
  BY DEF RefusalInv
<1>3. QED
  BY <1>1, <1>2, NextKeepsRefusals, InductiveInvariant, PTL DEF Spec

-----------------------------------------------------------------------------
(***************************************************************************)
(* Part two: the Server process.                                           *)
(*                                                                         *)
(* The inductive invariant.  The error is settled transport by transport,  *)
(* when its result is received, and a transport only comes to a graceful   *)
(* end without requests: what the error says of it is then final.          *)
(***************************************************************************)
\* run goes on only after every result.
AllCollected == process # "up" => collected = Names

\* A transport stops gracefully only when it is told to.
StopsAreAskedFor == \A t \in Names : transport[t] \in {"stopping", "stopped"} => Cancelled

\* What was received of a transport is what became of it.
ReportsMatch == \A t \in collected : t \in failed <=> transport[t] = "failed"

\* No request is open at a transport that has stopped gracefully.
StoppedIsDrained ==
  \A r \in Exchanges :
    transport[Via[r]] = "stopped" => exchange[r] \in {"unsent", "answered"}

\* Only a transport that failed cuts requests.
CutsAreFailures ==
  \A r \in Exchanges : exchange[r] = "cut" => transport[Via[r]] = "failed"

ProcessIInv ==
  /\ ProcessTypeOK /\ AllCollected /\ StopsAreAskedFor
  /\ ReportsMatch /\ StoppedIsDrained /\ CutsAreFailures

-----------------------------------------------------------------------------
LEMMA ProcessStartsInIInv == ProcessInit => ProcessIInv
BY ViaAssumption
   DEF ProcessInit, ProcessIInv, ProcessTypeOK, AllCollected, StopsAreAskedFor, ReportsMatch,
       StoppedIsDrained, CutsAreFailures, TransportStates, ExchangeStates, ProcessStates, Returned

\* The goroutines of a transport up to its return.
LEMMA ServeKeepsIInv ==
  ASSUME ProcessIInv, NEW t \in Names, Serve(t)
  PROVE  ProcessIInv'
<1> USE ViaAssumption DEF ProcessIInv
<1>1. /\ transport[t] \in {"starting", "serving", "stopping"}
      /\ UNCHANGED <<signalled, broken, collected, failed, querying, process>>
      /\ \A u \in Names : u # t => transport'[u] = transport[u]
      /\ transport' \in [Names -> TransportStates]
  BY DEF Serve, Listen, ServeFails, BeginStop, FinishStop, StopTimesOut, Become, ProcessTypeOK,
         TransportStates
<1>2. t \notin collected
  BY <1>1 DEF ProcessTypeOK, Returned
<1>3. \/ exchange' = exchange
      \/ /\ transport'[t] = "failed"
         /\ exchange' = [r \in Exchanges |-> IF r \in Running(t) THEN "cut" ELSE exchange[r]]
  BY DEF Serve, Listen, ServeFails, BeginStop, FinishStop, StopTimesOut, Become, ProcessTypeOK
<1>4. \A r \in Exchanges :
        \/ exchange'[r] = exchange[r]
        \/ exchange[r] = "running" /\ exchange'[r] = "cut" /\ Via[r] = t
           /\ transport'[t] = "failed"
  BY <1>3 DEF Running, ProcessTypeOK
<1>5. ProcessTypeOK'
  <2>1. exchange' \in [Exchanges -> ExchangeStates]
    BY <1>3 DEF ProcessTypeOK, ExchangeStates
  <2>2. collected' \subseteq {u \in Names : Returned(u)'}
    BY <1>1, <1>2 DEF ProcessTypeOK, Returned
  <2>3. querying' \subseteq {r \in Exchanges : exchange'[r] \in {"running", "cut"}}
    BY <1>1, <1>4 DEF ProcessTypeOK
  <2>4. QED
    BY <1>1, <2>1, <2>2, <2>3 DEF ProcessTypeOK
<1>6. AllCollected' /\ ReportsMatch'
  <2>1. \A u \in collected : u \in Names /\ u # t
    BY <1>2 DEF ProcessTypeOK
  <2>2. QED
    BY <1>1, <2>1 DEF AllCollected, ReportsMatch
<1>7. StopsAreAskedFor'
  <2>1. transport'[t] \in {"stopping", "stopped"} => Cancelled
    BY DEF Serve, Listen, ServeFails, BeginStop, FinishStop, StopTimesOut, Become, ProcessTypeOK,
           StopsAreAskedFor
  <2>2. QED
    BY <1>1, <2>1 DEF StopsAreAskedFor, Cancelled
<1>8. StoppedIsDrained'
  <2>1. transport'[t] = "stopped" => transport[t] = "stopping" /\ Running(t) = {}
    BY <1>1 DEF Serve, Listen, ServeFails, BeginStop, FinishStop, StopTimesOut, Become,
                ProcessTypeOK
  <2>2. ASSUME NEW r \in Exchanges, transport'[Via[r]] = "stopped"
        PROVE  exchange'[r] \in {"unsent", "answered"}
    <3>1. Via[r] \in Names
      OBVIOUS
    <3>2. CASE Via[r] = t
      <4>1. exchange[r] # "running" /\ exchange'[r] = exchange[r]
        BY <1>4, <2>1, <2>2, <3>2 DEF Running
      <4>2. exchange[r] # "cut"
        BY <2>1, <2>2, <3>2 DEF CutsAreFailures
      <4>3. QED
        BY <4>1, <4>2 DEF ProcessTypeOK, ExchangeStates
    <3>3. CASE Via[r] # t
      BY <1>1, <1>4, <2>2, <3>1, <3>3 DEF StoppedIsDrained
    <3>4. QED
      BY <3>2, <3>3
  <2>3. QED
    BY <2>2 DEF StoppedIsDrained
<1>9. CutsAreFailures'
  BY <1>1, <1>4 DEF CutsAreFailures
<1>10. QED
  BY <1>5, <1>6, <1>7, <1>8, <1>9

\* ServeTransports and run.
LEMMA ProcessKeepsIInv ==
  ASSUME ProcessIInv, Signal \/ Return \/ Exit \/ \E t \in Names : Break(t) \/ Collect(t)
  PROVE  ProcessIInv'
<1> USE ViaAssumption DEF ProcessIInv
<1>1. CASE Signal
  BY <1>1 DEF Signal, ProcessTypeOK, AllCollected, StopsAreAskedFor, ReportsMatch, StoppedIsDrained,
              CutsAreFailures, Cancelled, Returned
<1>2. CASE Return
  BY <1>2 DEF Return, ProcessTypeOK, AllCollected, StopsAreAskedFor, ReportsMatch, StoppedIsDrained,
              CutsAreFailures, Cancelled, Returned, ProcessStates
<1>3. CASE Exit
  <2>1. ProcessTypeOK' /\ AllCollected' /\ StopsAreAskedFor' /\ ReportsMatch' /\ StoppedIsDrained'
    BY <1>3 DEF Exit, ProcessTypeOK, AllCollected, StopsAreAskedFor, ReportsMatch, StoppedIsDrained,
                Cancelled, Returned, ProcessStates, ExchangeStates
  <2>2. \A r \in Exchanges : transport[Via[r]] \in {"stopped", "failed"}
    BY <1>3 DEF Exit, AllCollected, ProcessTypeOK, Returned
  <2>3. CutsAreFailures'
    BY <1>3, <2>2 DEF Exit, CutsAreFailures, StoppedIsDrained, ProcessTypeOK
  <2>4. QED
    BY <2>1, <2>3
<1>4. ASSUME NEW t \in Names, Break(t)
      PROVE  ProcessIInv'
  BY <1>4 DEF Break, ProcessTypeOK, AllCollected, StopsAreAskedFor, ReportsMatch, StoppedIsDrained,
              CutsAreFailures, Cancelled, Returned
<1>5. ASSUME NEW t \in Names, Collect(t)
      PROVE  ProcessIInv'
  <2>1. failed' = IF transport[t] = "failed" THEN failed \cup {t} ELSE failed
    BY <1>5 DEF Collect, Returned, StopsAreAskedFor
  <2>2. t \notin failed
    BY <1>5 DEF Collect, ProcessTypeOK
  <2>3. ProcessTypeOK' /\ AllCollected'
    BY <1>5, <2>1 DEF Collect, ProcessTypeOK, AllCollected, Returned
  <2>4. ReportsMatch'
    BY <1>5, <2>1, <2>2 DEF Collect, ReportsMatch
  <2>5. StopsAreAskedFor' /\ StoppedIsDrained' /\ CutsAreFailures'
    BY <1>5, <2>1 DEF Collect, StopsAreAskedFor, Cancelled, StoppedIsDrained, CutsAreFailures
  <2>6. QED
    BY <2>3, <2>4, <2>5
<1>6. QED
  BY <1>1, <1>2, <1>3, <1>4, <1>5

\* A request from its arrival to its answer.
LEMMA ExchangeKeepsIInv ==
  ASSUME ProcessIInv, NEW r \in Exchanges, Accept(r) \/ Query(r) \/ Release(r) \/ Reply(r)
  PROVE  ProcessIInv'
<1> USE ViaAssumption DEF ProcessIInv
<1>1. /\ UNCHANGED <<signalled, transport, broken, collected, failed, process>>
      /\ \A q \in Exchanges :
           \/ exchange'[q] = exchange[q]
           \/ q = r /\ transport[Via[q]] = "serving" /\ exchange'[q] = "running"
           \/ q = r /\ exchange[q] = "running" /\ exchange'[q] = "answered" /\ q \notin querying
      /\ exchange' \in [Exchanges -> ExchangeStates]
  BY DEF Accept, Query, Release, Reply, ProcessTypeOK, ExchangeStates
<1>2. querying' \subseteq {q \in Exchanges : exchange'[q] \in {"running", "cut"}}
  BY DEF Accept, Query, Release, Reply, ProcessTypeOK
<1>3. ProcessTypeOK'
  BY <1>1, <1>2 DEF ProcessTypeOK, Returned
<1>4. AllCollected' /\ StopsAreAskedFor' /\ ReportsMatch'
  BY <1>1 DEF AllCollected, StopsAreAskedFor, Cancelled, ReportsMatch
<1>5. StoppedIsDrained' /\ CutsAreFailures'
  BY <1>1 DEF StoppedIsDrained, CutsAreFailures
<1>6. QED
  BY <1>3, <1>4, <1>5

LEMMA StepKeepsProcessIInv == ProcessIInv /\ [ProcessNext]_processVars => ProcessIInv'
<1> SUFFICES ASSUME ProcessIInv, [ProcessNext]_processVars PROVE ProcessIInv'
  OBVIOUS
<1>1. CASE UNCHANGED processVars
  BY <1>1 DEF processVars, ProcessIInv, ProcessTypeOK, AllCollected, StopsAreAskedFor, ReportsMatch,
              StoppedIsDrained, CutsAreFailures, Cancelled, Returned
<1>2. CASE ProcessNext
  BY <1>2, ServeKeepsIInv, ProcessKeepsIInv, ExchangeKeepsIInv DEF ProcessNext
<1>3. QED
  BY <1>1, <1>2

-----------------------------------------------------------------------------
\* The inductive invariant holds in every reachable state.
THEOREM ProcessInvariant == ProcessSpec => []ProcessIInv
BY ProcessStartsInIInv, StepKeepsProcessIInv, PTL DEF ProcessSpec

(***************************************************************************)
(* Results are received only of transports that returned, the error names  *)
(* only those, and a connection is held only for a request that was        *)
(* accepted and not answered.                                              *)
(***************************************************************************)
THEOREM ProcessTypeCorrect == ProcessSpec => []ProcessTypeOK
<1>1. ProcessIInv => ProcessTypeOK
  BY DEF ProcessIInv
<1>2. QED
  BY <1>1, ProcessInvariant, PTL

(***************************************************************************)
(* When the pool is being closed, a transport that the error does not name *)
(* has answered every request it accepted.                                 *)
(***************************************************************************)
THEOREM HealthyDrain == ProcessSpec => []HealthyTransportsDrain
<1>1. ProcessIInv => HealthyTransportsDrain
  <2> SUFFICES ASSUME ProcessIInv, process # "up", NEW r \in Exchanges, Via[r] \notin failed
               PROVE  exchange[r] \in {"unsent", "answered"}
    BY DEF HealthyTransportsDrain
  <2>1. Via[r] \in collected
    BY ViaAssumption DEF ProcessIInv, AllCollected
  <2>2. transport[Via[r]] = "stopped"
    BY <2>1 DEF ProcessIInv, ProcessTypeOK, Returned, ReportsMatch
  <2>3. QED
    BY <2>2 DEF ProcessIInv, StoppedIsDrained
<1>2. QED
  BY <1>1, ProcessInvariant, PTL

(***************************************************************************)
(* The joined error of ServeTransports names exactly the transports that   *)
(* failed, in whatever order they returned.                                *)
(***************************************************************************)
THEOREM FailuresReported == ProcessSpec => []EveryFailureReported
<1>1. ProcessIInv => EveryFailureReported
  BY DEF ProcessIInv, EveryFailureReported, AllCollected, ReportsMatch, ProcessTypeOK
<1>2. QED
  BY <1>1, ProcessInvariant, PTL
=============================================================================
