------------------------------ MODULE Tui_proofs ------------------------------
(***************************************************************************)
(* Theorems about Tui, for any accounts, directories and number of         *)
(* operations of the user.                                                 *)
(***************************************************************************)
EXTENDS Tui, TLAPS

-----------------------------------------------------------------------------
(***************************************************************************)
(* The inductive invariant of the windows, of a model s and the kinds P    *)
(* whose requests are pending; while a result is applied, its kind still   *)
(* counts among them.                                                      *)
(***************************************************************************)
Pending(s) == {k \in Kinds : s.requests[k].pending}

UserFits(s) == Authenticated(s) <=> s.login # NoLogin

\* The keys are refused while such a request is pending, so there is only one.
OneBlocks(P) == \A k, l \in P \cap Blocking : k = l

NeedsSession == {"ListRecords", "ViewRecord", "LoadRecordForEdit", "CreateRecord",
                 "EditRecord", "DeleteRecord", "Logout"}

Private(s, dialog) == dialog = "recordType" \/ ShowsServerData(s, dialog)

\* A guest sees nothing private, and no result that is on its way brings it up:
\* the window of a record, which is emptied before it is left, stays in front.
GuestFits(s, P) ==
  ~ Authenticated(s) =>
    /\ ~ Private(s, s.dialog) /\ ~ Private(s, s.alert)
    /\ ~ (s.workspace.open /\ s.workspace.source = "server")
    /\ P \cap NeedsSession = {}
    /\ "ViewCachedRecord" \in P => s.dialog = "recordView" /\ s.alert = "off"
    /\ "BinarySave" \in P => /\ s.view.source = "cache" /\ s.dialog = "binarySave"
                             /\ s.alert = "off" /\ P = {"BinarySave"}

\* A check that nobody asked for runs with every window closed.
CheckFits(s, P) ==
  "CurrentUser" \in P /\ s.check # "manual" =>
    /\ s.dialog = "none" /\ s.alert = "off"
    /\ "Logout" \notin P /\ "BinarySave" \notin P
    /\ ~ (s.workspace.open /\ s.workspace.source = "server")

\* What is being loaded has its request.
LoadsFit(s, P) ==
  /\ s.workspace.state = "loading" => "ListRecords" \in P
  /\ "ListRecords" \in P => s.workspace.source = "server"
  /\ s.view.status = "loading" => "ViewRecord" \in P \/ "ViewCachedRecord" \in P
  /\ "ViewCachedRecord" \in P => s.workspace.source = "cache"
  /\ s.edit.status = "loading" <=> "LoadRecordForEdit" \in P

\* The forms of a record have their record, also below an alert.
FormsFit(s, P) ==
  /\ s.dialog = "recordEdit" => s.edit.status # "idle"
  /\ s.dialog = "pickEdit" \/ s.alert \in {"recordEdit", "pickEdit"} => s.edit.status = "ready"
  /\ "EditRecord" \in P => s.edit.status = "ready"
  /\ s.dialog = "recordDelete" \/ s.alert = "recordDelete" \/ "DeleteRecord" \in P => s.deletion

CacheFits(s, P) ==
  s.workspace.source = "cache" =>
    s.cache \in {s.workspace.login, NoLogin} /\ "OpenCache" \notin P

Fits(s, P) ==
  /\ UserFits(s) /\ OneBlocks(P) /\ GuestFits(s, P) /\ CheckFits(s, P)
  /\ LoadsFit(s, P) /\ FormsFit(s, P) /\ CacheFits(s, P)

-----------------------------------------------------------------------------
(***************************************************************************)
(* What a step does to the table: it cancels requests, begins at most one  *)
(* of them, and opens no session of the cache.                             *)
(***************************************************************************)
Keeps(s, r) ==
  /\ r.requests \in [Kinds -> Request]
  /\ \A k \in Kinds : r.requests[k] \in {s.requests[k], Cancel(s.requests[k])}
  /\ r.flight = s.flight
  /\ r.cache \in {s.cache, NoLogin}

Begins(s, r, kind, task) ==
  /\ r.requests \in [Kinds -> Request]
  /\ r.requests[kind] = Begin(s.requests[kind])
  /\ \A k \in Kinds \ {kind} : r.requests[k] \in {s.requests[k], Cancel(s.requests[k])}
  /\ task \in Tasks /\ task.kind = kind /\ task.id = r.requests[kind].id
  /\ task.stage = "run" /\ task.out = "none"
  /\ r.flight = s.flight \cup {task}
  /\ r.cache \in {s.cache, NoLogin}

Changes(s, r) == Keeps(s, r) \/ \E kind \in Kinds, task \in Tasks : Begins(s, r, kind, task)

\* What each step leads to from the model s.
Follows(s, r) ==
  r \in Models /\ r.dialog \in Dialogs /\ Fits(r, Pending(r)) /\ Changes(s, r)

\* A result of kind is accepted, and s is about to take it.
Takes(s, kind) ==
  /\ s \in Models /\ s.dialog \in Dialogs
  /\ kind \in Kinds \ Pending(s)
  /\ Fits(s, Pending(s) \cup {kind})

\* s has no window that waits, before the user's next step.
Calm(s) ==
  /\ s \in Models /\ s.dialog \in Dialogs
  /\ Pending(s) \cap Blocking = {}

\* The commands in flight.
TaskFits(s, t) ==
  /\ t.stage = "done" => t.out # "none"
  /\ t.kind = "ViewCachedRecord" => t.out # "notLoggedIn"
  /\ t.stage = "save" => t.user # NoLogin /\ t.kind \in {"Login", "Sync"}
  /\ t.kind \in {"Login", "CurrentUser"} /\ t.stage = "done" /\ t.out = "ok" => t.user # NoLogin
  /\ t.kind = "OpenCache" /\ t.stage = "done" /\ t.out = "ok" /\ Live(s, t) =>
       s.cache \in {t.user, NoLogin}

-----------------------------------------------------------------------------
(* The table *)

LEMMA CancelTyped ==
  ASSUME NEW r \in Request
  PROVE  /\ Cancel(r) \in Request /\ ~ Cancel(r).pending /\ Cancel(Cancel(r)) = Cancel(r)
         /\ Begin(r) \in Request /\ Begin(r).pending /\ Begin(Cancel(r)) = Begin(r)
         /\ Finish(r) \in Request /\ ~ Finish(r).pending
BY DEF Request, Cancel, Begin, Finish

LEMMA KeepsTwice ==
  ASSUME NEW s \in Models, NEW a, NEW r, Keeps(s, a), Keeps(a, r)
  PROVE  Keeps(s, r)
<1>1. \A k \in Kinds : Cancel(Cancel(s.requests[k])) = Cancel(s.requests[k])
  BY CancelTyped DEF Models
<1>2. QED
  BY <1>1 DEF Keeps

LEMMA KeepsTransitive ==
  ASSUME NEW s \in Models, NEW a, NEW r, Keeps(s, a), Changes(a, r)
  PROVE  Changes(s, r)
<1>1. \A k \in Kinds : /\ Cancel(Cancel(s.requests[k])) = Cancel(s.requests[k])
                       /\ Begin(Cancel(s.requests[k])) = Begin(s.requests[k])
  BY CancelTyped DEF Models
<1>2. ASSUME NEW kind \in Kinds, NEW task \in Tasks, Begins(a, r, kind, task)
      PROVE  Begins(s, r, kind, task)
  BY <1>1, <1>2 DEF Keeps, Begins
<1>3. QED
  BY <1>2, KeepsTwice DEF Changes

\* Keeps looks at three parts of the model only.
LEMMA CancelOpsKeeps ==
  ASSUME NEW s \in Models, NEW K
  PROVE  /\ CancelOps(s, K) \in Models
         /\ Keeps(s, CancelOps(s, K))
         /\ Pending(CancelOps(s, K)) = Pending(s) \ K
<1> DEFINE table == Cancelled(s.requests, K)
<1>1. s.requests \in [Kinds -> Request]
  BY DEF Models
<1>2. table \in [Kinds -> Request]
  BY <1>1, CancelTyped DEF Cancelled
<1>3. CancelOps(s, K) \in Models
  BY <1>2 DEF CancelOps, Models
<1>4. CancelOps(s, K).requests = table /\ CancelOps(s, K).flight = s.flight
      /\ CancelOps(s, K).cache = s.cache
  BY DEF CancelOps, Models
<1>5. \A k \in Kinds : table[k] = IF k \in K THEN Cancel(s.requests[k]) ELSE s.requests[k]
  BY DEF Cancelled
<1>6. Keeps(s, CancelOps(s, K))
  BY <1>2, <1>4, <1>5 DEF Keeps
<1>7. Pending(CancelOps(s, K)) = Pending(s) \ K
  BY <1>1, <1>4, <1>5, CancelTyped DEF Pending
<1>8. QED
  BY <1>3, <1>6, <1>7

LEMMA StartBegins ==
  ASSUME NEW s \in Models, NEW kind \in Kinds, NEW user \in Logins \cup {NoLogin}
  PROVE  /\ Start(s, kind, user) \in Models
         /\ Changes(s, Start(s, kind, user))
         /\ Pending(Start(s, kind, user)) = Pending(s) \cup {kind}
<1> DEFINE table == Begun(s.requests, kind)
           task == [kind |-> kind, id |-> table[kind].id, stage |-> "run",
                    user |-> user, dir |-> s.dir, out |-> "none"]
           flight == s.flight \cup {task}
           r == Start(s, kind, user)
<1>1. s.requests \in [Kinds -> Request] /\ s.flight \in SUBSET Tasks /\ s.dir \in Dirs
  BY DEF Models
<1>2. table \in [Kinds -> Request]
  BY <1>1, CancelTyped DEF Begun
<1>3. table[kind].id \in Nat
  BY <1>2 DEF Request
<1>4. task \in Tasks
  BY <1>1, <1>3 DEF Tasks
<1>5. flight \in SUBSET Tasks
  BY <1>1, <1>4
<1>6. r = [s EXCEPT !.requests = table, !.flight = flight]
  BY DEF Start
<1>7. /\ r \in Models /\ r.requests = table /\ r.flight = flight /\ r.cache = s.cache
  <2> HIDE DEF table, flight, r
  <2> QED
    BY <1>2, <1>5, <1>6 DEF Models
<1>8. \A k \in Kinds : table[k] = IF k = kind THEN Begin(s.requests[k]) ELSE s.requests[k]
  BY <1>1 DEF Begun
<1>9. Begins(s, r, kind, task)
  <2> task.kind = kind /\ task.id = table[kind].id /\ task.stage = "run" /\ task.out = "none"
    OBVIOUS
  <2> HIDE DEF table, task, r
  <2> QED
    BY <1>2, <1>4, <1>7, <1>8 DEF Begins
<1>10. Pending(r) = Pending(s) \cup {kind}
  <2> HIDE DEF table, task, r
  <2> QED
    BY <1>1, <1>7, <1>8, CancelTyped DEF Pending
<1>11. QED
  BY <1>4, <1>7, <1>9, <1>10 DEF Changes

LEMMA CancelOpsFields ==
  ASSUME NEW s \in Models, NEW K
  PROVE  LET r == CancelOps(s, K)
         IN /\ r.session = s.session /\ r.login = s.login /\ r.check = s.check
            /\ r.dialog = s.dialog /\ r.alert = s.alert /\ r.cache = s.cache
            /\ r.workspace = s.workspace /\ r.view = s.view /\ r.edit = s.edit
            /\ r.deletion = s.deletion /\ r.dir = s.dir
BY DEF CancelOps, Models

LEMMA StartFields ==
  ASSUME NEW s \in Models, NEW kind, NEW user
  PROVE  LET r == Start(s, kind, user)
         IN /\ r.session = s.session /\ r.login = s.login /\ r.check = s.check
            /\ r.dialog = s.dialog /\ r.alert = s.alert /\ r.cache = s.cache
            /\ r.workspace = s.workspace /\ r.view = s.view /\ r.edit = s.edit
            /\ r.deletion = s.deletion /\ r.dir = s.dir
BY DEF Start, Models

-----------------------------------------------------------------------------
(* The methods that several handlers call *)

\* A model that differs in none of the three parts that Keeps looks at.
LEMMA SameKeeps ==
  ASSUME NEW s \in Models, NEW r,
         r.requests = s.requests, r.flight = s.flight, r.cache = s.cache
  PROVE  Keeps(s, r) /\ Pending(r) = Pending(s)
BY DEF Models, Keeps, Pending

LEMMA CloseWorkspaceKeeps ==
  ASSUME NEW s \in Models
  PROVE  LET r == CloseWorkspace(s)
         IN /\ r \in Models /\ Keeps(s, r)
            /\ Pending(r) = Pending(s) \ {"ListRecords", "OpenCache", "ViewCachedRecord"}
            /\ r.workspace = Closed
            /\ r.session = s.session /\ r.login = s.login /\ r.check = s.check
            /\ r.dialog = s.dialog /\ r.alert = s.alert
            /\ r.view = s.view /\ r.edit = s.edit /\ r.deletion = s.deletion
<1> DEFINE c == CancelOps(s, {"ListRecords", "OpenCache", "ViewCachedRecord"})
           r == CloseWorkspace(s)
<1>1. /\ c \in Models /\ Keeps(s, c)
      /\ Pending(c) = Pending(s) \ {"ListRecords", "OpenCache", "ViewCachedRecord"}
  BY CancelOpsKeeps
<1>2. /\ c.session = s.session /\ c.login = s.login /\ c.check = s.check
      /\ c.dialog = s.dialog /\ c.alert = s.alert /\ c.cache = s.cache
      /\ c.view = s.view /\ c.edit = s.edit /\ c.deletion = s.deletion
  BY DEF CancelOps, Models
<1>3. r = [c EXCEPT !.cache = CacheWithoutWorkspace(s), !.workspace = Closed]
  BY DEF CloseWorkspace
<1>4. CacheWithoutWorkspace(s) \in {s.cache, NoLogin} /\ s.cache \in Logins \cup {NoLogin}
  BY DEF CacheWithoutWorkspace, Models
<1> HIDE DEF c, r
<1>5. /\ r \in Models /\ r.workspace = Closed
      /\ r.requests = c.requests /\ r.flight = c.flight
      /\ r.cache = CacheWithoutWorkspace(s)
      /\ r.session = c.session /\ r.login = c.login /\ r.check = c.check
      /\ r.dialog = c.dialog /\ r.alert = c.alert
      /\ r.view = c.view /\ r.edit = c.edit /\ r.deletion = c.deletion
  BY <1>1, <1>3, <1>4 DEF Models, Closed
<1>6. Keeps(s, r) /\ Pending(r) = Pending(c)
  BY <1>1, <1>4, <1>5 DEF Keeps, Pending
<1>7. QED
  BY <1>1, <1>2, <1>5, <1>6 DEF r

LEMMA ListRecordsFollows ==
  ASSUME NEW s, Calm(s), UserFits(s), Authenticated(s),
         FormsFit(s, {}),
         s.view.status # "loading", s.edit.status # "loading"
  PROVE  Follows(s, ListRecords(s))
<1> DEFINE c == IF s.workspace.source = "cache" THEN CloseWorkspace(s) ELSE s
           b == Start(c, "ListRecords", NoLogin)
           w == [source |-> "server", open |-> TRUE,
                 state |-> IF Selected(c, "server") THEN "ready" ELSE "loading",
                 login |-> NoLogin]
           r == ListRecords(s)
<1>0. s \in Models /\ s.dialog \in Dialogs /\ Pending(s) \cap Blocking = {}
  BY DEF Calm
<1>1. /\ c \in Models /\ Keeps(s, c) /\ Pending(c) \cap Blocking = {}
      /\ c.session = s.session /\ c.login = s.login /\ c.check = s.check
      /\ c.dialog = s.dialog /\ c.alert = s.alert
      /\ c.view = s.view /\ c.edit = s.edit /\ c.deletion = s.deletion
  BY <1>0, CloseWorkspaceKeeps, SameKeeps
<1>2. b \in Models /\ Changes(c, b) /\ Pending(b) = Pending(c) \cup {"ListRecords"}
  BY <1>1, StartBegins, TuiAssumption
<1>3. /\ b.session = c.session /\ b.login = c.login /\ b.check = c.check
      /\ b.dialog = c.dialog /\ b.alert = c.alert
      /\ b.view = c.view /\ b.edit = c.edit /\ b.deletion = c.deletion
  BY <1>1 DEF Start, Models
<1>4. r = [b EXCEPT !.workspace = w]
  BY DEF ListRecords
<1>5. /\ w \in [source : {"server", "cache", "none"}, open : BOOLEAN,
                state : {"idle", "loading", "ready", "failed"}, login : Logins \cup {NoLogin}]
      /\ w.source = "server"
  OBVIOUS
<1> HIDE DEF b, c, w, r
<1>6. /\ r \in Models /\ r.workspace = w
      /\ r.requests = b.requests /\ r.flight = b.flight /\ r.cache = b.cache
      /\ r.session = b.session /\ r.login = b.login /\ r.check = b.check
      /\ r.dialog = b.dialog /\ r.alert = b.alert
      /\ r.view = b.view /\ r.edit = b.edit /\ r.deletion = b.deletion
  BY <1>2, <1>4, <1>5 DEF Models
<1>7. Changes(s, r)
  <2>1. Changes(c, r)
    BY <1>2, <1>6 DEF Changes, Keeps, Begins
  <2>2. QED
    BY <2>1, <1>0, <1>1, KeepsTransitive
<1>8. Pending(r) = Pending(c) \cup {"ListRecords"}
  BY <1>2, <1>6 DEF Pending
<1>9. Fits(r, Pending(r))
  BY <1>0, <1>1, <1>3, <1>5, <1>6, <1>8, TuiAssumption
  DEF Fits, UserFits, OneBlocks, GuestFits, CheckFits, LoadsFit, FormsFit, CacheFits,
      Authenticated, Blocking
<1>10. QED
  BY <1>0, <1>1, <1>3, <1>6, <1>7, <1>9 DEF Follows, r

-----------------------------------------------------------------------------
(* Windows *)

\* r is s with another window, or another alert, in front.
Shows(s, r) ==
  /\ r \in Models /\ r.dialog \in Dialogs
  /\ r.requests = s.requests /\ r.flight = s.flight /\ r.cache = s.cache
  /\ r.session = s.session /\ r.login = s.login /\ r.check = s.check
  /\ r.workspace = s.workspace /\ r.view = s.view /\ r.edit = s.edit
  /\ r.deletion = s.deletion

\* The window may be shown over s, or below an alert.
WindowFits(s, dialog) ==
  /\ ~ Authenticated(s) => ~ Private(s, dialog)
  /\ dialog \in {"recordEdit", "pickEdit"} => s.edit.status = "ready"
  /\ dialog = "recordDelete" => s.deletion

\* Nothing is on its way to s that could bring up a window.
Quiet(s) ==
  /\ "CurrentUser" \in Pending(s) => s.check = "manual"
  /\ ~ Authenticated(s) => "ViewCachedRecord" \notin Pending(s) /\ "BinarySave" \notin Pending(s)

LEMMA ShowsFollows ==
  ASSUME NEW s \in Models, Fits(s, Pending(s)), Quiet(s),
         NEW r, Shows(s, r),
         r.dialog = s.dialog \/ WindowFits(s, r.dialog),
         \/ r.alert = s.alert \/ WindowFits(s, r.alert)
         \/ r.alert = s.dialog /\ s.edit.status # "loading"
  PROVE  Follows(s, r)
<1>1. Keeps(s, r) /\ Pending(r) = Pending(s)
  BY SameKeeps DEF Shows
<1>2. s.edit \in [status : {"idle", "loading", "ready"}, return : {"none", "recordView"}]
  BY DEF Models
<1>3. Fits(r, Pending(r))
  <2>1. UserFits(r) /\ OneBlocks(Pending(r)) /\ LoadsFit(r, Pending(r)) /\ CacheFits(r, Pending(r))
    BY <1>1 DEF Fits, UserFits, OneBlocks, LoadsFit, CacheFits, Shows, Authenticated
  <2>2. GuestFits(r, Pending(r)) /\ CheckFits(r, Pending(r))
    BY <1>1 DEF Fits, GuestFits, CheckFits, Shows, Authenticated, Quiet, WindowFits, Private,
                ShowsServerData
  <2>3. FormsFit(r, Pending(r))
    BY <1>1, <1>2 DEF Fits, FormsFit, Shows, WindowFits
  <2>4. QED
    BY <2>1, <2>2, <2>3 DEF Fits
<1>4. QED
  BY <1>1, <1>3 DEF Follows, Changes, Shows

\* While the result of a request that blocks the keys is taken, no other waits.
LEMMA TakesCalm ==
  ASSUME NEW s, NEW kind \in Blocking, Takes(s, kind)
  PROVE  /\ Calm(s) /\ UserFits(s) /\ FormsFit(s, {})
         /\ s.workspace.state = "loading" => kind = "ListRecords"
         /\ s.view.status = "loading" => kind \in {"ViewRecord", "ViewCachedRecord"}
         /\ s.edit.status = "loading" <=> kind = "LoadRecordForEdit"
         /\ "CurrentUser" \notin Pending(s)
BY TuiAssumption DEF Takes, Calm, Fits, OneBlocks, LoadsFit, FormsFit, Blocking

\* A guest waits for nothing else, either.
LEMMA TakesAsGuest ==
  ASSUME NEW s, NEW kind \in Blocking, Takes(s, kind), ~ Authenticated(s)
  PROVE  Pending(s) = {} /\ ~ (s.workspace.open /\ s.workspace.source = "server")
BY TuiAssumption DEF Takes, Fits, OneBlocks, GuestFits, Blocking, NeedsSession, Pending

\* Without its request the rest still fits, if it was loading nothing.
LEMMA Settled ==
  ASSUME NEW s, NEW kind \in Blocking, Takes(s, kind),
         kind \notin {"ListRecords", "ViewRecord", "ViewCachedRecord", "LoadRecordForEdit"}
  PROVE  Fits(s, Pending(s)) /\ Quiet(s)
<1>1. Quiet(s)
  BY TakesCalm, TakesAsGuest DEF Quiet
<1>2. Fits(s, Pending(s))
  BY TakesAsGuest, TuiAssumption
  DEF Takes, Fits, OneBlocks, GuestFits, CheckFits, LoadsFit, FormsFit, CacheFits, Blocking
<1>3. QED
  BY <1>1, <1>2

LEMMA AlertShows ==
  ASSUME NEW s \in Models, s.dialog \in Dialogs, NEW a \in Dialogs
  PROVE  Shows(s, Alert(s, a)) /\ Alert(s, a).dialog = s.dialog /\ Alert(s, a).alert = a
BY DEF Alert, Models, Shows

LEMMA OpenShows ==
  ASSUME NEW s \in Models, NEW d \in Dialogs
  PROVE  Shows(s, Open(s, d)) /\ Open(s, d).dialog = d /\ Open(s, d).alert = s.alert
BY DEF Open, Models, Shows

\* Windows that show nothing of the records, and the list.
LEMMA PublicFits ==
  ASSUME NEW s
  PROVE  /\ \A d \in {"login", "register", "currentUser", "serverStatus", "config", "info",
                      "cacheBrowse", "sync", "syncResult"} : d \in Dialogs /\ WindowFits(s, d)
         /\ (~ Authenticated(s) => ~ (s.workspace.open /\ s.workspace.source = "server"))
              => WindowFits(s, "none")
         /\ "none" \in Dialogs
         /\ Authenticated(s) \/ s.view.source = "cache" =>
              \A d \in {"recordView", "binarySave", "pickSave"} : d \in Dialogs /\ WindowFits(s, d)
BY DEF WindowFits, Private, ShowsServerData, Dialogs

LEMMA AlertFollows ==
  ASSUME NEW s \in Models, s.dialog \in Dialogs, Fits(s, Pending(s)), Quiet(s),
         NEW a \in Dialogs, WindowFits(s, a)
  PROVE  Follows(s, Alert(s, a))
<1>1. Shows(s, Alert(s, a)) /\ Alert(s, a).dialog = s.dialog /\ Alert(s, a).alert = a
  BY AlertShows
<1> DEFINE r == Alert(s, a)
<1> HIDE DEF r
<1>2. r.dialog = s.dialog /\ WindowFits(s, r.alert) /\ Shows(s, r)
  BY <1>1 DEF r
<1>3. QED
  BY <1>2, ShowsFollows DEF r

LEMMA AlertHere ==
  ASSUME NEW s \in Models, s.dialog \in Dialogs, Fits(s, Pending(s)), Quiet(s),
         s.edit.status # "loading"
  PROVE  Follows(s, Alert(s, s.dialog))
<1> DEFINE r == Alert(s, s.dialog)
<1>1. r.dialog = s.dialog /\ r.alert = s.dialog /\ Shows(s, r)
  BY AlertShows
<1> HIDE DEF r
<1>2. QED
  BY <1>1, ShowsFollows DEF r

LEMMA OpenFollows ==
  ASSUME NEW s \in Models, Fits(s, Pending(s)), Quiet(s),
         NEW d \in Dialogs, WindowFits(s, d)
  PROVE  Follows(s, Open(s, d))
<1> DEFINE r == Open(s, d)
<1>1. r.dialog = d /\ r.alert = s.alert /\ Shows(s, r)
  BY OpenShows
<1> HIDE DEF r
<1>2. QED
  BY <1>1, ShowsFollows DEF r

LEMMA AlertOverFollows ==
  ASSUME NEW s \in Models, Fits(s, Pending(s)), Quiet(s),
         NEW d \in Dialogs, WindowFits(s, d), NEW a \in Dialogs, WindowFits(s, a)
  PROVE  Follows(s, Alert(Open(s, d), a))
<1> DEFINE c == Open(s, d)
           r == Alert(c, a)
<1>1. c.dialog = d /\ Shows(s, c)
  BY OpenShows
<1>2. c \in Models /\ c.dialog \in Dialogs
  BY <1>1 DEF Shows
<1> HIDE DEF c
<1>3. r.dialog = c.dialog /\ r.alert = a /\ Shows(c, r)
  BY <1>2, AlertShows
<1> HIDE DEF r
<1>4. Shows(s, r)
  BY <1>1, <1>3 DEF Shows
<1>5. QED
  BY <1>1, <1>3, <1>4, ShowsFollows DEF r, c

-----------------------------------------------------------------------------
(* Results *)

LEMMA LoginFollows ==
  ASSUME NEW s, Takes(s, "Login"), NEW t \in Tasks, t.out = "ok" => t.user # NoLogin
  PROVE  Follows(s, LoginResult(s, t))
<1>1. s \in Models /\ s.dialog \in Dialogs /\ "Login" \in Blocking
  BY TuiAssumption DEF Takes, Blocking
<1>2. CASE t.out = "ok"
  <2> DEFINE c == [s EXCEPT !.session = "authenticated", !.login = t.user,
                            !.dialog = "currentUser"]
  <2>1. t.user \in Logins /\ "currentUser" \in Dialogs
    BY <1>2 DEF Tasks, Dialogs
  <2>2. /\ c \in Models /\ c.session = "authenticated" /\ c.login = t.user
        /\ c.dialog = "currentUser" /\ c.alert = s.alert
        /\ c.requests = s.requests /\ c.flight = s.flight /\ c.cache = s.cache
        /\ c.view = s.view /\ c.edit = s.edit /\ c.deletion = s.deletion
    BY <1>1, <2>1 DEF Models
  <2>3. LoginResult(s, t) = ListRecords(c)
    BY <1>2 DEF LoginResult
  <2> HIDE DEF c
  <2>4. Keeps(s, c) /\ Pending(c) = Pending(s)
    BY <1>1, <2>2, SameKeeps
  <2>5. Calm(s) /\ FormsFit(s, {}) /\ s.view.status # "loading" /\ s.edit.status # "loading"
    BY <1>1, TakesCalm
  <2>6. Calm(c) /\ UserFits(c) /\ Authenticated(c) /\ FormsFit(c, {})
    BY <2>1, <2>2, <2>4, <2>5, TuiAssumption DEF Calm, UserFits, Authenticated, FormsFit
  <2>7. QED
    BY <1>1, <2>2, <2>3, <2>4, <2>5, <2>6, ListRecordsFollows, KeepsTransitive DEF Follows
<1>3. CASE t.out # "ok"
  <2>1. LoginResult(s, t) = Alert(s, "login")
    BY <1>3 DEF LoginResult
  <2>2. QED
    BY <1>1, <2>1, Settled, PublicFits, AlertFollows
<1>4. QED
  BY <1>2, <1>3

LEMMA RegisterFollows ==
  ASSUME NEW s, Takes(s, "Register"), NEW t
  PROVE  Follows(s, RegisterResult(s, t))
<1>1. s \in Models /\ s.dialog \in Dialogs /\ "Register" \in Blocking
  BY TuiAssumption DEF Takes, Blocking
<1>2. Fits(s, Pending(s)) /\ Quiet(s) /\ (~ Authenticated(s) => ~ (s.workspace.open /\ s.workspace.source = "server"))
  BY <1>1, Settled, TakesAsGuest
<1>3. RegisterResult(s, t) \in {Alert(Open(s, "none"), "login"), Alert(s, "register")}
  BY DEF RegisterResult, Open
<1>4. QED
  BY <1>1, <1>2, <1>3, PublicFits, AlertFollows, AlertOverFollows

LEMMA ClearRecordsKeeps ==
  ASSUME NEW s \in Models
  PROVE  LET r == ClearRecords(s)
         IN /\ r \in Models /\ Keeps(s, r)
            /\ Pending(r) = Pending(s) \cap {"CurrentUser", "Login", "Register", "Logout",
                                             "ServerStatus", "Sync"}
            /\ r.workspace = Closed /\ r.view = NoView /\ r.edit = NoEdit
            /\ r.session = s.session /\ r.login = s.login /\ r.check = s.check
            /\ r.dialog = s.dialog /\ r.alert = s.alert
<1> DEFINE K == Kinds \ {"CurrentUser", "Login", "Register", "Logout", "ServerStatus", "Sync"}
           c == CancelOps(s, K)
           r == ClearRecords(s)
<1>1. c \in Models /\ Keeps(s, c) /\ Pending(c) = Pending(s) \ K
  BY CancelOpsKeeps
<1>2. /\ c.session = s.session /\ c.login = s.login /\ c.check = s.check
      /\ c.dialog = s.dialog /\ c.alert = s.alert /\ c.cache = s.cache
  BY DEF CancelOps, Models
<1>3. r = [c EXCEPT !.cache = CacheWithoutWorkspace(s), !.workspace = Closed,
                    !.view = NoView, !.edit = NoEdit, !.deletion = FALSE]
  BY DEF ClearRecords
<1>4. CacheWithoutWorkspace(s) \in {s.cache, NoLogin} /\ s.cache \in Logins \cup {NoLogin}
  BY DEF CacheWithoutWorkspace, Models
<1>5. Pending(s) \ K = Pending(s) \cap {"CurrentUser", "Login", "Register", "Logout",
                                        "ServerStatus", "Sync"}
  BY DEF Pending
<1> HIDE DEF c, r, K
<1>6. /\ r \in Models /\ r.workspace = Closed /\ r.view = NoView /\ r.edit = NoEdit
      /\ r.requests = c.requests /\ r.flight = c.flight
      /\ r.cache = CacheWithoutWorkspace(s)
      /\ r.session = c.session /\ r.login = c.login /\ r.check = c.check
      /\ r.dialog = c.dialog /\ r.alert = c.alert
  BY <1>1, <1>3, <1>4 DEF Models, Closed, NoView, NoEdit
<1>7. Keeps(s, r) /\ Pending(r) = Pending(c)
  BY <1>1, <1>4, <1>6 DEF Keeps, Pending
<1>8. QED
  BY <1>1, <1>2, <1>5, <1>6, <1>7 DEF r

LEMMA BecomeGuestFollows ==
  ASSUME NEW s \in Models, OneBlocks(Pending(s)), "Logout" \notin Pending(s),
         "CurrentUser" \in Pending(s) => s.check = "manual"
  PROVE  Follows(s, BecomeGuest(s))
<1>0. "none" \in Dialogs
  BY DEF Dialogs
<1> DEFINE a == ClearRecords(s)
           b == CancelOps(a, {"OpenCache", "Sync"})
           r == BecomeGuest(s)
<1>1. /\ a \in Models /\ Keeps(s, a)
      /\ Pending(a) = Pending(s) \cap {"CurrentUser", "Login", "Register", "Logout",
                                       "ServerStatus", "Sync"}
      /\ a.workspace = Closed /\ a.view = NoView /\ a.edit = NoEdit /\ a.check = s.check
  BY ClearRecordsKeeps
<1>2. b \in Models /\ Keeps(a, b) /\ Pending(b) = Pending(a) \ {"OpenCache", "Sync"}
  BY <1>1, CancelOpsKeeps
<1>3. b.workspace = a.workspace /\ b.view = a.view /\ b.edit = a.edit /\ b.check = a.check
  BY <1>1 DEF CancelOps, Models
<1>4. r = [b EXCEPT !.dialog = "none", !.session = "guest", !.login = NoLogin, !.alert = "none"]
  BY DEF BecomeGuest
<1> HIDE DEF a, b, r
<1>5. /\ r \in Models /\ r.dialog = "none" /\ r.alert = "none"
      /\ r.session = "guest" /\ r.login = NoLogin
      /\ r.requests = b.requests /\ r.flight = b.flight /\ r.cache = b.cache
      /\ r.workspace = b.workspace /\ r.view = b.view /\ r.edit = b.edit /\ r.check = b.check
  BY <1>2, <1>4, <1>0 DEF Models
<1>6. Keeps(b, r) /\ Pending(r) = Pending(b)
  BY <1>2, <1>5, SameKeeps
<1>7. Changes(s, r)
  BY <1>1, <1>2, <1>6, KeepsTransitive DEF Changes
<1>8. Fits(r, Pending(r))
  BY <1>1, <1>2, <1>3, <1>5, <1>6, TuiAssumption
  DEF Fits, UserFits, OneBlocks, GuestFits, CheckFits, LoadsFit, FormsFit, CacheFits,
      Authenticated, Blocking, Closed, NoView, NoEdit, Private, ShowsServerData, NeedsSession
<1>9. QED
  BY <1>5, <1>7, <1>8 DEF Follows, Dialogs, r

LEMMA SessionExpiredFollows ==
  ASSUME NEW s \in Models
  PROVE  Follows(s, SessionExpired(s))
<1> DEFINE c == CancelOps(s, Kinds)
<1>1. c \in Models /\ Keeps(s, c) /\ Pending(c) = {}
  BY CancelOpsKeeps DEF Pending
<1>2. Follows(c, BecomeGuest(c))
  BY <1>1, BecomeGuestFollows DEF OneBlocks
<1>3. QED
  BY <1>1, <1>2, KeepsTransitive DEF Follows, SessionExpired

LEMMA LogoutFollows ==
  ASSUME NEW s, Takes(s, "Logout"), NEW t
  PROVE  Follows(s, LogoutResult(s, t))
<1>1. /\ s \in Models /\ s.dialog \in Dialogs /\ "Logout" \notin Pending(s)
      /\ Authenticated(s) /\ OneBlocks(Pending(s))
      /\ "CurrentUser" \in Pending(s) => s.check = "manual"
  BY TuiAssumption DEF Takes, Fits, GuestFits, CheckFits, OneBlocks, NeedsSession
<1>2. Fits(s, Pending(s)) /\ Quiet(s)
  BY <1>1 DEF Takes, Fits, OneBlocks, GuestFits, CheckFits, LoadsFit, FormsFit, CacheFits, Quiet
<1>3. LogoutResult(s, t) \in {BecomeGuest(s), Alert(Open(s, "none"), "none")}
  BY DEF LogoutResult, Open
<1>4. QED
  BY <1>1, <1>2, <1>3, PublicFits, BecomeGuestFollows, AlertOverFollows

LEMMA ListFollows ==
  ASSUME NEW s, Takes(s, "ListRecords"), NEW t
  PROVE  Follows(s, ListResult(s, t))
<1>1. s \in Models /\ s.dialog \in Dialogs /\ "ListRecords" \in Blocking
  BY TuiAssumption DEF Takes, Blocking
<1>2. Authenticated(s) /\ s.workspace.source = "server" /\ Fits(s, Pending(s) \cup {"ListRecords"})
  BY DEF Takes, Fits, GuestFits, LoadsFit, NeedsSession
<1> DEFINE state == IF t.out = "ok" \/ s.workspace.state = "ready" THEN "ready" ELSE "failed"
           c == [s EXCEPT !.workspace.state = state]
<1>3. /\ c \in Models /\ c.dialog = s.dialog /\ c.alert = s.alert
      /\ c.workspace.state = state /\ c.workspace.source = s.workspace.source
      /\ c.workspace.login = s.workspace.login
      /\ c.requests = s.requests /\ c.flight = s.flight /\ c.cache = s.cache
      /\ c.session = s.session /\ c.login = s.login /\ c.check = s.check
      /\ c.view = s.view /\ c.edit = s.edit /\ c.deletion = s.deletion
  BY <1>1 DEF Models
<1>4. ListResult(s, t) = IF t.out = "ok" THEN c ELSE Alert(c, c.dialog)
  BY <1>3 DEF ListResult
<1>5. state # "loading"
  OBVIOUS
<1> HIDE DEF c, state
<1>6. Keeps(s, c) /\ Pending(c) = Pending(s)
  BY <1>1, <1>3, SameKeeps
<1>7. Fits(c, Pending(c)) /\ Quiet(c) /\ c.edit.status # "loading"
  <2>1. /\ "CurrentUser" \notin Pending(s) /\ s.edit.status # "loading"
        /\ s.view.status # "loading"
    BY <1>1, TakesCalm
  <2>2. QED
    BY <1>2, <1>3, <1>5, <1>6, <2>1
    DEF Fits, UserFits, OneBlocks, GuestFits, CheckFits, LoadsFit, FormsFit, CacheFits, Quiet,
        Authenticated
<1>8. Follows(c, Alert(c, c.dialog)) /\ Follows(c, c)
  BY <1>1, <1>3, <1>7, AlertHere, SameKeeps DEF Follows, Changes
<1>9. QED
  BY <1>1, <1>4, <1>6, <1>8, KeepsTransitive DEF Follows

LEMMA OpenCacheFollows ==
  ASSUME NEW s, Takes(s, "OpenCache"), NEW t \in Tasks,
         t.out = "ok" => s.cache \in {t.user, NoLogin}
  PROVE  Follows(s, OpenCacheResult(s, t))
<1>1. s \in Models /\ s.dialog \in Dialogs /\ "OpenCache" \in Blocking
  BY TuiAssumption DEF Takes, Blocking
<1>2. CASE t.out = "ok"
  <2> DEFINE w == [source |-> "cache", open |-> TRUE, state |-> "ready", login |-> t.user]
             r == [s EXCEPT !.dialog = "none", !.workspace = w]
  <2>1. /\ w \in [source : {"server", "cache", "none"}, open : BOOLEAN,
                  state : {"idle", "loading", "ready", "failed"}, login : Logins \cup {NoLogin}]
        /\ w.source = "cache" /\ w.state = "ready" /\ w.login = t.user
    BY DEF Tasks
  <2>2. "none" \in Dialogs
    BY DEF Dialogs
  <2>3. OpenCacheResult(s, t) = r
    BY <1>2 DEF OpenCacheResult
  <2> HIDE DEF w
  <2>4. /\ r \in Models /\ r.dialog = "none" /\ r.alert = s.alert /\ r.workspace = w
        /\ r.requests = s.requests /\ r.flight = s.flight /\ r.cache = s.cache
        /\ r.session = s.session /\ r.login = s.login /\ r.check = s.check
        /\ r.view = s.view /\ r.edit = s.edit /\ r.deletion = s.deletion
    BY <1>1, <2>1, <2>2 DEF Models
  <2> HIDE DEF r
  <2>5. Keeps(s, r) /\ Pending(r) = Pending(s)
    BY <1>1, <2>4, SameKeeps
  <2>6. Fits(r, Pending(r))
    <3>1. /\ Calm(s) /\ FormsFit(s, {}) /\ "CurrentUser" \notin Pending(s)
          /\ s.view.status # "loading" /\ s.edit.status # "loading"
      BY <1>1, TakesCalm
    <3>2. ~ Authenticated(s) => Pending(s) = {}
      BY <1>1, TakesAsGuest
    <3>3. UserFits(r) /\ OneBlocks(Pending(r)) /\ CheckFits(r, Pending(r)) /\ CacheFits(r, Pending(r))
      BY <1>2, <2>1, <2>4, <2>5, <3>1
      DEF Takes, Fits, UserFits, OneBlocks, CheckFits, CacheFits, Authenticated, Calm
    <3>4. GuestFits(r, Pending(r))
      BY <2>1, <2>4, <2>5, <3>2
      DEF Takes, Fits, GuestFits, Authenticated, Private, ShowsServerData
    <3>5. LoadsFit(r, Pending(r)) /\ FormsFit(r, Pending(r))
      BY <2>1, <2>4, <2>5, <3>1, TuiAssumption DEF Calm, LoadsFit, FormsFit, Blocking
    <3>6. QED
      BY <3>3, <3>4, <3>5 DEF Fits
  <2>7. QED
    BY <2>2, <2>3, <2>4, <2>5, <2>6 DEF Follows, Changes
<1>3. CASE t.out # "ok"
  <2>1. OpenCacheResult(s, t) = Alert(s, "cacheBrowse")
    BY <1>3 DEF OpenCacheResult
  <2>2. QED
    BY <1>1, <2>1, Settled, PublicFits, AlertFollows
<1>4. QED
  BY <1>2, <1>3

LEMMA LeaveViewKeeps ==
  ASSUME NEW s \in Models
  PROVE  LET r == LeaveView(s)
         IN /\ r \in Models /\ Keeps(s, r)
            /\ Pending(r) = Pending(s) \ {"ViewRecord", "ViewCachedRecord", "BinarySave"}
            /\ r.view = NoView
            /\ r.session = s.session /\ r.login = s.login /\ r.check = s.check
            /\ r.dialog = s.dialog /\ r.alert = s.alert /\ r.cache = s.cache
            /\ r.workspace = s.workspace /\ r.edit = s.edit /\ r.deletion = s.deletion
<1> DEFINE c == CancelOps(s, {"ViewRecord", "ViewCachedRecord", "BinarySave"})
           r == LeaveView(s)
<1>1. /\ c \in Models /\ Keeps(s, c)
      /\ Pending(c) = Pending(s) \ {"ViewRecord", "ViewCachedRecord", "BinarySave"}
  BY CancelOpsKeeps
<1>2. /\ c.session = s.session /\ c.login = s.login /\ c.check = s.check
      /\ c.dialog = s.dialog /\ c.alert = s.alert /\ c.cache = s.cache
      /\ c.workspace = s.workspace /\ c.edit = s.edit /\ c.deletion = s.deletion
  BY DEF CancelOps, Models
<1>3. r = [c EXCEPT !.view = NoView]
  BY DEF LeaveView
<1> HIDE DEF c, r
<1>4. /\ r \in Models /\ r.view = NoView
      /\ r.requests = c.requests /\ r.flight = c.flight /\ r.cache = c.cache
      /\ r.session = c.session /\ r.login = c.login /\ r.check = c.check
      /\ r.dialog = c.dialog /\ r.alert = c.alert
      /\ r.workspace = c.workspace /\ r.edit = c.edit /\ r.deletion = c.deletion
  BY <1>1, <1>3 DEF Models, NoView
<1>5. Keeps(s, r) /\ Pending(r) = Pending(c)
  BY <1>1, <1>4 DEF Keeps, Pending
<1>6. QED
  BY <1>1, <1>2, <1>4, <1>5 DEF r

LEMMA ViewFollows ==
  ASSUME NEW s, NEW kind \in {"ViewRecord", "ViewCachedRecord"}, Takes(s, kind),
         NEW t, t.out \in {"ok", "failed"}, NEW wanted \in BOOLEAN,
         kind = "ViewCachedRecord" => (wanted <=> s.workspace.source = "cache")
  PROVE  Follows(s, ViewResult(s, t, wanted))
<1>1. s \in Models /\ s.dialog \in Dialogs /\ kind \in Blocking /\ "none" \in Dialogs
  BY TuiAssumption DEF Takes, Blocking, Dialogs
<1>2. /\ Calm(s) /\ UserFits(s) /\ FormsFit(s, {}) /\ "CurrentUser" \notin Pending(s)
      /\ s.workspace.state # "loading" /\ s.edit.status # "loading"
  BY <1>1, TakesCalm
<1>3. ~ Authenticated(s) => /\ Pending(s) = {} /\ kind = "ViewCachedRecord"
                            /\ ~ (s.workspace.open /\ s.workspace.source = "server")
                            /\ s.dialog = "recordView" /\ s.alert = "off" /\ wanted
  BY <1>1, TakesAsGuest DEF Takes, Fits, GuestFits, LoadsFit, NeedsSession
<1>4. CacheFits(s, Pending(s)) /\ OneBlocks(Pending(s))
  BY DEF Takes, Fits, CacheFits, OneBlocks
<1> DEFINE c == LeaveView(s)
<1>5. /\ c \in Models /\ Keeps(s, c)
      /\ Pending(c) = Pending(s) \ {"ViewRecord", "ViewCachedRecord", "BinarySave"}
      /\ c.view = NoView
      /\ c.session = s.session /\ c.login = s.login /\ c.check = s.check
      /\ c.dialog = s.dialog /\ c.alert = s.alert /\ c.cache = s.cache
      /\ c.workspace = s.workspace /\ c.edit = s.edit /\ c.deletion = s.deletion
  BY <1>1, LeaveViewKeeps
<1> HIDE DEF c
<1>6. CASE t.out = "failed"
  <2> DEFINE d == Open(c, "none")
  <2>1. Shows(c, d) /\ d.dialog = "none" /\ d.alert = c.alert
    BY <1>1, <1>5, OpenShows
  <2>2. ViewResult(s, t, wanted) = Alert(d, "none")
    BY <1>6 DEF ViewResult, Open, c
  <2> HIDE DEF d
  <2>3. d \in Models /\ Keeps(s, d) /\ Pending(d) = Pending(c)
    BY <2>1, <1>5 DEF Shows, Keeps, Pending
  <2>4. Fits(d, Pending(d)) /\ Quiet(d) /\ WindowFits(d, "none")
    BY <1>2, <1>3, <1>4, <1>5, <2>1, <2>3, TuiAssumption
    DEF Shows, Calm, Fits, UserFits, OneBlocks, GuestFits, CheckFits, LoadsFit, FormsFit, CacheFits,
        Blocking, Authenticated, Private, ShowsServerData, NoView, Quiet, WindowFits
  <2>5. QED
    BY <1>1, <2>1, <2>2, <2>3, <2>4, AlertFollows, KeepsTransitive DEF Follows
<1>7. CASE t.out = "ok" /\ s.dialog = "recordView" /\ wanted
  <2> DEFINE r == [s EXCEPT !.view.status = "ready"]
  <2>1. ViewResult(s, t, wanted) = r
    BY <1>7 DEF ViewResult
  <2>2. /\ r \in Models /\ r.dialog = s.dialog /\ r.alert = s.alert /\ r.workspace = s.workspace
        /\ r.requests = s.requests /\ r.flight = s.flight /\ r.cache = s.cache
        /\ r.session = s.session /\ r.login = s.login /\ r.check = s.check
        /\ r.view.status = "ready" /\ r.view.source = s.view.source
        /\ r.edit = s.edit /\ r.deletion = s.deletion
    BY <1>1 DEF Models
  <2> HIDE DEF r
  <2>3. Keeps(s, r) /\ Pending(r) = Pending(s)
    BY <1>1, <2>2, SameKeeps
  <2>4. Fits(r, Pending(r))
    BY <1>2, <1>3, <1>4, <2>2, <2>3, TuiAssumption
    DEF Takes, Calm, Fits, UserFits, OneBlocks, GuestFits, CheckFits, LoadsFit, FormsFit, CacheFits,
        Blocking, Authenticated, Private, ShowsServerData
  <2>5. QED
    BY <1>1, <2>1, <2>2, <2>3, <2>4 DEF Follows, Changes
<1>8. CASE t.out = "ok" /\ ~ (s.dialog = "recordView" /\ wanted)
  <2>1. ViewResult(s, t, wanted) = c
    BY <1>8 DEF ViewResult, c
  <2>2. Fits(c, Pending(c))
    BY <1>2, <1>3, <1>4, <1>5, <1>8, TuiAssumption
    DEF Calm, Fits, UserFits, OneBlocks, GuestFits, CheckFits, LoadsFit, FormsFit, CacheFits,
        Blocking, Authenticated, NoView
  <2>3. QED
    BY <1>1, <1>5, <2>1, <2>2 DEF Follows, Changes
<1>9. QED
  BY <1>6, <1>7, <1>8

LEMMA BinarySaveFollows ==
  ASSUME NEW s, Takes(s, "BinarySave"), NEW t
  PROVE  Follows(s, BinarySaveResult(s, t))
<1>1. s \in Models /\ s.dialog \in Dialogs /\ "BinarySave" \notin Pending(s)
  BY DEF Takes
<1>2. Authenticated(s) \/ (s.view.source = "cache" /\ Pending(s) = {})
  <2>1. ~ Authenticated(s) => /\ s.view.source = "cache"
                              /\ Pending(s) \cup {"BinarySave"} = {"BinarySave"}
    BY DEF Takes, Fits, GuestFits
  <2>2. QED
    BY <1>1, <2>1
<1>3. Fits(s, Pending(s)) /\ Quiet(s)
  BY <1>2 DEF Takes, Fits, OneBlocks, GuestFits, CheckFits, LoadsFit, FormsFit, CacheFits, Quiet
<1>4. BinarySaveResult(s, t) \in {Alert(Open(s, "recordView"), "recordView"), Alert(s, "binarySave")}
  BY DEF BinarySaveResult, Open
<1>5. QED
  BY <1>1, <1>2, <1>3, <1>4, PublicFits, AlertFollows, AlertOverFollows

LEMMA LoadEditFollows ==
  ASSUME NEW s, Takes(s, "LoadRecordForEdit"), NEW t, t.out \in {"ok", "failed"}
  PROVE  Follows(s, LoadEditResult(s, t))
<1>1. s \in Models /\ s.dialog \in Dialogs /\ "LoadRecordForEdit" \in Blocking
  BY TuiAssumption DEF Takes, Blocking
<1>2. Authenticated(s) /\ s.edit.status = "loading" /\ CacheFits(s, Pending(s))
  BY DEF Takes, Fits, GuestFits, LoadsFit, NeedsSession, CacheFits
<1>3. /\ Calm(s) /\ UserFits(s) /\ FormsFit(s, {}) /\ "CurrentUser" \notin Pending(s)
      /\ s.workspace.state # "loading" /\ s.view.status # "loading"
  BY <1>1, TakesCalm
<1> DEFINE edit == IF t.out = "ok" /\ s.dialog = "recordEdit"
                     THEN [status |-> "ready", return |-> "none"] ELSE NoEdit
           dialog == IF t.out = "failed" THEN "none" ELSE s.dialog
           alert == IF t.out = "failed" THEN "none" ELSE s.alert
           r == [s EXCEPT !.edit = edit, !.dialog = dialog, !.alert = alert]
           q == LoadEditResult(s, t)
<1>4. /\ edit \in [status : {"idle", "loading", "ready"}, return : {"none", "recordView"}]
      /\ edit.status # "loading" /\ dialog \in Dialogs /\ alert \in Dialogs \cup {"off"}
      /\ edit.status = "idle" => dialog # "recordEdit"
      /\ dialog \in {"none", s.dialog} /\ alert \in {"none", s.alert}
  <2>1. s.alert \in Dialogs \cup {"off"} /\ "none" \in Dialogs
    BY <1>1 DEF Models, Dialogs
  <2>2. QED
    BY <1>1, <2>1 DEF NoEdit
<1>5. /\ q \in Models /\ q.edit = edit /\ q.dialog = dialog /\ q.alert = alert
      /\ q.requests = s.requests /\ q.flight = s.flight /\ q.cache = s.cache
      /\ q.session = s.session /\ q.login = s.login /\ q.check = s.check
      /\ q.workspace = s.workspace /\ q.view = s.view /\ q.deletion = s.deletion
  <2>1. CASE t.out = "failed"
    BY <1>1, <1>4, <2>1 DEF LoadEditResult, Alert, Models, NoEdit
  <2>2. CASE t.out = "ok" /\ s.dialog = "recordEdit"
    BY <1>1, <1>2, <1>4, <2>2 DEF LoadEditResult, Models
  <2>3. CASE t.out = "ok" /\ s.dialog # "recordEdit"
    BY <1>1, <1>4, <2>3 DEF LoadEditResult, Models, NoEdit
  <2>4. QED
    BY <2>1, <2>2, <2>3
<1> HIDE DEF edit, dialog, alert, q
<1>6. Keeps(s, q) /\ Pending(q) = Pending(s)
  BY <1>1, <1>5, SameKeeps
<1>7. Fits(q, Pending(q))
  BY <1>2, <1>3, <1>4, <1>5, <1>6, TuiAssumption
  DEF Calm, Fits, UserFits, OneBlocks, GuestFits, CheckFits, LoadsFit, FormsFit, CacheFits,
      Blocking, Authenticated
<1>8. QED
  BY <1>4, <1>5, <1>6, <1>7 DEF Follows, Changes, q

LEMMA CreateFollows ==
  ASSUME NEW s, Takes(s, "CreateRecord"), NEW t
  PROVE  Follows(s, CreateResult(s, t))
<1>1. s \in Models /\ s.dialog \in Dialogs /\ "CreateRecord" \in Blocking
  BY TuiAssumption DEF Takes, Blocking
<1>2. Authenticated(s)
  BY DEF Takes, Fits, GuestFits, NeedsSession
<1>3. CASE t.out = "ok"
  <2> DEFINE c == CancelOps(s, {"ListRecords"})
             w == IF s.workspace.open /\ s.workspace.state = "ready"
                    THEN [source |-> "server", open |-> TRUE, state |-> "ready", login |-> NoLogin]
                    ELSE Closed
             r == CreateResult(s, t)
  <2>1. c \in Models /\ Keeps(s, c) /\ Pending(c) = Pending(s) \ {"ListRecords"}
    BY <1>1, CancelOpsKeeps
  <2>2. /\ c.session = s.session /\ c.login = s.login /\ c.check = s.check
        /\ c.view = s.view /\ c.edit = s.edit /\ c.deletion = s.deletion
    BY <1>1 DEF CancelOps, Models
  <2>3. r = [c EXCEPT !.dialog = "none", !.workspace = w, !.alert = "none"]
    BY <1>3 DEF CreateResult, Alert
  <2>4. /\ w \in [source : {"server", "cache", "none"}, open : BOOLEAN,
                  state : {"idle", "loading", "ready", "failed"}, login : Logins \cup {NoLogin}]
        /\ w.source # "cache" /\ w.state # "loading" /\ "none" \in Dialogs
    BY DEF Closed, Dialogs
  <2> HIDE DEF c, w, r
  <2>5. /\ r \in Models /\ r.dialog = "none" /\ r.alert = "none" /\ r.workspace = w
        /\ r.requests = c.requests /\ r.flight = c.flight /\ r.cache = c.cache
        /\ r.session = c.session /\ r.login = c.login /\ r.check = c.check
        /\ r.view = c.view /\ r.edit = c.edit /\ r.deletion = c.deletion
    BY <2>1, <2>3, <2>4 DEF Models
  <2>6. Keeps(s, r) /\ Pending(r) = Pending(c)
    BY <2>1, <2>5 DEF Keeps, Pending
  <2>7. Fits(r, Pending(r))
    <3>1. /\ Calm(s) /\ UserFits(s) /\ FormsFit(s, {}) /\ "CurrentUser" \notin Pending(s)
          /\ s.edit.status # "loading" /\ s.view.status # "loading"
      BY <1>1, TakesCalm
    <3>2. QED
      BY <1>2, <2>1, <2>2, <2>4, <2>5, <2>6, <3>1, TuiAssumption
      DEF Calm, Fits, UserFits, OneBlocks, GuestFits, CheckFits, LoadsFit, FormsFit, CacheFits,
          Blocking, Authenticated
  <2>8. QED
    BY <2>4, <2>5, <2>6, <2>7 DEF Follows, Changes, r
<1>4. CASE t.out # "ok"
  <2>1. CreateResult(s, t) = Alert(s, "recordCreate") /\ "recordCreate" \in Dialogs
    BY <1>4 DEF CreateResult, Dialogs
  <2>2. WindowFits(s, "recordCreate")
    BY <1>2 DEF WindowFits
  <2>3. QED
    BY <1>1, <2>1, <2>2, Settled, AlertFollows
<1>5. QED
  BY <1>3, <1>4

LEMMA EditFollows ==
  ASSUME NEW s, Takes(s, "EditRecord"), NEW t
  PROVE  Follows(s, EditResult(s, t))
<1>1. s \in Models /\ s.dialog \in Dialogs /\ "EditRecord" \in Blocking
  BY TuiAssumption DEF Takes, Blocking
<1>2. Authenticated(s) /\ s.edit.status = "ready"
  BY DEF Takes, Fits, GuestFits, FormsFit, NeedsSession
<1>3. CASE t.out = "ok"
  <2> DEFINE r == EditResult(s, t)
             w == [source |-> "server", open |-> TRUE, state |-> "ready", login |-> NoLogin]
             v == [s.view EXCEPT !.status = "ready"]
  <2>1. /\ "recordView" \in Dialogs
        /\ w \in [source : {"server", "cache", "none"}, open : BOOLEAN,
                  state : {"idle", "loading", "ready", "failed"}, login : Logins \cup {NoLogin}]
        /\ w.source = "server" /\ w.state = "ready"
        /\ r = [s EXCEPT !.workspace = w, !.view = v, !.edit = NoEdit,
                         !.dialog = "recordView", !.alert = "recordView"]
    BY <1>3 DEF Dialogs, EditResult, Alert
  <2>2. /\ v \in [status : {"idle", "loading", "ready"}, source : {"server", "cache"}]
        /\ v.status = "ready"
        /\ NoEdit \in [status : {"idle", "loading", "ready"}, return : {"none", "recordView"}]
    BY <1>1 DEF Models, NoEdit
  <2> HIDE DEF r, w, v
  <2>3. /\ r \in Models /\ r.dialog = "recordView" /\ r.alert = "recordView"
        /\ r.workspace.source = "server" /\ r.workspace.state = "ready"
        /\ r.requests = s.requests /\ r.flight = s.flight /\ r.cache = s.cache
        /\ r.session = s.session /\ r.login = s.login /\ r.check = s.check
        /\ r.view.status = "ready" /\ r.edit = NoEdit /\ r.deletion = s.deletion
    BY <1>1, <2>1, <2>2 DEF Models
  <2>4. Keeps(s, r) /\ Pending(r) = Pending(s)
    BY <1>1, <2>3, SameKeeps
  <2>5. Fits(r, Pending(r))
    <3>1. /\ Calm(s) /\ UserFits(s) /\ FormsFit(s, {}) /\ "CurrentUser" \notin Pending(s)
      BY <1>1, TakesCalm
    <3>2. QED
      BY <1>2, <2>3, <2>4, <3>1, TuiAssumption
      DEF Calm, Fits, UserFits, OneBlocks, GuestFits, CheckFits, LoadsFit, FormsFit, CacheFits,
          Blocking, Authenticated, NoEdit
  <2>6. QED
    BY <2>1, <2>3, <2>4, <2>5 DEF Follows, Changes, r
<1>4. CASE t.out # "ok"
  <2>1. EditResult(s, t) = Alert(s, "recordEdit") /\ "recordEdit" \in Dialogs
    BY <1>4 DEF EditResult, Dialogs
  <2>2. WindowFits(s, "recordEdit")
    BY <1>2 DEF WindowFits
  <2>3. QED
    BY <1>1, <2>1, <2>2, Settled, AlertFollows
<1>5. QED
  BY <1>3, <1>4

LEMMA DeleteFollows ==
  ASSUME NEW s, Takes(s, "DeleteRecord"), NEW t
  PROVE  Follows(s, DeleteResult(s, t))
<1>1. s \in Models /\ s.dialog \in Dialogs /\ "DeleteRecord" \in Blocking
  BY TuiAssumption DEF Takes, Blocking
<1>2. Authenticated(s) /\ s.deletion
  BY DEF Takes, Fits, GuestFits, FormsFit, NeedsSession
<1>3. CASE t.out = "ok"
  <2> DEFINE r == DeleteResult(s, t)
  <2>1. "none" \in Dialogs
    BY DEF Dialogs
  <2>2. /\ r \in Models /\ r.dialog = "none" /\ r.alert = "none"
        /\ r.requests = s.requests /\ r.flight = s.flight /\ r.cache = s.cache
        /\ r.session = s.session /\ r.login = s.login /\ r.check = s.check
        /\ r.workspace = s.workspace /\ r.view = s.view /\ r.edit = s.edit
    BY <1>1, <1>3, <2>1 DEF DeleteResult, Alert, Models
  <2> HIDE DEF r
  <2>3. Keeps(s, r) /\ Pending(r) = Pending(s)
    BY <1>1, <2>2, SameKeeps
  <2>4. Fits(r, Pending(r))
    <3>1. /\ Calm(s) /\ UserFits(s) /\ FormsFit(s, {}) /\ "CurrentUser" \notin Pending(s)
          /\ Fits(s, Pending(s))
      BY <1>1, TakesCalm, Settled
    <3>2. QED
      BY <1>2, <2>2, <2>3, <3>1, TuiAssumption
      DEF Calm, Fits, UserFits, OneBlocks, GuestFits, CheckFits, LoadsFit, FormsFit, CacheFits,
          Blocking, Authenticated
  <2>5. QED
    BY <2>1, <2>2, <2>3, <2>4 DEF Follows, Changes, r
<1>4. CASE t.out # "ok"
  <2>1. DeleteResult(s, t) = Alert(s, "recordDelete") /\ "recordDelete" \in Dialogs
    BY <1>4 DEF DeleteResult, Dialogs
  <2>2. WindowFits(s, "recordDelete")
    BY <1>2 DEF WindowFits
  <2>3. QED
    BY <1>1, <2>1, <2>2, Settled, AlertFollows
<1>5. QED
  BY <1>3, <1>4

LEMMA SyncFollows ==
  ASSUME NEW s, Takes(s, "Sync"), NEW t
  PROVE  Follows(s, SyncResult(s, t))
<1>1. s \in Models /\ s.dialog \in Dialogs /\ "Sync" \in Blocking /\ "syncResult" \in Dialogs
  BY TuiAssumption DEF Takes, Blocking, Dialogs
<1>2. Fits(s, Pending(s)) /\ Quiet(s)
  BY <1>1, Settled
<1> DEFINE r == Open(s, "syncResult")
<1>3. Follows(s, r)
  BY <1>1, <1>2, PublicFits, OpenFollows
<1>4. CASE t.out = "ok" /\ s.workspace.open /\ s.workspace.source = "server"
  <2>1. SyncResult(s, t) = ListRecords(r)
    BY <1>4 DEF SyncResult, Open
  <2>2. Authenticated(s)
    BY <1>4 DEF Takes, Fits, GuestFits
  <2>3. Shows(s, r) /\ r.dialog = "syncResult" /\ r.alert = s.alert
    BY <1>1, OpenShows
  <2> HIDE DEF r
  <2>4. Keeps(s, r) /\ Pending(r) = Pending(s)
    BY <1>1, <2>3, SameKeeps DEF Shows
  <2>5. /\ Calm(s) /\ UserFits(s) /\ FormsFit(s, {})
        /\ s.edit.status # "loading" /\ s.view.status # "loading"
    BY <1>1, TakesCalm
  <2>6. /\ Calm(r) /\ UserFits(r) /\ Authenticated(r) /\ FormsFit(r, {})
        /\ r.edit.status # "loading" /\ r.view.status # "loading"
    BY <2>2, <2>3, <2>4, <2>5 DEF Shows, Calm, UserFits, Authenticated, FormsFit
  <2>7. QED
    BY <1>1, <2>1, <2>4, <2>6, ListRecordsFollows, KeepsTransitive DEF Follows
<1>5. CASE t.out = "ok" /\ ~ (s.workspace.open /\ s.workspace.source = "server")
  BY <1>3, <1>5 DEF SyncResult, Open
<1>6. CASE t.out # "ok"
  <2>1. SyncResult(s, t) = Alert(s, "sync")
    BY <1>6 DEF SyncResult
  <2>2. QED
    BY <1>1, <1>2, <2>1, PublicFits, AlertFollows
<1>7. QED
  BY <1>4, <1>5, <1>6

LEMMA CurrentUserFoundFollows ==
  ASSUME NEW s, Takes(s, "CurrentUser"), NEW login \in Logins
  PROVE  Follows(s, CurrentUserFound(s, login))
<1>1. s \in Models /\ s.dialog \in Dialogs /\ "CurrentUser" \in Blocking /\ login # NoLogin
  BY TuiAssumption DEF Takes, Blocking
<1>2. /\ Calm(s) /\ FormsFit(s, {}) /\ "CurrentUser" \notin Pending(s) /\ Pending(s) \cap Blocking = {}
      /\ s.workspace.state # "loading" /\ s.view.status # "loading" /\ s.edit.status # "loading"
  BY <1>1, TakesCalm DEF Calm
<1>3. CacheFits(s, Pending(s))
  BY DEF Takes, Fits, CacheFits
<1> DEFINE a == [s EXCEPT !.session = "authenticated", !.login = login]
           cached == s.workspace.open /\ s.workspace.source = "cache"
<1>4. /\ a \in Models /\ a.session = "authenticated" /\ a.login = login
      /\ a.requests = s.requests /\ a.flight = s.flight /\ a.cache = s.cache
      /\ a.dialog = s.dialog /\ a.alert = s.alert /\ a.check = s.check
      /\ a.workspace = s.workspace /\ a.view = s.view /\ a.edit = s.edit /\ a.deletion = s.deletion
  BY <1>1 DEF Models
<1> DEFINE q == CloseWorkspace(a)
           manual == IF s.workspace.open /\ s.login # login THEN q ELSE a
           other == IF cached THEN q ELSE a
<1>5. CASE s.check = "manual"
  <2>1. CurrentUserFound(s, login) = Open(manual, "currentUser")
    BY <1>5 DEF CurrentUserFound, Open
  <2> HIDE DEF a
  <2>2. Keeps(s, a) /\ Pending(a) = Pending(s)
    BY <1>1, <1>4, SameKeeps
  <2>3. /\ q \in Models /\ Keeps(a, q) /\ Pending(q) \subseteq Pending(a)
        /\ q.workspace = Closed
        /\ q.session = a.session /\ q.login = a.login /\ q.check = a.check
        /\ q.dialog = a.dialog /\ q.alert = a.alert
        /\ q.view = a.view /\ q.edit = a.edit /\ q.deletion = a.deletion
    BY <1>4, CloseWorkspaceKeeps
  <2> HIDE DEF q
  <2>4. Fits(a, Pending(a)) /\ Quiet(a)
    BY <1>1, <1>2, <1>3, <1>4, <2>2, TuiAssumption
    DEF Fits, UserFits, OneBlocks, GuestFits, CheckFits, LoadsFit, FormsFit, CacheFits,
        Authenticated, Quiet, Blocking
  <2>5. Fits(q, Pending(q)) /\ Quiet(q)
    BY <1>1, <1>2, <1>4, <2>2, <2>3, TuiAssumption
    DEF Fits, UserFits, OneBlocks, GuestFits, CheckFits, LoadsFit, FormsFit, CacheFits,
        Authenticated, Quiet, Blocking, Closed
  <2>6. Keeps(s, q)
    BY <1>1, <2>2, <2>3, KeepsTwice
  <2>7. manual \in Models /\ Keeps(s, manual) /\ Fits(manual, Pending(manual)) /\ Quiet(manual)
    BY <1>4, <2>2, <2>3, <2>4, <2>5, <2>6
  <2> HIDE DEF manual
  <2>8. Follows(manual, Open(manual, "currentUser"))
    BY <2>7, PublicFits, OpenFollows
  <2>9. QED
    BY <1>1, <2>1, <2>7, <2>8, KeepsTransitive DEF Follows
<1>6. CASE s.check # "manual"
  <2>1. /\ s.dialog = "none" /\ s.alert = "off" /\ "Logout" \notin Pending(s)
        /\ "BinarySave" \notin Pending(s)
    BY <1>6 DEF Takes, Fits, CheckFits
  <2>2. CurrentUserFound(s, login) = IF cached /\ s.workspace.login = login THEN a ELSE ListRecords(other)
    BY <1>6, <2>1 DEF CurrentUserFound
  <2> HIDE DEF a
  <2>3. Keeps(s, a) /\ Pending(a) = Pending(s)
    BY <1>1, <1>4, SameKeeps
  <2>4. Fits(a, Pending(a))
    BY <1>1, <1>2, <1>3, <1>4, <2>3, TuiAssumption
    DEF Fits, UserFits, OneBlocks, GuestFits, CheckFits, LoadsFit, FormsFit, CacheFits,
        Authenticated, Quiet, Blocking
  <2>5. /\ q \in Models /\ Keeps(a, q) /\ Pending(q) \subseteq Pending(a)
        /\ q.session = a.session /\ q.login = a.login
        /\ q.dialog = a.dialog /\ q.alert = a.alert
        /\ q.view = a.view /\ q.edit = a.edit /\ q.deletion = a.deletion
    BY <1>4, CloseWorkspaceKeeps
  <2> HIDE DEF q, cached
  <2>6. Keeps(s, q)
    BY <1>1, <2>3, <2>5, KeepsTwice
  <2>7. /\ Keeps(s, other) /\ Calm(other) /\ UserFits(other) /\ Authenticated(other)
        /\ FormsFit(other, {})
        /\ other.view.status # "loading" /\ other.edit.status # "loading"
    BY <1>1, <1>2, <1>4, <2>3, <2>5, <2>6 DEF Calm, UserFits, Authenticated, FormsFit
  <2> HIDE DEF other
  <2>8. Follows(other, ListRecords(other))
    BY <2>7, ListRecordsFollows
  <2>9. Follows(s, a)
    BY <1>1, <1>4, <2>3, <2>4 DEF Follows, Changes
  <2>10. QED
    BY <1>1, <2>2, <2>7, <2>8, <2>9, KeepsTransitive DEF Follows
<1>7. QED
  BY <1>5, <1>6

LEMMA CurrentUserNotFoundFollows ==
  ASSUME NEW s, Takes(s, "CurrentUser"), NEW out \in {"notLoggedIn", "failed"}
  PROVE  Follows(s, CurrentUserNotFound(s, out))
<1>1. s \in Models /\ s.dialog \in Dialogs /\ "CurrentUser" \in Blocking
  BY TuiAssumption DEF Takes, Blocking
<1>2. Fits(s, Pending(s)) /\ Quiet(s) /\ s.edit.status # "loading"
  BY <1>1, Settled, TakesCalm
<1>3. ~ Authenticated(s) => ~ (s.workspace.open /\ s.workspace.source = "server")
  BY <1>1, TakesAsGuest
<1> DEFINE c == IF s.check = "restore" /\ s.workspace.open /\ s.workspace.source = "cache"
                  THEN CloseWorkspace(s) ELSE s
<1>4. CASE s.check = "manual"
  <2>1. CurrentUserNotFound(s, out) \in {SessionExpired(s), Alert(s, "none")}
    BY <1>4 DEF CurrentUserNotFound
  <2>2. QED
    BY <1>1, <1>2, <1>3, <2>1, PublicFits, SessionExpiredFollows, AlertFollows
<1>5. CASE s.check = "reconfigure" /\ out = "failed"
  <2>1. CurrentUserNotFound(s, out) = Alert(s, s.dialog)
    BY <1>5 DEF CurrentUserNotFound
  <2>2. QED
    BY <1>1, <1>2, <2>1, AlertHere
<1>6. CASE s.check # "manual" /\ (s.check = "restore" \/ out = "notLoggedIn")
  <2>1. /\ s.dialog = "none" /\ s.alert = "off"
        /\ "Logout" \notin Pending(s) /\ "BinarySave" \notin Pending(s)
        /\ ~ (s.workspace.open /\ s.workspace.source = "server")
    BY <1>6 DEF Takes, Fits, CheckFits
  <2>2. Pending(s) = {}
    BY <1>1, <2>1, TakesCalm, TuiAssumption DEF Calm, Blocking, Pending
  <2>3. /\ c \in Models /\ Keeps(s, c) /\ Pending(c) = {}
        /\ c.dialog = "none" /\ c.alert = "off" /\ c.check = s.check
        /\ c.workspace \in {s.workspace, Closed}
        /\ c.view = s.view /\ c.edit = s.edit /\ c.deletion = s.deletion
        /\ c.workspace = s.workspace => c.cache = s.cache
    <3>1. CASE c = s
      BY <1>1, <2>1, <2>2, <3>1, SameKeeps
    <3>2. CASE c = CloseWorkspace(s) /\ s.workspace.source = "cache"
      BY <1>1, <2>1, <2>2, <3>2, CloseWorkspaceKeeps DEF Closed
    <3>3. QED
      BY <3>1, <3>2
  <2> DEFINE g == [c EXCEPT !.session = "guest", !.login = NoLogin]
  <2>4. CurrentUserNotFound(s, out) \in {Alert(g, "login"), Open(g, "login")}
    BY <1>6, <2>1 DEF CurrentUserNotFound, Open
  <2> HIDE DEF c
  <2>5. /\ g \in Models /\ g.session = "guest" /\ g.login = NoLogin
        /\ g.requests = c.requests /\ g.flight = c.flight /\ g.cache = c.cache
        /\ g.dialog = c.dialog /\ g.alert = c.alert /\ g.check = c.check
        /\ g.workspace = c.workspace /\ g.view = c.view /\ g.edit = c.edit
        /\ g.deletion = c.deletion
    BY <2>3 DEF Models
  <2> HIDE DEF g
  <2>6. Keeps(s, g) /\ Pending(g) = {}
    BY <2>3, <2>5 DEF Keeps, Pending
  <2>7. Fits(g, Pending(g)) /\ Quiet(g)
    <3>1. Fits(s, {})
      BY <1>2, <2>2
    <3>2. UserFits(g) /\ OneBlocks({}) /\ CheckFits(g, {}) /\ Quiet(g)
      BY <2>5, <2>6 DEF UserFits, OneBlocks, CheckFits, Quiet, Authenticated
    <3>3. GuestFits(g, {})
      BY <2>1, <2>3, <2>5 DEF GuestFits, Private, ShowsServerData, Closed
    <3>4. LoadsFit(g, {}) /\ FormsFit(g, {}) /\ CacheFits(g, {})
      BY <2>1, <2>3, <2>5, <3>1 DEF Fits, LoadsFit, FormsFit, CacheFits, Closed
    <3>5. QED
      BY <2>6, <3>2, <3>3, <3>4 DEF Fits
  <2>8. g.dialog \in Dialogs
    BY <1>1, <2>1, <2>3, <2>5
  <2>9. QED
    BY <1>1, <2>4, <2>5, <2>6, <2>7, <2>8, PublicFits, AlertFollows, OpenFollows, KeepsTransitive
    DEF Follows
<1>7. s.check \in {"restore", "reconfigure", "manual"}
  BY <1>1 DEF Models
<1>8. QED
  BY <1>4, <1>5, <1>6, <1>7

\* Every result that is accepted is taken by its handler.
LEMMA AppliedFollows ==
  ASSUME NEW s, NEW t \in Tasks, Takes(s, t.kind),
         t.out # "none",
         t.kind = "ViewCachedRecord" => t.out # "notLoggedIn",
         t.kind \in {"Login", "CurrentUser"} /\ t.out = "ok" => t.user # NoLogin,
         t.kind = "OpenCache" /\ t.out = "ok" => s.cache \in {t.user, NoLogin}
  PROVE  Follows(s, Applied(s, t))
<1>1. s \in Models /\ s.dialog \in Dialogs
  BY DEF Takes
<1>2. /\ t.kind \in Kinds /\ t.user \in Logins \cup {NoLogin}
      /\ t.out \in {"ok", "notLoggedIn", "failed"}
  BY DEF Tasks
<1>3. CASE EndsSession(t)
  BY <1>1, <1>3, SessionExpiredFollows DEF Applied
<1>4. CASE ~ EndsSession(t)
  <2>1. CASE t.kind = "CurrentUser"
    <3>1. Applied(s, t) = IF t.out = "ok" THEN CurrentUserFound(s, t.user)
                                          ELSE CurrentUserNotFound(s, t.out)
      BY <1>4, <2>1 DEF Applied
    <3>2. QED
      BY <1>2, <2>1, <3>1, CurrentUserFoundFollows, CurrentUserNotFoundFollows
  <2>2. CASE t.kind = "Login"
    BY <1>4, <2>2, LoginFollows DEF Applied
  <2>3. CASE t.kind = "Register"
    BY <1>4, <2>3, RegisterFollows DEF Applied
  <2>4. CASE t.kind = "Logout"
    BY <1>4, <2>4, LogoutFollows DEF Applied
  <2>5. CASE t.kind = "ServerStatus"
    <3>1. Applied(s, t) = s
      BY <1>4, <2>5 DEF Applied
    <3>2. Fits(s, Pending(s)) /\ Keeps(s, s)
      BY <1>1, <2>5, Settled, SameKeeps, TuiAssumption DEF Blocking
    <3>3. QED
      BY <1>1, <3>1, <3>2 DEF Follows, Changes
  <2>6. CASE t.kind = "ListRecords"
    BY <1>4, <2>6, ListFollows DEF Applied
  <2>7. CASE t.kind = "OpenCache"
    BY <1>4, <2>7, OpenCacheFollows DEF Applied
  <2>8. CASE t.kind = "ViewRecord"
    <3>1. t.out \in {"ok", "failed"} /\ Authenticated(s) \in BOOLEAN
      BY <1>2, <1>4, <2>8 DEF EndsSession, Authenticated
    <3>2. Applied(s, t) = ViewResult(s, t, Authenticated(s))
      BY <1>4, <2>8 DEF Applied
    <3>3. QED
      BY <2>8, <3>1, <3>2, ViewFollows
  <2>9. CASE t.kind = "ViewCachedRecord"
    <3> DEFINE wanted == s.workspace.source = "cache"
    <3>1. t.out \in {"ok", "failed"} /\ wanted \in BOOLEAN
      BY <1>2, <2>9
    <3>2. wanted <=> s.workspace.source = "cache"
      OBVIOUS
    <3>3. Applied(s, t) = ViewResult(s, t, wanted)
      BY <1>4, <2>9, Zenon DEF Applied
    <3> HIDE DEF wanted
    <3>4. QED
      BY <2>9, <3>1, <3>2, <3>3, ViewFollows
  <2>10. CASE t.kind = "LoadRecordForEdit"
    <3>1. t.out \in {"ok", "failed"}
      BY <1>2, <1>4, <2>10 DEF EndsSession
    <3>2. QED
      BY <1>4, <2>10, <3>1, LoadEditFollows DEF Applied
  <2>11. CASE t.kind = "CreateRecord"
    BY <1>4, <2>11, CreateFollows DEF Applied
  <2>12. CASE t.kind = "EditRecord"
    BY <1>4, <2>12, EditFollows DEF Applied
  <2>13. CASE t.kind = "DeleteRecord"
    BY <1>4, <2>13, DeleteFollows DEF Applied
  <2>14. CASE t.kind = "BinarySave"
    BY <1>4, <2>14, BinarySaveFollows DEF Applied
  <2>15. CASE t.kind = "Sync"
    BY <1>4, <2>15, SyncFollows DEF Applied
  <2>16. QED
    BY <1>2, <2>1, <2>2, <2>3, <2>4, <2>5, <2>6, <2>7, <2>8, <2>9, <2>10, <2>11, <2>12, <2>13,
       <2>14, <2>15, TuiAssumption
<1>5. QED
  BY <1>3, <1>4

-----------------------------------------------------------------------------
(* Steps of the user *)

\* What holds of s when the keys are not refused and no alert is up; Ready: and
\* no file is being written for a guest.
Idle(s) ==
  /\ Calm(s) /\ UserFits(s) /\ CacheFits(s, {}) /\ s.alert = "off"
  /\ s.workspace.state # "loading" /\ s.view.status # "loading" /\ s.edit.status # "loading"
  /\ ~ Authenticated(s) => /\ ~ (s.workspace.open /\ s.workspace.source = "server")
                           /\ "Logout" \notin Pending(s)

Ready(s) == Idle(s) /\ (~ Authenticated(s) => "BinarySave" \notin Pending(s))

\* s is about to be left for another window: a is what s becomes.
Leads(s, a) == a \in Models /\ Keeps(s, a) /\ Ready(a) /\ a.session = s.session

LEMMA FitsIdle ==
  ASSUME NEW s \in Models, s.dialog \in Dialogs, Fits(s, Pending(s)), ~ Busy(s), s.alert = "off"
  PROVE  /\ Idle(s) /\ WindowFits(s, s.dialog)
         /\ s.dialog # "binarySave" \/ "BinarySave" \notin Pending(s) => Ready(s)
         /\ ~ Authenticated(s) /\ s.dialog = "binarySave" => s.view.source = "cache"
<1>1. Pending(s) \cap Blocking = {}
  BY DEF Busy, Pending
<1>2. s.edit \in [status : {"idle", "loading", "ready"}, return : {"none", "recordView"}]
  BY DEF Models
<1>3. s.view.source \in {"server", "cache"}
  BY DEF Models
<1>4. /\ UserFits(s) /\ CacheFits(s, {})
      /\ s.workspace.state # "loading" /\ s.view.status # "loading" /\ s.edit.status # "loading"
  BY <1>1, TuiAssumption DEF Fits, LoadsFit, CacheFits, Blocking
<1>5. ~ Authenticated(s) => /\ ~ (s.workspace.open /\ s.workspace.source = "server")
                            /\ "Logout" \notin Pending(s)
                            /\ "BinarySave" \in Pending(s) => s.dialog = "binarySave"
                            /\ ~ Private(s, s.dialog)
  BY DEF Fits, GuestFits, NeedsSession
<1>6. WindowFits(s, s.dialog)
  BY <1>2, <1>4, <1>5 DEF WindowFits, Fits, FormsFit
<1>7. ~ Authenticated(s) /\ s.dialog = "binarySave" => s.view.source = "cache"
  BY <1>3, <1>5 DEF Private, ShowsServerData
<1>8. QED
  BY <1>1, <1>4, <1>5, <1>6, <1>7 DEF Idle, Ready, Calm

LEMMA ReadyFits ==
  ASSUME NEW s, Ready(s), WindowFits(s, s.dialog)
  PROVE  Fits(s, Pending(s)) /\ Quiet(s)
<1>1. s.edit \in [status : {"idle", "loading", "ready"}, return : {"none", "recordView"}]
  BY DEF Ready, Idle, Calm, Models
<1>2. /\ UserFits(s) /\ OneBlocks(Pending(s)) /\ CheckFits(s, Pending(s)) /\ Quiet(s)
      /\ LoadsFit(s, Pending(s)) /\ CacheFits(s, Pending(s))
  BY TuiAssumption
  DEF Ready, Idle, Calm, OneBlocks, CheckFits, LoadsFit, CacheFits, Blocking, Quiet
<1>3. GuestFits(s, Pending(s))
  BY TuiAssumption
  DEF Ready, Idle, Calm, GuestFits, Blocking, WindowFits, NeedsSession, Private, ShowsServerData
<1>4. FormsFit(s, Pending(s))
  BY <1>1, TuiAssumption DEF Ready, Idle, Calm, FormsFit, Blocking, WindowFits
<1>5. QED
  BY <1>2, <1>3, <1>4 DEF Fits

\* A window comes to the front of what is left.
LEMMA OpenReady ==
  ASSUME NEW s \in Models, NEW a, Leads(s, a), NEW d \in Dialogs, WindowFits(a, d)
  PROVE  Follows(s, Open(a, d))
<1> DEFINE r == Open(a, d)
<1>1. Shows(a, r) /\ r.dialog = d /\ r.alert = a.alert /\ a \in Models
  BY OpenShows DEF Leads
<1> HIDE DEF r
<1>2. Keeps(a, r) /\ Pending(r) = Pending(a)
  BY <1>1, SameKeeps DEF Shows
<1>3. Ready(r) /\ WindowFits(r, r.dialog)
  BY <1>1, <1>2
  DEF Leads, Shows, Ready, Idle, Calm, UserFits, CacheFits, Authenticated, WindowFits, Private,
      ShowsServerData
<1>4. Changes(s, r)
  BY <1>1, <1>2, KeepsTwice DEF Leads, Changes
<1>5. QED
  BY <1>1, <1>3, <1>4, ReadyFits DEF Follows, Shows, r

LEMMA CancelOpsLeads ==
  ASSUME NEW s \in Models, NEW K, Idle(s),
         ~ Authenticated(s) => "BinarySave" \notin Pending(s) \/ "BinarySave" \in K
  PROVE  LET a == CancelOps(s, K)
         IN Leads(s, a) /\ a.view = s.view /\ a.edit = s.edit /\ a.deletion = s.deletion
            /\ a.workspace = s.workspace /\ a.dialog = s.dialog
<1> DEFINE a == CancelOps(s, K)
<1>1. a \in Models /\ Keeps(s, a) /\ Pending(a) = Pending(s) \ K
  BY CancelOpsKeeps
<1>2. /\ a.session = s.session /\ a.login = s.login /\ a.check = s.check
      /\ a.dialog = s.dialog /\ a.alert = s.alert /\ a.cache = s.cache
      /\ a.workspace = s.workspace /\ a.view = s.view /\ a.edit = s.edit
      /\ a.deletion = s.deletion
  BY DEF CancelOps, Models
<1> HIDE DEF a
<1>3. Ready(a)
  BY <1>1, <1>2 DEF Ready, Idle, Calm, UserFits, CacheFits, Authenticated
<1>4. QED
  BY <1>1, <1>2, <1>3 DEF Leads, a

LEMMA LeaveViewLeads ==
  ASSUME NEW s \in Models, Idle(s)
  PROVE  Leads(s, LeaveView(s)) /\ LeaveView(s).workspace = s.workspace
<1> DEFINE a == LeaveView(s)
<1>1. /\ a \in Models /\ Keeps(s, a)
      /\ Pending(a) = Pending(s) \ {"ViewRecord", "ViewCachedRecord", "BinarySave"}
      /\ a.view = NoView
      /\ a.session = s.session /\ a.login = s.login /\ a.check = s.check
      /\ a.dialog = s.dialog /\ a.alert = s.alert /\ a.cache = s.cache
      /\ a.workspace = s.workspace /\ a.edit = s.edit /\ a.deletion = s.deletion
  BY LeaveViewKeeps
<1> HIDE DEF a
<1>2. Ready(a)
  BY <1>1 DEF Ready, Idle, Calm, UserFits, CacheFits, Authenticated, NoView
<1>3. QED
  BY <1>1, <1>2 DEF Leads, a

LEMMA CloseWorkspaceLeads ==
  ASSUME NEW s \in Models, Ready(s)
  PROVE  LET a == CloseWorkspace(s)
         IN Leads(s, a) /\ a.workspace = Closed /\ a.dialog = s.dialog
            /\ a.view = s.view /\ a.edit = s.edit /\ a.deletion = s.deletion
<1> DEFINE a == CloseWorkspace(s)
<1>1. /\ a \in Models /\ Keeps(s, a)
      /\ Pending(a) = Pending(s) \ {"ListRecords", "OpenCache", "ViewCachedRecord"}
      /\ a.workspace = Closed
      /\ a.session = s.session /\ a.login = s.login /\ a.check = s.check
      /\ a.dialog = s.dialog /\ a.alert = s.alert
      /\ a.view = s.view /\ a.edit = s.edit /\ a.deletion = s.deletion
  BY CloseWorkspaceKeeps
<1> HIDE DEF a
<1>2. Ready(a)
  BY <1>1 DEF Ready, Idle, Calm, UserFits, CacheFits, Authenticated, Closed
<1>3. QED
  BY <1>1, <1>2 DEF Leads, a

\* CloseCreate, CloseCacheBrowse and CloseSync.
LEMMA CancelAndCloseLeads ==
  ASSUME NEW s \in Models, Ready(s), NEW K
  PROVE  /\ Leads(s, [CancelOps(s, K) EXCEPT !.dialog = "none"])
         /\ Follows(s, [CancelOps(s, K) EXCEPT !.dialog = "none"])
<1> DEFINE c == CancelOps(s, K)
           a == Open(c, "none")
<1>1. Leads(s, c) /\ c.workspace = s.workspace /\ c \in Models /\ Keeps(s, c)
  BY CancelOpsLeads DEF Ready, Leads
<1>2. Shows(c, a) /\ a.dialog = "none" /\ a.alert = c.alert /\ "none" \in Dialogs
  BY <1>1, OpenShows DEF Dialogs
<1>3. WindowFits(c, "none")
  BY <1>1, PublicFits DEF Leads, Ready, Idle
<1>4. Follows(s, a)
  BY <1>1, <1>2, <1>3, OpenReady
<1>5. a = [CancelOps(s, K) EXCEPT !.dialog = "none"]
  BY DEF Open
<1> HIDE DEF c, a
<1>6. Keeps(c, a) /\ Pending(a) = Pending(c)
  BY <1>1, <1>2, SameKeeps DEF Shows
<1>7. Ready(a) /\ a.session = s.session
  BY <1>1, <1>2, <1>6 DEF Shows, Leads, Ready, Idle, Calm, UserFits, CacheFits, Authenticated
<1>8. Leads(s, a)
  BY <1>1, <1>2, <1>6, <1>7, KeepsTwice DEF Leads, Shows
<1>9. QED
  BY <1>4, <1>5, <1>8

LEMMA CloseEditLeads ==
  ASSUME NEW s \in Models, Ready(s), Authenticated(s)
  PROVE  Leads(s, CloseEdit(s)) /\ Follows(s, CloseEdit(s))
<1> DEFINE c == CancelOps(s, {"LoadRecordForEdit", "EditRecord"})
           d == IF s.edit.return = "recordView" /\ s.view.status = "ready"
                  THEN "recordView" ELSE "none"
           a == CloseEdit(s)
<1>1. c \in Models /\ Keeps(s, c) /\ Pending(c) = Pending(s) \ {"LoadRecordForEdit", "EditRecord"}
  BY CancelOpsKeeps
<1>2. /\ c.session = s.session /\ c.login = s.login /\ c.alert = s.alert /\ c.cache = s.cache
      /\ c.workspace = s.workspace /\ c.view = s.view /\ c.deletion = s.deletion
  BY DEF CancelOps, Models
<1>3. a = [c EXCEPT !.edit = NoEdit, !.dialog = d]
  BY DEF CloseEdit
<1>4. d \in Dialogs /\ d \in {"recordView", "none"}
  BY DEF Dialogs
<1> HIDE DEF c, d, a
<1>5. /\ a \in Models /\ a.edit = NoEdit /\ a.dialog = d
      /\ a.requests = c.requests /\ a.flight = c.flight /\ a.cache = c.cache
      /\ a.session = c.session /\ a.login = c.login /\ a.alert = c.alert
      /\ a.workspace = c.workspace /\ a.view = c.view /\ a.deletion = c.deletion
  BY <1>1, <1>3, <1>4 DEF Models, NoEdit
<1>6. Keeps(s, a) /\ Pending(a) = Pending(c)
  BY <1>1, <1>5 DEF Keeps, Pending
<1>7. Ready(a) /\ WindowFits(a, a.dialog)
  BY <1>1, <1>2, <1>4, <1>5, <1>6
  DEF Ready, Idle, Calm, UserFits, CacheFits, Authenticated, NoEdit, WindowFits
<1>8. QED
  BY <1>2, <1>4, <1>5, <1>6, <1>7, ReadyFits DEF Leads, Follows, Changes, a

LEMMA CloseDeleteLeads ==
  ASSUME NEW s \in Models, Ready(s)
  PROVE  Leads(s, CloseDelete(s)) /\ Follows(s, CloseDelete(s))
<1> DEFINE c == CancelOps(s, {"DeleteRecord"})
           a == CloseDelete(s)
<1>1. c \in Models /\ Keeps(s, c) /\ Pending(c) = Pending(s) \ {"DeleteRecord"}
  BY CancelOpsKeeps
<1>2. /\ c.session = s.session /\ c.login = s.login /\ c.alert = s.alert /\ c.cache = s.cache
      /\ c.workspace = s.workspace /\ c.view = s.view /\ c.edit = s.edit
  BY DEF CancelOps, Models
<1>3. a = [c EXCEPT !.dialog = "none", !.deletion = FALSE] /\ "none" \in Dialogs
  BY DEF CloseDelete, Dialogs
<1> HIDE DEF c, a
<1>4. /\ a \in Models /\ a.dialog = "none"
      /\ a.requests = c.requests /\ a.flight = c.flight /\ a.cache = c.cache
      /\ a.session = c.session /\ a.login = c.login /\ a.alert = c.alert
      /\ a.workspace = c.workspace /\ a.view = c.view /\ a.edit = c.edit
  BY <1>1, <1>3 DEF Models
<1>5. Keeps(s, a) /\ Pending(a) = Pending(c)
  BY <1>1, <1>4 DEF Keeps, Pending
<1>6. Ready(a)
  BY <1>1, <1>2, <1>3, <1>4, <1>5 DEF Ready, Idle, Calm, UserFits, CacheFits, Authenticated
<1>7. WindowFits(a, a.dialog)
  BY <1>4, <1>6, PublicFits DEF Ready, Idle
<1>8. QED
  BY <1>2, <1>3, <1>4, <1>5, <1>6, <1>7, ReadyFits DEF Leads, Follows, Changes, a

LEMMA LeadsItself ==
  ASSUME NEW s \in Models, Ready(s)
  PROVE  Leads(s, s)
BY SameKeeps DEF Leads

LEMMA OpenLeads ==
  ASSUME NEW s \in Models, NEW a, Leads(s, a), NEW d \in Dialogs
  PROVE  LET r == Open(a, d)
         IN Leads(s, r) /\ Shows(a, r) /\ r.dialog = d /\ (WindowFits(a, d) => WindowFits(r, d))
<1> DEFINE r == Open(a, d)
<1>1. Shows(a, r) /\ r.dialog = d /\ r.alert = a.alert /\ a \in Models
  BY OpenShows DEF Leads
<1> HIDE DEF r
<1>2. Keeps(a, r) /\ Pending(r) = Pending(a)
  BY <1>1, SameKeeps DEF Shows
<1>3. Ready(r) /\ r.session = s.session /\ r \in Models
  BY <1>1, <1>2 DEF Leads, Shows, Ready, Idle, Calm, UserFits, CacheFits, Authenticated
<1>4. Keeps(s, r)
  BY <1>2, KeepsTwice DEF Leads
<1>5. WindowFits(a, d) => WindowFits(r, d)
  BY <1>1 DEF Shows, WindowFits, Private, ShowsServerData, Authenticated
<1>6. QED
  BY <1>1, <1>3, <1>4, <1>5 DEF Leads, r

LEMMA StartFollows ==
  ASSUME NEW s \in Models, NEW a, Leads(s, a), WindowFits(a, a.dialog),
         NEW kind \in {"ServerStatus", "Logout", "Login", "Register", "CreateRecord", "EditRecord",
                       "DeleteRecord", "OpenCache", "Sync", "BinarySave"},
         NEW user \in Logins \cup {NoLogin},
         kind \in NeedsSession => Authenticated(a),
         kind = "EditRecord" => a.edit.status = "ready",
         kind = "DeleteRecord" => a.deletion,
         kind = "OpenCache" => a.workspace.source # "cache",
         kind = "BinarySave" /\ ~ Authenticated(a) => /\ a.dialog = "binarySave"
                                                      /\ a.view.source = "cache"
  PROVE  Follows(s, Start(a, kind, user))
<1> DEFINE r == Start(a, kind, user)
<1>1. kind \in Kinds /\ a \in Models /\ Keeps(s, a) /\ Ready(a)
  BY TuiAssumption DEF Leads
<1>2. r \in Models /\ Changes(a, r) /\ Pending(r) = Pending(a) \cup {kind}
  BY <1>1, StartBegins
<1>3. /\ r.session = a.session /\ r.login = a.login /\ r.check = a.check
      /\ r.dialog = a.dialog /\ r.alert = a.alert /\ r.cache = a.cache
      /\ r.workspace = a.workspace /\ r.view = a.view /\ r.edit = a.edit
      /\ r.deletion = a.deletion
  BY <1>1 DEF Start, Models
<1> HIDE DEF r
<1>4. Fits(a, Pending(a))
  BY <1>1, ReadyFits
<1>5. /\ Pending(a) \cap Blocking = {} /\ a.alert = "off"
      /\ ~ Authenticated(a) => Pending(a) = {}
  BY <1>1, TuiAssumption DEF Ready, Idle, Calm, Blocking, Pending
<1>6. UserFits(r) /\ OneBlocks(Pending(r)) /\ CacheFits(r, Pending(r))
  BY <1>2, <1>3, <1>4, <1>5, TuiAssumption DEF Fits, UserFits, OneBlocks, CacheFits, Authenticated
<1>7. CheckFits(r, Pending(r)) /\ LoadsFit(r, Pending(r)) /\ FormsFit(r, Pending(r))
  BY <1>2, <1>3, <1>4, <1>5, TuiAssumption DEF Fits, CheckFits, LoadsFit, FormsFit, Blocking
<1>8. GuestFits(r, Pending(r))
  BY <1>2, <1>3, <1>4, <1>5 DEF Fits, GuestFits, Private, ShowsServerData, Authenticated, NeedsSession
<1>9. a.dialog \in Dialogs
  BY <1>1 DEF Ready, Idle, Calm
<1>10. QED
  BY <1>1, <1>2, <1>3, <1>6, <1>7, <1>8, <1>9, KeepsTransitive DEF Follows, Fits, r

\* The window that is left behind.
LEMMA PrepareLeads ==
  ASSUME NEW s \in Models, s.dialog \in Dialogs, Idle(s), WindowFits(s, s.dialog),
         s.dialog # "binarySave" \/ "BinarySave" \notin Pending(s) => Ready(s),
         NEW a, a # "close", a = "edit" => Authenticated(s)
  PROVE  Leads(s, Prepare(s, a)) /\ (s.dialog = "none" => Prepare(s, a) = s)
<1>1. s.dialog = "none" => Prepare(s, a) = s
  BY DEF Prepare, Waits
<1>2. CASE s.dialog \in {"recordView", "binarySave", "pickSave"} /\ a # "edit"
  <2>1. Prepare(s, a) = LeaveView(s)
    BY <1>2 DEF Prepare, Waits
  <2>2. QED
    BY <1>1, <2>1, LeaveViewLeads
<1>3. CASE ~ (s.dialog \in {"recordView", "binarySave", "pickSave"} /\ a # "edit")
  <2>1. Ready(s)
    BY <1>3 DEF Ready
  <2>2. Leads(s, s)
    BY <2>1, LeadsItself
  <2>3. \A K : Leads(s, CancelOps(s, K))
    BY <2>1, CancelOpsLeads DEF Ready
  <2>4. CASE s.dialog \in {"recordType", "recordCreate", "pickCreate"} /\ a # "new"
    <3>1. Prepare(s, a) = CloseCreate(s)
      BY <2>4 DEF Prepare, Waits
    <3>2. QED
      BY <1>1, <2>1, <3>1, CancelAndCloseLeads DEF CloseCreate
  <2>5. CASE s.dialog \in {"recordEdit", "pickEdit"} /\ a # "edit"
    <3>1. Prepare(s, a) = CloseEdit(s)
      BY <2>5 DEF Prepare, Waits
    <3>2. Authenticated(s)
      BY <2>5 DEF WindowFits, Private, ShowsServerData
    <3>3. QED
      BY <1>1, <2>1, <3>1, <3>2, CloseEditLeads
  <2>6. CASE s.dialog = "recordDelete" /\ a # "delete"
    <3>1. Prepare(s, a) = CloseDelete(s)
      BY <2>6 DEF Prepare, Waits
    <3>2. QED
      BY <1>1, <2>1, <3>1, CloseDeleteLeads
  <2>7. CASE s.dialog = "cacheBrowse" /\ a # "browseCache"
    <3>1. Prepare(s, a) = CloseCacheBrowse(s)
      BY <2>7 DEF Prepare, Waits
    <3>2. QED
      BY <1>1, <2>1, <3>1, CancelAndCloseLeads DEF CloseCacheBrowse
  <2>8. CASE s.dialog \in {"sync", "syncResult"} /\ a # "synchronize"
    <3>1. Prepare(s, a) = CloseSync(s)
      BY <2>8 DEF Prepare, Waits
    <3>2. QED
      BY <1>1, <2>1, <3>1, CancelAndCloseLeads DEF CloseSync
  <2>9. CASE s.dialog \in DOMAIN Waits /\ a # s.dialog
    <3>1. Prepare(s, a) = CancelOps(s, Waits[s.dialog])
      BY <2>9 DEF Prepare, CancelWaits, Waits
    <3>2. QED
      BY <1>1, <2>3, <3>1
  <2>10. CASE /\ ~ (s.dialog \in {"recordType", "recordCreate", "pickCreate"} /\ a # "new")
              /\ ~ (s.dialog \in {"recordEdit", "pickEdit"} /\ a # "edit")
              /\ ~ (s.dialog = "recordDelete" /\ a # "delete")
              /\ ~ (s.dialog = "cacheBrowse" /\ a # "browseCache")
              /\ ~ (s.dialog \in {"sync", "syncResult"} /\ a # "synchronize")
              /\ ~ (s.dialog \in DOMAIN Waits /\ a # s.dialog)
    <3>1. Prepare(s, a) = s
      BY <1>3, <2>10 DEF Prepare
    <3>2. QED
      BY <2>2, <3>1
  <2>11. QED
    BY <2>4, <2>5, <2>6, <2>7, <2>8, <2>9, <2>10
<1>4. QED
  BY <1>2, <1>3

\* A check that the user asks for.
LEMMA ManualCheckFollows ==
  ASSUME NEW s \in Models, NEW a, Leads(s, a), WindowFits(a, a.dialog), Authenticated(a)
  PROVE  Follows(s, CheckCurrentUser(a, "manual"))
<1> DEFINE b == CancelOps(a, {"Logout"})
           c == [b EXCEPT !.check = "manual"]
           r == Start(c, "CurrentUser", NoLogin)
<1>1. CheckCurrentUser(a, "manual") = r
  BY DEF CheckCurrentUser
<1>2. a \in Models /\ Keeps(s, a) /\ Ready(a) /\ a.dialog \in Dialogs
  BY DEF Leads, Ready, Idle, Calm
<1>3. /\ b \in Models /\ Keeps(a, b) /\ Pending(b) = Pending(a) \ {"Logout"}
      /\ b.session = a.session /\ b.login = a.login /\ b.dialog = a.dialog /\ b.alert = a.alert
      /\ b.workspace = a.workspace /\ b.view = a.view /\ b.edit = a.edit
      /\ b.deletion = a.deletion /\ b.cache = a.cache
  BY <1>2, CancelOpsKeeps, CancelOpsFields
<1> HIDE DEF b
<1>4. /\ c \in Models /\ c.check = "manual"
      /\ c.requests = b.requests /\ c.flight = b.flight /\ c.cache = b.cache
      /\ c.session = b.session /\ c.login = b.login /\ c.dialog = b.dialog /\ c.alert = b.alert
      /\ c.workspace = b.workspace /\ c.view = b.view /\ c.edit = b.edit
      /\ c.deletion = b.deletion
  BY <1>3 DEF Models
<1> HIDE DEF c
<1>5. Keeps(b, c) /\ Pending(c) = Pending(b)
  BY <1>3, <1>4, SameKeeps
<1>6. Keeps(s, c)
  BY <1>2, <1>3, <1>5, KeepsTwice
<1>7. /\ r \in Models /\ Changes(c, r) /\ Pending(r) = Pending(c) \cup {"CurrentUser"}
      /\ r.session = c.session /\ r.login = c.login /\ r.dialog = c.dialog /\ r.alert = c.alert
      /\ r.workspace = c.workspace /\ r.view = c.view /\ r.edit = c.edit
      /\ r.deletion = c.deletion /\ r.cache = c.cache /\ r.check = c.check
  <2>1. "CurrentUser" \in Kinds
    BY TuiAssumption
  <2>2. r \in Models /\ Changes(c, r) /\ Pending(r) = Pending(c) \cup {"CurrentUser"}
    BY <1>4, <2>1, StartBegins
  <2>3. QED
    BY <1>4, <2>2, StartFields
<1> HIDE DEF r
<1>8. Fits(a, Pending(a))
  BY <1>2, ReadyFits
<1>9. Fits(r, Pending(r))
  BY <1>2, <1>3, <1>4, <1>5, <1>7, <1>8, TuiAssumption
  DEF Ready, Idle, Calm, Fits, UserFits, OneBlocks, GuestFits, CheckFits, LoadsFit, FormsFit,
      CacheFits, Authenticated, Blocking
<1>10. QED
  BY <1>1, <1>2, <1>3, <1>4, <1>6, <1>7, <1>9, KeepsTransitive DEF Follows

\* The check at the start, or after a change of the configuration.
LEMMA CheckFollows ==
  ASSUME NEW s \in Models, Pending(s) = {}, s.dialog = "none", s.alert = "off",
         UserFits(s), CacheFits(s, {}), ~ (s.workspace.open /\ s.workspace.source = "server"),
         s.workspace.state # "loading", s.view.status # "loading", s.edit.status # "loading",
         NEW mode \in {"restore", "reconfigure"}
  PROVE  Follows(s, CheckCurrentUser(s, mode))
<1> DEFINE b == CancelOps(s, {"Logout"})
           c == [b EXCEPT !.check = mode]
           u == IF mode = "restore" THEN [c EXCEPT !.session = "unknown", !.login = NoLogin] ELSE c
           r == Start(u, "CurrentUser", NoLogin)
<1>1. CheckCurrentUser(s, mode) = r
  BY DEF CheckCurrentUser
<1>2. /\ b \in Models /\ Keeps(s, b) /\ Pending(b) = {}
      /\ b.session = s.session /\ b.login = s.login /\ b.dialog = s.dialog /\ b.alert = s.alert
      /\ b.workspace = s.workspace /\ b.view = s.view /\ b.edit = s.edit
      /\ b.deletion = s.deletion /\ b.cache = s.cache
  BY CancelOpsKeeps, CancelOpsFields
<1> HIDE DEF b
<1>3. /\ c \in Models /\ c.check = mode
      /\ c.requests = b.requests /\ c.flight = b.flight /\ c.cache = b.cache
      /\ c.session = b.session /\ c.login = b.login /\ c.dialog = b.dialog /\ c.alert = b.alert
      /\ c.workspace = b.workspace /\ c.view = b.view /\ c.edit = b.edit
      /\ c.deletion = b.deletion
  BY <1>2 DEF Models
<1> HIDE DEF c
<1>4. /\ u \in Models /\ u.check = mode /\ UserFits(u)
      /\ u.requests = b.requests /\ u.flight = b.flight /\ u.cache = b.cache
      /\ u.dialog = "none" /\ u.alert = "off"
      /\ u.workspace = s.workspace /\ u.view = s.view /\ u.edit = s.edit
      /\ u.deletion = s.deletion
  <2>1. CASE mode = "restore"
    <3>1. /\ u = [c EXCEPT !.session = "unknown", !.login = NoLogin]
          /\ NoLogin \in Logins \cup {NoLogin}
      BY <2>1
    <3> HIDE DEF u
    <3>2. /\ u \in Models /\ u.check = c.check /\ u.session = "unknown" /\ u.login = NoLogin
          /\ u.requests = c.requests /\ u.flight = c.flight /\ u.cache = c.cache
          /\ u.dialog = c.dialog /\ u.alert = c.alert
          /\ u.workspace = c.workspace /\ u.view = c.view /\ u.edit = c.edit
          /\ u.deletion = c.deletion
      BY <1>3, <3>1 DEF Models
    <3>3. UserFits(u)
      BY <3>2 DEF UserFits, Authenticated
    <3>4. QED
      BY <1>2, <1>3, <3>2, <3>3
  <2>2. CASE mode # "restore"
    BY <1>2, <1>3, <2>2 DEF UserFits, Authenticated
  <2>3. QED
    BY <2>1, <2>2
<1> HIDE DEF u
<1>5. Keeps(b, u) /\ Pending(u) = {} /\ u.cache = s.cache
  BY <1>2, <1>3, <1>4, SameKeeps
<1>6. Keeps(s, u)
  BY <1>2, <1>5, KeepsTwice
<1>7. /\ r \in Models /\ Changes(u, r) /\ Pending(r) = {"CurrentUser"}
      /\ r.session = u.session /\ r.login = u.login /\ r.dialog = u.dialog /\ r.alert = u.alert
      /\ r.workspace = u.workspace /\ r.view = u.view /\ r.edit = u.edit
      /\ r.deletion = u.deletion /\ r.cache = u.cache /\ r.check = u.check
  <2>1. "CurrentUser" \in Kinds
    BY TuiAssumption
  <2>2. r \in Models /\ Changes(u, r) /\ Pending(r) = Pending(u) \cup {"CurrentUser"}
    BY <1>4, <2>1, StartBegins
  <2>3. QED
    BY <1>4, <1>5, <2>2, StartFields
<1> HIDE DEF r
<1>8. Fits(r, Pending(r))
  BY <1>4, <1>5, <1>7
  DEF Fits, UserFits, OneBlocks, GuestFits, CheckFits, LoadsFit, FormsFit, CacheFits,
      Authenticated, Private, ShowsServerData, NeedsSession
<1>9. QED
  BY <1>1, <1>4, <1>6, <1>7, <1>8, KeepsTransitive DEF Follows, Dialogs

LEMMA ReconfiguredFollows ==
  ASSUME NEW s \in Models, Idle(s), NEW dir \in Dirs, NEW cacheToo \in BOOLEAN
  PROVE  Follows(s, Reconfigured(s, dir, cacheToo))
<1> DEFINE all == CancelOps(s, Kinds)
           clear == cacheToo \/ s.workspace.source = "server"
           cleared == IF clear THEN ClearRecords(all) ELSE all
           x == [cleared EXCEPT !.dir = dir, !.dialog = "none"]
           mode == IF dir = s.dir THEN "reconfigure" ELSE "restore"
<1>1. Reconfigured(s, dir, cacheToo) = CheckCurrentUser(x, mode)
  BY DEF Reconfigured
<1>2. /\ all \in Models /\ Keeps(s, all) /\ Pending(all) = {}
      /\ all.session = s.session /\ all.login = s.login /\ all.alert = s.alert
      /\ all.workspace = s.workspace /\ all.view = s.view /\ all.edit = s.edit
      /\ all.cache = s.cache
  BY CancelOpsKeeps, CancelOpsFields DEF Pending
<1> HIDE DEF all
<1>3. /\ cleared \in Models /\ Keeps(s, cleared) /\ Pending(cleared) = {}
      /\ cleared.session = s.session /\ cleared.login = s.login /\ cleared.alert = s.alert
      /\ ~ (cleared.workspace.open /\ cleared.workspace.source = "server")
      /\ CacheFits(cleared, {}) /\ cleared.workspace.state # "loading"
      /\ cleared.view.status # "loading" /\ cleared.edit.status # "loading"
  <2>1. CASE clear
    <3>1. /\ ClearRecords(all) \in Models /\ Keeps(all, ClearRecords(all))
          /\ Pending(ClearRecords(all)) = {}
          /\ ClearRecords(all).workspace = Closed /\ ClearRecords(all).view = NoView
          /\ ClearRecords(all).edit = NoEdit
          /\ ClearRecords(all).session = s.session /\ ClearRecords(all).login = s.login
          /\ ClearRecords(all).alert = s.alert
      BY <1>2, ClearRecordsKeeps
    <3>2. Keeps(s, ClearRecords(all))
      BY <1>2, <3>1, KeepsTwice
    <3>3. QED
      BY <2>1, <3>1, <3>2 DEF Closed, NoView, NoEdit, CacheFits
  <2>2. CASE ~ clear
    BY <1>2, <2>2 DEF Idle, CacheFits
  <2>3. QED
    BY <2>1, <2>2
<1> HIDE DEF cleared
<1>4. /\ x \in Models /\ x.dialog = "none"
      /\ x.requests = cleared.requests /\ x.flight = cleared.flight /\ x.cache = cleared.cache
      /\ x.session = cleared.session /\ x.login = cleared.login /\ x.alert = cleared.alert
      /\ x.workspace = cleared.workspace /\ x.view = cleared.view /\ x.edit = cleared.edit
  <2>1. "none" \in Dialogs
    BY DEF Dialogs
  <2>2. QED
    BY <1>3, <2>1 DEF Models
<1> HIDE DEF x
<1>5. Keeps(s, x) /\ Pending(x) = {}
  BY <1>3, <1>4 DEF Keeps, Pending
<1>6. UserFits(x) /\ CacheFits(x, {}) /\ x.alert = "off"
  BY <1>3, <1>4 DEF Idle, UserFits, CacheFits, Authenticated
<1>7. mode \in {"restore", "reconfigure"}
  OBVIOUS
<1> HIDE DEF mode
<1>8. Follows(x, CheckCurrentUser(x, mode))
  BY <1>3, <1>4, <1>5, <1>6, <1>7, CheckFollows
<1>9. QED
  BY <1>1, <1>5, <1>8, KeepsTransitive DEF Follows

LEMMA BeginViewFollows ==
  ASSUME NEW s \in Models, Ready(s), s.workspace.open,
         NEW source \in {"server", "cache"}, Selected(s, source)
  PROVE  Follows(s, BeginView(s))
<1> DEFINE v == [status |-> "loading", source |-> s.workspace.source]
           c == [s EXCEPT !.view = v, !.dialog = "recordView"]
           kind == IF s.workspace.source = "cache" THEN "ViewCachedRecord" ELSE "ViewRecord"
           r == BeginView(s)
<1>1. r = Start(c, kind, NoLogin)
  BY DEF BeginView
<1>2. /\ s.workspace.source = source /\ s.workspace.state = "ready"
      /\ source = "server" => Authenticated(s)
      /\ v \in [status : {"idle", "loading", "ready"}, source : {"server", "cache"}]
      /\ v.status = "loading" /\ v.source = source /\ kind \in Kinds
      /\ kind = IF source = "cache" THEN "ViewCachedRecord" ELSE "ViewRecord"
      /\ "recordView" \in Dialogs
  BY TuiAssumption DEF Selected, Ready, Idle, Dialogs
<1> HIDE DEF v, kind
<1>3. /\ c \in Models /\ c.view = v /\ c.dialog = "recordView"
      /\ c.requests = s.requests /\ c.flight = s.flight /\ c.cache = s.cache
      /\ c.session = s.session /\ c.login = s.login /\ c.alert = s.alert
      /\ c.workspace = s.workspace /\ c.edit = s.edit /\ c.deletion = s.deletion
  BY <1>2 DEF Models
<1> HIDE DEF c
<1>4. Keeps(s, c) /\ Pending(c) = Pending(s)
  BY <1>3, SameKeeps
<1>5. r \in Models /\ Changes(c, r) /\ Pending(r) = Pending(c) \cup {kind}
  BY <1>1, <1>2, <1>3, StartBegins
<1>6. /\ r.view = c.view /\ r.dialog = c.dialog /\ r.session = c.session /\ r.login = c.login
      /\ r.alert = c.alert /\ r.workspace = c.workspace /\ r.edit = c.edit
      /\ r.deletion = c.deletion /\ r.cache = c.cache
  BY <1>1, <1>3, StartFields
<1> HIDE DEF r
<1>7. Fits(r, Pending(r))
  BY <1>2, <1>3, <1>4, <1>5, <1>6, TuiAssumption
  DEF Ready, Idle, Calm, Fits, UserFits, OneBlocks, GuestFits, CheckFits, LoadsFit, FormsFit,
      CacheFits, Authenticated, Blocking, Private, ShowsServerData, NeedsSession
<1>8. QED
  BY <1>2, <1>3, <1>4, <1>5, <1>6, <1>7, KeepsTransitive DEF Follows, r

LEMMA OpenEditFollows ==
  ASSUME NEW s \in Models, NEW a, Leads(s, a), Authenticated(a)
  PROVE  Follows(s, OpenEdit(a))
<1>1. a \in Models /\ Ready(a) /\ Keeps(s, a) /\ "recordEdit" \in Dialogs
  BY DEF Leads, Dialogs
<1> DEFINE r == OpenEdit(a)
<1>2. CASE Viewing(a)
  <2> DEFINE c == CancelOps(a, {"LoadRecordForEdit", "EditRecord"})
             e == [status |-> "ready", return |-> "recordView"]
  <2>1. /\ c \in Models /\ Keeps(a, c)
        /\ Pending(c) = Pending(a) \ {"LoadRecordForEdit", "EditRecord"}
        /\ c.session = a.session /\ c.login = a.login /\ c.alert = a.alert
        /\ c.workspace = a.workspace /\ c.view = a.view /\ c.deletion = a.deletion
        /\ c.cache = a.cache
    BY <1>1, CancelOpsKeeps, CancelOpsFields
  <2>2. /\ r = [c EXCEPT !.edit = e, !.dialog = "recordEdit"]
        /\ e \in [status : {"idle", "loading", "ready"}, return : {"none", "recordView"}]
        /\ e.status = "ready"
    BY <1>2 DEF OpenEdit
  <2> HIDE DEF c, e, r
  <2>3. /\ r \in Models /\ r.edit = e /\ r.dialog = "recordEdit"
        /\ r.requests = c.requests /\ r.flight = c.flight /\ r.cache = c.cache
        /\ r.session = c.session /\ r.login = c.login /\ r.alert = c.alert
        /\ r.workspace = c.workspace /\ r.view = c.view /\ r.deletion = c.deletion
    BY <1>1, <2>1, <2>2 DEF Models
  <2>4. Keeps(a, r) /\ Pending(r) = Pending(c)
    BY <2>1, <2>3 DEF Keeps, Pending
  <2>5. Ready(r) /\ WindowFits(r, r.dialog)
    BY <1>1, <2>1, <2>2, <2>3, <2>4
    DEF Ready, Idle, Calm, UserFits, CacheFits, Authenticated, WindowFits
  <2>6. QED
    BY <1>1, <2>3, <2>4, <2>5, ReadyFits, KeepsTwice DEF Follows, Changes, r
<1>3. CASE ~ Viewing(a)
  <2> DEFINE c == CancelOps(a, {"EditRecord"})
             b == Start(c, "LoadRecordForEdit", NoLogin)
             e == [status |-> "loading", return |-> "none"]
  <2>1. /\ c \in Models /\ Keeps(a, c) /\ Pending(c) = Pending(a) \ {"EditRecord"}
        /\ c.session = a.session /\ c.login = a.login /\ c.alert = a.alert
        /\ c.workspace = a.workspace /\ c.view = a.view /\ c.deletion = a.deletion
        /\ c.cache = a.cache
    BY <1>1, CancelOpsKeeps, CancelOpsFields
  <2>2. /\ r = [b EXCEPT !.edit = e, !.dialog = "recordEdit"]
        /\ e \in [status : {"idle", "loading", "ready"}, return : {"none", "recordView"}]
        /\ e.status = "loading" /\ "LoadRecordForEdit" \in Kinds
    BY <1>3, TuiAssumption DEF OpenEdit
  <2> HIDE DEF c, e, r
  <2>3. b \in Models /\ Changes(c, b) /\ Pending(b) = Pending(c) \cup {"LoadRecordForEdit"}
    BY <2>1, <2>2, StartBegins
  <2>4. /\ b.session = c.session /\ b.login = c.login /\ b.alert = c.alert /\ b.cache = c.cache
        /\ b.workspace = c.workspace /\ b.view = c.view /\ b.deletion = c.deletion
    BY <2>1, StartFields
  <2> HIDE DEF b
  <2>5. /\ r \in Models /\ r.edit = e /\ r.dialog = "recordEdit"
        /\ r.requests = b.requests /\ r.flight = b.flight /\ r.cache = b.cache
        /\ r.session = b.session /\ r.login = b.login /\ r.alert = b.alert
        /\ r.workspace = b.workspace /\ r.view = b.view /\ r.deletion = b.deletion
    BY <1>1, <2>2, <2>3 DEF Models
  <2>6. Changes(c, r) /\ Pending(r) = Pending(b)
    BY <2>3, <2>5 DEF Changes, Keeps, Begins, Pending
  <2>7. Changes(s, r)
    BY <1>1, <2>1, <2>6, KeepsTransitive
  <2>8. Fits(r, Pending(r))
    BY <1>1, <2>1, <2>2, <2>3, <2>4, <2>5, <2>6, TuiAssumption
    DEF Ready, Idle, Calm, Fits, UserFits, OneBlocks, GuestFits, CheckFits, LoadsFit, FormsFit,
        CacheFits, Authenticated, Blocking
  <2>9. QED
    BY <1>1, <2>5, <2>7, <2>8 DEF Follows, r
<1>4. QED
  BY <1>2, <1>3

LEMMA LeadsTwice ==
  ASSUME NEW s \in Models, NEW a, NEW b, Leads(s, a), Leads(a, b)
  PROVE  Leads(s, b)
BY KeepsTwice DEF Leads

\* The window in front, once the keys are not refused and no alert is up.
Front(s) ==
  /\ s \in Models /\ s.dialog \in Dialogs /\ Idle(s) /\ WindowFits(s, s.dialog)
  /\ s.dialog # "binarySave" \/ "BinarySave" \notin Pending(s) => Ready(s)
  /\ ~ Authenticated(s) /\ s.dialog = "binarySave" => s.view.source = "cache"

LEMMA WithoutCacheLeads ==
  ASSUME NEW s \in Models, Ready(s)
  PROVE  Leads(s, WithoutCache(s))
BY CloseWorkspaceLeads, LeadsItself DEF WithoutCache

\* The list comes to the front.
LEMMA ListReady ==
  ASSUME NEW s \in Models, NEW a, Leads(s, a)
  PROVE  Follows(s, Open(a, "none"))
<1>1. WindowFits(a, "none") /\ "none" \in Dialogs
  BY PublicFits DEF Leads, Ready, Idle
<1>2. QED
  BY <1>1, OpenReady

LEMMA CloseDialogFollows ==
  ASSUME NEW s, Front(s)
  PROVE  Follows(s, CloseDialog(s))
<1>1. s \in Models /\ s.view.source \in {"server", "cache"}
  BY DEF Front, Models
<1>2. CASE s.dialog \in DOMAIN PickerParent
  <2> DEFINE d == PickerParent[s.dialog]
  <2>1. s.dialog \in {"pickConfig", "pickSave", "pickCreate", "pickEdit"}
    BY <1>2 DEF PickerParent
  <2>2. CloseDialog(s) = Open(s, d)
    <3> DEFINE o == Open(s, d)
    <3> HIDE DEF o
    <3>1. CloseDialog(s) = o
      BY <1>2, <2>1 DEF CloseDialog, o
    <3>2. QED
      BY <3>1 DEF o
  <2>3. Ready(s) /\ Leads(s, s)
    BY <2>1, LeadsItself DEF Front
  <2>4. d \in Dialogs /\ WindowFits(s, d)
    BY <1>1, <2>1 DEF Front, PickerParent, WindowFits, Private, ShowsServerData, Dialogs
  <2>5. QED
    BY <1>1, <2>2, <2>3, <2>4, OpenReady
<1>3. CASE s.dialog = "recordView"
  <2>1. CloseDialog(s) = Open(LeaveView(s), "none")
    BY <1>3 DEF CloseDialog, PickerParent
  <2>2. QED
    BY <1>1, <2>1, LeaveViewLeads, ListReady DEF Front
<1>4. CASE s.dialog = "binarySave"
  <2> DEFINE a == CancelOps(s, {"BinarySave"})
  <2>1. CloseDialog(s) = Open(a, "recordView")
    BY <1>4 DEF CloseDialog, PickerParent
  <2>2. Leads(s, a) /\ a.view = s.view
    BY <1>1, CancelOpsLeads DEF Front
  <2>3. Authenticated(a) \/ a.view.source = "cache"
    BY <1>4, <2>2 DEF Front, Leads, Authenticated
  <2> HIDE DEF a
  <2>4. "recordView" \in Dialogs /\ WindowFits(a, "recordView")
    BY <2>3, PublicFits
  <2>5. QED
    BY <1>1, <2>1, <2>2, <2>4, OpenReady
<1>5. CASE s.dialog \notin DOMAIN PickerParent \cup {"recordView", "binarySave"}
  <2>1. Ready(s) /\ s \in Models
    BY <1>5 DEF Front
  <2>2. CASE s.dialog \in {"recordType", "recordCreate"}
    <3>1. CloseDialog(s) = CloseCreate(s)
      BY <1>5, <2>2 DEF CloseDialog
    <3>2. QED
      BY <2>1, <3>1, CancelAndCloseLeads DEF CloseCreate
  <2>3. CASE s.dialog = "recordEdit"
    <3>1. CloseDialog(s) = CloseEdit(s)
      BY <1>5, <2>3 DEF CloseDialog
    <3>2. Authenticated(s)
      BY <2>3 DEF Front, WindowFits, Private, ShowsServerData
    <3>3. QED
      BY <2>1, <3>1, <3>2, CloseEditLeads
  <2>4. CASE s.dialog = "recordDelete"
    <3>1. CloseDialog(s) = CloseDelete(s)
      BY <1>5, <2>4 DEF CloseDialog
    <3>2. QED
      BY <2>1, <3>1, CloseDeleteLeads
  <2>5. CASE s.dialog = "cacheBrowse"
    <3>1. CloseDialog(s) = CloseCacheBrowse(s)
      BY <1>5, <2>5 DEF CloseDialog
    <3>2. QED
      BY <2>1, <3>1, CancelAndCloseLeads DEF CloseCacheBrowse
  <2>6. CASE s.dialog \in {"sync", "syncResult"}
    <3>1. CloseDialog(s) = CloseSync(s)
      BY <1>5, <2>6 DEF CloseDialog
    <3>2. QED
      BY <2>1, <3>1, CancelAndCloseLeads DEF CloseSync
  <2>7. CASE s.dialog \notin {"recordType", "recordCreate", "recordEdit", "recordDelete",
                              "cacheBrowse", "sync", "syncResult"}
    <3>1. CloseDialog(s) = Open(CancelWaits(s), "none")
      BY <1>5, <2>7 DEF CloseDialog
    <3>2. Leads(s, s) /\ \A K : Leads(s, CancelOps(s, K))
      BY <2>1, LeadsItself, CancelOpsLeads DEF Ready
    <3>3. Leads(s, CancelWaits(s))
      BY <3>2 DEF CancelWaits
    <3>4. QED
      BY <2>1, <3>1, <3>3, ListReady
  <2>8. QED
    BY <2>2, <2>3, <2>4, <2>5, <2>6, <2>7
<1>6. QED
  BY <1>2, <1>3, <1>4, <1>5

LEMMA CloseFollows ==
  ASSUME NEW s, Front(s)
  PROVE  Follows(s, Perform(s, "close"))
<1>1. CASE s.dialog # "none"
  <2>1. Perform(s, "close") = CloseDialog(s)
    BY <1>1 DEF Perform, OpenWindow
  <2>2. QED
    BY <2>1, CloseDialogFollows
<1>2. CASE s.dialog = "none"
  <2> DEFINE a == CloseWorkspace(s)
  <2>1. Perform(s, "close") = a
    BY <1>2 DEF Perform, OpenWindow
  <2>2. Leads(s, a) /\ a.dialog = "none" /\ s \in Models
    BY <1>2, CloseWorkspaceLeads DEF Front
  <2> HIDE DEF a
  <2>3. WindowFits(a, a.dialog) /\ a.dialog \in Dialogs
    BY <2>2, PublicFits DEF Leads, Ready, Idle
  <2>4. Fits(a, Pending(a))
    BY <2>2, <2>3, ReadyFits DEF Leads
  <2>5. QED
    BY <2>1, <2>2, <2>3, <2>4 DEF Leads, Follows, Changes
<1>3. QED
  BY <1>1, <1>2

\* cancelSessionCheckForManualAuth, and the form.
LEMMA AsGuestFollows ==
  ASSUME NEW s \in Models, NEW a, Leads(s, a), ~ Authenticated(s), NEW d \in {"login", "register"}
  PROVE  Follows(s, Open(AsGuest(a), d))
<1> DEFINE c == CancelOps(a, {"CurrentUser"})
           g == AsGuest(a)
<1>1. a \in Models /\ Ready(a) /\ ~ Authenticated(a)
  BY DEF Leads, Authenticated
<1>2. Leads(s, c) /\ c.session = a.session
  <2>1. Leads(a, c)
    BY <1>1, CancelOpsLeads DEF Ready
  <2>2. QED
    BY <1>1, <2>1, LeadsTwice DEF Leads
<1>3. c \in Models /\ Ready(c) /\ Keeps(s, c) /\ ~ Authenticated(c)
  BY <1>1, <1>2 DEF Leads, Authenticated
<1>4. g \in {c, [c EXCEPT !.session = "guest"]}
  BY DEF AsGuest
<1> HIDE DEF c, g
<1>5. /\ g \in Models /\ ~ Authenticated(g)
      /\ g.requests = c.requests /\ g.flight = c.flight /\ g.cache = c.cache
      /\ g.login = c.login /\ g.dialog = c.dialog /\ g.alert = c.alert
      /\ g.workspace = c.workspace /\ g.view = c.view /\ g.edit = c.edit
      /\ g.deletion = c.deletion
  BY <1>3, <1>4 DEF Models, Authenticated
<1>6. Keeps(c, g) /\ Pending(g) = Pending(c)
  BY <1>3, <1>5, SameKeeps
<1>7. Ready(g)
  BY <1>3, <1>5, <1>6 DEF Ready, Idle, Calm, UserFits, CacheFits
<1>8. Leads(g, g) /\ d \in Dialogs /\ WindowFits(g, d)
  BY <1>5, <1>7, LeadsItself, PublicFits
<1>9. Follows(g, Open(g, d))
  BY <1>5, <1>8, OpenReady
<1>10. Keeps(s, g)
  BY <1>3, <1>6, KeepsTwice
<1>11. QED
  BY <1>9, <1>10, KeepsTransitive DEF Follows, g

\* The question whether to delete a record.
LEMMA AskDeleteFollows ==
  ASSUME NEW s \in Models, NEW a, Leads(s, a), Authenticated(a)
  PROVE  Follows(s, [Open(a, "recordDelete") EXCEPT !.deletion = TRUE])
<1> DEFINE c == Open(a, "recordDelete")
           r == [c EXCEPT !.deletion = TRUE]
<1>1. "recordDelete" \in Dialogs
  BY DEF Dialogs
<1>2. Leads(s, c) /\ c.dialog = "recordDelete" /\ Shows(a, c)
  BY <1>1, OpenLeads
<1>3. c \in Models /\ Ready(c) /\ Keeps(s, c) /\ Authenticated(c)
  BY <1>2 DEF Leads, Shows, Authenticated
<1> HIDE DEF c
<1>4. /\ r \in Models /\ r.deletion /\ r.dialog = "recordDelete"
      /\ r.requests = c.requests /\ r.flight = c.flight /\ r.cache = c.cache
      /\ r.session = c.session /\ r.login = c.login /\ r.alert = c.alert
      /\ r.workspace = c.workspace /\ r.view = c.view /\ r.edit = c.edit
  BY <1>2, <1>3 DEF Models
<1> HIDE DEF r
<1>5. Keeps(c, r) /\ Pending(r) = Pending(c)
  BY <1>3, <1>4, SameKeeps
<1>6. Ready(r) /\ WindowFits(r, r.dialog)
  BY <1>1, <1>3, <1>4, <1>5
  DEF Ready, Idle, Calm, UserFits, CacheFits, Authenticated, WindowFits
<1>7. QED
  BY <1>1, <1>3, <1>4, <1>5, <1>6, ReadyFits, KeepsTwice DEF Follows, Changes, r, c

LEMMA OpenWindowFollows ==
  ASSUME NEW s \in Models, NEW b, Leads(s, b), NEW a \in {"serverStatus", "config", "info"}
  PROVE  Follows(s, OpenWindow(b, a))
<1>1. a \in Dialogs /\ WindowFits(b, a)
  BY PublicFits
<1>2. CASE a = "serverStatus"
  <2> DEFINE o == Open(b, a)
  <2>1. Leads(s, o) /\ WindowFits(o, a) /\ o.dialog = a
    BY <1>1, OpenLeads
  <2>2. OpenWindow(b, a) = Start(o, "ServerStatus", NoLogin)
    BY <1>2 DEF OpenWindow
  <2> HIDE DEF o
  <2>3. Follows(s, Start(o, "ServerStatus", NoLogin))
    BY <2>1, StartFollows DEF NeedsSession
  <2>4. QED
    BY <2>2, <2>3
<1>3. CASE a # "serverStatus"
  <2>1. OpenWindow(b, a) = Open(b, a)
    BY <1>3 DEF OpenWindow
  <2>2. QED
    BY <1>1, <2>1, OpenReady
<1>4. QED
  BY <1>2, <1>3

LEMMA AccountActionFollows ==
  ASSUME NEW s \in Models, NEW b, Leads(s, b),
         NEW a \in {"login", "register", "currentUser", "logout"}, Enabled(s, a)
  PROVE  Follows(s, AccountAction(b, a))
<1>1. CASE a \in {"login", "register"}
  <2>1. ~ Authenticated(s)
    BY <1>1 DEF Enabled
  <2>2. AccountAction(b, a) = Open(AsGuest(b), a)
    BY <1>1 DEF AccountAction
  <2>3. QED
    BY <1>1, <2>1, <2>2, AsGuestFollows
<1>2. CASE a = "currentUser"
  <2> DEFINE o == Open(b, a)
  <2>1. Authenticated(s)
    BY <1>2 DEF Enabled
  <2>2. a \in Dialogs /\ WindowFits(b, a)
    BY <1>2, PublicFits
  <2>3. Leads(s, o) /\ WindowFits(o, a) /\ o.dialog = a
    BY <2>2, OpenLeads
  <2>4. AccountAction(b, a) = CheckCurrentUser(o, "manual")
    BY <1>2 DEF AccountAction
  <2> HIDE DEF o
  <2>5. Authenticated(o)
    BY <2>1, <2>3 DEF Leads, Authenticated
  <2>6. QED
    BY <2>3, <2>4, <2>5, ManualCheckFollows
<1>3. CASE a = "logout"
  <2> DEFINE c == CancelOps(b, {"CurrentUser"})
             o == Open(c, "none")
  <2>1. Authenticated(s)
    BY <1>3 DEF Enabled
  <2>2. b \in Models /\ Ready(b)
    BY DEF Leads
  <2>3. Leads(b, c)
    BY <2>2, CancelOpsLeads DEF Ready
  <2>4. Leads(s, c)
    BY <2>2, <2>3, LeadsTwice
  <2>5. AccountAction(b, a) = Start(o, "Logout", NoLogin)
    BY <1>3 DEF AccountAction
  <2> HIDE DEF c
  <2>6. "none" \in Dialogs /\ WindowFits(c, "none")
    BY <2>4, PublicFits DEF Leads, Ready, Idle
  <2>7. Leads(s, o) /\ WindowFits(o, "none") /\ o.dialog = "none"
    BY <2>4, <2>6, OpenLeads
  <2> HIDE DEF o
  <2>8. Authenticated(o)
    BY <2>1, <2>7 DEF Leads, Authenticated
  <2>9. Follows(s, Start(o, "Logout", NoLogin))
    BY <2>7, <2>8, StartFollows
  <2>10. QED
    BY <2>5, <2>9
<1>4. QED
  BY <1>1, <1>2, <1>3

LEMMA BrowseFollows ==
  ASSUME NEW s \in Models, NEW b, Leads(s, b), Authenticated(b)
  PROVE  Follows(s, ListRecords(Open(b, "none")))
<1> DEFINE o == Open(b, "none")
<1>1. "none" \in Dialogs
  BY DEF Dialogs
<1>2. Leads(s, o) /\ Shows(b, o) /\ o.dialog = "none"
  BY <1>1, OpenLeads
<1> HIDE DEF o
<1>3. Ready(o) /\ Keeps(s, o) /\ Authenticated(o)
  BY <1>2 DEF Leads, Shows, Authenticated
<1>4. FormsFit(o, {}) /\ Calm(o) /\ UserFits(o) /\ o.view.status # "loading"
      /\ o.edit.status # "loading"
  BY <1>2, <1>3 DEF Ready, Idle, FormsFit
<1>5. Follows(o, ListRecords(o))
  BY <1>3, <1>4, ListRecordsFollows
<1>6. QED
  BY <1>3, <1>5, KeepsTransitive DEF Follows, o

LEMMA RecordActionFollows ==
  ASSUME NEW s, Front(s), NEW b, Leads(s, b), s.dialog = "none" => b = s,
         NEW a \in {"browse", "new", "view", "edit", "delete"}, Enabled(s, a)
  PROVE  Follows(s, RecordAction(b, a))
<1>1. s \in Models /\ b \in Models /\ Ready(b) /\ Authenticated(b) /\ Authenticated(s)
  BY DEF Front, Leads, Enabled, Authenticated
<1>2. CASE a = "browse"
  BY <1>1, <1>2, BrowseFollows DEF RecordAction
<1>3. CASE a = "new"
  <2> DEFINE w == WithoutCache(b)
             c == CancelOps(w, {"CreateRecord"})
  <2>1. Leads(s, w)
    BY <1>1, WithoutCacheLeads, LeadsTwice
  <2>2. Leads(w, c)
    BY <2>1, CancelOpsLeads DEF Leads, Ready
  <2>3. Leads(s, c)
    BY <1>1, <2>1, <2>2, LeadsTwice DEF Leads
  <2>4. RecordAction(b, a) = Open(c, "recordType")
    BY <1>3 DEF RecordAction
  <2> HIDE DEF w, c
  <2>5. "recordType" \in Dialogs /\ WindowFits(c, "recordType")
    BY <1>1, <2>3 DEF Dialogs, WindowFits, Leads, Authenticated
  <2>6. QED
    BY <1>1, <2>3, <2>4, <2>5, OpenReady
<1>4. CASE a = "view"
  <2>1. /\ s.dialog = "none" /\ s.workspace.open /\ Selected(s, "server")
        /\ RecordAction(b, a) = BeginView(b)
    BY <1>4 DEF Enabled, ViewTarget, RecordAction
  <2>2. QED
    BY <1>1, <2>1, BeginViewFollows
<1>5. CASE a = "edit"
  BY <1>1, <1>5, OpenEditFollows DEF RecordAction
<1>6. CASE a = "delete"
  BY <1>1, <1>6, AskDeleteFollows DEF RecordAction
<1>7. QED
  BY <1>2, <1>3, <1>4, <1>5, <1>6

LEMMA CacheActionFollows ==
  ASSUME NEW s, Front(s), NEW b, Leads(s, b), s.dialog = "none" => b = s,
         NEW a \in {"browseCache", "viewCached", "synchronize"}, Enabled(s, a)
  PROVE  Follows(s, CacheAction(b, a))
<1>1. s \in Models /\ b \in Models /\ Ready(b)
  BY DEF Front, Leads
<1>2. CASE a = "browseCache"
  BY <1>1, <1>2, PublicFits, OpenReady DEF CacheAction
<1>3. CASE a = "viewCached"
  <2>1. /\ s.dialog = "none" /\ s.workspace.open /\ Selected(s, "cache")
        /\ CacheAction(b, a) = BeginView(b)
    BY <1>3 DEF Enabled, ViewTarget, CacheAction
  <2>2. QED
    BY <1>1, <2>1, BeginViewFollows
<1>4. CASE a = "synchronize"
  <2>1. Leads(s, WithoutCache(b))
    BY <1>1, WithoutCacheLeads, LeadsTwice
  <2>2. CacheAction(b, a) = Open(WithoutCache(b), "sync")
    BY <1>4 DEF CacheAction
  <2>3. QED
    BY <1>1, <2>1, <2>2, PublicFits, OpenReady
<1>5. QED
  BY <1>2, <1>3, <1>4

LEMMA PerformFollows ==
  ASSUME NEW s, Front(s), NEW a \in Actions, Enabled(s, a)
  PROVE  Follows(s, Perform(Prepare(s, a), a))
<1>1. CASE a = "close"
  <2>1. Prepare(s, a) = s
    BY <1>1 DEF Prepare
  <2>2. QED
    BY <1>1, <2>1, CloseFollows
<1>2. CASE a # "close"
  <2> DEFINE b == Prepare(s, a)
  <2>1. a = "edit" => Authenticated(s)
    BY DEF Enabled
  <2>2. s \in Models /\ Leads(s, b) /\ (s.dialog = "none" => b = s)
    BY <1>2, <2>1, PrepareLeads DEF Front
  <2> HIDE DEF b
  <2>3. CASE a \in {"serverStatus", "config", "info"}
    BY <2>2, <2>3, OpenWindowFollows DEF Perform, b
  <2>4. CASE a \in {"login", "register", "currentUser", "logout"}
    BY <2>2, <2>4, AccountActionFollows DEF Perform, b
  <2>5. CASE a \in {"browse", "new", "view", "edit", "delete"}
    BY <2>2, <2>5, RecordActionFollows DEF Perform, b
  <2>6. CASE a \in {"browseCache", "viewCached", "synchronize"}
    BY <2>2, <2>6, CacheActionFollows DEF Perform, b
  <2>7. QED
    BY <1>2, <2>3, <2>4, <2>5, <2>6 DEF Actions, b
<1>3. QED
  BY <1>1, <1>2

\* MaxStarts counts what is begun.
LEMMA CountedFollows ==
  ASSUME NEW s \in Models, NEW c, Follows(s, c)
  PROVE  Follows(s, [c EXCEPT !.starts = @ + 1])
<1> DEFINE r == [c EXCEPT !.starts = @ + 1]
<1>1. c \in Models /\ c.dialog \in Dialogs /\ Fits(c, Pending(c)) /\ Changes(s, c)
  BY DEF Follows
<1>2. /\ r \in Models /\ r.check = c.check
      /\ r.requests = c.requests /\ r.flight = c.flight /\ r.cache = c.cache
      /\ r.session = c.session /\ r.login = c.login /\ r.dialog = c.dialog /\ r.alert = c.alert
      /\ r.workspace = c.workspace /\ r.view = c.view /\ r.edit = c.edit
      /\ r.deletion = c.deletion
  BY <1>1 DEF Models
<1> HIDE DEF r
<1>3. Changes(s, r) /\ Pending(r) = Pending(c)
  BY <1>1, <1>2 DEF Changes, Keeps, Begins, Pending
<1>4. Fits(r, Pending(r))
  BY <1>1, <1>2, <1>3
  DEF Fits, UserFits, OneBlocks, GuestFits, CheckFits, LoadsFit, FormsFit, CacheFits,
      Authenticated, Private, ShowsServerData
<1>5. QED
  BY <1>1, <1>2, <1>3, <1>4 DEF Follows, r

\* The windows of tui fit its pending requests.
Fitting == tui \in Models /\ tui.dialog \in Dialogs /\ Fits(tui, Pending(tui))

\* What a step of the loop does to the model, and not to the session files.
Moves == Follows(tui, tui') /\ UNCHANGED file

LEMMA UserMoves ==
  ASSUME Fitting, NEW r, User(r), ~ Busy(tui) => Follows(tui, r)
  PROVE  Moves
<1>1. Follows(tui, r)
  BY DEF User
<1>2. tui' = r \/ tui' = [r EXCEPT !.starts = @ + 1]
  BY DEF User
<1>3. Follows(tui, [r EXCEPT !.starts = @ + 1])
  BY <1>1, CountedFollows DEF Fitting
<1>4. QED
  BY <1>1, <1>2, <1>3 DEF User, Moves

LEMMA FrontFits ==
  ASSUME Fitting, ~ Busy(tui), tui.alert = "off"
  PROVE  Front(tui)
BY FitsIdle DEF Fitting, Front

LEMMA DismissMoves ==
  ASSUME Fitting, Dismiss
  PROVE  Moves
<1> DEFINE r == [tui EXCEPT !.dialog = tui.alert, !.alert = "off"]
<1>1. tui \in Models /\ tui.alert \in Dialogs
  BY DEF Fitting, Dismiss, Models
<1>2. Shows(tui, r) /\ r.dialog = tui.alert /\ r.alert = "off"
  BY <1>1 DEF Models, Shows
<1>3. User(r)
  BY DEF Dismiss
<1> HIDE DEF r
<1>4. ASSUME ~ Busy(tui) PROVE Follows(tui, r)
  <2>1. Pending(tui) \cap Blocking = {} /\ tui.alert # "off"
    BY <1>4 DEF Busy, Pending, Dismiss
  <2>2. Quiet(tui)
    BY <2>1, TuiAssumption DEF Quiet, Blocking, Fitting, Fits, GuestFits
  <2>3. WindowFits(tui, tui.alert)
    BY DEF Fitting, Fits, GuestFits, FormsFit, WindowFits
  <2>4. WindowFits(tui, "off")
    BY DEF WindowFits, Private, ShowsServerData
  <2>5. QED
    BY <1>1, <1>2, <2>2, <2>3, <2>4, ShowsFollows DEF Fitting
<1>5. QED
  BY <1>3, <1>4, UserMoves

LEMMA LeaveMoves ==
  ASSUME Fitting, Leave
  PROVE  Moves
<1>1. tui.alert = "off" /\ User(Perform(tui, "close"))
  BY DEF Leave, In
<1>2. QED
  BY <1>1, FrontFits, CloseFollows, UserMoves

LEMMA MenuMoves ==
  ASSUME Fitting, NEW a \in Actions, Menu(a)
  PROVE  Moves
<1>1. tui.alert = "off" /\ Enabled(tui, a) /\ User(Perform(Prepare(tui, a), a))
  BY DEF Menu
<1>2. QED
  BY <1>1, FrontFits, PerformFollows, UserMoves

\* The form in front starts what it is for.
LEMMA SubmitStarts ==
  ASSUME Fitting, tui.alert = "off", NEW kind, NEW user \in Logins \cup {NoLogin},
         \/ kind = "Login" /\ tui.dialog = "login"
         \/ kind = "Register" /\ tui.dialog = "register"
         \/ kind = "ServerStatus" /\ tui.dialog = "serverStatus"
         \/ kind = "CreateRecord" /\ tui.dialog = "recordCreate"
         \/ kind = "EditRecord" /\ tui.dialog = "recordEdit" /\ tui.edit.status = "ready"
         \/ kind = "DeleteRecord" /\ tui.dialog = "recordDelete"
         \/ kind = "Sync" /\ tui.dialog = "sync",
         User(Start(tui, kind, user))
  PROVE  Moves
<1>1. ASSUME ~ Busy(tui) PROVE Follows(tui, Start(tui, kind, user))
  <2>1. Front(tui)
    BY <1>1, FrontFits
  <2>2. tui \in Models /\ Leads(tui, tui) /\ WindowFits(tui, tui.dialog)
    BY <2>1, LeadsItself DEF Front
  <2>3. kind \in NeedsSession => Authenticated(tui)
    BY <2>2 DEF NeedsSession, WindowFits, Private, ShowsServerData
  <2>4. kind = "DeleteRecord" => tui.deletion
    BY <2>2 DEF WindowFits
  <2>5. QED
    BY <2>2, <2>3, <2>4, StartFollows
<1>2. QED
  BY <1>1, UserMoves

LEMMA SubmitCacheMoves ==
  ASSUME Fitting, NEW u \in Logins, SubmitCache(u)
  PROVE  Moves
<1> DEFINE a == CloseWorkspace(tui)
<1>1. tui.alert = "off" /\ tui.dialog = "cacheBrowse" /\ User(Start(a, "OpenCache", u))
  BY DEF SubmitCache, In
<1>2. ASSUME ~ Busy(tui) PROVE Follows(tui, Start(a, "OpenCache", u))
  <2>1. tui \in Models /\ Ready(tui)
    BY <1>1, <1>2, FrontFits DEF Front
  <2>2. Leads(tui, a) /\ a.dialog = "cacheBrowse" /\ a.workspace = Closed
    BY <1>1, <2>1, CloseWorkspaceLeads
  <2> HIDE DEF a
  <2>3. WindowFits(a, a.dialog)
    BY <2>2, PublicFits
  <2>4. QED
    BY <2>1, <2>2, <2>3, StartFollows DEF Closed, NeedsSession
<1>3. QED
  BY <1>1, <1>2, UserMoves

LEMMA SubmitSaveMoves ==
  ASSUME Fitting, SubmitSave
  PROVE  Moves
<1>1. /\ tui.alert = "off" /\ tui.dialog = "binarySave" /\ "BinarySave" \notin Pending(tui)
  BY DEF SubmitSave, In, Pending
<1>2. ASSUME ~ Busy(tui)
      PROVE  /\ tui \in Models /\ Ready(tui) /\ Leads(tui, tui) /\ WindowFits(tui, tui.dialog)
             /\ Authenticated(tui) \/ tui.view.source = "cache"
  BY <1>1, <1>2, FrontFits, LeadsItself DEF Front
<1>3. CASE User(Start(tui, "BinarySave", NoLogin))
  <2>1. ASSUME ~ Busy(tui) PROVE Follows(tui, Start(tui, "BinarySave", NoLogin))
    BY <1>1, <1>2, <2>1, StartFollows DEF NeedsSession
  <2>2. QED
    BY <1>3, <2>1, UserMoves
<1>4. CASE User(Open(CancelOps(tui, {"BinarySave"}), "recordView"))
  <2> DEFINE a == CancelOps(tui, {"BinarySave"})
  <2>1. ASSUME ~ Busy(tui) PROVE Follows(tui, Open(a, "recordView"))
    <3>1. Leads(tui, a) /\ a.view = tui.view
      BY <1>2, <2>1, CancelOpsLeads DEF Ready
    <3>2. Authenticated(a) \/ a.view.source = "cache"
      BY <1>2, <2>1, <3>1 DEF Leads, Authenticated
    <3> HIDE DEF a
    <3>3. QED
      BY <1>2, <2>1, <3>1, <3>2, PublicFits, OpenReady
  <2>2. QED
    BY <1>4, <2>1, UserMoves
<1>5. QED
  BY <1>3, <1>4 DEF SubmitSave

LEMMA SubmitMoves ==
  ASSUME Fitting, Submit
  PROVE  Moves
<1>1. ASSUME NEW u \in Logins, SubmitLogin(u) PROVE Moves
  BY <1>1, SubmitStarts DEF SubmitLogin, In
<1>2. CASE SubmitRegister
  BY <1>2, SubmitStarts DEF SubmitRegister, In
<1>3. CASE Recheck
  BY <1>3, SubmitStarts DEF Recheck, In
<1>4. CASE SubmitCreate
  BY <1>4, SubmitStarts DEF SubmitCreate, In
<1>5. CASE SubmitEdit
  BY <1>5, SubmitStarts DEF SubmitEdit, In
<1>6. CASE ConfirmDelete
  BY <1>6, SubmitStarts DEF ConfirmDelete, In
<1>7. CASE SubmitSync
  BY <1>7, SubmitStarts DEF SubmitSync, In
<1>8. QED
  BY <1>1, <1>2, <1>3, <1>4, <1>5, <1>6, <1>7, SubmitCacheMoves, SubmitSaveMoves DEF Submit

\* Another window comes to the front, and nothing is begun.
LEMMA CancelAndOpenMoves ==
  ASSUME Fitting, tui.alert = "off",
         tui.dialog # "binarySave" \/ "BinarySave" \notin Pending(tui),
         NEW K, NEW d \in Dialogs,
         WindowFits(tui, tui.dialog) => WindowFits(tui, d),
         User(Open(CancelOps(tui, K), d))
  PROVE  Moves
<1> DEFINE a == CancelOps(tui, K)
<1>1. ASSUME ~ Busy(tui) PROVE Follows(tui, Open(a, d))
  <2>1. tui \in Models /\ Ready(tui) /\ WindowFits(tui, d)
    BY <1>1, FrontFits DEF Front
  <2>2. Leads(tui, a) /\ a.view = tui.view /\ a.edit = tui.edit /\ a.deletion = tui.deletion
        /\ a.workspace = tui.workspace
    BY <2>1, CancelOpsLeads DEF Ready
  <2> HIDE DEF a
  <2>3. WindowFits(a, d)
    BY <2>1, <2>2 DEF WindowFits, Private, ShowsServerData, Leads, Authenticated
  <2>4. QED
    BY <2>1, <2>2, <2>3, OpenReady
<1>2. QED
  BY <1>1, UserMoves

LEMMA OpenBinarySaveMoves ==
  ASSUME Fitting, OpenBinarySave
  PROVE  Moves
<1>1. /\ tui.alert = "off" /\ tui.dialog = "recordView"
      /\ User(Open(CancelOps(tui, {"BinarySave"}), "binarySave"))
  BY DEF OpenBinarySave, In
<1>2. "binarySave" \in Dialogs /\ (WindowFits(tui, "recordView") => WindowFits(tui, "binarySave"))
  BY DEF Dialogs, WindowFits, Private, ShowsServerData
<1>3. QED
  BY <1>1, <1>2, CancelAndOpenMoves

LEMMA ChooseTypeMoves ==
  ASSUME Fitting, ChooseType
  PROVE  Moves
<1>1. /\ tui.alert = "off" /\ tui.dialog = "recordType"
      /\ User(Open(CancelOps(tui, {"CreateRecord"}), "recordCreate"))
  BY DEF ChooseType, In
<1>2. "recordCreate" \in Dialogs
      /\ (WindowFits(tui, "recordType") => WindowFits(tui, "recordCreate"))
  BY DEF Dialogs, WindowFits, Private, ShowsServerData
<1>3. QED
  BY <1>1, <1>2, CancelAndOpenMoves

LEMMA PickPathMoves ==
  ASSUME Fitting, NEW p \in DOMAIN PickerParent, PickPath(p)
  PROVE  Moves
<1>1. /\ p \in {"pickConfig", "pickSave", "pickCreate", "pickEdit"}
      /\ tui.alert = "off" /\ tui.dialog = PickerParent[p] /\ User(Open(tui, p))
      /\ p = "pickSave" => "BinarySave" \notin Pending(tui)
      /\ p = "pickEdit" => tui.edit.status = "ready"
  BY DEF PickPath, In, PickerParent, Pending
<1>2. p \in Dialogs /\ (WindowFits(tui, tui.dialog) => WindowFits(tui, p))
  BY <1>1 DEF Dialogs, PickerParent, WindowFits, Private, ShowsServerData
<1>3. ASSUME ~ Busy(tui) PROVE Follows(tui, Open(tui, p))
  <2>1. tui.dialog # "binarySave" \/ "BinarySave" \notin Pending(tui)
    BY <1>1 DEF PickerParent
  <2>2. tui \in Models /\ Leads(tui, tui) /\ WindowFits(tui, tui.dialog)
    BY <1>1, <1>3, <2>1, FrontFits, LeadsItself DEF Front
  <2>3. QED
    BY <1>2, <2>2, OpenReady
<1>4. QED
  BY <1>1, <1>3, UserMoves

LEMMA ListKeyMoves ==
  ASSUME Fitting, ListKey
  PROVE  Moves
<1>1. tui.alert = "off" /\ tui.dialog = "none" /\ tui.workspace.open
  BY DEF ListKey, In
<1>2. ASSUME ~ Busy(tui) PROVE tui \in Models /\ Ready(tui) /\ Leads(tui, tui)
  BY <1>1, <1>2, FrontFits, LeadsItself DEF Front
<1>3. ASSUME NEW source \in {"server", "cache"}, Selected(tui, source), User(BeginView(tui))
      PROVE  Moves
  <2>1. ~ Busy(tui) => Follows(tui, BeginView(tui))
    BY <1>1, <1>2, <1>3, BeginViewFollows
  <2>2. QED
    BY <1>3, <2>1, UserMoves
<1>4. ASSUME Authenticated(tui), User([Open(tui, "recordDelete") EXCEPT !.deletion = TRUE])
      PROVE  Moves
  <2>1. ~ Busy(tui) => Follows(tui, [Open(tui, "recordDelete") EXCEPT !.deletion = TRUE])
    BY <1>2, <1>4, AskDeleteFollows
  <2>2. QED
    BY <1>4, <2>1, UserMoves
<1>5. QED
  BY <1>3, <1>4 DEF ListKey

LEMMA SaveConfigMoves ==
  ASSUME Fitting, SaveConfig
  PROVE  Moves
<1>1. tui.alert = "off" /\ tui.dialog = "config"
  BY DEF SaveConfig, In
<1>2. ASSUME ~ Busy(tui) PROVE tui \in Models /\ Ready(tui) /\ Idle(tui) /\ Leads(tui, tui)
  BY <1>1, <1>2, FrontFits, LeadsItself DEF Front, Ready
<1>3. CASE User(Open(tui, "none"))
  <2>1. ~ Busy(tui) => Follows(tui, Open(tui, "none"))
    BY <1>2, ListReady
  <2>2. QED
    BY <1>3, <2>1, UserMoves
<1>4. ASSUME NEW dir \in Dirs, NEW cacheToo \in BOOLEAN, User(Reconfigured(tui, dir, cacheToo))
      PROVE  Moves
  <2>1. ~ Busy(tui) => Follows(tui, Reconfigured(tui, dir, cacheToo))
    BY <1>2, ReconfiguredFollows
  <2>2. QED
    BY <1>4, <2>1, UserMoves
<1>5. QED
  BY <1>3, <1>4 DEF SaveConfig

LEMMA UserStepMoves ==
  ASSUME Fitting, UserStep
  PROVE  Quit \/ Moves
BY DismissMoves, LeaveMoves, SubmitMoves, OpenBinarySaveMoves, ChooseTypeMoves, PickPathMoves,
   ListKeyMoves, SaveConfigMoves, MenuMoves
DEF UserStep

-----------------------------------------------------------------------------
(* The invariant *)

\* The kinds and numbers of commands.
Numbers(flight) == {[kind |-> t.kind, id |-> t.id] : t \in flight}

\* The theorems about the table hold of it as the windows use it.
Table == INSTANCE Operations_proofs WITH requests <- tui.requests, tasks <- Numbers(tui.flight)

\* No two commands in flight have the same number.
Unique == \A t, u \in tui.flight : t.kind = u.kind /\ t.id = u.id => t = u

WindowsFit ==
  /\ tui \in Models /\ file \in [Dirs -> Logins \cup {NoLogin}]
  /\ Fits(tui, Pending(tui))
  /\ tui.dialog = "quit" => tui.flight = {}
  /\ \A t \in tui.flight : TaskFits(tui, t)
  /\ Unique

IInv == WindowsFit /\ Table!IInv

\* The table of r comes from the one of s, and the commands of r from rest.
Changed(s, rest, r) ==
  /\ r.requests \in [Kinds -> Request]
  /\ \E B \in {{}} \cup {{k} : k \in Kinds} :
       /\ Numbers(r.flight) = Numbers(rest) \cup {[kind |-> k, id |-> r.requests[k].id] : k \in B}
       /\ \A k \in B : r.requests[k] = Begin(s.requests[k])
       /\ \A k \in Kinds \ B : r.requests[k] \in {s.requests[k], Cancel(s.requests[k])}

LEMMA FollowsChange ==
  ASSUME NEW s \in Models, NEW r, Follows(s, r)
  PROVE  Changed(s, s.flight, r)
<1>1. CASE Keeps(s, r)
  <2>1. Numbers(r.flight) = Numbers(s.flight)
                              \cup {[kind |-> k, id |-> r.requests[k].id] : k \in {}}
    BY <1>1 DEF Keeps
  <2>2. /\ \A k \in {} : r.requests[k] = Begin(s.requests[k])
        /\ \A k \in Kinds \ {} : r.requests[k] \in {s.requests[k], Cancel(s.requests[k])}
        /\ r.requests \in [Kinds -> Request]
    BY <1>1 DEF Keeps
  <2>3. {} \in {{}} \cup {{k} : k \in Kinds}
    OBVIOUS
  <2>4. QED
    BY <2>1, <2>2, <2>3 DEF Changed
<1>2. ASSUME NEW kind \in Kinds, NEW task \in Tasks, Begins(s, r, kind, task)
      PROVE  Changed(s, s.flight, r)
  <2>1. r.flight = s.flight \cup {task} /\ task.kind = kind /\ task.id = r.requests[kind].id
    BY <1>2 DEF Begins
  <2>2. Numbers(r.flight) = Numbers(s.flight)
                              \cup {[kind |-> k, id |-> r.requests[k].id] : k \in {kind}}
    BY <2>1 DEF Numbers
  <2>3. /\ \A k \in {kind} : r.requests[k] = Begin(s.requests[k])
        /\ \A k \in Kinds \ {kind} : r.requests[k] \in {s.requests[k], Cancel(s.requests[k])}
        /\ r.requests \in [Kinds -> Request]
    BY <1>2 DEF Begins
  <2>4. {kind} \in {{}} \cup {{k} : k \in Kinds}
    OBVIOUS
  <2>5. QED
    BY <2>2, <2>3, <2>4 DEF Changed
<1>3. QED
  BY <1>1, <1>2 DEF Follows, Changes

\* Both instances of the table have the operators of the table.
LEMMA SameTable ==
  /\ Coordinator!Request = Request /\ Table!Request = Request
  /\ Coordinator!NoRequests = NoRequests /\ Table!NoRequests = NoRequests
  /\ \A r : /\ Coordinator!Cancel(r) = Cancel(r) /\ Table!Cancel(r) = Cancel(r)
            /\ Coordinator!Begin(r) = Begin(r) /\ Table!Begin(r) = Begin(r)
            /\ Coordinator!Finish(r) = Finish(r) /\ Table!Finish(r) = Finish(r)
  /\ \A table, kind, id : /\ Coordinator!Accepts(table, kind, id) = Accepts(table, kind, id)
                          /\ Table!Accepts(table, kind, id) = Accepts(table, kind, id)
                          /\ Coordinator!Finished(table, kind) = Finished(table, kind)
                          /\ Table!Finished(table, kind) = Finished(table, kind)
BY DEF Coordinator!Request, Table!Request, Request, Coordinator!NoRequests, Table!NoRequests,
       NoRequests, Coordinator!Cancel, Table!Cancel, Cancel, Coordinator!Begin, Table!Begin, Begin,
       Coordinator!Finish, Table!Finish, Finish, Coordinator!Accepts, Table!Accepts, Accepts,
       Coordinator!Finished, Table!Finished, Finished

-----------------------------------------------------------------------------
(* Results *)

\* The request of a result that is accepted has finished.
LEMMA LiveTakes ==
  ASSUME Fitting, NEW t \in tui.flight, Live(tui, t)
  PROVE  LET s == [Without(tui, t) EXCEPT !.requests = Finished(@, t.kind)]
         IN /\ Takes(s, t.kind)
            /\ s.flight = tui.flight \ {t} /\ s.cache = tui.cache
            /\ s.requests = Finished(tui.requests, t.kind)
<1> DEFINE table == Finished(tui.requests, t.kind)
           flight == tui.flight \ {t}
           s == [Without(tui, t) EXCEPT !.requests = Finished(@, t.kind)]
<1>1. /\ tui \in Models /\ tui.requests \in [Kinds -> Request] /\ tui.flight \in SUBSET Tasks
      /\ t.kind \in Kinds
  BY DEF Fitting, Models, Tasks
<1>2. table \in [Kinds -> Request] /\ flight \in SUBSET Tasks
  BY <1>1, CancelTyped DEF Finished
<1>3. s = [tui EXCEPT !.flight = flight, !.requests = table]
  BY <1>1 DEF Without, Models
<1>4. \A k \in Kinds : table[k] = IF k = t.kind THEN Finish(tui.requests[k]) ELSE tui.requests[k]
  BY <1>1 DEF Finished
<1> HIDE DEF table, flight, s
<1>5. /\ s \in Models /\ s.requests = table /\ s.flight = flight /\ s.cache = tui.cache
      /\ s.session = tui.session /\ s.login = tui.login /\ s.check = tui.check
      /\ s.dialog = tui.dialog /\ s.alert = tui.alert
      /\ s.workspace = tui.workspace /\ s.view = tui.view /\ s.edit = tui.edit
      /\ s.deletion = tui.deletion
  BY <1>1, <1>2, <1>3 DEF Models
<1>6. Pending(tui) = Pending(s) \cup {t.kind} /\ t.kind \notin Pending(s)
  BY <1>1, <1>4, <1>5, CancelTyped DEF Live, Accepts, Pending
<1>7. Fits(s, Pending(s) \cup {t.kind})
  BY <1>5, <1>6
  DEF Fitting, Fits, UserFits, OneBlocks, GuestFits, CheckFits, LoadsFit, FormsFit, CacheFits,
      Authenticated, Private, ShowsServerData
<1>8. QED
  BY <1>1, <1>5, <1>6, <1>7 DEF Takes, Fitting, s, table, flight

\* A result that is accepted is applied to the model without it.
LEMMA LiveFollows ==
  ASSUME IInv, NEW t \in tui.flight, Deliver(t), Live(tui, t)
  PROVE  LET s == [Without(tui, t) EXCEPT !.requests = Finished(@, t.kind)]
         IN s \in Models /\ Follows(s, tui') /\ s.flight = tui.flight \ {t}
            /\ s.requests = Finished(tui.requests, t.kind) /\ s.cache = tui.cache
<1> DEFINE s == [Without(tui, t) EXCEPT !.requests = Finished(@, t.kind)]
<1>1. tui.dialog \in Dialogs
  BY DEF IInv, WindowsFit, Models
<1>2. Fitting
  BY <1>1 DEF IInv, WindowsFit, Fitting
<1>3. /\ Takes(s, t.kind) /\ s.flight = tui.flight \ {t} /\ s.cache = tui.cache
      /\ s.requests = Finished(tui.requests, t.kind)
  BY <1>2, LiveTakes
<1>4. tui' = Applied(s, t) /\ t.stage = "done"
  BY DEF Deliver
<1> HIDE DEF s
<1>5. t \in Tasks /\ TaskFits(tui, t)
  BY DEF IInv, WindowsFit, Models
<1>6. Follows(s, Applied(s, t))
  BY <1>3, <1>4, <1>5, AppliedFollows DEF TaskFits
<1>7. QED
  BY <1>3, <1>4, <1>6 DEF Takes, s

LEMMA DropKeeps ==
  ASSUME IInv, NEW t \in tui.flight, Deliver(t), ~ Live(tui, t)
  PROVE  /\ tui' \in Models /\ tui'.dialog \in Dialogs /\ Fits(tui', Pending(tui'))
         /\ tui'.flight = tui.flight \ {t} /\ tui'.requests = tui.requests
         /\ tui'.cache = tui.cache
<1> DEFINE flight == tui.flight \ {t}
<1>1. /\ tui \in Models /\ flight \in SUBSET Tasks /\ tui.dialog \in Dialogs
      /\ Fits(tui, Pending(tui))
  BY DEF IInv, WindowsFit, Models
<1>2. tui' = [tui EXCEPT !.flight = flight]
  BY DEF Deliver, Without
<1> HIDE DEF flight
<1>3. /\ tui' \in Models /\ tui'.flight = flight /\ tui'.requests = tui.requests
      /\ tui'.cache = tui.cache
      /\ tui'.session = tui.session /\ tui'.login = tui.login /\ tui'.check = tui.check
      /\ tui'.dialog = tui.dialog /\ tui'.alert = tui.alert
      /\ tui'.workspace = tui.workspace /\ tui'.view = tui.view /\ tui'.edit = tui.edit
      /\ tui'.deletion = tui.deletion
  BY <1>1, <1>2 DEF Models
<1>4. Pending(tui') = Pending(tui)
  BY <1>3 DEF Pending
<1>5. Fits(tui', Pending(tui'))
  BY <1>1, <1>3, <1>4
  DEF Fits, UserFits, OneBlocks, GuestFits, CheckFits, LoadsFit, FormsFit, CacheFits,
      Authenticated, Private, ShowsServerData
<1>6. QED
  BY <1>1, <1>3, <1>5 DEF flight

-----------------------------------------------------------------------------
(* Commands *)

\* The command t goes on as u: the model differs in nothing that a window shows.
Advances(t, u) ==
  /\ u \in Tasks /\ u.kind = t.kind /\ u.id = t.id /\ TaskFits(tui', u)
  /\ tui' \in Models /\ tui'.flight = (tui.flight \ {t}) \cup {u}
  /\ tui'.requests = tui.requests
  /\ \/ tui'.cache \in {tui.cache, NoLogin}
     \/ t.kind = "OpenCache" /\ Live(tui, t) /\ tui'.cache = u.user
  /\ tui'.session = tui.session /\ tui'.login = tui.login /\ tui'.check = tui.check
  /\ tui'.dialog = tui.dialog /\ tui'.alert = tui.alert
  /\ tui'.workspace = tui.workspace /\ tui'.view = tui.view /\ tui'.edit = tui.edit
  /\ tui'.deletion = tui.deletion
  /\ file' \in [Dirs -> Logins \cup {NoLogin}]

LEMMA StepAdvances ==
  ASSUME tui \in Models, file' \in [Dirs -> Logins \cup {NoLogin}], NEW t \in tui.flight,
         NEW stage \in {"save", "done"}, NEW out \in {"none", "ok", "notLoggedIn", "failed"},
         NEW user \in Logins \cup {NoLogin},
         NEW cache \in Logins \cup {NoLogin},
         \/ /\ tui' = Step(t, stage, out, user)
            /\ cache = tui.cache
         \/ /\ tui' = [Step(t, stage, out, user) EXCEPT !.cache = cache]
            /\ cache = NoLogin \/ (Live(tui, t) /\ cache = user),
         stage = "done" => out # "none",
         t.kind = "ViewCachedRecord" => out # "notLoggedIn",
         stage = "save" => user # NoLogin /\ t.kind \in {"Login", "Sync"},
         t.kind \in {"Login", "CurrentUser"} /\ stage = "done" /\ out = "ok" => user # NoLogin,
         t.kind = "OpenCache" /\ out = "ok" => cache = user,
         t.kind # "OpenCache" => cache = tui.cache
  PROVE  \E u \in Tasks : Advances(t, u)
<1> DEFINE u == [t EXCEPT !.stage = stage, !.out = out, !.user = user]
           flight == (tui.flight \ {t}) \cup {u}
<1>1. t \in Tasks
  BY DEF Models
<1>2. /\ u \in Tasks /\ u.kind = t.kind /\ u.id = t.id
      /\ u.stage = stage /\ u.out = out /\ u.user = user
  BY <1>1 DEF Tasks
<1>3. /\ tui' = [tui EXCEPT !.flight = flight, !.cache = cache]
      /\ cache = tui.cache \/ cache = NoLogin \/ (Live(tui, t) /\ cache = user)
  <2>1. [tui EXCEPT !.flight = flight, !.cache = tui.cache] = [tui EXCEPT !.flight = flight]
    BY DEF Models
  <2>2. QED
    BY <2>1 DEF Step
<1> HIDE DEF u
<1>4. flight \in SUBSET Tasks
  BY <1>2 DEF Models
<1> HIDE DEF flight
<1>5. /\ tui' \in Models /\ tui'.flight = flight /\ tui'.requests = tui.requests
      /\ tui'.cache = cache
      /\ tui'.session = tui.session /\ tui'.login = tui.login /\ tui'.check = tui.check
      /\ tui'.dialog = tui.dialog /\ tui'.alert = tui.alert
      /\ tui'.workspace = tui.workspace /\ tui'.view = tui.view /\ tui'.edit = tui.edit
      /\ tui'.deletion = tui.deletion
  BY <1>3, <1>4 DEF Models
<1>6. TaskFits(tui', u)
  BY <1>2, <1>5 DEF TaskFits
<1>7. \/ tui'.cache \in {tui.cache, NoLogin}
      \/ t.kind = "OpenCache" /\ Live(tui, t) /\ tui'.cache = u.user
  BY <1>2, <1>3, <1>5
<1>8. QED
  BY <1>2, <1>5, <1>6, <1>7 DEF Advances, flight

LEMMA RunAdvances ==
  ASSUME IInv, NEW t \in tui.flight, Run(t)
  PROVE  \E u \in Tasks : Advances(t, u)
<1>1. /\ tui \in Models /\ t \in Tasks /\ file \in [Dirs -> Logins \cup {NoLogin}]
      /\ tui.cache \in Logins \cup {NoLogin}
  BY DEF IInv, WindowsFit, Models
<1>2. /\ t.user \in Logins \cup {NoLogin} /\ t.dir \in Dirs
      /\ file[t.dir] \in Logins \cup {NoLogin} /\ NoLogin \in Logins \cup {NoLogin}
  BY <1>1 DEF Tasks
<1>3. CASE CallWithToken(t)
  <2>1. PICK out \in {"notLoggedIn", "failed"} \cup {o \in {"ok"} : file[t.dir] # NoLogin} :
          tui' = Step(t, "done", out,
                      IF out = "ok" /\ t.kind = "CurrentUser" THEN file[t.dir] ELSE NoLogin)
    BY <1>3 DEF CallWithToken
  <2> DEFINE user == IF out = "ok" /\ t.kind = "CurrentUser" THEN file[t.dir] ELSE NoLogin
  <2>2. /\ user \in Logins \cup {NoLogin} /\ file' = file
        /\ t.kind \notin {"ViewCachedRecord", "Login", "OpenCache"}
        /\ t.kind = "CurrentUser" /\ out = "ok" => user # NoLogin
        /\ out \in {"ok", "notLoggedIn", "failed"}
    BY <1>2, <1>3 DEF CallWithToken, At
  <2>3. tui' = Step(t, "done", out, user)
    BY <2>1
  <2> HIDE DEF user
  <2>4. QED
    BY <1>1, <2>2, <2>3, StepAdvances
<1>4. CASE CallWithoutToken(t)
  <2>1. PICK out \in {"ok", "failed"} : tui' = Step(t, "done", out, NoLogin)
    BY <1>4 DEF CallWithoutToken
  <2>2. file' = file /\ t.kind \in {"Register", "ServerStatus", "BinarySave"}
    BY <1>4 DEF CallWithoutToken, At
  <2>3. QED
    BY <1>1, <1>2, <2>1, <2>2, StepAdvances
<1>5. CASE GetSession(t)
  <2> DEFINE user == IF t.kind = "Login" THEN t.user ELSE file[t.dir]
  <2>1. file' = file /\ t.kind \in {"Login", "Sync"} /\ user \in Logins \cup {NoLogin}
    BY <1>2, <1>5 DEF GetSession, At
  <2>2. CASE user # NoLogin /\ tui' = Step(t, "save", "none", user)
    <3> HIDE DEF user
    <3>1. QED
      BY <1>1, <2>1, <2>2, StepAdvances
  <2>3. ASSUME NEW out \in {"failed", "notLoggedIn"}, tui' = Step(t, "done", out, NoLogin)
        PROVE  \E u \in Tasks : Advances(t, u)
    BY <1>1, <1>2, <2>1, <2>3, StepAdvances
  <2>4. QED
    BY <1>5, <2>2, <2>3 DEF GetSession
<1>6. CASE SaveSession(t)
  <2>1. t.user # NoLogin /\ t.kind \in {"Login", "Sync"}
    BY <1>6 DEF SaveSession, IInv, WindowsFit, TaskFits
  <2>2. file' \in [Dirs -> Logins \cup {NoLogin}]
    BY <1>1, <1>2, <1>6 DEF SaveSession
  <2>3. PICK out \in {"ok", "failed", "notLoggedIn"} :
          tui' = Step(t, "done", out, t.user) \/ tui' = Step(t, "done", "failed", NoLogin)
    BY <1>6 DEF SaveSession
  <2>4. QED
    BY <1>1, <1>2, <2>1, <2>2, <2>3, StepAdvances
<1>7. CASE DeleteSession(t)
  <2>1. file' \in [Dirs -> Logins \cup {NoLogin}] /\ t.kind = "Logout"
    BY <1>1, <1>2, <1>7 DEF DeleteSession, At
  <2>2. PICK out \in {"ok", "failed"} : tui' = Step(t, "done", out, NoLogin)
    BY <1>7 DEF DeleteSession
  <2>3. QED
    BY <1>1, <1>2, <2>1, <2>2, StepAdvances
<1>8. CASE OpenCache(t)
  <2>1. file' = file /\ t.kind = "OpenCache"
    BY <1>8 DEF OpenCache, At
  <2>2. CASE Live(tui, t) /\ tui' = [Step(t, "done", "ok", t.user) EXCEPT !.cache = t.user]
    BY <1>1, <1>2, <2>1, <2>2, StepAdvances
  <2>3. CASE tui' = [Step(t, "done", "failed", NoLogin) EXCEPT !.cache = NoLogin]
    BY <1>1, <1>2, <2>1, <2>3, StepAdvances
  <2>4. QED
    BY <1>8, <2>2, <2>3 DEF OpenCache
<1>9. CASE ReadCache(t)
  <2>1. file' = file /\ t.kind = "ViewCachedRecord"
    BY <1>9 DEF ReadCache, At
  <2>2. PICK out \in {"ok", "failed"} : tui' = Step(t, "done", out, NoLogin)
    BY <1>9 DEF ReadCache
  <2>3. QED
    BY <1>1, <1>2, <2>1, <2>2, StepAdvances
<1>10. QED
  BY <1>3, <1>4, <1>5, <1>6, <1>7, <1>8, <1>9 DEF Run

-----------------------------------------------------------------------------
(* Every step *)

\* What the table says of the commands of a model.
Flies(s) ==
  /\ \A t \in s.flight : t \in Tasks /\ TaskFits(s, t) /\ t.id <= s.requests[t.kind].id
  /\ \A t, u \in s.flight : t.kind = u.kind /\ t.id = u.id => t = u

\* A command that is begun has a number of its own, and those that were there
\* are accepted only if they were.
LEMMA FollowsFlies ==
  ASSUME NEW s \in Models, Flies(s), NEW r, Follows(s, r)
  PROVE  /\ \A t \in r.flight : TaskFits(r, t)
         /\ \A t, u \in r.flight : t.kind = u.kind /\ t.id = u.id => t = u
<1>1. r.cache \in {s.cache, NoLogin} /\ s.requests \in [Kinds -> Request]
  BY DEF Follows, Changes, Keeps, Begins, Models
<1>2. ASSUME NEW t \in s.flight,
             r.requests[t.kind] \in {s.requests[t.kind], Cancel(s.requests[t.kind])}
      PROVE  TaskFits(r, t)
  <2>1. s.requests[t.kind] \in Request
    BY <1>1, <1>2 DEF Flies, Tasks
  <2>2. Live(r, t) => Live(s, t)
    BY <1>2, <2>1, CancelTyped DEF Live, Accepts
  <2>3. QED
    BY <1>1, <2>2 DEF Flies, TaskFits
<1>3. CASE Keeps(s, r)
  BY <1>2, <1>3 DEF Keeps, Flies, Tasks
<1>4. ASSUME NEW kind \in Kinds, NEW task \in Tasks, Begins(s, r, kind, task)
      PROVE  /\ \A t \in r.flight : TaskFits(r, t)
             /\ \A t, u \in r.flight : t.kind = u.kind /\ t.id = u.id => t = u
  <2>1. /\ r.flight = s.flight \cup {task} /\ task.kind = kind /\ task.stage = "run"
        /\ task.out = "none" /\ task.id = Begin(s.requests[kind]).id
        /\ r.requests[kind] = Begin(s.requests[kind])
    BY <1>4 DEF Begins
  <2>2. s.requests[kind] \in Request
    BY <1>1
  <2>3. Begin(s.requests[kind]).id \in Nat /\ Begin(s.requests[kind]).id > s.requests[kind].id
    BY <2>2 DEF Begin, Cancel, Request
  <2>4. ASSUME NEW t \in s.flight, t.kind = kind PROVE t.id < task.id
    <3>1. t.id \in Nat /\ t.id <= s.requests[kind].id /\ s.requests[kind].id \in Nat
      BY <2>2, <2>4 DEF Flies, Tasks, Request
    <3>2. QED
      BY <2>1, <2>3, <3>1
  <2>5. TaskFits(r, task)
    BY <2>1 DEF TaskFits
  <2>6. ASSUME NEW t \in s.flight PROVE TaskFits(r, t)
    <3>1. CASE t.kind = kind
      <4>1. t.id \in Nat /\ t.id # r.requests[t.kind].id
        BY <2>1, <2>3, <2>4, <3>1 DEF Flies, Tasks
      <4>2. ~ Live(r, t)
        BY <4>1 DEF Live, Accepts
      <4>3. QED
        BY <4>2 DEF Flies, TaskFits
    <3>2. CASE t.kind # kind
      <4>1. r.requests[t.kind] \in {s.requests[t.kind], Cancel(s.requests[t.kind])}
        BY <1>4, <3>2 DEF Begins, Flies, Tasks
      <4>2. QED
        BY <1>2, <4>1
    <3>3. QED
      BY <3>1, <3>2
  <2>7. ASSUME NEW t \in s.flight PROVE ~ (t.kind = task.kind /\ t.id = task.id)
    <3>1. t.id \in Nat
      BY DEF Flies, Tasks
    <3>2. QED
      BY <2>1, <2>3, <2>4, <3>1
  <2>8. \A t, u \in r.flight : t.kind = u.kind /\ t.id = u.id => t = u
    BY <2>1, <2>7 DEF Flies
  <2>9. QED
    BY <2>1, <2>5, <2>6, <2>8
<1>5. QED
  BY <1>3, <1>4 DEF Follows, Changes

LEMMA InvariantFlies ==
  ASSUME IInv
  PROVE  /\ Flies(tui)
         /\ \A t \in tui.flight : t.id = tui.requests[t.kind].id => tui.requests[t.kind].pending
<1>1. ASSUME NEW t \in tui.flight
      PROVE  /\ t \in Tasks /\ t.id <= tui.requests[t.kind].id
             /\ t.id = tui.requests[t.kind].id => tui.requests[t.kind].pending
  <2> DEFINE n == [kind |-> t.kind, id |-> t.id]
  <2>1. n \in Numbers(tui.flight) /\ n.kind = t.kind /\ n.id = t.id
    BY DEF Numbers
  <2>2. /\ n.id <= tui.requests[n.kind].id
        /\ n.id = tui.requests[n.kind].id => tui.requests[n.kind].pending
    BY <2>1 DEF IInv, Table!IInv, Table!Consistent, Table!Fresh
  <2>3. QED
    BY <2>1, <2>2 DEF IInv, WindowsFit, Models
<1>2. QED
  BY <1>1 DEF Flies, IInv, WindowsFit, Unique

\* Without a command the numbers are those of the others.
LEMMA NumbersWithout ==
  ASSUME Unique, NEW t \in tui.flight
  PROVE  Numbers(tui.flight \ {t}) = Numbers(tui.flight) \ {[kind |-> t.kind, id |-> t.id]}
<1>1. ASSUME NEW u \in tui.flight \ {t}
      PROVE  [kind |-> u.kind, id |-> u.id] # [kind |-> t.kind, id |-> t.id]
  <2>1. u.kind # t.kind \/ u.id # t.id
    BY <1>1 DEF Unique
  <2>2. QED
    BY <2>1
<1>2. QED
  BY <1>1 DEF Numbers

\* The windows take a step on the table that Operations allows.
TableStep ==
  /\ Coordinator!Next \/ UNCHANGED Coordinator!vars
  /\ Table!Next \/ UNCHANGED Table!vars

LEMMA FollowsWindows ==
  ASSUME IInv, NEW s \in Models, Flies(s), Follows(s, tui'), UNCHANGED file
  PROVE  WindowsFit'
<1>1. /\ tui' \in Models /\ tui'.dialog \in Dialogs /\ Fits(tui', Pending(tui'))
      /\ "quit" \notin Dialogs
  BY DEF Follows, Dialogs
<1>2. /\ \A t \in tui'.flight : TaskFits(tui', t)
      /\ \A t, u \in tui'.flight : t.kind = u.kind /\ t.id = u.id => t = u
  BY FollowsFlies
<1>3. file' \in [Dirs -> Logins \cup {NoLogin}]
  BY DEF IInv, WindowsFit
<1>4. QED
  BY <1>1, <1>2, <1>3 DEF WindowsFit, Unique

LEMMA UserKeeps ==
  ASSUME IInv, UserStep
  PROVE  WindowsFit' /\ TableStep
<1>1. Fitting
  BY DEF IInv, WindowsFit, Fitting, UserStep, Models
<1>2. CASE Quit
  <2> DEFINE n == NewModel(tui.dir)
  <2>1. tui.dir \in Dirs /\ NoRequests \in [Kinds -> Request]
    BY DEF IInv, WindowsFit, Models, NoRequests, Request
  <2>2. n \in Models
    BY <2>1, TuiAssumption DEF NewModel, Models, NoView, NoEdit, Dialogs
  <2>3. /\ n.requests = NoRequests /\ n.flight = {} /\ n.session = "unknown" /\ n.login = NoLogin
        /\ n.alert = "off" /\ n.view = NoView /\ n.edit = NoEdit /\ ~ n.workspace.open
        /\ n.workspace.source = "server" /\ n.workspace.state = "idle"
    BY DEF NewModel
  <2>4. tui' = [n EXCEPT !.dialog = "quit"] /\ file' = file
    BY <1>2 DEF Quit
  <2> HIDE DEF n
  <2>5. /\ tui' \in Models /\ tui'.dialog = "quit"
        /\ tui'.requests = NoRequests /\ tui'.flight = {}
        /\ tui'.session = "unknown" /\ tui'.login = NoLogin
        /\ tui'.alert = "off" /\ tui'.view = NoView /\ tui'.edit = NoEdit
        /\ ~ tui'.workspace.open
        /\ tui'.workspace.source = "server" /\ tui'.workspace.state = "idle"
    BY <2>2, <2>3, <2>4 DEF Models
  <2>6. Pending(tui') = {}
    BY <2>5 DEF Pending, NoRequests
  <2>7. Fits(tui', Pending(tui'))
    BY <2>5, <2>6
    DEF Fits, UserFits, OneBlocks, GuestFits, CheckFits, LoadsFit, FormsFit, CacheFits,
        Authenticated, Private, ShowsServerData, NoView, NoEdit
  <2>8. WindowsFit'
    BY <2>4, <2>5, <2>7 DEF WindowsFit, Unique, IInv
  <2>9. Coordinator!Quit /\ Table!Quit
    BY <2>5, SameTable DEF Coordinator!Quit, Table!Quit, Numbers
  <2>10. QED
    BY <2>8, <2>9 DEF TableStep, Coordinator!Next, Table!Next
<1>3. CASE Moves
  <2>1. tui \in Models /\ Follows(tui, tui') /\ file' = file
    BY <1>1, <1>3 DEF Fitting, Moves
  <2>2. WindowsFit'
    BY <2>1, InvariantFlies, FollowsWindows
  <2>3. Changed(tui, tui.flight, tui')
    BY <2>1, FollowsChange
  <2>4. Coordinator!UserStep
    BY <2>3, SameTable DEF Changed, Coordinator!UserStep, Coordinator!Change, Numbers
  <2>5. Table!UserStep
    BY <2>3, SameTable DEF Changed, Table!UserStep, Table!Change, Numbers
  <2>6. QED
    BY <2>2, <2>4, <2>5 DEF TableStep, Coordinator!Next, Table!Next
<1>4. QED
  BY <1>1, <1>2, <1>3, UserStepMoves

LEMMA DeliverKeeps ==
  ASSUME IInv, NEW t \in tui.flight, Deliver(t)
  PROVE  WindowsFit' /\ TableStep
<1> DEFINE n == [kind |-> t.kind, id |-> t.id]
<1>1. /\ n \in Numbers(tui.flight) /\ n.kind = t.kind /\ n.id = t.id
      /\ Numbers(tui.flight \ {t}) = Numbers(tui.flight) \ {n}
  BY NumbersWithout DEF Numbers, IInv, WindowsFit
<1>2. Live(tui, t) <=> Accepts(tui.requests, n.kind, n.id)
  BY <1>1 DEF Live
<1>3. Flies(tui) /\ tui.requests \in [Kinds -> Request] /\ file' = file
  BY InvariantFlies DEF IInv, WindowsFit, Models, Deliver
<1> HIDE DEF n
<1>4. CASE Live(tui, t)
  <2> DEFINE s == [Without(tui, t) EXCEPT !.requests = Finished(@, t.kind)]
  <2>1. /\ s \in Models /\ Follows(s, tui') /\ s.flight = tui.flight \ {t}
        /\ s.requests = Finished(tui.requests, t.kind) /\ s.cache = tui.cache
    BY <1>4, LiveFollows
  <2> HIDE DEF s
  <2>2. ASSUME NEW k \in Kinds
        PROVE  /\ s.requests[k].id = tui.requests[k].id
               /\ s.requests[k].pending => tui.requests[k].pending
    BY <1>3, <2>1 DEF Finished, Finish
  <2>3. Flies(s)
    <3>1. ASSUME NEW u \in s.flight PROVE u \in Tasks /\ u.id <= s.requests[u.kind].id
      BY <1>3, <2>1, <2>2 DEF Flies, Tasks
    <3>2. ASSUME NEW u \in s.flight PROVE TaskFits(s, u)
      <4>1. Live(s, u) => Live(tui, u)
        BY <1>3, <2>1, <2>2 DEF Flies, Tasks, Live, Accepts
      <4>2. QED
        BY <1>3, <2>1, <4>1 DEF Flies, TaskFits
    <3>3. QED
      BY <1>3, <2>1, <3>1, <3>2 DEF Flies
  <2>4. WindowsFit'
    BY <1>3, <2>1, <2>3, FollowsWindows
  <2>5. Changed(s, s.flight, tui')
    BY <2>1, FollowsChange
  <2>6. /\ Accepts(tui.requests, n.kind, n.id) /\ s.requests = Finished(tui.requests, n.kind)
        /\ Numbers(s.flight) = Numbers(tui.flight) \ {n}
    BY <1>1, <1>2, <1>4, <2>1
  <2>7. Coordinator!Deliver(n) /\ Table!Deliver(n)
    <3> DEFINE base == Finished(tui.requests, n.kind)
    <3>1. /\ tui'.requests \in [Kinds -> Request]
          /\ \E B \in {{}} \cup {{k} : k \in Kinds} :
               /\ Numbers(tui'.flight) = (Numbers(tui.flight) \ {n})
                                           \cup {[kind |-> k, id |-> tui'.requests[k].id] : k \in B}
               /\ \A k \in B : tui'.requests[k] = Begin(base[k])
               /\ \A k \in Kinds \ B : tui'.requests[k] \in {base[k], Cancel(base[k])}
      BY <2>5, <2>6 DEF Changed
    <3>2. /\ Coordinator!Finished(tui.requests, n.kind) = base
          /\ Coordinator!Accepts(tui.requests, n.kind, n.id)
          /\ Table!Finished(tui.requests, n.kind) = base
          /\ Table!Accepts(tui.requests, n.kind, n.id)
      BY <2>6, SameTable
    <3> HIDE DEF base
    <3>3. Coordinator!Deliver(n)
      BY <3>1, <3>2, SameTable DEF Coordinator!Deliver, Coordinator!Change, Numbers
    <3>4. Table!Deliver(n)
      BY <3>1, <3>2, SameTable DEF Table!Deliver, Table!Change, Numbers
    <3>5. QED
      BY <3>3, <3>4
  <2>8. QED
    BY <1>1, <2>4, <2>7 DEF TableStep, Coordinator!Next, Table!Next, Numbers
<1>5. CASE ~ Live(tui, t)
  <2>1. /\ tui' \in Models /\ tui'.dialog \in Dialogs /\ Fits(tui', Pending(tui'))
        /\ tui'.flight = tui.flight \ {t} /\ tui'.requests = tui.requests
        /\ tui'.cache = tui.cache
    BY <1>5, DropKeeps
  <2>2. \A u \in tui'.flight : TaskFits(tui', u)
    BY <1>3, <2>1 DEF Flies, TaskFits, Live
  <2>3. WindowsFit'
    BY <1>3, <2>1, <2>2 DEF WindowsFit, IInv, Unique, Dialogs
  <2>4. Coordinator!Drop(n) /\ Table!Drop(n)
    BY <1>1, <1>2, <1>5, <2>1, SameTable DEF Coordinator!Drop, Table!Drop, Numbers
  <2>5. QED
    BY <1>1, <2>3, <2>4 DEF TableStep, Coordinator!Next, Table!Next, Numbers
<1>6. QED
  BY <1>4, <1>5

LEMMA RunKeeps ==
  ASSUME IInv, NEW t \in tui.flight, Run(t)
  PROVE  WindowsFit' /\ TableStep
<1>1. PICK u \in Tasks : Advances(t, u)
  BY RunAdvances
<1>2. /\ Flies(tui) /\ tui \in Models /\ Fits(tui, Pending(tui)) /\ t \in Tasks
      /\ tui.dialog = "quit" => tui.flight = {}
  BY InvariantFlies DEF IInv, WindowsFit, Models
<1>3. /\ tui' \in Models /\ tui'.flight = (tui.flight \ {t}) \cup {u} /\ TaskFits(tui', u)
      /\ tui'.requests = tui.requests /\ tui'.dialog = tui.dialog
      /\ u.kind = t.kind /\ u.id = t.id /\ file' \in [Dirs -> Logins \cup {NoLogin}]
  BY <1>1 DEF Advances
<1>4. Pending(tui') = Pending(tui) /\ (Live(tui, t) => t.kind \in Pending(tui))
  BY <1>2, <1>3 DEF Pending, Live, Accepts, Tasks
<1>5. CacheFits(tui', Pending(tui'))
  BY <1>1, <1>2, <1>4 DEF Advances, Fits, CacheFits
<1>6. Fits(tui', Pending(tui'))
  BY <1>1, <1>2, <1>4, <1>5
  DEF Advances, Fits, UserFits, OneBlocks, GuestFits, CheckFits, LoadsFit, FormsFit,
      Authenticated, Private, ShowsServerData
<1>7. ASSUME NEW v \in tui.flight \ {t} PROVE TaskFits(tui', v)
  <2>1. TaskFits(tui, v) /\ (v.kind # t.kind \/ v.id # t.id)
    BY <1>2 DEF Flies
  <2>2. Live(tui', v) <=> Live(tui, v)
    BY <1>3 DEF Live
  <2>3. v.kind = "OpenCache" /\ Live(tui, v) => tui'.cache \in {tui.cache, NoLogin}
    BY <1>1, <2>1 DEF Advances, Live, Accepts
  <2>4. QED
    BY <2>1, <2>2, <2>3 DEF TaskFits
<1>8. \A v, w \in tui'.flight : v.kind = w.kind /\ v.id = w.id => v = w
  BY <1>2, <1>3 DEF Flies
<1>9. WindowsFit'
  BY <1>2, <1>3, <1>6, <1>7, <1>8 DEF WindowsFit, Unique
<1>10. Numbers(tui'.flight) = Numbers(tui.flight)
  BY <1>3 DEF Numbers
<1>11. UNCHANGED Coordinator!vars /\ UNCHANGED Table!vars
  BY <1>3, <1>10 DEF Coordinator!vars, Table!vars, Numbers
<1>12. QED
  BY <1>9, <1>11 DEF TableStep

LEMMA NextKeeps ==
  ASSUME IInv, [Next]_vars
  PROVE  IInv' /\ TableStep
<1>1. WindowsFit' /\ TableStep
  <2>1. CASE UserStep
    BY <2>1, UserKeeps
  <2>2. ASSUME NEW t \in tui.flight, Run(t) \/ Deliver(t) PROVE WindowsFit' /\ TableStep
    BY <2>2, RunKeeps, DeliverKeeps
  <2>3. CASE UNCHANGED vars
    <3>1. tui' = tui /\ file' = file
      BY <2>3 DEF vars
    <3>2. UNCHANGED Coordinator!vars /\ UNCHANGED Table!vars
      BY <3>1 DEF Coordinator!vars, Table!vars, Numbers
    <3>3. WindowsFit'
      BY <3>1 DEF IInv, WindowsFit, Unique
    <3>4. QED
      BY <3>2, <3>3 DEF TableStep
  <2>4. QED
    BY <2>1, <2>2, <2>3 DEF Next
<1>2. Table!IInv'
  BY <1>1, Table!NextInvariant DEF TableStep, IInv
<1>3. QED
  BY <1>1, <1>2 DEF IInv

LEMMA InitFits == Init => IInv /\ Coordinator!Init /\ Table!Init
<1> SUFFICES ASSUME Init PROVE IInv /\ Coordinator!Init /\ Table!Init
  OBVIOUS
<1>1. PICK dir \in Dirs : tui = CheckCurrentUser(NewModel(dir), "restore")
  BY DEF Init
<1> DEFINE n == NewModel(dir)
<1>2. n \in Models
  <2>1. NoRequests \in [Kinds -> Request]
    BY DEF NoRequests, Request
  <2>2. QED
    BY <2>1, TuiAssumption DEF NewModel, Models, NoView, NoEdit, Dialogs
<1>3. /\ n.requests = NoRequests /\ n.flight = {} /\ n.session = "unknown" /\ n.login = NoLogin
      /\ n.dialog = "none" /\ n.alert = "off" /\ n.view = NoView /\ n.edit = NoEdit
      /\ ~ n.workspace.open /\ n.workspace.source = "server" /\ n.workspace.state = "idle"
  BY DEF NewModel
<1>4. Pending(n) = {}
  BY <1>3 DEF Pending, NoRequests
<1> HIDE DEF n
<1>5. Follows(n, tui)
  BY <1>1, <1>2, <1>3, <1>4, CheckFollows
  DEF UserFits, CacheFits, Authenticated, NoView, NoEdit, n
<1>6. Flies(n)
  BY <1>3 DEF Flies
<1>7. /\ \A t \in tui.flight : TaskFits(tui, t)
      /\ \A t, u \in tui.flight : t.kind = u.kind /\ t.id = u.id => t = u
  BY <1>2, <1>5, <1>6, FollowsFlies
<1>8. WindowsFit
  BY <1>5, <1>7 DEF WindowsFit, Unique, Follows, Dialogs, Init
<1>9. Changed(n, {}, tui)
  BY <1>2, <1>3, <1>5, FollowsChange
<1>10. Coordinator!Init /\ Table!Init
  <2>1. PICK B \in {{}} \cup {{k} : k \in Kinds} :
          /\ Numbers(tui.flight) = {[kind |-> k, id |-> tui.requests[k].id] : k \in B}
          /\ \A k \in B : tui.requests[k] = Begin(NoRequests[k])
          /\ \A k \in Kinds \ B : tui.requests[k] \in {NoRequests[k], Cancel(NoRequests[k])}
    BY <1>3, <1>9 DEF Changed, Numbers
  <2>2. \A k \in Kinds : Cancel(NoRequests[k]) = NoRequests[k]
    BY DEF NoRequests, Cancel
  <2>3. tui.requests \in [Kinds -> Request] /\ B \subseteq Kinds
    BY <1>9 DEF Changed
  <2>4. tui.requests = [k \in Kinds |-> IF k \in B THEN Begin(NoRequests[k]) ELSE NoRequests[k]]
    BY <2>1, <2>2, <2>3
  <2>5. Coordinator!Init
    BY <2>1, <2>4, SameTable DEF Coordinator!Init, Numbers
  <2>6. Table!Init
    BY <2>1, <2>4, SameTable DEF Table!Init
  <2>7. QED
    BY <2>5, <2>6
<1>11. QED
  BY <1>8, <1>10, Table!InitInvariant DEF IInv

\* IInv holds for ever.
THEOREM Invariance == Spec => []IInv
<1>1. Init => IInv
  BY InitFits
<1>2. IInv /\ [Next]_vars => IInv'
  BY NextKeeps
<1>3. QED
  BY <1>1, <1>2, PTL DEF Spec

(***************************************************************************)
(* The model keeps its type, whatever windows are left and whatever result *)
(* comes late, and the interface knows a user exactly when it is           *)
(* authenticated (type model and the handlers of results).                 *)
(***************************************************************************)
THEOREM TypeCorrect == Spec => []TypeOK
<1>1. IInv => TypeOK
  BY DEF IInv, WindowsFit, Fits, UserFits, TypeOK
<1>2. QED
  BY <1>1, Invariance, PTL

(***************************************************************************)
(* Who is not logged in sees nothing of the Server, not even below an      *)
(* alert, whatever result comes late (clearRecordState,                    *)
(* handleSessionExpired, handleLogoutResult, handleCurrentUserFailure).    *)
(***************************************************************************)
THEOREM GuestsSeeNothing == Spec => []GuestSeesNothing
<1>1. IInv => GuestSeesNothing
  BY DEF IInv, WindowsFit, Fits, GuestFits, Private, GuestSeesNothing
<1>2. QED
  BY <1>1, Invariance, PTL

(***************************************************************************)
(* No window waits for nothing, however windows are left and results are   *)
(* dropped (the handlers of results with leaveRecordView, closeRecordEdit  *)
(* and closeRecordDelete).                                                 *)
(***************************************************************************)
THEOREM WindowsAreNotStuck == Spec => []NoWindowIsStuck
<1>1. ASSUME IInv PROVE NoWindowIsStuck
  <2>1. \A k \in Kinds : k \in Pending(tui) => tui.requests[k].pending
    BY DEF Pending
  <2>2. /\ tui.workspace.state = "loading" => "ListRecords" \in Pending(tui)
        /\ tui.view.status = "loading" =>
             "ViewRecord" \in Pending(tui) \/ "ViewCachedRecord" \in Pending(tui)
        /\ tui.edit.status = "loading" => "LoadRecordForEdit" \in Pending(tui)
        /\ tui.dialog = "recordEdit" => tui.edit.status # "idle"
        /\ tui.dialog = "recordDelete" => tui.deletion
    BY <1>1 DEF IInv, WindowsFit, Fits, LoadsFit, FormsFit
  <2>3. QED
    BY <2>1, <2>2 DEF NoWindowIsStuck, Pending
<1>2. QED
  BY <1>1, Invariance, PTL

(***************************************************************************)
(* While a list of the cache is shown, no other account's cache session is *)
(* open, also when an opening that nobody waits for ends late (OpenCache   *)
(* of cli/tui.go and handleCacheOpenResult).                               *)
(***************************************************************************)
THEOREM ShownCacheStaysOpen == Spec => []ShownCacheIsOpen
<1>1. IInv => ShownCacheIsOpen
  BY DEF IInv, WindowsFit, Fits, CacheFits, ShownCacheIsOpen
<1>2. QED
  BY <1>1, Invariance, PTL

(***************************************************************************)
(* The windows implement Operations: every step of the user begins at most *)
(* one command, an accepted result finishes its request before it is       *)
(* applied, any other changes nothing, and what the commands do changes no *)
(* request (updateResultMessage and all its callers).                      *)
(***************************************************************************)
THEOREM TuiImplementsOperations == Spec => TableIsUsedAsPromised
<1>1. Init => Coordinator!Init
  BY InitFits
<1>2. IInv /\ [Next]_vars => [Coordinator!Next]_Coordinator!vars
  BY NextKeeps DEF TableStep
<1>3. QED
  BY <1>1, <1>2, Invariance, PTL DEF Spec, Coordinator!Spec, TableIsUsedAsPromised

(***************************************************************************)
(* The keys are never refused without a reason: whatever is pending has a  *)
(* command in flight whose result the table will accept (begin, finish and *)
(* networkBusy).                                                           *)
(***************************************************************************)
BusyHasCommand ==
  \A k \in Kinds : tui.requests[k].pending =>
    \E t \in tui.flight : t.kind = k /\ Live(tui, t)

THEOREM NoBusyWithoutCommand == Spec => []BusyHasCommand
<1>1. ASSUME IInv, NEW k \in Kinds, tui.requests[k].pending
      PROVE  \E t \in tui.flight : t.kind = k /\ Live(tui, t)
  <2>1. [kind |-> k, id |-> tui.requests[k].id] \in Numbers(tui.flight)
    BY <1>1 DEF IInv, Table!IInv, Table!Consistent, Table!Waits
  <2>2. PICK t \in tui.flight :
          [kind |-> k, id |-> tui.requests[k].id] = [kind |-> t.kind, id |-> t.id]
    BY <2>1 DEF Numbers
  <2>3. t.kind = k /\ t.id = tui.requests[k].id
    BY <2>2
  <2>4. QED
    BY <1>1, <2>3 DEF Live, Accepts
<1>2. IInv => BusyHasCommand
  BY <1>1 DEF BusyHasCommand
<1>3. QED
  BY <1>2, Invariance, PTL

(***************************************************************************)
(* What the windows have cancelled or replaced stays so: no later key, and *)
(* no result of another command, makes the interface take the late result  *)
(* (accepts, with the cancellations of every handler).                     *)
(***************************************************************************)
LateStaysLate ==
  [][\A t \in tui.flight \cap tui.flight' : Live(tui, t)' => Live(tui, t)]_vars

THEOREM LateResultsStayOut == Spec => LateStaysLate
<1>1. Init => Table!Init
  BY InitFits
<1>2. IInv /\ [Next]_vars => [Table!Next]_Table!vars
  BY NextKeeps DEF TableStep
<1>3. Spec => Table!Spec
  BY <1>1, <1>2, Invariance, PTL DEF Spec, Table!Spec
<1>4. Table!Spec => Table!StaleForEver
  BY Table!StaleStaysStale
<1>5. [\A t \in Numbers(tui.flight) \cap Numbers(tui.flight)' :
         Table!Accepts(tui.requests, t.kind, t.id)' => Table!Accepts(tui.requests, t.kind, t.id)]_Table!vars
      => [\A t \in tui.flight \cap tui.flight' : Live(tui, t)' => Live(tui, t)]_vars
  <2> SUFFICES ASSUME [\A t \in Numbers(tui.flight) \cap Numbers(tui.flight)' :
                          Table!Accepts(tui.requests', t.kind, t.id)
                          => Table!Accepts(tui.requests, t.kind, t.id)]_Table!vars,
                      NEW t \in tui.flight, t \in tui.flight', Live(tui', t)
               PROVE  Live(tui, t)
    BY DEF vars
  <2> DEFINE n == [kind |-> t.kind, id |-> t.id]
  <2>1. n \in Numbers(tui.flight) /\ n \in Numbers(tui.flight)'
    BY DEF Numbers
  <2>2. Accepts(tui.requests', t.kind, t.id)
    BY DEF Live
  <2>3. Accepts(tui.requests, t.kind, t.id)
    BY <2>1, <2>2, SameTable DEF Table!vars
  <2>4. QED
    BY <2>3 DEF Live
<1>6. QED
  BY <1>3, <1>4, <1>5, PTL DEF Table!StaleForEver, LateStaysLate
=============================================================================
