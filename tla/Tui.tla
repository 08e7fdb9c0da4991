--------------------------------- MODULE Tui ---------------------------------
(***************************************************************************)
(* The terminal interface of the client: internal/client/tui over the      *)
(* backend of internal/client/cli/tui.go.                                  *)
(*                                                                         *)
(* The program has one loop that handles a key, a click or a result at a   *)
(* time; every command runs in a goroutine of its own and posts its result *)
(* to the loop.  tui is the model of the program (type model) with its     *)
(* operation table, and the commands in flight; the methods of model are   *)
(* operators from a model to a model.  file is what the commands change    *)
(* outside: the session file of each session directory.                    *)
(*                                                                         *)
(* Left out: what is drawn, the contents of the forms, the selection in    *)
(* the list (RecordList) and opening a link in the browser.  Whether a     *)
(* record is binary and whether a list is empty is left open.              *)
(***************************************************************************)
EXTENDS OperationTable, FiniteSets

CONSTANTS
  Logins,
  NoLogin,
  Dirs,         \* session directories of the configurations
  MaxStarts     \* bound on the operations that the user begins

ASSUME TuiAssumption ==
  /\ NoLogin \notin Logins
  /\ MaxStarts \in Nat
  /\ Kinds = {"CurrentUser", "Login", "Register", "Logout", "ServerStatus",
              "ListRecords", "OpenCache", "ViewRecord", "ViewCachedRecord",
              "LoadRecordForEdit", "CreateRecord", "EditRecord", "DeleteRecord",
              "BinarySave", "Sync"}

VARIABLES
  tui,
  file          \* file[d]: the user of session.json in d, or NoLogin

vars == <<tui, file>>

\* The path picker is a window of its own for each form that it is opened from.
Dialogs == {"none", "login", "register", "currentUser", "serverStatus", "config",
            "pickConfig", "info", "recordView", "binarySave", "pickSave",
            "recordType", "recordCreate", "pickCreate", "recordEdit", "pickEdit",
            "recordDelete", "cacheBrowse", "sync", "syncResult"}

\* A command in flight.  user: the login it was given, or the one in its result.
Tasks == [kind : Kinds, id : Nat, stage : {"run", "save", "done"},
          user : Logins \cup {NoLogin}, dir : Dirs,
          out : {"none", "ok", "notLoggedIn", "failed"}]

\* alert: "off", or the window to return to.  cache: the account whose cache
\* session the backend holds open.
Models ==
  [requests : [Kinds -> Request],
   flight : SUBSET Tasks,
   starts : Nat,
   cache : Logins \cup {NoLogin},
   session : {"unknown", "guest", "authenticated"},
   login : Logins \cup {NoLogin},
   check : {"restore", "reconfigure", "manual"},
   dialog : Dialogs \cup {"quit"},
   alert : Dialogs \cup {"off"},
   workspace : [source : {"server", "cache", "none"}, open : BOOLEAN,
                state : {"idle", "loading", "ready", "failed"},
                login : Logins \cup {NoLogin}],
   view : [status : {"idle", "loading", "ready"}, source : {"server", "cache"}],
   edit : [status : {"idle", "loading", "ready"}, return : {"none", "recordView"}],
   deletion : BOOLEAN,
   dir : Dirs]

NoView == [status |-> "idle", source |-> "server"]

NoEdit == [status |-> "idle", return |-> "none"]

\* recordWorkspace.clear.
Closed == [source |-> "none", open |-> FALSE, state |-> "idle", login |-> NoLogin]

-----------------------------------------------------------------------------
(* Operations *)

CancelOps(s, K) == [s EXCEPT !.requests = Cancelled(s.requests, K)]

\* begin, and the command that goes with it.
Start(s, kind, user) ==
  LET table == Begun(s.requests, kind)
      task == [kind |-> kind, id |-> table[kind].id, stage |-> "run",
               user |-> user, dir |-> s.dir, out |-> "none"]
  IN [s EXCEPT !.requests = table, !.flight = s.flight \cup {task}]

Live(s, t) == Accepts(s.requests, t.kind, t.id)

\* blocksInteraction: deleting the session and writing a file stay out of sight.
Blocking == Kinds \ {"Logout", "BinarySave"}

Busy(s) == \E k \in Blocking : s.requests[k].pending

\* beginCurrentUserCheck.
CheckCurrentUser(s, mode) ==
  LET c == [CancelOps(s, {"Logout"}) EXCEPT !.check = mode]
      u == IF mode = "restore" THEN [c EXCEPT !.session = "unknown", !.login = NoLogin] ELSE c
  IN Start(u, "CurrentUser", NoLogin)

-----------------------------------------------------------------------------
(* Records, cache and sync *)

Authenticated(s) == s.session = "authenticated"

Selected(s, source) ==
  s.workspace.source = source /\ s.workspace.state = "ready"

\* A workspace that is replaced or closed closes the cache session it shows.
CacheWithoutWorkspace(s) == IF s.workspace.source = "cache" THEN NoLogin ELSE s.cache

\* Mutation: the list stays, only its requests are cancelled.
ClearRecordsButList(s) ==
  [CancelOps(s, Kinds \ {"CurrentUser", "Login", "Register", "Logout", "ServerStatus", "Sync"})
     EXCEPT !.view = NoView, !.edit = NoEdit, !.deletion = FALSE]

\* clearRecordState.
ClearRecords(s) ==
  [CancelOps(s, Kinds \ {"CurrentUser", "Login", "Register", "Logout", "ServerStatus", "Sync"})
     EXCEPT !.cache = CacheWithoutWorkspace(s), !.workspace = Closed,
            !.view = NoView, !.edit = NoEdit, !.deletion = FALSE]

\* closeRecordWorkspace.
CloseWorkspace(s) ==
  [CancelOps(s, {"ListRecords", "OpenCache", "ViewCachedRecord"})
     EXCEPT !.cache = CacheWithoutWorkspace(s), !.workspace = Closed]

\* beginOnlineRecordList with recordWorkspace.beginServer.
ListRecords(s) ==
  LET c == IF s.workspace.source = "cache" THEN CloseWorkspace(s) ELSE s
      state == IF Selected(c, "server") THEN "ready" ELSE "loading"
  IN IF ~ Authenticated(s) THEN s
     ELSE [Start(c, "ListRecords", NoLogin) EXCEPT
             !.workspace = [source |-> "server", open |-> TRUE, state |-> state,
                            login |-> NoLogin]]

\* leaveRecordView.
LeaveView(s) ==
  [CancelOps(s, {"ViewRecord", "ViewCachedRecord", "BinarySave"}) EXCEPT !.view = NoView]

\* closeRecordEdit.
CloseEdit(s) ==
  [CancelOps(s, {"LoadRecordForEdit", "EditRecord"}) EXCEPT
     !.edit = NoEdit,
     !.dialog = IF s.edit.return = "recordView" /\ s.view.status = "ready"
                  THEN "recordView" ELSE "none"]

\* closeRecordCreate, closeRecordDelete, closeCacheBrowse and closeSync.
CloseCreate(s) == [CancelOps(s, {"CreateRecord"}) EXCEPT !.dialog = "none"]

CloseDelete(s) ==
  [CancelOps(s, {"DeleteRecord"}) EXCEPT !.dialog = "none", !.deletion = FALSE]

CloseCacheBrowse(s) == [CancelOps(s, {"OpenCache"}) EXCEPT !.dialog = "none"]

CloseSync(s) == [CancelOps(s, {"Sync"}) EXCEPT !.dialog = "none"]

\* The part of handleLogoutResult and handleSessionExpired that they share.
BecomeGuest(s) ==
  [CancelOps(ClearRecords(s), {"OpenCache", "Sync"}) EXCEPT
     !.dialog = "none", !.session = "guest", !.login = NoLogin, !.alert = "none"]

\* handleSessionExpired.
SessionExpired(s) == BecomeGuest(CancelOps(s, Kinds))

\* showAlert; the window below stays until the alert is dismissed.
Alert(s, return) == [s EXCEPT !.alert = return]

-----------------------------------------------------------------------------
(* Results *)

\* handleCurrentUserSuccess.
CurrentUserFound(s, login) ==
  LET a == [s EXCEPT !.session = "authenticated", !.login = login]
      b == IF s.dialog = "login" THEN [a EXCEPT !.dialog = "none"] ELSE a
      cached == s.workspace.open /\ s.workspace.source = "cache"
  IN CASE s.check = "manual" ->
            [IF s.workspace.open /\ s.login # login THEN CloseWorkspace(a) ELSE a
               EXCEPT !.dialog = "currentUser"]
       [] s.check # "manual" /\ cached /\ s.workspace.login = login -> b
       [] s.check # "manual" /\ ~ (cached /\ s.workspace.login = login) ->
            ListRecords(IF cached THEN CloseWorkspace(b) ELSE b)

\* handleCurrentUserFailure.
CurrentUserNotFound(s, out) ==
  LET c == IF s.check = "restore" /\ s.workspace.open /\ s.workspace.source = "cache"
             THEN CloseWorkspace(s) ELSE s
      guest == [c EXCEPT !.session = "guest", !.login = NoLogin]
      atLogin == IF s.dialog = "none" THEN "login" ELSE s.dialog
  IN CASE out = "notLoggedIn" /\ s.check = "manual" -> SessionExpired(c)
       [] out = "notLoggedIn" /\ s.check # "manual" -> [guest EXCEPT !.dialog = atLogin]
       [] out = "failed" /\ s.check = "manual" -> Alert(c, "none")
       [] out = "failed" /\ s.check = "reconfigure" -> Alert(c, c.dialog)
       [] out = "failed" /\ s.check = "restore" -> Alert(guest, atLogin)

\* handleLoginResult, handleRegisterResult, handleLogoutResult.
LoginResult(s, t) ==
  IF t.out = "ok"
    THEN ListRecords([s EXCEPT !.session = "authenticated", !.login = t.user,
                               !.dialog = "currentUser"])
    ELSE Alert(s, "login")

RegisterResult(s, t) ==
  IF t.out = "ok" THEN Alert([s EXCEPT !.dialog = "none"], "login") ELSE Alert(s, "register")

LogoutResult(s, t) ==
  IF t.out = "ok" THEN BecomeGuest(s) ELSE Alert([s EXCEPT !.dialog = "none"], "none")

\* Mutation: a list that could not be loaded goes on waiting.
ListResultKeepsLoading(s, t) ==
  IF t.out = "ok" THEN [s EXCEPT !.workspace.state = "ready"] ELSE Alert(s, s.dialog)

\* handleRecordListResult: a list that was shown before stays when a refresh fails.
ListResult(s, t) ==
  IF t.out = "ok" THEN [s EXCEPT !.workspace.state = "ready"]
  ELSE Alert([s EXCEPT !.workspace.state = IF @ = "ready" THEN "ready" ELSE "failed"], s.dialog)

\* handleCacheOpenResult.
OpenCacheResult(s, t) ==
  IF t.out = "ok"
    THEN [s EXCEPT !.dialog = "none",
                   !.workspace = [source |-> "cache", open |-> TRUE, state |-> "ready",
                                  login |-> t.user]]
    ELSE Alert(s, "cacheBrowse")

\* handleRecordViewResult and handleCachedRecordViewResult.
ViewResult(s, t, wanted) ==
  CASE t.out = "failed" -> Alert([LeaveView(s) EXCEPT !.dialog = "none"], "none")
    [] t.out = "ok" /\ s.dialog = "recordView" /\ wanted -> [s EXCEPT !.view.status = "ready"]
    [] t.out = "ok" /\ ~ (s.dialog = "recordView" /\ wanted) -> LeaveView(s)

\* handleBinarySaveResult.
BinarySaveResult(s, t) ==
  IF t.out = "ok" THEN Alert([s EXCEPT !.dialog = "recordView"], "recordView")
  ELSE Alert(s, "binarySave")

\* handleRecordCreateResult with recordWorkspace.prepend.
CreateResult(s, t) ==
  LET c == [CancelOps(s, {"ListRecords"}) EXCEPT !.dialog = "none"]
      w == IF s.workspace.open /\ s.workspace.state = "ready"
             THEN [source |-> "server", open |-> TRUE, state |-> "ready", login |-> NoLogin]
             ELSE Closed
  IN IF t.out = "ok" THEN Alert([c EXCEPT !.workspace = w], "none") ELSE Alert(s, "recordCreate")

\* handleRecordEditLoadResult.
LoadEditResult(s, t) ==
  CASE t.out = "failed" -> Alert([s EXCEPT !.edit = NoEdit, !.dialog = "none"], "none")
    [] t.out = "ok" /\ s.dialog = "recordEdit" /\ Authenticated(s) ->
         [s EXCEPT !.edit = [status |-> "ready", return |-> "none"]]
    [] t.out = "ok" /\ ~ (s.dialog = "recordEdit" /\ Authenticated(s)) ->
         [s EXCEPT !.edit = NoEdit]

\* handleRecordEditResult: the record is shown, and is the first of the list.
EditResult(s, t) ==
  IF t.out = "ok"
    THEN Alert([s EXCEPT !.workspace = [source |-> "server", open |-> TRUE,
                                        state |-> "ready", login |-> NoLogin],
                         !.view.status = "ready", !.edit = NoEdit, !.dialog = "recordView"],
               "recordView")
    ELSE Alert(s, "recordEdit")

\* handleRecordDeleteResult.
DeleteResult(s, t) ==
  IF t.out = "ok" THEN Alert([s EXCEPT !.deletion = FALSE, !.dialog = "none"], "none")
  ELSE Alert(s, "recordDelete")

\* handleSyncResult.
SyncResult(s, t) ==
  LET r == [s EXCEPT !.dialog = "syncResult"]
  IN IF t.out # "ok" THEN Alert(s, "sync")
     ELSE IF s.workspace.open /\ s.workspace.source = "server" THEN ListRecords(r) ELSE r

\* An operation that finds no session ends the session in the interface, too.
EndsSession(t) ==
  /\ t.out = "notLoggedIn"
  /\ t.kind \in {"ListRecords", "ViewRecord", "LoadRecordForEdit", "CreateRecord",
                 "EditRecord", "DeleteRecord", "Sync"}

\* updateResultMessage, once the result is accepted and its request finished.
Applied(s, t) ==
  IF EndsSession(t) THEN SessionExpired(s) ELSE
  CASE t.kind = "CurrentUser" ->
         IF t.out = "ok" THEN CurrentUserFound(s, t.user) ELSE CurrentUserNotFound(s, t.out)
    [] t.kind = "Login" -> LoginResult(s, t)
    [] t.kind = "Register" -> RegisterResult(s, t)
    [] t.kind = "Logout" -> LogoutResult(s, t)
    [] t.kind = "ServerStatus" -> s
    [] t.kind = "ListRecords" -> ListResult(s, t)
    [] t.kind = "OpenCache" -> OpenCacheResult(s, t)
    [] t.kind = "ViewRecord" -> ViewResult(s, t, Authenticated(s))
    [] t.kind = "ViewCachedRecord" -> ViewResult(s, t, s.workspace.source = "cache")
    [] t.kind = "LoadRecordForEdit" -> LoadEditResult(s, t)
    [] t.kind = "CreateRecord" -> CreateResult(s, t)
    [] t.kind = "EditRecord" -> EditResult(s, t)
    [] t.kind = "DeleteRecord" -> DeleteResult(s, t)
    [] t.kind = "BinarySave" -> BinarySaveResult(s, t)
    [] t.kind = "Sync" -> SyncResult(s, t)

Without(s, t) == [s EXCEPT !.flight = s.flight \ {t}]

\* Mutation: a result is applied without asking the table.
DeliverUnasked(t) ==
  /\ t.stage = "done"
  /\ tui' = Applied([Without(tui, t) EXCEPT !.requests = Finished(@, t.kind)], t)
  /\ UNCHANGED file

\* Mutation: a result is applied, but its request stays pending.
DeliverUnfinished(t) ==
  /\ t.stage = "done"
  /\ tui' = IF Live(tui, t) THEN Applied(Without(tui, t), t) ELSE Without(tui, t)
  /\ UNCHANGED file

\* A result reaches the loop.
Deliver(t) ==
  /\ t.stage = "done"
  /\ tui' = IF Live(tui, t)
              THEN Applied([Without(tui, t) EXCEPT !.requests = Finished(@, t.kind)], t)
              ELSE Without(tui, t)
  /\ UNCHANGED file

-----------------------------------------------------------------------------
(* Commands *)

\* The command t has come to stage, with the result out and user.
Step(t, stage, out, user) ==
  [tui EXCEPT !.flight = (tui.flight \ {t})
                           \cup {[t EXCEPT !.stage = stage, !.out = out, !.user = user]}]

At(t, stage, kinds) == t.stage = stage /\ t.kind \in kinds

\* Mutation: a call that finds no session succeeds.
CallWithAnyToken(t) ==
  /\ At(t, "run", {"CurrentUser", "ListRecords"})
  /\ tui' = Step(t, "done", "ok", file[t.dir])
  /\ UNCHANGED file

\* loadSession and a call with the token.
CallWithToken(t) ==
  /\ At(t, "run", {"CurrentUser", "ListRecords", "ViewRecord", "LoadRecordForEdit",
                   "CreateRecord", "EditRecord", "DeleteRecord"})
  /\ \E out \in {"notLoggedIn", "failed"} \cup {o \in {"ok"} : file[t.dir] # NoLogin} :
       tui' = Step(t, "done", out,
                   IF out = "ok" /\ t.kind = "CurrentUser" THEN file[t.dir] ELSE NoLogin)
  /\ UNCHANGED file

\* Register, Health, writing a binary file: nothing here depends on a session.
CallWithoutToken(t) ==
  /\ At(t, "run", {"Register", "ServerStatus", "BinarySave"})
  /\ \E out \in {"ok", "failed"} : tui' = Step(t, "done", out, NoLogin)
  /\ UNCHANGED file

\* Application.Login, and Application.Sync with the user of the stored session,
\* up to the new session.
GetSession(t) ==
  /\ At(t, "run", {"Login", "Sync"})
  /\ LET user == IF t.kind = "Login" THEN t.user ELSE file[t.dir]
     IN \/ user # NoLogin /\ tui' = Step(t, "save", "none", user)
        \/ tui' = Step(t, "done", "failed", NoLogin)
        \/ t.kind = "Sync" /\ tui' = Step(t, "done", "notLoggedIn", NoLogin)
  /\ UNCHANGED file

\* Save asks no context; sync goes on with the records after it.
SaveSession(t) ==
  /\ t.stage = "save"
  /\ \/ /\ file' = [file EXCEPT ![t.dir] = t.user]
        /\ \E out \in {"ok"} \cup {o \in {"failed", "notLoggedIn"} : t.kind = "Sync"} :
             tui' = Step(t, "done", out, t.user)
     \/ tui' = Step(t, "done", "failed", NoLogin) /\ UNCHANGED file

\* Runtime.Logout asks no context, either.
DeleteSession(t) ==
  /\ At(t, "run", {"Logout"})
  /\ \/ file' = [file EXCEPT ![t.dir] = NoLogin] /\ tui' = Step(t, "done", "ok", NoLogin)
     \/ tui' = Step(t, "done", "failed", NoLogin) /\ UNCHANGED file

\* Mutation: an opening that was cancelled leaves its session open.
OpenCacheLate(t) ==
  /\ At(t, "run", {"OpenCache"})
  /\ \/ tui' = [Step(t, "done", "ok", t.user) EXCEPT !.cache = t.user]
     \/ tui' = [Step(t, "done", "failed", NoLogin) EXCEPT !.cache = NoLogin]
  /\ UNCHANGED file

\* tuiBackend.OpenCache, under the mutex of the cache: the session that is open
\* is closed first; a cancelled opening leaves none.
OpenCache(t) ==
  /\ At(t, "run", {"OpenCache"})
  /\ \/ Live(tui, t) /\ tui' = [Step(t, "done", "ok", t.user) EXCEPT !.cache = t.user]
     \/ tui' = [Step(t, "done", "failed", NoLogin) EXCEPT !.cache = NoLogin]
  /\ UNCHANGED file

\* tuiBackend.GetCachedRecord.
ReadCache(t) ==
  /\ At(t, "run", {"ViewCachedRecord"})
  /\ \E out \in {"failed"} \cup {o \in {"ok"} : tui.cache # NoLogin} :
       tui' = Step(t, "done", out, NoLogin)
  /\ UNCHANGED file

Run(t) ==
  \/ CallWithToken(t) \/ CallWithoutToken(t) \/ GetSession(t) \/ SaveSession(t)
  \/ DeleteSession(t) \/ OpenCache(t) \/ ReadCache(t)

-----------------------------------------------------------------------------
(* Menus *)

Actions == {"login", "register", "currentUser", "logout", "serverStatus", "config",
            "browse", "new", "view", "edit", "delete", "browseCache", "viewCached",
            "synchronize", "info", "close"}

OwnActions == {"login", "register", "currentUser", "serverStatus", "info"}

\* currentAction: the action that has brought the window up.
CurrentAction(s) ==
  CASE s.dialog \in OwnActions -> s.dialog
    [] s.dialog \in {"config", "pickConfig"} -> "config"
    [] s.dialog \in {"recordType", "recordCreate", "pickCreate"} -> "new"
    [] s.dialog \in {"recordEdit", "pickEdit"} -> "edit"
    [] s.dialog = "recordDelete" -> "delete"
    [] s.dialog = "cacheBrowse" -> "browseCache"
    [] s.dialog \in {"sync", "syncResult"} -> "synchronize"
    [] s.dialog \in {"recordView", "binarySave", "pickSave"} ->
         IF s.view.source = "cache" THEN "browseCache" ELSE "browse"
    [] s.dialog = "none" ->
         IF ~ s.workspace.open THEN "none"
         ELSE IF s.workspace.source = "cache" THEN "browseCache" ELSE "browse"

\* recordViewTarget and cachedRecordViewTarget.
ViewTarget(s, source) == s.dialog = "none" /\ s.workspace.open /\ Selected(s, source)

Viewing(s) == s.dialog = "recordView" /\ s.view.status = "ready"

\* recordEditTarget.
EditTarget(s) ==
  CASE Viewing(s) -> s.view.source = "server"
    [] s.dialog = "recordEdit" /\ s.edit.status = "ready" -> TRUE
    [] OTHER -> Selected(s, "server")

\* recordDeleteTarget.
DeleteTarget(s) ==
  CASE s.dialog = "recordEdit" -> FALSE
    [] Viewing(s) -> s.view.source = "server"
    [] OTHER -> Selected(s, "server")

\* currentMenuDefinitions.
Enabled(s, a) ==
  CASE a \in {"login", "register"} -> ~ Authenticated(s)
    [] a \in {"currentUser", "logout", "browse", "new", "synchronize"} -> Authenticated(s)
    [] a = "view" -> Authenticated(s) /\ ViewTarget(s, "server")
    [] a = "viewCached" -> ViewTarget(s, "cache")
    [] a = "edit" -> Authenticated(s) /\ EditTarget(s)
    [] a = "delete" -> Authenticated(s) /\ DeleteTarget(s)
    [] a = "close" -> s.dialog # "none" \/ s.workspace.open
    [] a \in {"serverStatus", "config", "info", "browseCache"} -> TRUE

\* The kind of request that each of these windows waits for.
Waits == [login |-> {"Login"}, register |-> {"Register"}, serverStatus |-> {"ServerStatus"}]

CancelWaits(s) == IF s.dialog \in DOMAIN Waits THEN CancelOps(s, Waits[s.dialog]) ELSE s

\* prepareDialogChange: what the window that is left behind had started.
Prepare(s, a) ==
  IF a = "close" THEN s ELSE
  CASE s.dialog \in {"recordView", "binarySave", "pickSave"} /\ a # "edit" -> LeaveView(s)
    [] s.dialog \in {"recordType", "recordCreate", "pickCreate"} /\ a # "new" -> CloseCreate(s)
    [] s.dialog \in {"recordEdit", "pickEdit"} /\ a # "edit" -> CloseEdit(s)
    [] s.dialog = "recordDelete" /\ a # "delete" -> CloseDelete(s)
    [] s.dialog = "cacheBrowse" /\ a # "browseCache" -> CloseCacheBrowse(s)
    [] s.dialog \in {"sync", "syncResult"} /\ a # "synchronize" -> CloseSync(s)
    [] s.dialog \in DOMAIN Waits /\ a # s.dialog -> CancelWaits(s)
    [] OTHER -> s

Open(s, dialog) == [s EXCEPT !.dialog = dialog]

\* cancelSessionCheckForManualAuth.
AsGuest(s) ==
  LET c == CancelOps(s, {"CurrentUser"})
  IN IF s.session = "unknown" THEN [c EXCEPT !.session = "guest"] ELSE c

WithoutCache(s) == IF s.workspace.source = "cache" THEN CloseWorkspace(s) ELSE s

\* beginRecordView.
BeginView(s) ==
  Start([s EXCEPT !.view = [status |-> "loading", source |-> s.workspace.source],
                  !.dialog = "recordView"],
        IF s.workspace.source = "cache" THEN "ViewCachedRecord" ELSE "ViewRecord", NoLogin)

\* openRecordEdit: the record that is shown, or else the selected one, loaded anew.
OpenEdit(s) ==
  IF Viewing(s)
    THEN [CancelOps(s, {"LoadRecordForEdit", "EditRecord"}) EXCEPT
            !.edit = [status |-> "ready", return |-> "recordView"], !.dialog = "recordEdit"]
    ELSE [Start(CancelOps(s, {"EditRecord"}), "LoadRecordForEdit", NoLogin) EXCEPT
            !.edit = [status |-> "loading", return |-> "none"], !.dialog = "recordEdit"]

\* The window that the path picker was opened from.
PickerParent == [pickConfig |-> "config", pickSave |-> "binarySave",
                 pickCreate |-> "recordCreate", pickEdit |-> "recordEdit"]

\* closeActiveDialog.
CloseDialog(s) ==
  CASE s.dialog \in DOMAIN PickerParent -> Open(s, PickerParent[s.dialog])
    [] s.dialog = "recordView" -> Open(LeaveView(s), "none")
    [] s.dialog = "binarySave" -> Open(CancelOps(s, {"BinarySave"}), "recordView")
    [] s.dialog \in {"recordType", "recordCreate"} -> CloseCreate(s)
    [] s.dialog = "recordEdit" -> CloseEdit(s)
    [] s.dialog = "recordDelete" -> CloseDelete(s)
    [] s.dialog = "cacheBrowse" -> CloseCacheBrowse(s)
    [] s.dialog \in {"sync", "syncResult"} -> CloseSync(s)
    [] OTHER -> Open(CancelWaits(s), "none")

\* activateSystemAction and activateWindowAction.
OpenWindow(s, a) ==
  CASE a = "serverStatus" -> Start(Open(s, a), "ServerStatus", NoLogin)
    [] a \in {"config", "info"} -> Open(s, a)
    [] a = "close" -> IF s.dialog # "none" THEN CloseDialog(s) ELSE CloseWorkspace(s)

\* activateAccountAction and startLogout.
AccountAction(s, a) ==
  CASE a \in {"login", "register"} -> Open(AsGuest(s), a)
    [] a = "currentUser" -> CheckCurrentUser(Open(s, a), "manual")
    [] a = "logout" -> Start(Open(CancelOps(s, {"CurrentUser"}), "none"), "Logout", NoLogin)

\* activateRecordAction.
RecordAction(s, a) ==
  CASE a = "browse" -> ListRecords(Open(s, "none"))
    [] a = "new" -> Open(CancelOps(WithoutCache(s), {"CreateRecord"}), "recordType")
    [] a = "view" -> BeginView(s)
    [] a = "edit" -> OpenEdit(s)
    [] a = "delete" -> [Open(s, "recordDelete") EXCEPT !.deletion = TRUE]

\* activateCacheAction.
CacheAction(s, a) ==
  CASE a = "browseCache" -> Open(s, "cacheBrowse")
    [] a = "viewCached" -> BeginView(s)
    [] a = "synchronize" -> Open(WithoutCache(s), "sync")

\* activate, once the window that is left has been closed.
Perform(s, a) ==
  CASE a \in {"serverStatus", "config", "info", "close"} -> OpenWindow(s, a)
    [] a \in {"login", "register", "currentUser", "logout"} -> AccountAction(s, a)
    [] a \in {"browse", "new", "view", "edit", "delete"} -> RecordAction(s, a)
    [] a \in {"browseCache", "viewCached", "synchronize"} -> CacheAction(s, a)

-----------------------------------------------------------------------------
(* What the user can do *)

\* The model after a step of the user; MaxStarts only bounds the model.
User(s) ==
  LET begins == s.flight # tui.flight
  IN /\ ~ Busy(tui)
     /\ begins => tui.starts < MaxStarts
     /\ tui' = IF begins THEN [s EXCEPT !.starts = @ + 1] ELSE s
     /\ UNCHANGED file

In(dialogs) == tui.alert = "off" /\ tui.dialog \in dialogs

\* dismissAlert.
Dismiss ==
  /\ tui.alert # "off"
  /\ User([tui EXCEPT !.dialog = tui.alert, !.alert = "off"])

\* activate.
Menu(a) ==
  /\ tui.alert = "off"
  /\ Enabled(tui, a)
  /\ a # CurrentAction(tui) \/ a \in {"browse", "browseCache"}
  /\ User(Perform(Prepare(tui, a), a))

\* Esc, a Cancel or a Close button; they do not work while a file is written.
Leave ==
  /\ \/ In(Dialogs \ {"none", "binarySave"})
     \/ In({"binarySave"}) /\ ~ tui.requests["BinarySave"].pending
     \/ In({"none"}) /\ tui.workspace.open
  /\ User(Perform(tui, "close"))

\* The button of each form that starts an operation.
SubmitLogin(u) == In({"login"}) /\ User(Start(tui, "Login", u))

SubmitRegister == In({"register"}) /\ User(Start(tui, "Register", NoLogin))

Recheck == In({"serverStatus"}) /\ User(Start(tui, "ServerStatus", NoLogin))

SubmitCreate == In({"recordCreate"}) /\ User(Start(tui, "CreateRecord", NoLogin))

SubmitEdit ==
  /\ In({"recordEdit"}) /\ tui.edit.status = "ready"
  /\ User(Start(tui, "EditRecord", NoLogin))

ConfirmDelete ==
  /\ In({"recordDelete"}) /\ tui.deletion /\ Authenticated(tui)
  /\ User(Start(tui, "DeleteRecord", NoLogin))

SubmitCache(u) == In({"cacheBrowse"}) /\ User(Start(CloseWorkspace(tui), "OpenCache", u))

SubmitSync == In({"sync"}) /\ User(Start(tui, "Sync", NoLogin))

\* activateBinarySave: without a binary record there is nothing to save.
SubmitSave ==
  /\ In({"binarySave"}) /\ ~ tui.requests["BinarySave"].pending
  /\ \/ tui.view.status = "ready" /\ User(Start(tui, "BinarySave", NoLogin))
     \/ User(Open(CancelOps(tui, {"BinarySave"}), "recordView"))

Submit ==
  \/ SubmitRegister \/ Recheck \/ SubmitCreate \/ SubmitEdit \/ ConfirmDelete
  \/ SubmitSync \/ SubmitSave
  \/ \E u \in Logins : SubmitLogin(u) \/ SubmitCache(u)

\* openBinarySave: from the window of a binary record.
OpenBinarySave ==
  In({"recordView"}) /\ Viewing(tui) /\ User(Open(CancelOps(tui, {"BinarySave"}), "binarySave"))

\* openRecordCreate, with the type that was chosen.
ChooseType == In({"recordType"}) /\ User(Open(CancelOps(tui, {"CreateRecord"}), "recordCreate"))

\* A path picker for the field of a form.
PickPath(p) ==
  /\ In({PickerParent[p]})
  /\ p = "pickSave" => ~ tui.requests["BinarySave"].pending
  /\ p = "pickEdit" => tui.edit.status = "ready"
  /\ User(Open(tui, p))

\* A key in the list: Enter, or Delete.
ListKey ==
  /\ In({"none"}) /\ tui.workspace.open
  /\ \/ /\ \E source \in {"server", "cache"} : Selected(tui, source)
        /\ User(BeginView(tui))
     \/ /\ Selected(tui, "server") /\ Authenticated(tui)
        /\ User([Open(tui, "recordDelete") EXCEPT !.deletion = TRUE])

\* applyConfigForm: a change of the addresses or the transport, of the session
\* directory (dir) or of the cache directory (cacheToo).
Reconfigured(s, dir, cacheToo) ==
  LET all == CancelOps(s, Kinds)
      cleared == IF cacheToo \/ s.workspace.source = "server" THEN ClearRecords(all) ELSE all
  IN CheckCurrentUser([cleared EXCEPT !.dir = dir, !.dialog = "none"],
                      IF dir = s.dir THEN "reconfigure" ELSE "restore")

SaveConfig ==
  /\ In({"config"})
  /\ \/ User(Open(tui, "none"))
     \/ \E dir \in Dirs, cacheToo \in BOOLEAN : User(Reconfigured(tui, dir, cacheToo))

\* newModel, before its startup command.
NewModel(dir) ==
  [requests |-> NoRequests, flight |-> {}, starts |-> 0, cache |-> NoLogin,
   session |-> "unknown", login |-> NoLogin, check |-> "restore",
   dialog |-> "none", alert |-> "off",
   workspace |-> [source |-> "server", open |-> FALSE, state |-> "idle", login |-> NoLogin],
   view |-> NoView, edit |-> NoEdit, deletion |-> FALSE, dir |-> dir]

\* Ctrl+Q works whatever is pending: the program and its commands end, and Run
\* closes the cache session (closeFinalBackend).
Quit == tui' = [NewModel(tui.dir) EXCEPT !.dialog = "quit"] /\ UNCHANGED file

UserStep ==
  /\ tui.dialog # "quit"
  /\ \/ Quit \/ Dismiss \/ Leave \/ Submit \/ OpenBinarySave \/ ChooseType \/ ListKey
     \/ SaveConfig
     \/ \E p \in DOMAIN PickerParent : PickPath(p)
     \/ \E a \in Actions : Menu(a)

-----------------------------------------------------------------------------
Init ==
  /\ file \in [Dirs -> Logins \cup {NoLogin}]
  /\ \E dir \in Dirs : tui = CheckCurrentUser(NewModel(dir), "restore")

Next == UserStep \/ \E t \in tui.flight : Run(t) \/ Deliver(t)

\* Every command ends (a call of the Server within its timeout of ten seconds),
\* and the loop receives every result.
Fairness == WF_vars(\E t \in tui.flight : Run(t) \/ Deliver(t))

Spec == Init /\ [][Next]_vars /\ Fairness

-----------------------------------------------------------------------------
(***************************************************************************)
(* The model has its type, and the interface knows a user exactly when it  *)
(* is authenticated.                                                       *)
(***************************************************************************)
TypeOK ==
  /\ tui \in Models
  /\ Authenticated(tui) <=> tui.login # NoLogin
  /\ file \in [Dirs -> Logins \cup {NoLogin}]

\* What the windows show of the records on the Server.
ShowsServerData(s, dialog) ==
  \/ dialog \in {"recordEdit", "pickEdit", "recordDelete", "recordCreate", "pickCreate"}
  \/ dialog \in {"recordView", "binarySave", "pickSave"} /\ s.view.source = "server"
  \/ dialog = "none" /\ s.workspace.open /\ s.workspace.source = "server"

(***************************************************************************)
(* Who is not logged in sees nothing of the Server: no list, no record, no *)
(* form of a record, not even below an alert and whatever result comes     *)
(* late (clearRecordState: "removes private data from the model").         *)
(***************************************************************************)
GuestSeesNothing ==
  ~ Authenticated(tui) =>
    /\ ~ ShowsServerData(tui, tui.dialog)
    /\ tui.alert # "off" => ~ ShowsServerData(tui, tui.alert)

(***************************************************************************)
(* No window waits for nothing: a list, a record and a form that are being *)
(* loaded have their request pending, and the form of a record and the     *)
(* question whether to delete one have their record, however windows are   *)
(* left and results are dropped.                                           *)
(***************************************************************************)
NoWindowIsStuck ==
  LET pending(k) == tui.requests[k].pending
  IN /\ tui.workspace.state = "loading" => pending("ListRecords")
     /\ tui.view.status = "loading" => pending("ViewRecord") \/ pending("ViewCachedRecord")
     /\ tui.edit.status = "loading" => pending("LoadRecordForEdit")
     /\ tui.dialog = "recordEdit" /\ tui.alert = "off" => tui.edit.status # "idle"
     /\ tui.dialog = "recordDelete" => tui.deletion

(***************************************************************************)
(* While a list of the cache is shown, the cache session that is open is   *)
(* the one of its account, or none: also when an opening that nobody waits *)
(* for any more ends late (OpenCache of cli/tui.go).                       *)
(***************************************************************************)
ShownCacheIsOpen ==
  tui.workspace.source = "cache" => tui.cache \in {tui.workspace.login, NoLogin}

Coordinator == INSTANCE Operations
  WITH requests <- tui.requests,
       tasks <- {[kind |-> t.kind, id |-> t.id] : t \in tui.flight}

(***************************************************************************)
(* The windows use the table of requests as Operations says: only accepted *)
(* results are applied, each finishes its request, and every request that  *)
(* is begun has its command (updateResultMessage and all its callers).     *)
(***************************************************************************)
TableIsUsedAsPromised == Coordinator!Spec

(***************************************************************************)
(* The interface never stays blocked: networkBusy ends (interactionBlocked *)
(* refuses every key while it lasts).                                      *)
(***************************************************************************)
BusyEnds == []<> ~ Busy(tui)
=============================================================================
