# GophKeeper: a TLA+ verification project

GophKeeper keeps private records (text, credentials, cards, binary files) of its
users on a Server and lets several devices of a user read and change them. This
directory holds TLA+ models of the parts of it where order, interleaving and
failure decide whether it is correct, the TLC configurations that check them,
and theorems that TLAPS proves for every value of the constants.

Paths below are relative to `src/`.

## 1. Inventory

### The parts, their state and their operations

| Part | State | Operations | Model |
|---|---|---|---|
| Record service (`internal/server/service/records.go`, `postgres/record_repository.go`, the HTTP and gRPC handlers) | table `gopherkeeper.records` | create, list, get, update, delete | `VersionedRecords`, `RecordService` |
| Synchronization (`internal/client/usecase/sync_*.go`, `internal/client/cache/repository_*.go`) | rows of `cached_records`; locals of a sync | `Sync`: list, compare, load, apply | `CacheSync` |
| Cache file (`internal/client/cache/{database,schema,metadata,repository}.go`) | the file, its schema, its metadata (key check) | open, open existing, write, close, clean up | `CacheFile` |
| Transports (`internal/server/app/transport.go`, `transport/http/shutdown.go`, `transport/grpc/server.go`, `cmd/server/main.go`) | two servers, their accept loops and handlers, the pool | start, fail, stop gracefully, stop by force, exit | `Transports` |
| Registration, login, tokens (`service/registration.go`, `service/authentication.go`, `postgres/user_repository.go`, `auth/jwt.go`) | table `gopherkeeper.users`; tokens are stateless | register, login, current user | `Accounts` |
| Client session (`internal/client/session`, `usecase/{auth,runtime,logout,sync_application}.go`) | `session.json` | save, load, delete, renew | `ClientSession` |
| TUI operations (`internal/client/tui/operations.go` and the result handlers) | one request slot per kind, the windows, the commands in flight | begin, cancel, finish, accept a result; menu, buttons, results, log out, reconfigure | `OperationTable`, `Operations`, `Tui` |
| TUI cache backend (`internal/client/cli/tui.go`, `tui/cache_browse.go`) | the open cache session behind a mutex | open, read, close | `Tui` |
| TUI record list (`tui/record_workspace.go`, `mouse_records.go`) | rows, selection, offset, last click | load, refresh, prepend, remove, move, click, resize | `RecordList` |
| TUI path picker (`tui/path_picker*.go`, `model_config.go`) | directory shown, entries, focus, readings and timers in flight | browse, open, select, click, resize | `PathPicker` |
| TUI record form (`tui/record_form*.go`, `text_field*.go`, `text_area.go`, `internal/model`) | controls, cursor, original text | type, paste, delete, move, load, submit | `RecordForm` |
| Gateways, CLI, drawing, configuration, cryptography, migrations | none that outlives a call, or none shared | conversions, flags, layout | see "Not modelled" |

### How they interact

- A Client process (CLI command or TUI) calls the Server over HTTPS or gRPC; both
  transports use the same services and the same pool. A call may lose its answer.
- `Sync` calls login, list and get on the Server, saves the session file, opens the
  cache file and writes the cache in one SQLite transaction.
- Several Client processes of one user share the session file and the cache file.
  No lock is held across the steps of an operation on either.
- Offline commands and the cache browser of the TUI read the cache file only.
- The Server's transports, each with its own goroutines, end together, and
  `run` closes the pool after them.

### What is hard, and what has to be true

- *Record service.* An update reads, compares, seals and writes in two statements
  without a transaction; the reason of a missed write is asked in a third. No
  update of another device may be overwritten (`docs/PROJECT_REQUIREMENTS.md`,
  "Конкурентные изменения"), a refusal must be true, a row must stay decryptable
  (the type is part of the sealed data, but not of the UPDATE), a user sees own
  records only.
- *Synchronization.* The records arrive one by one while other devices change the
  table; rows of the cache may be damaged; everything may fail; a second process
  may sync the same cache. The cache must be one state of the Server, not a mixture.
- *Cache file.* Creation is not atomic (file, schema, metadata), a failing creator
  removes the file by name, and several processes may be at it.
- *Transports.* Failure of one stops the other; requests in flight, a graceful stop
  with a timeout, errors that arrive during the stop, and the pool that is closed
  at the end.
- *Accounts and session.* Two registrations of one login in different spellings; a
  session file that several processes write and delete without a lock, among them a
  sync that authenticates with what it read earlier; two clocks for one expiry.
- *TUI.* Results arrive after their request was cancelled or superseded, after a logout
  or a change of the configuration; an opening of the cache ends when nobody wants it;
  no window may wait for what cannot come, and a guest may see nothing of a user.
- *Lists, pickers, forms.* Rows come and go between two clicks and under a selection;
  listings and timers of one picker reach the next; a form has limits of its own, next
  to those of the model of the record, and must not change a text nobody edited.

`PROJECT.json` lists these as hazards with the line where each bites and the
property that covers it.

## 2. Modules and how they correspond to the code

Every action stands for one step of the code between two points where another
process can get in: a SQL or SQLite statement, a call to the Server, a system call,
a channel operation. Values are abstracted to what the properties tell apart.

### `VersionedRecords` — the abstract table

What the Server promises: rows with owner, type, revision, content and the seal
(owner, id and type, `recordcrypto.BuildAAD`) their payload was encrypted under,
changed only by `Create`, `Replace` (next revision) and `Remove`. `stored` is a
history variable: ids are version 4 UUIDs and do not repeat. `Replace` leaves the
seal alone, so a row always decrypts. `RecordService` implements it; `CacheSync`
uses it as its Server.

### `RecordService` — the handlers at their statements

`pc[c]` is the statement that the handler of client `c` executes next:

| Action | Code |
|---|---|
| `CallCreate` … `CallDelete` | the use case and the gateway of the client; validation that needs no statement is over |
| `ReadRow`, `ListRows` | the SELECT of `Get` and `ListMetadata` |
| `ReadForUpdate` | the SELECT at the head of `RecordService.Update`, with its checks in their order (`UpdateRefusal`) |
| `InsertRow`, `UpdateRow`, `DeleteRow` | the INSERT, and UPDATE and DELETE with `WHERE user_id AND id AND revision` (`Matches`) |
| `MissRow`, `CheckExists` | no row came back: `updateDeleteMissError` asks whether the row exists |
| `StatementFails` | a statement fails without effect |
| `Deliver`, `Lose` | the answer arrives, or does not; `opened[c]` is the version the user then has on the screen |

A list carries metadata only, whose title is part of `Data`; opening an entry of it
is what the user then updates or deletes. `expected` is any revision: the CLI takes
`--revision` from the user. `NoLostUpdate` and `RefusalsHold` speak of requests whose
expected revision is that of the opened version, which is what the TUI always sends.

### `CacheSync` — one synchronization after another

`ListServer`, `ListLocal`, `Validate`, `GetRecord` (one per record), `AllLoaded`,
`Apply` are the calls of `Application.Sync` in their order. A sync ends without success in
two ways: by `Refuse`, where what it read decides so (`ListState`, `validateSyncRecord`), and
by `Abort` at any step, a failure, a timeout or a crash. `buildSyncPlan` is three set expressions (`NewIDs`,
`UpdatedIDs`, `RemovedIDs`). `ServerChanges` is any change by another device. `Damage`
makes a cached row unreadable, perhaps with another revision in its open column;
revision 0 stands for a value `ListState` refuses. `mirror` is a history variable: the
list of the last sync that succeeded. Authentication and opening the cache are the
step `Begin`; `ClientSession` and `CacheFile` are about those.

### `CacheFile` — opening, creating and losing the cache

`path` is the file the name stands for, `content[i]` what is in file `i`, `proc[p]` the step
and the locals of process `p`. The steps are those of `openDatabase` and
`openCacheCrypto`: `Look` (Lstat), `Make` (O_EXCL), `Connect` (Ping, `mode=rw` or `rwc`),
`Schema`, `Verify`, `ReadMetadata`, `InsertMetadata`; `GiveUp` and `CleanUp` are the error
paths; `Crash` is the death of the process. A file is an identity of its own, so a
process may hold a file that has no name any more.

### `Transports` — the life of the Server process

`Listen`, `Break`, `ServeFails`, `BeginStop`, `FinishStop`, `StopTimesOut` are the branches of
the two serve functions; `Collect` is the loop of `ServeTransports`; `Return` and `Exit`
are the end of `run` with the deferred `pool.Close`. `Accept`, `Query`, `Release` and
`Reply` are what net/http, grpc-go and pgxpool do for a request, modelled from how
the code uses them. Its names differ from those of `RecordService`, the service that runs in
this process, so that one module of proofs can be about both.

### `Accounts` and `ClientSession` — logins, tokens and the session file

`Accounts` is the Server's side: `RegisterAnswer` and `Insert` (the unique constraint on the
canonical login), `Authenticates`, `Issued` and `Accepts`. `WholeSecond` is what
`jwt.NewNumericDate` does to the expiry, so the token and the session file disagree by
less than a second. A password is equal to its hash; a token is the session it was
issued with.

`ClientSession` composes it with the processes of one user. `proc[p]` is the command, its
next step and what it holds; the steps are the calls of the use cases in their order:
`Register`; `Login`, `Save`, `Rename`; `Load`, `Whoami`; `Load`, `Check`, `Relogin`, `Save`,
`Rename`, `Records` for a sync; `Logout`. `Fail` ends a command at any step, a kill
included. `Save` writes the temporary file, which nobody reads, and refuses an expired
session; `Rename` is the moment the file changes. `issued` and `told` are history.

### `OperationTable`, `Operations` and `Tui` — the terminal interface

`OperationTable` is `operationCoordinator`: `Begin`, `Cancel`, `Finish` and `Accepts` as operators.
`Operations` is the abstract specification of how the windows may use it: one command
begun in a step, any cancelled, a result applied only if it is accepted and then
finishing its request, a stale one dropped.

`Tui` is the program: the record `tui` is the Bubble Tea model with the commands in
flight, `file` the session file in each session directory. The handlers are operators
from a model to a model, as they are in the code (`ClearRecords` is `clearRecordState`,
`CurrentUserFound` is `applyCurrentUserSuccess`, and so on; `PROJECT.json` has them all). A
command does its work (`Run`: the call, the session file, the cache session behind the
mutex) and posts its result (`Deliver`); between the two the user goes on. `Menu` is
`activate` with `Prepare`, `Perform` and `Enabled`; `Leave`, `Submit`, `PickPath`, `ListKey`,
`SaveConfig`, `Dismiss` and `Quit` are the rest of the user. An operation that has not the
session it needs, a cancelled opening of the cache that ends all the same, and a
configuration with other directories are part of it, and so is the form that saves a file and
finds the record gone.

`Tui` implements `Operations` under the mapping that takes the table from the model and
forgets all of a command but its kind and number.

### `RecordList` — rows, selection and clicks

`list` is `recordWorkspace` with its real rows and offsets, `click` the last click, `page` the
rows of the window. Every way to change the rows (`BeginServer`, `OpenCache`, `Apply`,
`Prepend`, `Drop`, `Fail`, `Close`) is one action with the scrolling it ends with
(`EnsureVisible`). `unseen` is a history variable: the window changed below a path picker,
where `updateWindowSize` leaves the list alone. After a deletion the *row* stays selected,
not the record: that is what `remove` does.

### `PathPicker` and `RecordForm` — choosing files and editing records

`PathPicker` models one picker that six fields share. A reading of a directory is in the bag
`reads` until `ReadEnds`, and may then find the picker in another directory, closed or open
for another field; the timer of a click is in `timers` until `TimerFires`. Every reading may
find other entries. `RecordForm` adds the windows below it and the form of each type of
record: controls and focus, the editing of lines and of the text with their policies and
limits (`Normal`, `Fitting`), loading of a record, `Sent` (what is submitted), `CanSubmit` and
the rules of `internal/model` (`ValidRecord`). Strings are short sequences of classes of
characters.

### Composition

`VersionedRecords` is extended by `RecordService` (which refines it) and by `CacheSync`
(where it is the environment). Because `RecordService` implements it, what `CacheSync`
shows holds for a Client that syncs with the interleaved handlers. `ClientSession` extends
`Accounts`, `RecordForm` extends `PathPicker`, `Tui` extends the table and refines
`Operations`. `MC*` modules give the constants values and state what needs extra history.

## 3. The runs

| Run | Instance | Shows |
|---|---|---|
| `record_service` | 3 clients (2 of one user), 1 record, 2 types, 2 contents, revisions 1..2 | `NoLostUpdate`, `RefusalsHold`, `RevisionNamesVersion`, `RowsDecrypt`, `OwnRecordsOnly`, `ImplementsTable`, `TypeOK` |
| `cache_sync_single` | 1 sync process, 2 records, revisions 1..3 | `CacheMirrorsServer`, `CacheNeverStepsBack`, `SyncRepairs`, `EverySyncEnds`, `TypeOK` |
| `cache_sync_two` | 2 sync processes, 2 records, revisions 1..2 | **violation** of `SyncedCacheIsServerState` |
| `cache_file_open` | 3 processes, 4 files, 2 passwords | `OpenIsOnDisk`, `OneKey`, `CacheIsKept`, `OfflineCreatesNothing`, `TypeOK` |
| `cache_file_first` | 2 processes, 3 files, 1 password, no crash | **violation** of `CacheIsUsable` |
| `transports_shutdown` | 2 transports, 3 requests | `HealthyTransportsDrain`, `EveryFailureReported`, `ProcessEnds`, `ProcessTypeOK` |
| `client_session` | 2 processes, 1 login in 2 spellings and one that is no login, 2 passwords, a second of 2 units, tokens of 3 | `RegistrationHolds`, `SessionFileIsIssued`, `SessionNeedsPassword`, `ExpiryAgreed`, `TypeOK` |
| `client_session_sync` | 2 processes, 2 logins, no passing of time | **violation** of `OnlyLoginOpensSession` |
| `tui` | all 15 kinds of operations, 2 logins, 2 session directories, 3 operations begun by the user | `GuestSeesNothing`, `NoWindowIsStuck`, `ShownCacheIsOpen`, `TableIsUsedAsPromised`, `BusyEnds`, `TypeOK` |
| `record_list` | lists of up to 4 records, pages of 1 to 3 rows | `SelectionVisible`, `ClickIsCurrent`, `RefreshKeepsSelection`, `TypeOK` |
| `record_list_resize` | lists of up to 3 records, pages of 1 and 2 rows | **violation** of `ResizeKeepsPage` |
| `record_form` | 4 types, 4 inputs, 4 loaded records, 4 fields with a picker, 4 windows, pickers and edits together | `PickerFits`, `SubmittedIsValid`, `TextIsKept`, `TypeOK` |

The largest are `record_service` (1.6 million distinct states) and `record_form` (0.75 million).

### Bounds

- `record_service`: `MaxRevision` stands for the end of a BIGINT; at 2 an update can succeed,
  be overtaken and hit the end of the range. Two clients of one user make every pair of
  conflicting statements, the third is the stranger; the two are interchangeable, and the
  run has no liveness, so symmetry is sound. One record is enough for optimistic locking,
  which compares a record with itself; what more clients, records or revisions could do is
  covered by the proofs.
- `CacheSync` needs two records for a mixture of two tables and three revisions for one
  that changes between the list and the load and again before the next sync. Types and
  contents are single there: rows of one id differ by revision, and `RevisionNamesVersion`
  says that this is all that can differ.
- Four files for three processes: `MakeFile` needs one that is neither named nor held, so
  it is never stuck for want of a file. Files, processes and passwords are interchangeable,
  and the run checks only safety, so symmetry is sound.
- Two transports are what the program has; three requests put two on one transport.
- `client_session`: two processes make every crossing of a save, a deletion and a reading;
  a token of a second and a half, on a clock of half seconds that runs to its end, has an
  expiry with a fraction that the token loses. The proofs are for any of these.
- `tui`: `MaxStarts` bounds the operations begun by the user, not the keys, nor the
  operations that results begin (a list after a login or a deletion, a check after the
  configuration). Three let two of them be late while a third is asked for. Two accounts
  and two directories let a late result be of another user or place. The program starts
  in one directory, with a session or none (`HomeInit`).
- `record_list`: four records on pages of one to three rows have every case of scrolling
  (list shorter than, as long as and longer than a page, a step past each end). The proofs
  are for lists of any length.
- `record_form`: `MaxField` 3, `MinNumber`..`MaxNumber` 2..3, `CVVSize` 2 and `MaxText` 4 bytes stand for
  the 255, 12..20, 3 and 1 MiB of the code: the order between limits, and not their
  size, decides what fits. `Budget` 4 counts windows, pickers and edits together, so a form
  is opened, its picker used and its fields edited in one behaviour; what happens inside a
  picker is not counted. `MaxReads` and `MaxTimers` are 2: one of now, one of earlier.

### Fairness

- `CacheSync`: weak fairness of the sync's own steps (`SyncStep`): every request of the client
  has a timeout and every statement returns, so a running sync takes its next step or is
  aborted. No fairness of `Abort`: a sync does not end because something must fail, it ends
  because at every step there is one it can take, if only to refuse what it read, and its
  loop over the records gets shorter. Nothing obliges a user to start one or the Server to
  hold still. The property is that a sync *ends*, not that it succeeds: with a Server that
  keeps changing it may fail for ever.
- `Transports`: weak fairness of the goroutines that can run, of the end of a statement
  (its context is cancelled, or it finishes), and of the shutdown timer, which is one of
  the ways `Serve` goes on. No fairness of `Respond`: a handler may hang, and `ProcessEnds`
  holds in spite of it. No fairness of clients, signals or failures.
- `Tui`: weak fairness of "some command in flight goes on or its result is received": a call
  of the Server has a timeout of ten seconds, and the loop receives every message. No
  fairness of the user. `BusyEnds` says that the interface, which refuses keys while an
  operation is pending, is free again and again.
- `CHECK_DEADLOCK FALSE` in `transports_shutdown` and `tui` (the process really ends) and in
  `record_form` (the user may stop, and does when the budget is spent).
- The other modules state safety only and assume no fairness.

### What the violations show

- `cache_sync_two`. `docs/CLI.md` says that after a successful synchronization the cache
  corresponds to the Server at the moment of the operation. Two processes that sync the
  same cache each compare the Server with the cache they found, and the later one applies
  its difference to what the other has left. Each reports success; the cache is a mixture.
  The next sync repairs it, because revisions are compared again.
- `cache_file_first`. `OpenRepository` is documented to create the metadata on the first
  start and to check the password on the next ones. When two first syncs cross and the
  one that made the file fails, the other's connection makes the file anew as one that
  "was there before", is refused for want of metadata and leaves it. Every later opening,
  with any password, is then refused. A crash between making the file and inserting the
  metadata has the same outcome; the run has no crashes, to show that none is needed.

- `client_session_sync`. `docs/SETUP.md` says that the session is saved after a login, and
  `docs/CLI.md` that a logout deletes it. A sync that is under way when another process logs
  out, or logs in as another user, saves the session it has renewed afterwards: the user
  is logged in again, or as the earlier user, without a login.
- `record_list_resize`. A test demands that a resize keeps the selected row on the page.
  `updateWindowSize` returns early while a path picker is open, and closing the picker does
  not make up for it: the selected row may be off the page until the next key.

A divergence without a run: `docs/CLI.md` calls the cache that of a pair server/login, while
`internal/client/cache/account.go` derives it from the login alone, which is what
`docs/PROJECT_REQUIREMENTS.md` says.

## 4. The proofs

`Server_proofs` is about the Server: the record service, then the process it runs in. Its
first part proves, for any sets of clients, users, records, types and contents
and any largest revision, every property that the run of `RecordService` checks:

| Theorem | States |
|---|---|
| `InductiveInvariant` | `Spec => []IInv` |
| `TypeCorrect` | `Spec => []TypeOK` |
| `RowsAlwaysDecrypt` | `Spec => []RowsDecrypt` |
| `OnlyOwnRecords` | `Spec => []OwnRecordsOnly` |
| `RevisionsNameVersions` | `Spec => []RevisionNamesVersion` |
| `NoUpdateIsLost` | `Spec => NoLostUpdate` |
| `TableImplemented` | `Spec => ImplementsTable` |
| `RefusalsAreTrue` | `Spec => []RefusalsHold` |

*Assumptions*: those the modules name (`MaxRevisionAssumption`, `NoRowAssumption`,
`UserOfAssumption`, `NoneAssumption`), which TLC evaluates in the runs.

*The argument.* None of the properties is inductive alone. `IInv` adds to the type
invariant: that an id a handler is about to insert is not stored and held by no other
handler (so an insert never overwrites); that a handler that has passed the checks of
`Update` holds the type of the row, which no statement changes, for as long as the row
exists; that every row decrypts; that every copy of a version, on its way or on a screen,
is of a stored id, of the client's own user, and not newer than the row, and the row
itself where the revisions are equal; and that two copies with one revision are equal.
A write makes a row newer than all copies, which is why equality of revisions is equality
of versions and why the comparison in the WHERE clause is enough. `RefusalsAreTrue` needs
a second invariant, `RefusalInv`, that relates a refusal to the kind of request, and rests
on a fact about steps (`RowsGrow`): ids never come back and revisions never shrink, so what
made a refusal true stays true until it is delivered.

The proof of `[Next]_vars` has a lemma per kind of step: a new request, an answer, a move
to the next statement, a finished client, and the three writes, which share one lemma.

Its second part proves `ProcessTypeCorrect`, `HealthyDrain` and `FailuresReported`
(`ProcessTypeOK`, `HealthyTransportsDrain`, `EveryFailureReported`) for any set of transports
and requests, from `ViaAssumption`. Its `ProcessIInv` adds that `run` goes on only after every result, that a
transport stops gracefully only when told to (so the "stopped unexpectedly" branch is
never the reason of a report here), that a received result and the joined error agree,
that a transport which stopped gracefully has no open request, and that only a failed one
cuts requests. There is a lemma for the goroutines of a transport, one for
`ServeTransports` and `run`, and one for the requests.

`CacheSync_proofs` proves `TypeOK`, `CacheMirrorsServer`, `SyncRepairs` and `CacheNeverStepsBack`, for
any users, records, types, data and revisions, from `MaxRevisionAssumption`, `NoRowAssumption` and
`NoCacheRowAssumption` (the mark for "no row" is neither a row nor a revision), and under
`OneSync`: there is one sync process. The run `cache_sync_two` shows that this hypothesis
cannot be dropped. The invariant is about ages. A copy of a record is its row or an older
one (`IsPast`), because an id is never used again and a revision never given twice, so two
copies with one revision are the same, and comparing revisions is enough. The list of a
sync is not older than the mirror (`ListFits`), the local state has the ids of the cache
(`LocalFits`), every record of the list is loaded, still to be got or in the cache already
(`PlanFits`), and what is loaded is what was listed (`LoadFits`). So the transaction of
`ApplyChanges` turns one past table into another.

`CacheFile_proofs` proves `TypeOK`, `OpenIsOnDisk`, `OneKey`, `CacheIsKept` and `OfflineCreatesNothing` for any
number of processes, files and passwords, from `NoneAssumption`. Its invariant adds what a
process at each step knows of the file it holds (`ProcessesFit`), that one process at most
has made a file it may have to remove (`OneCreator`), and that a file with a key check is the
one the name stands for (`KeyIsOnDisk`).

`ClientSession_proofs` proves all five properties of its run, for any processes, logins,
spellings, passwords, life of a token and length of a second, from `AccountsAssumption` and
`NoSessionAssumption`. The invariant (`CommandsFit`, `IssuedToAccounts`, `FileIsIssued`) says that a
command that holds a session holds one the Server issued, and that one about to save it has
given the password of its account. Passwords never change and accounts are never lost
(`InsertKeepsAccounts`), so it stays true whatever other processes do in between.
`ExpiriesAgree` rests on the range of `WholeSecond`.

`Operations_proofs` proves, for any set of kinds, that a pending request has its command in
flight (`NobodyWaitsForNothing`), that no number in flight is given again (`NumbersStayFresh`) and
that what is stale stays stale (`StaleStaysStale`). These are properties of the abstract
specification, and by `TuiImplementsOperations` of the table of the program.

`Tui_proofs` proves every safety property of the run `tui`, for any logins, session
directories and number of operations, from `TuiAssumption`:

| Theorem | States |
|---|---|
| `Invariance` | `Spec => []IInv` |
| `TypeCorrect` | `Spec => []TypeOK` |
| `GuestsSeeNothing` | `Spec => []GuestSeesNothing` |
| `WindowsAreNotStuck` | `Spec => []NoWindowIsStuck` |
| `ShownCacheStaysOpen` | `Spec => []ShownCacheIsOpen` |
| `TuiImplementsOperations` | `Spec => TableIsUsedAsPromised` |
| `NoBusyWithoutCommand` | what is pending has a command in flight whose result will be accepted |
| `LateResultsStayOut` | what is cancelled or replaced is never accepted later |

*The invariant.* `Fits(s, P)` relates a model `s` to the kinds `P` that are pending. A handler
leaves some of its parts for a moment, which is why `P` is an argument: `Takes(s, k)` says
that the result of `k` is being applied, its request already finished and its kind still
counted. The parts are `UserFits` (a session has a user), `OneBlocks` (one request at most
makes the interface refuse keys), `GuestFits` (without a session no private window is shown,
nor below an alert, and nothing pending would bring one up), `CheckFits` (a check of the
session that nobody asked for runs with every window closed), `LoadsFit` (what is loading
has its request, and the list and the cache are not mixed up), `FormsFit` (the forms have
their record) and `CacheFits`. `GuestSeesNothing` needs nearly all of them: an expired session
leaves a window of the server behind unless that window had nothing pending, which is so
because only one request blocks. `TaskFits` says what a command in flight may bring, `Unique`
that numbers tell commands apart, and `Table!IInv` is the invariant of `Operations_proofs`,
taken over by instantiation.

*The argument.* `Follows(s, r)` says that a handler leads from `s` to a fitting `r` and uses the
table as promised: it cancels, and begins at most one request (`Keeps`, `Begins`). There is a
lemma for each handler of a result (from `Takes`), one for each step of the user, one for a step of a
command, and `NextKeeps` puts them together. The refinement is proved in the same pass:
each lemma also gives the step of the table.

*What the proof found.* A conjunct of `NoWindowIsStuck`, that an open window of a record has a record,
held in the run and is false: it takes more operations than the run has (section 5). It was
dropped. Two rules of `Prepare` overlapped, so which one applied was open in the model, though not
in the code, and an alternative of `SubmitSave` was missing, which closes the window when the
record is not there any more.

`RecordList_proofs` proves all four properties of its run for lists of any length and windows
of any heights, from `RecordListAssumption`. The invariant adds that a closed list is empty,
which is why a change of the window may pass it by. The lemmas say what `EnsureVisible`,
`Loaded`, `ToFront` and `RemoveAt` return; there is one lemma for each action.

`RecordForm_proofs` proves all four properties of the run `record_form`, for any limits, any
inputs and loaded records, any tree of directories, any heights of the window and any number
of edits:

| Theorem | States |
|---|---|
| `Invariance` | `Spec => []IInv` |
| `TypeCorrect` | `Spec => []TypeOK` |
| `PickersFit` | `Spec => []PickerFits` |
| `SubmittedIsAccepted` | `Spec => []SubmittedIsValid` |
| `TextStaysKept` | `Spec => TextIsKept` |
| `SavedAsLoaded` | what opening a record and saving it at once loses: single lines what is not printed, the title the spaces at its ends, too; the text nothing |

*Assumptions*: `TargetsAssumption` (the two fields of a form that have a picker are among
those modelled), `NamesAssumption` (the names of a tree are finitely many integers, so that
they have an order, and windows have a row), `InputsAssumption` and `LimitsAssumption` (inputs
are texts, limits are numbers) and `LoadsAssumption` (a loaded record is one the validation of
the model accepts, which is what the Server stores, with the expiry in two digits, as
`populateCardExpiry` prints it). No limit is related to another: that
the longest text of a field is accepted by the model is not assumed, it follows.

*The invariant.* The form: every value is one its control would keep (`ValuesFit`), the
cursor is inside its value (`CursorsFit`), and the loaded text, as long as it has not been
changed, is what is shown, in the normal form of the window (`OriginalFits`). The picker, once
it is open (`OpenFits`): it belongs to a field of the window it lies over, its entries are such
as its own directory can have (".." exactly where there is a parent), and Select has the focus
only while it can be pressed. Each field holds nothing or a path of its kind (`FieldsFit`). What
is late (`Reads`, `Timers`) may be anything that can ever be asked for. `PickerFits` alone is not inductive, because what Enter, a click or a late
timer does depends on the entries; `SubmittedIsValid` is about a form at one moment and needs
what every edit leaves behind. TLC checked `IInv` as an invariant of the instance of the run
before it was proved.

*The argument.* `Advances(f, g)` says that an edit leads from `f` to a fitting `g` that is of the
same type and keeps its text as `TextIsKept` wants; there is a lemma for each kind of edit, and
`EditsAdvance` puts them together. The picker has a lemma for each action. Below them are
the lemmas about the data: `Keep` keeps what it should, leaves alone what it kept before and
goes through a concatenation (`KeepType`, `KeepAll`, `KeepConcat`), so an insertion in the
middle of a normal text is normal; a text cut at the limit of bytes fits it (`LimitBytesFits`);
a listing of a directory has the entries of that directory, each once and in order
(`OrderExists`, `ListingIs`).

`SavedAsLoaded` is about the functions alone and says how far a hazard without a property
reaches: a line loses characters that are not printed when its record is loaded, the title
loses the spaces at its ends when it is sent (`recordFormInputFrom` trims it, while the
validation of a title, and so the CLI and the Server, admit them), and nothing else is lost, to
no policy and no limit: the text keeps every character, and month and year, which
`normalizeRecordCardExpiryPart` would fill up, have two digits already (`TwoDigits`). That a
trimmed title is still one the validation accepts is part of `SubmittedIsAccepted`; it rests on
`TrimmedIs`.

*Induction.* These lemmas need induction over the length of a text or the size of a set. The
library's theorems of induction take an operator as a parameter, which the installed provers
cannot instantiate; but that `<` on the naturals is well-founded (`NatLessThanWellFounded`,
`WFMin`) is stated of a set. `LeastIs` draws from it that every set of naturals has a least
member, and `Induction` and `SeqInduction` follow, for *sets* of numbers and of sequences: to
show a fact of all texts, one shows that the set of texts that have it is all of them.
`Keep` is a recursive function in the model because the prover has no definition of
`SelectSeq` to reason from.

*Only model-checked*: liveness (`EverySyncEnds`, `ProcessEnds`, `BusyEnds`), which is out of reach
of the prover, and the properties of the runs that end in a violation. Every other
property of a run, that is every invariant, every action property and both refinements, is
a theorem.

## 5. Not modelled, and why

- Wire formats, JSON and protobuf conversions, HTTP status lines, error texts, logging:
  stateless and covered by table tests; which refusal is given is modelled.
- Health of the Server: one ping of the pool per request, without state.
- The rules for identifiers, revisions and stored rows: predicates decided before the first
  statement of a handler. Those for titles and payloads are in `RecordForm`, the canonical
  login is a function of `Accounts`.
- Cryptography beyond "opens under the same key and additional data".
- In `Tui`: the result of opening a link in a browser, the text of the server status, and
  what the forms contain. The forms of login, settings and sync use the fields of
  `RecordForm` and are not modelled a second time.
- Layout, colours, scrolling of texts, display of secrets; which rectangle is which button.
  Clicks on rows and entries, where timing matters, are in `RecordList` and `PathPicker`.
- Flags, prompts and output of the CLI; configuration, build information, migrations,
  generated code.
- Permissions and symlinks of local files: each only adds ways for an opening to fail.
- Binary files of the Client: one read or one exclusive creation each. Names of files that
  begin or end with a space (`recordFormInputFrom` trims the path, too).

Behaviours that the models have and that nothing in the code or its documents rules out, so
that no property is stated of them: a repeated create makes a second record; the result of
writing a file takes the window away from an edit begun meanwhile, and a failure that comes
after a logout opens an empty window of a record, until a key closes it; a single line loses
characters that the field does not print when it is loaded, and a title the spaces at its
ends; the timer of a click opens what stands at its place now. They are listed among the
hazards, without a property. One more: a logout does not keep the user from opening the cache
while it is under way, and if its result overtakes that of the opening, the opening is
forgotten although the backend holds its session already. `ShownCacheIsOpen` allows that: the
session stays open behind no window until the next opening or the end of the program.

## 6. Plan

Done: `VersionedRecords`, `RecordService`, `Transports`, `CacheSync`, `CacheFile`, `Accounts` with
`ClientSession`, `OperationTable` with `Operations`, `Tui`, `RecordList`, `PathPicker` and `RecordForm`,
each with its run and its proofs.

Left:

1. The forms of login, settings and sync, which edit with the fields of `RecordForm`: when can
   they be submitted, and what do they send?
2. Which fields of a form that was edited are still what was loaded (an extension of
   `SavedAsLoaded` from one moment to a sequence of edits).
