------------------------------ MODULE CacheFile ------------------------------
(***************************************************************************)
(* How processes of the client open, create and lose the file of the       *)
(* encrypted cache: internal/client/cache/repository.go over database.go,  *)
(* schema.go and metadata.go.                                              *)
(*                                                                         *)
(* Opening is a sequence of system calls and SQLite statements with no     *)
(* lock around it, and a process that fails deletes the file it created    *)
(* by NAME.  Several processes of one user may be at it: gkeep sync and    *)
(* the TUI open the cache to create or write it, offline commands and the  *)
(* cache browser open an existing one to read it.  A process may die       *)
(* between any two steps.                                                  *)
(*                                                                         *)
(* Left out: permissions, symlinks and files that are not regular          *)
(* (validateRegularFile), and format or schema versions of other client    *)
(* releases; each only adds a way to fail, which Fail has already.         *)
(***************************************************************************)
EXTENDS FiniteSets

CONSTANTS
  Openers,      \* processes of the client
  Passwords,    \* what a user may enter; also the key derived from it
  Inodes,       \* files, by identity and not by name
  None          \* no file, no key

ASSUME NoneAssumption == None \notin Inodes \cup Passwords

VARIABLES
  path,         \* the file that the name cache.db stands for, or None
  content,      \* content[i]: what is in file i
  proc          \* proc[p]: where process p is, and its local variables

files == <<path, content>>
vars == <<path, content, proc>>

Modes == {"create", "existing"}     \* Open for a sync, OpenExisting for offline use

Steps == {"idle", "look", "make", "connect", "schema", "verify", "metadata",
          "insert", "open", "cleanup"}

(***************************************************************************)
(* The tables exist or not; key is the one whose key check the singleton   *)
(* row of cache_metadata holds; sealed are the keys that rows of           *)
(* cached_records are encrypted with.                                      *)
(***************************************************************************)
Contents == [schema : BOOLEAN, key : Passwords \cup {None}, sealed : SUBSET Passwords]

Empty == [schema |-> FALSE, key |-> None, sealed |-> {}]

\* created: the process made the file and removes it if it cannot open the
\* cache; handle: the file its SQLite connection has open.
Processes == [step : Steps, mode : Modes, password : Passwords \cup {None},
              created : BOOLEAN, handle : Inodes \cup {None}]

Gone == [step |-> "idle", mode |-> "existing", password |-> None,
         created |-> FALSE, handle |-> None]

Init ==
  /\ path = None
  /\ content = [i \in Inodes |-> Empty]
  /\ proc = [p \in Openers |-> Gone]

-----------------------------------------------------------------------------
At(p, step) == proc[p].step = step

Goto(p, step) == proc' = [proc EXCEPT ![p].step = step]

End(p) == proc' = [proc EXCEPT ![p] = Gone]

\* Mutation: whoever fails removes the file.
GiveUpAlways(p) == Goto(p, "cleanup")

\* closeOnError, and the error path of openRepository.
GiveUp(p) == IF proc[p].created THEN Goto(p, "cleanup") ELSE End(p)

File(p) == content[proc[p].handle]

\* A new empty file i under the name.
MakeFile(i) ==
  /\ i \notin {path} \cup {proc[p].handle : p \in Openers}
  /\ path' = i
  /\ content' = [content EXCEPT ![i] = Empty]

Begin(p, m, w) ==
  /\ At(p, "idle")
  /\ proc' = [proc EXCEPT ![p] = [Gone EXCEPT !.step = "look", !.mode = m, !.password = w]]
  /\ UNCHANGED files

\* os.Lstat: the file is there, has to be made, or there was no sync yet.
Look(p) ==
  /\ At(p, "look")
  /\ IF path # None THEN Goto(p, "connect")
     ELSE IF proc[p].mode = "create" THEN Goto(p, "make")
     ELSE End(p)
  /\ UNCHANGED files

\* Mutation: the file is opened without O_EXCL.
MakeShared(p) ==
  /\ At(p, "make")
  /\ \/ path # None /\ UNCHANGED files
     \/ path = None /\ \E i \in Inodes : MakeFile(i)
  /\ proc' = [proc EXCEPT ![p].step = "connect", ![p].created = TRUE]

\* os.OpenFile with O_CREATE and O_EXCL: only one process makes the file.
Make(p) ==
  /\ At(p, "make")
  /\ \/ path # None /\ End(p) /\ UNCHANGED files
     \/ /\ \E i \in Inodes : path = None /\ MakeFile(i)
        /\ proc' = [proc EXCEPT ![p].step = "connect", ![p].created = TRUE]

Attach(p, i) == proc' = [proc EXCEPT ![p].step = "schema", ![p].handle = i]

\* Mutation: SQLite may create the file for an offline command, too.
ConnectAnyMode(p) ==
  /\ At(p, "connect")
  /\ \/ path # None /\ Attach(p, path) /\ UNCHANGED files
     \/ path = None /\ \E i \in Inodes : MakeFile(i) /\ Attach(p, i)

\* Mutation: the connection is not made yet (sql.Open alone makes none).
ConnectLazily(p) == At(p, "connect") /\ Attach(p, None) /\ UNCHANGED files

\* Ping opens the file by name; SQLite makes it anew unless mode=rw forbids it.
Connect(p) ==
  /\ At(p, "connect")
  /\ \/ path # None /\ Attach(p, path) /\ UNCHANGED files
     \/ /\ path = None /\ proc[p].mode = "create"
        /\ \E i \in Inodes : MakeFile(i) /\ Attach(p, i)
     \/ path = None /\ proc[p].mode = "existing" /\ End(p) /\ UNCHANGED files

\* initializeSchema creates the tables in one transaction unless it finds them;
\* verifyExistingSchema insists on finding them.
Schema(p) ==
  /\ At(p, "schema")
  /\ IF proc[p].mode = "existing" /\ ~ File(p).schema
       THEN GiveUp(p) /\ UNCHANGED files
       ELSE /\ content' = [content EXCEPT ![proc[p].handle].schema = TRUE]
            /\ Goto(p, "verify")
            /\ UNCHANGED path

\* verifyPrivateRegularFile asks about the name again, not about the connection.
Verify(p) ==
  /\ At(p, "verify")
  /\ IF path # None THEN Goto(p, "metadata") ELSE GiveUp(p)
  /\ UNCHANGED files

\* Mutation: the key check of the metadata is not verified.
RefusedNoCheck(p) == File(p).key = None /\ ~ proc[p].created

\* ErrOpenEncryptedCache: no metadata in a file that was there before, or the
\* key check does not open with this password.
Refused(p) ==
  \/ File(p).key = None /\ ~ proc[p].created
  \/ File(p).key \notin {None, proc[p].password}

ReadMetadata(p) ==
  /\ At(p, "metadata")
  /\ IF Refused(p) THEN GiveUp(p)
     ELSE Goto(p, IF File(p).key = None THEN "insert" ELSE "open")
  /\ UNCHANGED files

\* The primary key allows one row of metadata.
InsertMetadata(p) ==
  /\ At(p, "insert")
  /\ File(p).key = None
  /\ content' = [content EXCEPT ![proc[p].handle].key = proc[p].password]
  /\ Goto(p, "open")
  /\ UNCHANGED path

\* A step of opening fails: I/O, a busy or damaged file, a cancelled context.
Fail(p) ==
  /\ proc[p].step \notin {"idle", "open", "cleanup"}
  /\ GiveUp(p)
  /\ UNCHANGED files

\* cleanupNewDatabaseFile, with the connection closed: os.Remove by name.
CleanUp(p) ==
  /\ At(p, "cleanup")
  /\ path' = None
  /\ End(p)
  /\ UNCHANGED content

\* ApplyChanges of a sync encrypts its rows with the key of this process.
Write(p) ==
  /\ At(p, "open") /\ proc[p].mode = "create"
  /\ content' = [content EXCEPT ![proc[p].handle].sealed = @ \cup {proc[p].password}]
  /\ UNCHANGED <<path, proc>>

Close(p) == At(p, "open") /\ End(p) /\ UNCHANGED files

\* The process dies; whatever it was about to clean up stays.
Crash(p) == proc[p].step \notin {"idle", "open"} /\ End(p) /\ UNCHANGED files

OpenStep(p) ==
  \/ Look(p) \/ Make(p) \/ Connect(p) \/ Schema(p) \/ Verify(p)
  \/ ReadMetadata(p) \/ InsertMetadata(p) \/ Fail(p) \/ CleanUp(p)

UseStep(p) ==
  \/ \E m \in Modes, w \in Passwords : Begin(p, m, w)
  \/ Write(p) \/ Close(p)

Next == \E p \in Openers : OpenStep(p) \/ UseStep(p) \/ Crash(p)

Spec == Init /\ [][Next]_vars

-----------------------------------------------------------------------------
TypeOK ==
  /\ path \in Inodes \cup {None}
  /\ content \in [Inodes -> Contents]
  /\ proc \in [Openers -> Processes]
  /\ \A p \in Openers :
       proc[p].step \in {"schema", "verify", "metadata", "insert", "open"} =>
         proc[p].handle # None

(***************************************************************************)
(* A repository that is open works on the file that the name stands for:   *)
(* no other process has removed or replaced it meanwhile, so what a sync   *)
(* commits is what the next command reads.  Processes that fail remove the *)
(* cache by its name; this is why they may only do so for their own file.  *)
(***************************************************************************)
OpenIsOnDisk == \A p \in Openers : At(p, "open") => proc[p].handle = path

(***************************************************************************)
(* One key per file: the key check and all rows of a cache belong to the   *)
(* same key, so whoever gets past the key check can read every row.        *)
(***************************************************************************)
OneKey ==
  \A i \in Inodes : content[i].sealed # {} => content[i].sealed = {content[i].key}

(***************************************************************************)
(* A cache that was ever opened is never lost: once the file has its       *)
(* metadata no failure, crash or concurrent opening removes the file,      *)
(* replaces it, changes its key or drops its rows.                         *)
(***************************************************************************)
CacheIsKept ==
  [][path # None /\ content[path].key # None =>
       /\ path' = path
       /\ content'[path].key = content[path].key
       /\ content[path].sealed \subseteq content'[path].sealed]_vars

(***************************************************************************)
(* Offline commands create no cache (docs/CLI.md: without a sync, with     *)
(* another login or a wrong password they fail and create none), not even  *)
(* when the file vanishes between the check and the connection.            *)
(***************************************************************************)
OfflineCreatesNothing ==
  [][\A p \in Openers :
       proc[p].mode = "existing" /\ proc'[p] # proc[p] => path' = path]_vars
=============================================================================
