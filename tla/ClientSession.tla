---------------------------- MODULE ClientSession ----------------------------
(***************************************************************************)
(* The commands of the client that make, use, renew and delete the online  *)
(* session: internal/client/usecase (auth.go, runtime.go, logout.go,       *)
(* sync_application.go) over session/storage.go, against the Server of     *)
(* Accounts.                                                               *)
(*                                                                         *)
(* The processes share one file, session.json, without a lock.  Reading is *)
(* one system call; saving writes a temporary file and renames it.  Every  *)
(* call of the Server and of the file system is a step of its own, and a   *)
(* process may fail at each (an error, a cancelled context, a kill).       *)
(*                                                                         *)
(* Whoami stands for every command that presents the stored token          *)
(* (whoami, records list, get, create, update, delete): they differ in     *)
(* what the Server does once the token is accepted (RecordService).  What  *)
(* sync does with the cache is in CacheSync and CacheFile.                 *)
(***************************************************************************)
EXTENDS Accounts

CONSTANT Clients        \* processes of one user of the operating system

VARIABLES
  file,         \* session.json, or NoSession
  proc,         \* proc[p]: the command that process p runs, or ran last
  issued,       \* history: the sessions that the Server has issued
  told          \* history: login and password of each registration reported as done

vars == <<clock, accounts, file, proc, issued, told>>

Commands == {"register", "login", "whoami", "sync", "logout"}

Steps == {"idle", "register", "login", "load", "whoami", "check", "relogin",
          "save", "rename", "records", "delete"}

Outcomes == {"none", "ok", "notLoggedIn", "failed"}

\* session: what the process has loaded, or got from the Server; typed: the
\* login and the password it was given.
Processes == [cmd : Commands, step : Steps, out : Outcomes,
              login : Spellings \cup {NoLogin}, password : Passwords \cup {NoPassword},
              session : Sessions \cup {NoSession}]

Idle == [cmd |-> "whoami", step |-> "idle", out |-> "none",
         login |-> NoLogin, password |-> NoPassword, session |-> NoSession]

Init ==
  /\ AccountsInit
  /\ file = NoSession
  /\ proc = [p \in Clients |-> Idle]
  /\ issued = {}
  /\ told = {}

-----------------------------------------------------------------------------
At(p, step) == proc[p].step = step

Goto(p, step) == proc' = [proc EXCEPT ![p].step = step]

\* The process ends with an error or with what it prints on success.
End(p, out) == proc' = [proc EXCEPT ![p] = [Idle EXCEPT !.out = out]]

Hold(p, s, step) == proc' = [proc EXCEPT ![p].session = s, ![p].step = step]

FirstStep ==
  [c \in Commands |-> CASE c = "register" -> "register"
                        [] c = "login" -> "login"
                        [] c = "logout" -> "delete"
                        [] c \in {"whoami", "sync"} -> "load"]

\* A user starts a command, and types a login and a password where it asks.
Begin(p, c, sp, pw) ==
  /\ At(p, "idle")
  /\ proc' = [proc EXCEPT ![p] = [Idle EXCEPT !.cmd = c, !.step = FirstStep[c],
                                              !.login = sp, !.password = pw]]
  /\ UNCHANGED <<server, file, issued, told>>

\* Application.Register.  The answer of the Server may be lost.
Register(p) ==
  /\ At(p, "register")
  /\ LET sp == proc[p].login
         pw == proc[p].password
     IN /\ Insert(sp, pw)
        /\ \/ /\ RegisterAnswer(sp, pw) = "ok"
              /\ End(p, "ok")
              /\ told' = told \cup {<<Canonical[sp], pw>>}
           \/ End(p, "failed") /\ UNCHANGED told
  /\ UNCHANGED <<clock, file, issued>>

\* The Server checks the password of u and issues a session.
GetSession(p, u) ==
  /\ issued' = issued \cup {Issued(u)}
  /\ Hold(p, Issued(u), "save")

\* Application.Login up to the answer of the Server.
Login(p) ==
  /\ At(p, "login")
  /\ IF Authenticates(proc[p].login, proc[p].password)
       THEN GetSession(p, Canonical[proc[p].login])
       ELSE End(p, "failed") /\ UNCHANGED issued
  /\ UNCHANGED <<server, file, told>>

\* FileStorage.validate.
Expired(s) == ~ (s.expires > clock)

\* loadSession: no session, an expired one, or the one of the file.
Load(p) ==
  /\ At(p, "load")
  /\ IF file = NoSession \/ Expired(file)
       THEN End(p, "notLoggedIn")
       ELSE Hold(p, file, IF proc[p].cmd = "sync" THEN "check" ELSE "whoami")
  /\ UNCHANGED <<server, file, issued, told>>

\* The stored token is presented; Unauthorized is reported as "not logged in".
Whoami(p) ==
  /\ At(p, "whoami")
  /\ End(p, IF Accepts(proc[p].session) THEN "ok" ELSE "notLoggedIn")
  /\ UNCHANGED <<server, file, issued, told>>

\* authenticateSync: CurrentUser with the stored token.
Check(p) ==
  /\ At(p, "check")
  /\ IF Accepts(proc[p].session) THEN Goto(p, "relogin") ELSE End(p, "notLoggedIn")
  /\ UNCHANGED <<server, file, issued, told>>

\* Mutation: sync goes on with the session it has, whatever was typed.
ReloginSkipped(p) ==
  /\ At(p, "relogin")
  /\ Goto(p, "save")
  /\ UNCHANGED <<server, file, issued, told>>

\* authenticateSync: Login of that user with the password typed for the sync.
Relogin(p) ==
  /\ At(p, "relogin")
  /\ LET u == proc[p].session.user
     IN IF accounts[u] = proc[p].password
          THEN GetSession(p, u)
          ELSE End(p, "failed") /\ UNCHANGED issued
  /\ UNCHANGED <<server, file, told>>

\* What a file that is written in place has half way: no user.
Torn == [user |-> NoLogin, expires |-> 0]

\* Mutation: session.json itself is written, not a temporary file.
SaveInPlace(p) ==
  /\ At(p, "save")
  /\ Goto(p, "rename")
  /\ file' = Torn
  /\ UNCHANGED <<server, issued, told>>

\* FileStorage.Save up to the temporary file, which nobody reads.
Save(p) ==
  /\ At(p, "save")
  /\ IF Expired(proc[p].session) THEN End(p, "failed") ELSE Goto(p, "rename")
  /\ UNCHANGED <<server, file, issued, told>>

\* os.Rename: the file is replaced, or made.
Rename(p) ==
  /\ At(p, "rename")
  /\ file' = proc[p].session
  /\ IF proc[p].cmd = "sync" THEN Goto(p, "records") ELSE End(p, "ok")
  /\ UNCHANGED <<server, issued, told>>

\* Sync lists and reads the records with the token of the new session.
Records(p) ==
  /\ At(p, "records")
  /\ End(p, IF Accepts(proc[p].session) THEN "ok" ELSE "notLoggedIn")
  /\ UNCHANGED <<server, file, issued, told>>

\* Application.Logout: a file that is not there is deleted already.
Logout(p) ==
  /\ At(p, "delete")
  /\ file' = NoSession
  /\ End(p, "ok")
  /\ UNCHANGED <<server, issued, told>>

\* A call fails or the process is killed.
Fail(p) ==
  /\ ~ At(p, "idle")
  /\ End(p, "failed")
  /\ UNCHANGED <<server, file, issued, told>>

Step(p) ==
  \/ Register(p) \/ Login(p) \/ Load(p) \/ Whoami(p) \/ Check(p) \/ Relogin(p)
  \/ Save(p) \/ Rename(p) \/ Records(p) \/ Logout(p) \/ Fail(p)

Next ==
  \/ Tick /\ UNCHANGED <<file, proc, issued, told>>
  \/ \E p \in Clients :
       \/ \E c \in {"register", "login"}, sp \in Spellings, pw \in Passwords :
            Begin(p, c, sp, pw)
       \/ \E pw \in Passwords : Begin(p, "sync", NoLogin, pw)
       \/ \E c \in {"whoami", "logout"} : Begin(p, c, NoLogin, NoPassword)
       \/ Step(p)

Spec == Init /\ [][Next]_vars

-----------------------------------------------------------------------------
(***************************************************************************)
(* Every variable has its type.                                            *)
(***************************************************************************)
TypeOK ==
  /\ clock \in Nat
  /\ accounts \in [Logins -> Passwords \cup {NoPassword}]
  /\ file \in Sessions \cup {NoSession}
  /\ proc \in [Clients -> Processes]
  /\ issued \subseteq Sessions
  /\ told \subseteq Logins \X Passwords

(***************************************************************************)
(* A registration that was reported as done holds: its password opens the  *)
(* account from then on, however many others register the same login, in   *)
(* any spelling, at the same time (Create of user_repository.go).          *)
(***************************************************************************)
RegistrationHolds == \A r \in told : accounts[r[1]] = r[2]

(***************************************************************************)
(* session.json is always a whole session that the Server issued to an     *)
(* existing account, however writers, deletions and failures interleave    *)
(* (Save: "atomically saves the online session").                          *)
(***************************************************************************)
SessionFileIsIssued ==
  file # NoSession => file \in issued /\ accounts[file.user] # NoPassword

(***************************************************************************)
(* Whoever puts a session into the file has given, in the same command,    *)
(* the password of the user the session is of: also sync, which knows the  *)
(* user only from the token it found (authenticateSync).                   *)
(***************************************************************************)
SessionNeedsPassword ==
  [][file' \notin {file, NoSession} =>
       \E p \in Clients : /\ At(p, "rename")
                          /\ accounts[file'.user] = proc[p].password]_vars

(***************************************************************************)
(* The two clocks of a session agree up to a second: the Server accepts no *)
(* token whose session the client would call expired, and it refuses one   *)
(* that the client has loaded only in the last second of its life or after *)
(* (Issue of jwt.go and validate of storage.go).                           *)
(***************************************************************************)
ExpiryAgreed ==
  [][\A p \in Clients :
       At(p, "whoami") \/ At(p, "check") \/ At(p, "records") =>
         LET s == proc[p].session
         IN /\ proc'[p].out = "ok" \/ At(p, "relogin")' => ~ Expired(s)
            /\ proc'[p].out = "notLoggedIn" => clock + Second > s.expires]_vars
=============================================================================
