------------------------- MODULE ClientSession_proofs -------------------------
(***************************************************************************)
(* Theorems about ClientSession, for any number of processes, logins and   *)
(* passwords, any life of a token and any length of a second.              *)
(***************************************************************************)
EXTENDS ClientSession, TLAPS

(***************************************************************************)
(* The inductive invariant.  A command that holds a session holds one the  *)
(* Server issued, and one that is about to save it has given the password  *)
(* of its account; accounts are never lost and passwords never change, so  *)
(* this stays true whatever the other processes do in between.             *)
(***************************************************************************)
Fits(q, acc, sessions) ==
  /\ q.step \in {"register", "login"} => q.login \in Spellings /\ q.password \in Passwords
  /\ q.step # "idle" => q.out = "none"
  /\ q.step \in {"whoami", "check", "relogin", "save", "rename", "records"} =>
       q.session \in sessions
  /\ q.step \in {"save", "rename"} => acc[q.session.user] = q.password

CommandsFit == \A p \in Clients : Fits(proc[p], accounts, issued)

IssuedToAccounts == \A s \in issued : accounts[s.user] # NoPassword

FileIsIssued == file # NoSession => file \in issued

IInv ==
  /\ TypeOK /\ RegistrationHolds
  /\ CommandsFit /\ IssuedToAccounts /\ FileIsIssued

\* The token loses less than a second (jwt.NewNumericDate).
LEMMA WholeSecondRange ==
  ASSUME NEW t \in Nat
  PROVE  WholeSecond(t) \in Int /\ WholeSecond(t) <= t /\ t < WholeSecond(t) + Second
BY AccountsAssumption DEF WholeSecond

LEMMA IdleFits == /\ Idle \in Processes
                  /\ \A out \in Outcomes : [Idle EXCEPT !.out = out] \in Processes
                  /\ \A out \in Outcomes : \A acc, sessions :
                       Fits([Idle EXCEPT !.out = out], acc, sessions)
BY DEF Idle, Processes, Commands, Steps, Outcomes, Fits

\* Process p becomes q; the file stays, goes, or becomes a session issued.
LEMMA ProcessKeeps ==
  ASSUME IInv, NEW p \in Clients, NEW q \in Processes,
         proc' = [proc EXCEPT ![p] = q],
         UNCHANGED <<server, told>>,
         issued \subseteq issued', issued' \subseteq Sessions,
         Fits(q, accounts, issued'),
         IssuedToAccounts',
         file' \in {file, NoSession} \cup issued'
  PROVE  IInv'
<1>1. TypeOK'
  BY DEF IInv, TypeOK, server
<1>2. RegistrationHolds'
  BY DEF IInv, RegistrationHolds, server
<1>3. CommandsFit'
  <2> SUFFICES ASSUME NEW d \in Clients PROVE Fits(proc'[d], accounts, issued')
    BY DEF CommandsFit, server
  <2>1. CASE d = p
    BY <2>1 DEF IInv, TypeOK
  <2>2. CASE d # p
    BY <2>2 DEF IInv, TypeOK, CommandsFit, Fits
  <2>3. QED
    BY <2>1, <2>2
<1>4. FileIsIssued'
  BY DEF IInv, FileIsIssued
<1>5. QED
  BY <1>1, <1>2, <1>3, <1>4 DEF IInv

\* A process that ends, and changes nothing but the file at most.
LEMMA EndKeeps ==
  ASSUME IInv, NEW p \in Clients, NEW out \in Outcomes, End(p, out),
         UNCHANGED <<server, told, issued>>, file' \in {file, NoSession} \cup issued
  PROVE  IInv'
<1>1. proc' = [proc EXCEPT ![p] = [Idle EXCEPT !.out = out]]
  BY DEF End
<1>2. IssuedToAccounts' /\ issued' \subseteq Sessions
  BY DEF IInv, TypeOK, IssuedToAccounts, server
<1>3. QED
  BY <1>1, <1>2, IdleFits, ProcessKeeps

\* A process that goes on with a session it may hold, or with the one it has.
LEMMA HoldKeeps ==
  ASSUME IInv, NEW p \in Clients, NEW s \in issued, NEW step \in Steps,
         step \notin {"register", "login", "save", "rename"},
         proc[p].step # "idle", Hold(p, s, step),
         UNCHANGED <<server, told, issued, file>>
  PROVE  IInv'
<1> DEFINE q == [proc[p] EXCEPT !.session = s, !.step = step]
<1>1. proc[p] \in Processes /\ s \in Sessions /\ proc[p].out = "none"
  BY DEF IInv, TypeOK, CommandsFit, Fits
<1>2. q \in Processes /\ Fits(q, accounts, issued)
  BY <1>1 DEF Processes, Fits
<1>3. proc' = [proc EXCEPT ![p] = q]
  BY DEF Hold, IInv, TypeOK
<1>4. IssuedToAccounts' /\ issued' \subseteq Sessions
  BY DEF IInv, TypeOK, IssuedToAccounts, server
<1>5. QED
  BY <1>2, <1>3, <1>4, ProcessKeeps

LEMMA GotoKeeps ==
  ASSUME IInv, NEW p \in Clients, NEW step \in Steps, Goto(p, step),
         Fits([proc[p] EXCEPT !.step = step], accounts, issued),
         UNCHANGED <<server, told, issued>>, file' \in {file, NoSession} \cup issued
  PROVE  IInv'
<1>1. proc[p] \in Processes
  BY DEF IInv, TypeOK
<1>2. [proc[p] EXCEPT !.step = step] \in Processes
  BY <1>1 DEF Processes
<1>3. proc' = [proc EXCEPT ![p] = [proc[p] EXCEPT !.step = step]]
  BY DEF Goto, IInv, TypeOK
<1>4. IssuedToAccounts' /\ issued' \subseteq Sessions
  BY DEF IInv, TypeOK, IssuedToAccounts, server
<1>5. QED
  BY <1>2, <1>3, <1>4, ProcessKeeps

\* A session is issued to u, whose password the process has.
LEMMA GetSessionKeeps ==
  ASSUME IInv, NEW p \in Clients, NEW u \in Logins, proc[p].step # "idle",
         accounts[u] = proc[p].password, accounts[u] # NoPassword,
         GetSession(p, u), UNCHANGED <<server, told, file>>
  PROVE  IInv'
<1> DEFINE q == [proc[p] EXCEPT !.session = Issued(u), !.step = "save"]
<1>1. Issued(u) \in Sessions /\ Issued(u).user = u
  BY AccountsAssumption DEF IInv, TypeOK, Issued, Sessions
<1>2. proc[p] \in Processes /\ proc[p].out = "none"
  BY DEF IInv, TypeOK, CommandsFit, Fits
<1>3. q \in Processes
  BY <1>1, <1>2 DEF Processes, Steps
<1>4. issued' = issued \cup {Issued(u)} /\ proc' = [proc EXCEPT ![p] = q]
  BY DEF GetSession, Hold, IInv, TypeOK
<1>5. Fits(q, accounts, issued')
  BY <1>1, <1>2, <1>4 DEF Fits, Processes
<1>6. IssuedToAccounts' /\ issued' \subseteq Sessions
  BY <1>1, <1>4 DEF IInv, TypeOK, IssuedToAccounts, server
<1>7. QED
  BY <1>3, <1>4, <1>5, <1>6, ProcessKeeps

-----------------------------------------------------------------------------
\* An INSERT changes no password and makes at most one account.
LEMMA InsertKeepsAccounts ==
  ASSUME TypeOK, NEW sp \in Spellings, NEW pw \in Passwords, Insert(sp, pw)
  PROVE  /\ accounts' \in [Logins -> Passwords \cup {NoPassword}]
         /\ \A u \in Logins : accounts[u] # NoPassword => accounts'[u] = accounts[u]
         /\ RegisterAnswer(sp, pw) = "ok" =>
              Canonical[sp] \in Logins /\ accounts'[Canonical[sp]] = pw
BY AccountsAssumption DEF TypeOK, Insert, RegisterAnswer

LEMMA RegisterInvariant ==
  ASSUME IInv, NEW p \in Clients, Register(p)
  PROVE  IInv'
<1> DEFINE sp == proc[p].login
           pw == proc[p].password
<1>1. sp \in Spellings /\ pw \in Passwords
  BY DEF IInv, CommandsFit, Fits, Register, At
<1>2. /\ accounts' \in [Logins -> Passwords \cup {NoPassword}]
      /\ \A u \in Logins : accounts[u] # NoPassword => accounts'[u] = accounts[u]
      /\ RegisterAnswer(sp, pw) = "ok" =>
           Canonical[sp] \in Logins /\ accounts'[Canonical[sp]] = pw
  BY <1>1, InsertKeepsAccounts DEF IInv, Register
<1>3. PICK out \in {"ok", "failed"} : End(p, out)
  BY DEF Register
<1>4. UNCHANGED <<clock, file, issued>>
  BY DEF Register
<1>5. \/ told' = told
      \/ RegisterAnswer(sp, pw) = "ok" /\ told' = told \cup {<<Canonical[sp], pw>>}
  BY DEF Register
<1>6. TypeOK'
  <2>1. told' \subseteq Logins \X Passwords
    BY <1>1, <1>2, <1>5 DEF IInv, TypeOK
  <2>2. proc' \in [Clients -> Processes]
    BY <1>3, IdleFits DEF IInv, TypeOK, End, Outcomes
  <2>3. QED
    BY <1>2, <1>4, <2>1, <2>2 DEF IInv, TypeOK
<1>7. RegistrationHolds'
  <2> SUFFICES ASSUME NEW r \in told' PROVE accounts'[r[1]] = r[2]
    BY DEF RegistrationHolds
  <2>1. CASE r \in told
    <3>1. r[1] \in Logins /\ r[2] \in Passwords /\ accounts[r[1]] = r[2]
      BY <2>1 DEF IInv, TypeOK, RegistrationHolds
    <3>2. QED
      BY <1>2, <3>1, AccountsAssumption
  <2>2. CASE r \notin told
    BY <1>2, <1>5, <2>2
  <2>3. QED
    BY <2>1, <2>2
<1>8. IssuedToAccounts'
  BY <1>2, <1>4 DEF IInv, TypeOK, IssuedToAccounts, Sessions
<1>9. CommandsFit'
  <2> SUFFICES ASSUME NEW d \in Clients PROVE Fits(proc'[d], accounts', issued)
    BY <1>4 DEF CommandsFit
  <2>1. CASE d = p
    BY <1>3, <2>1, IdleFits DEF End, IInv, TypeOK, Outcomes
  <2>2. CASE d # p
    <3>1. proc'[d] = proc[d] /\ Fits(proc[d], accounts, issued)
      BY <1>3, <2>2 DEF End, IInv, TypeOK, CommandsFit
    <3>2. ASSUME proc[d].step \in {"save", "rename"}
          PROVE  accounts'[proc[d].session.user] = accounts[proc[d].session.user]
      BY <1>2, <3>1, <3>2 DEF Fits, IInv, TypeOK, IssuedToAccounts, Sessions
    <3>3. QED
      BY <3>1, <3>2 DEF Fits
  <2>3. QED
    BY <2>1, <2>2
<1>10. FileIsIssued'
  BY <1>4 DEF IInv, FileIsIssued
<1>11. QED
  BY <1>6, <1>7, <1>8, <1>9, <1>10 DEF IInv

LEMMA BeginInvariant ==
  ASSUME IInv, NEW p \in Clients, NEW c \in Commands,
         NEW sp \in Spellings \cup {NoLogin}, NEW pw \in Passwords \cup {NoPassword},
         c \in {"register", "login"} => sp \in Spellings /\ pw \in Passwords,
         Begin(p, c, sp, pw)
  PROVE  IInv'
<1> DEFINE q == [Idle EXCEPT !.cmd = c, !.step = FirstStep[c], !.login = sp, !.password = pw]
<1>1. /\ FirstStep[c] \in {"register", "login", "load", "delete"}
      /\ FirstStep[c] \in {"register", "login"} => c \in {"register", "login"}
  BY DEF FirstStep, Commands
<1>2. q \in Processes
  BY <1>1 DEF Processes, Idle, Steps, Outcomes
<1>3. Fits(q, accounts, issued)
  BY <1>1 DEF Fits, Idle
<1>4. proc' = [proc EXCEPT ![p] = q] /\ UNCHANGED <<server, file, issued, told>>
  BY DEF Begin
<1>5. IssuedToAccounts' /\ issued' \subseteq Sessions
  BY <1>4 DEF IInv, TypeOK, IssuedToAccounts, server
<1>6. QED
  BY <1>2, <1>3, <1>4, <1>5, ProcessKeeps

LEMMA StepInvariant ==
  ASSUME IInv, NEW p \in Clients, Step(p)
  PROVE  IInv'
<1>0. /\ proc[p] \in Processes /\ Fits(proc[p], accounts, issued)
      /\ \A s \in issued : s \in Sessions /\ s.user \in Logins /\ accounts[s.user] # NoPassword
      /\ file # NoSession => file \in issued
  BY DEF IInv, TypeOK, CommandsFit, IssuedToAccounts, FileIsIssued, Sessions
<1>1. CASE Register(p)
  BY <1>1, RegisterInvariant
<1>2. CASE Login(p)
  <2>1. CASE Authenticates(proc[p].login, proc[p].password)
    <3>1. /\ Canonical[proc[p].login] \in Logins
          /\ accounts[Canonical[proc[p].login]] = proc[p].password
          /\ proc[p].password # NoPassword
      BY <1>0, <1>2, <2>1, AccountsAssumption DEF Authenticates, Login, At, Fits
    <3>2. GetSession(p, Canonical[proc[p].login])
      BY <1>2, <2>1 DEF Login
    <3>3. QED
      BY <1>2, <3>1, <3>2, GetSessionKeeps DEF Login, At
  <2>2. CASE ~ Authenticates(proc[p].login, proc[p].password)
    BY <1>2, <2>2, EndKeeps DEF Login, Outcomes
  <2>3. QED
    BY <2>1, <2>2
<1>3. CASE Load(p)
  <2>1. CASE file = NoSession \/ Expired(file)
    BY <1>3, <2>1, EndKeeps DEF Load, Outcomes
  <2>2. CASE ~ (file = NoSession \/ Expired(file))
    <3>1. PICK step \in {"check", "whoami"} : Hold(p, file, step)
      BY <1>3, <2>2 DEF Load
    <3>2. file \in issued /\ step \in Steps /\ proc[p].step # "idle"
      BY <1>0, <1>3, <2>2 DEF Load, At, Steps
    <3>3. QED
      BY <1>3, <3>1, <3>2, HoldKeeps DEF Load
  <2>3. QED
    BY <2>1, <2>2
<1>4. CASE Whoami(p)
  BY <1>4, EndKeeps DEF Whoami, Outcomes
<1>5. CASE Check(p)
  <2>1. CASE Accepts(proc[p].session)
    <3>1. Fits([proc[p] EXCEPT !.step = "relogin"], accounts, issued)
      BY <1>0, <1>5 DEF Check, At, Fits, Processes
    <3>2. Goto(p, "relogin")
      BY <1>5, <2>1 DEF Check
    <3>3. QED
      BY <1>5, <3>1, <3>2, GotoKeeps DEF Check, Steps
  <2>2. CASE ~ Accepts(proc[p].session)
    BY <1>5, <2>2, EndKeeps DEF Check, Outcomes
  <2>3. QED
    BY <2>1, <2>2
<1>6. CASE Relogin(p)
  <2>1. proc[p].session \in issued
    BY <1>0, <1>6 DEF Relogin, At, Fits
  <2>2. CASE accounts[proc[p].session.user] = proc[p].password
    BY <1>0, <1>6, <2>1, <2>2, GetSessionKeeps DEF Relogin, At
  <2>3. CASE accounts[proc[p].session.user] # proc[p].password
    BY <1>6, <2>3, EndKeeps DEF Relogin, Outcomes
  <2>4. QED
    BY <2>2, <2>3
<1>7. CASE Save(p)
  <2>1. CASE Expired(proc[p].session)
    BY <1>7, <2>1, EndKeeps DEF Save, Outcomes
  <2>2. CASE ~ Expired(proc[p].session)
    <3>1. Fits([proc[p] EXCEPT !.step = "rename"], accounts, issued)
      BY <1>0, <1>7 DEF Save, At, Fits, Processes
    <3>2. Goto(p, "rename")
      BY <1>7, <2>2 DEF Save
    <3>3. QED
      BY <1>7, <3>1, <3>2, GotoKeeps DEF Save, Steps
  <2>3. QED
    BY <2>1, <2>2
<1>8. CASE Rename(p)
  <2>1. file' \in issued /\ UNCHANGED <<server, issued, told>>
    BY <1>0, <1>8 DEF Rename, At, Fits
  <2>2. CASE proc[p].cmd = "sync"
    <3>1. Fits([proc[p] EXCEPT !.step = "records"], accounts, issued)
      BY <1>0, <1>8 DEF Rename, At, Fits, Processes
    <3>2. QED
      BY <1>8, <2>1, <2>2, <3>1, GotoKeeps DEF Rename, Steps
  <2>3. CASE proc[p].cmd # "sync"
    BY <1>8, <2>1, <2>3, EndKeeps DEF Rename, Outcomes
  <2>4. QED
    BY <2>2, <2>3
<1>9. CASE Records(p)
  BY <1>9, EndKeeps DEF Records, Outcomes
<1>10. CASE Logout(p)
  BY <1>10, EndKeeps DEF Logout, Outcomes
<1>11. CASE Fail(p)
  BY <1>11, EndKeeps DEF Fail, Outcomes
<1>12. QED
  BY <1>1, <1>2, <1>3, <1>4, <1>5, <1>6, <1>7, <1>8, <1>9, <1>10, <1>11 DEF Step

LEMMA InitInvariant == Init => IInv
BY IdleFits DEF Init, AccountsInit, IInv, TypeOK, RegistrationHolds, CommandsFit, Fits, Idle,
   IssuedToAccounts, FileIsIssued

LEMMA NextInvariant == IInv /\ [Next]_vars => IInv'
<1> SUFFICES ASSUME IInv, [Next]_vars PROVE IInv'
  OBVIOUS
<1>1. CASE Tick /\ UNCHANGED <<file, proc, issued, told>>
  BY <1>1 DEF Tick, IInv, TypeOK, RegistrationHolds, CommandsFit, IssuedToAccounts, FileIsIssued
<1>2. ASSUME NEW p \in Clients,
             NEW c \in {"register", "login"}, NEW sp \in Spellings, NEW pw \in Passwords,
             Begin(p, c, sp, pw)
      PROVE  IInv'
  BY <1>2, BeginInvariant DEF Commands
<1>3. ASSUME NEW p \in Clients, NEW pw \in Passwords, Begin(p, "sync", NoLogin, pw)
      PROVE  IInv'
  BY <1>3, BeginInvariant DEF Commands
<1>4. ASSUME NEW p \in Clients, NEW c \in {"whoami", "logout"},
             Begin(p, c, NoLogin, NoPassword)
      PROVE  IInv'
  BY <1>4, BeginInvariant DEF Commands
<1>5. ASSUME NEW p \in Clients, Step(p) PROVE IInv'
  BY <1>5, StepInvariant
<1>6. CASE UNCHANGED vars
  BY <1>6 DEF vars, IInv, TypeOK, RegistrationHolds, CommandsFit, IssuedToAccounts, FileIsIssued
<1>7. QED
  BY <1>1, <1>2, <1>3, <1>4, <1>5, <1>6 DEF Next

\* IInv holds for ever.
THEOREM Invariance == Spec => []IInv
BY InitInvariant, NextInvariant, PTL DEF Spec

(***************************************************************************)
(* Every variable has its type, in every reachable state.                  *)
(***************************************************************************)
THEOREM TypeCorrect == Spec => []TypeOK
<1>1. IInv => TypeOK
  BY DEF IInv
<1>2. QED
  BY <1>1, Invariance, PTL

(***************************************************************************)
(* A registration that was reported keeps its account and its password,    *)
(* whoever registers the same login later or at the same time (Create of   *)
(* user_repository.go).                                                    *)
(***************************************************************************)
THEOREM RegistrationStays == Spec => []RegistrationHolds
<1>1. IInv => RegistrationHolds
  BY DEF IInv
<1>2. QED
  BY <1>1, Invariance, PTL

(***************************************************************************)
(* session.json is at any time absent, or a whole session that the Server  *)
(* issued to an account that exists (Save and Delete of storage.go).       *)
(***************************************************************************)
THEOREM SessionFileIsReal == Spec => []SessionFileIsIssued
<1>1. IInv => SessionFileIsIssued
  BY DEF IInv, FileIsIssued, IssuedToAccounts, SessionFileIsIssued
<1>2. QED
  BY <1>1, Invariance, PTL

-----------------------------------------------------------------------------
\* Only a rename puts a session into the file.
LEMMA OnlyRenameWrites ==
  ASSUME IInv, Next, file' \notin {file, NoSession}
  PROVE  \E p \in Clients : Rename(p)
BY DEF Next, Begin, Step, Register, Login, Load, Whoami, Check, Relogin, Save, Records, Logout,
       Fail

(***************************************************************************)
(* Nobody gets a session into the file without the password of its user,   *)
(* given in the same command (authenticateSync and Login).                 *)
(***************************************************************************)
THEOREM SessionTakesPassword == Spec => SessionNeedsPassword
<1> DEFINE Given == file' \notin {file, NoSession} =>
                      \E p \in Clients : /\ At(p, "rename")
                                         /\ accounts[file'.user] = proc[p].password
<1>1. ASSUME IInv, [Next]_vars PROVE [Given]_vars
  <2> SUFFICES ASSUME Next, file' \notin {file, NoSession}
               PROVE  \E p \in Clients : /\ At(p, "rename")
                                         /\ accounts[file'.user] = proc[p].password
    BY <1>1
  <2>1. PICK p \in Clients : Rename(p)
    BY <1>1, OnlyRenameWrites
  <2>2. At(p, "rename") /\ file' = proc[p].session
    BY <2>1 DEF Rename
  <2>3. accounts[proc[p].session.user] = proc[p].password
    BY <1>1, <2>2 DEF At, IInv, CommandsFit, Fits
  <2>4. QED
    BY <2>2, <2>3
<1>2. QED
  BY <1>1, Invariance, PTL DEF Spec, SessionNeedsPassword

-----------------------------------------------------------------------------
\* What the client and the Server think of one session.
LEMMA ClocksAgree ==
  ASSUME NEW s \in Sessions, clock \in Nat
  PROVE  /\ Accepts(s) => ~ Expired(s)
         /\ ~ Accepts(s) => clock + Second > s.expires
<1>1. s.expires \in Nat /\ Second \in Nat \ {0}
  BY AccountsAssumption DEF Sessions
<1>2. QED
  BY <1>1, WholeSecondRange DEF Accepts, Expired

\* A process that presents a token is moved by its own step only.
LEMMA OwnStep ==
  ASSUME IInv, Next, NEW p \in Clients,
         proc[p].step \in {"whoami", "check", "records"}
  PROVE  \/ proc'[p] = proc[p]
         \/ Whoami(p) \/ Check(p) \/ Records(p) \/ Fail(p)
<1>1. \A d \in Clients : \A q : proc' = [proc EXCEPT ![d] = q] => p = d \/ proc'[p] = proc[p]
  BY DEF IInv, TypeOK
<1>2. CASE Tick /\ UNCHANGED <<file, proc, issued, told>>
  BY <1>2
<1>3. ASSUME NEW d \in Clients, d # p, NEW c \in Commands, NEW sp, NEW pw, Begin(d, c, sp, pw)
      PROVE  proc'[p] = proc[p]
  BY <1>1, <1>3 DEF Begin
<1>4. ASSUME NEW d \in Clients, d # p, Step(d)
      PROVE  proc'[p] = proc[p]
  BY <1>4 DEF Step, Register, Login, Load, Whoami, Check, Relogin, Save, Rename, Records,
              Logout, Fail, GetSession, Goto, Hold, End, IInv, TypeOK
<1>5. ASSUME NEW c, NEW sp, NEW pw PROVE ~ Begin(p, c, sp, pw)
  BY DEF Begin, At
<1>6. ASSUME Step(p) PROVE Whoami(p) \/ Check(p) \/ Records(p) \/ Fail(p)
  BY <1>6 DEF Step, Register, Login, Load, Relogin, Save, Rename, Logout, At
<1>7. QED
  BY <1>2, <1>3, <1>4, <1>5, <1>6 DEF Next, Commands

(***************************************************************************)
(* The client and the Server agree on the life of a session up to a        *)
(* second, for any life of a token and any length of a second (Issue of    *)
(* jwt.go and validate of storage.go).                                     *)
(***************************************************************************)
THEOREM ExpiriesAgree == Spec => ExpiryAgreed
<1> DEFINE Agree(p) ==
             At(p, "whoami") \/ At(p, "check") \/ At(p, "records") =>
               LET s == proc[p].session
               IN /\ proc'[p].out = "ok" \/ At(p, "relogin")' => ~ Expired(s)
                  /\ proc'[p].out = "notLoggedIn" => clock + Second > s.expires
<1>1. ASSUME IInv, [Next]_vars PROVE [\A p \in Clients : Agree(p)]_vars
  <2> SUFFICES ASSUME Next, NEW p \in Clients,
                      proc[p].step \in {"whoami", "check", "records"}
               PROVE  /\ proc'[p].out = "ok" \/ proc'[p].step = "relogin" =>
                            ~ Expired(proc[p].session)
                      /\ proc'[p].out = "notLoggedIn" => clock + Second > proc[p].session.expires
    BY <1>1 DEF At
  <2>1. proc[p].session \in Sessions /\ clock \in Nat /\ proc[p].out = "none"
    BY <1>1 DEF IInv, TypeOK, CommandsFit, Fits
  <2>2. /\ Accepts(proc[p].session) => ~ Expired(proc[p].session)
        /\ ~ Accepts(proc[p].session) => clock + Second > proc[p].session.expires
    BY <2>1, ClocksAgree
  <2>3. CASE proc'[p] = proc[p]
    BY <2>1, <2>3
  <2>4. \A out : End(p, out) => proc'[p].out = out /\ proc'[p].step = "idle"
    BY <1>1 DEF End, Idle, IInv, TypeOK
  <2>5. CASE Whoami(p)
    BY <2>2, <2>4, <2>5 DEF Whoami
  <2>6. CASE Records(p)
    BY <2>2, <2>4, <2>6 DEF Records
  <2>7. CASE Fail(p)
    BY <2>4, <2>7 DEF Fail
  <2>8. CASE Check(p)
    <3>1. CASE Accepts(proc[p].session)
      <4>1. Goto(p, "relogin")
        BY <2>8, <3>1 DEF Check
      <4>2. proc'[p] = [proc[p] EXCEPT !.step = "relogin"] /\ proc[p] \in Processes
        BY <1>1, <4>1 DEF Goto, IInv, TypeOK
      <4>3. proc'[p].out = "none"
        BY <2>1, <4>2 DEF Processes
      <4>4. QED
        BY <2>2, <3>1, <4>3
    <3>2. CASE ~ Accepts(proc[p].session)
      BY <2>2, <2>4, <2>8, <3>2 DEF Check
    <3>3. QED
      BY <3>1, <3>2
  <2>9. QED
    BY <1>1, <2>3, <2>5, <2>6, <2>7, <2>8, OwnStep
<1>2. QED
  BY <1>1, Invariance, PTL DEF Spec, ExpiryAgreed
=============================================================================
