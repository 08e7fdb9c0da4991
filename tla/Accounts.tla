------------------------------- MODULE Accounts -------------------------------
(***************************************************************************)
(* Accounts and access tokens of the Server: internal/server/service       *)
(* (registration.go, authentication.go), internal/server/auth/jwt.go and   *)
(* the table of postgres/user_repository.go.                               *)
(*                                                                         *)
(* A login is typed in one of several spellings and stored in a canonical  *)
(* one; a password is stored as a hash, which is here the password itself  *)
(* (hash and check agree on equality and on nothing else).  A token is     *)
(* stateless: the Server keeps none and validates it by its own claims, so *)
(* a session is the user and the expiry it was issued with.                *)
(*                                                                         *)
(* Client and Server read one clock: the skew of two machines is left out. *)
(***************************************************************************)
EXTENDS Integers

CONSTANTS
  Spellings,    \* what a user may type as a login
  Logins,       \* canonical logins; one account has each
  NoLogin,      \* the canonical form of a spelling that is not a login
  Canonical,    \* the canonical form of each spelling
  Passwords,
  WellFormed,   \* the passwords that registration admits
  NoPassword,   \* of a login without an account
  NoSession,
  TTL,          \* life of a token, in units of the clock
  Second,       \* units of the clock in a second
  MaxTime       \* bound on the clock

ASSUME AccountsAssumption ==
  /\ NoLogin \notin Logins
  /\ Canonical \in [Spellings -> Logins \cup {NoLogin}]
  /\ WellFormed \subseteq Passwords
  /\ NoPassword \notin Passwords
  /\ TTL \in Nat
  /\ Second \in Nat \ {0}
  /\ MaxTime \in Nat

VARIABLES
  clock,
  accounts      \* the password of each login

server == <<clock, accounts>>

Sessions == [user : Logins, expires : Nat]

ASSUME NoSessionAssumption == NoSession \notin Sessions

AccountsInit ==
  /\ clock = 0
  /\ accounts = [u \in Logins |-> NoPassword]

\* Mutation: the token keeps the expiry in a coarser unit.
WholeSecondCoarse(t) == t - (t % (3 * Second))

\* jwt.NewNumericDate drops the fraction of a second of the expiry.
WholeSecond(t) == t - (t % Second)

-----------------------------------------------------------------------------
\* Issue: the client is told the exact expiry.
Issued(u) == [user |-> u, expires |-> clock + TTL]

\* Validate: the token itself has the expiry in whole seconds.
Accepts(s) == clock < WholeSecond(s.expires)

\* ErrInvalidCredentials unless the login has an account with this password.
Authenticates(sp, pw) ==
  /\ Canonical[sp] # NoLogin
  /\ accounts[Canonical[sp]] = pw
  /\ pw \in Passwords

\* Mutation: INSERT ... ON CONFLICT DO UPDATE.
RegisterAnswerUpsert(sp, pw) ==
  IF Canonical[sp] = NoLogin \/ pw \notin WellFormed THEN "invalid" ELSE "ok"

\* Register and Create: the unique constraint of users.login decides.
RegisterAnswer(sp, pw) ==
  IF Canonical[sp] = NoLogin \/ pw \notin WellFormed THEN "invalid"
  ELSE IF accounts[Canonical[sp]] # NoPassword THEN "taken" ELSE "ok"

\* The INSERT, when the answer is "ok".
Insert(sp, pw) ==
  accounts' = IF RegisterAnswer(sp, pw) = "ok"
                THEN [accounts EXCEPT ![Canonical[sp]] = pw] ELSE accounts

\* Time passes; MaxTime only bounds the model.
Tick == clock < MaxTime /\ clock' = clock + 1 /\ UNCHANGED accounts
=============================================================================
