--------------------------- MODULE MCClientSession ---------------------------
(***************************************************************************)
(* ClientSession on small instances for TLC.                               *)
(***************************************************************************)
EXTENDS ClientSession, TLC

CONSTANTS a, A, b, space, alice, bob

\* Two spellings of one login, another login, and a spelling of none.
CanonicalLogin ==
  [sp \in Spellings |-> CASE sp \in {a, A} -> alice [] sp = b -> bob [] sp = space -> NoLogin]

Symmetry == Permutations(Clients)

(***************************************************************************)
(* "After a successful login the client saves the local online session in  *)
(* session.json" (SETUP.md), and gkeep logout "deletes the local online    *)
(* session" (CLI.md): a session of another user than the one the file had, *)
(* or of a user where it had none, comes from a login.                     *)
(***************************************************************************)
OnlyLoginOpensSession ==
  [][(file' # NoSession /\ (file # NoSession => file.user # file'.user)) =>
       \E p \in Clients : At(p, "rename") /\ proc[p].cmd = "login"]_vars
=============================================================================
