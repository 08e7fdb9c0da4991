----------------------------- MODULE MCCacheFile -----------------------------
(***************************************************************************)
(* CacheFile on small instances for TLC.                                   *)
(***************************************************************************)
EXTENDS CacheFile, TLC

\* Files, processes and passwords are interchangeable.
Symmetry == Permutations(Inodes) \cup Permutations(Openers) \cup Permutations(Passwords)

\* No process dies: every one that fails comes to its clean-up.
CalmSpec == Init /\ [][\E p \in Openers : OpenStep(p) \/ UseStep(p)]_vars

(***************************************************************************)
(* OpenRepository "creates the metadata on the first start and checks the  *)
(* password on the next ones" (repository.go): when nobody is at it, a     *)
(* cache file either does not exist yet or has metadata to check a         *)
(* password against.  A file without metadata is refused for ever, with    *)
(* any password.                                                           *)
(***************************************************************************)
CacheIsUsable ==
  (\A p \in Openers : At(p, "idle")) /\ path # None => content[path].key # None
=============================================================================
