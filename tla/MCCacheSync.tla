----------------------------- MODULE MCCacheSync -----------------------------
(***************************************************************************)
(* CacheSync on small instances for TLC, with the history of the Server's  *)
(* table that a sync could have seen.                                      *)
(***************************************************************************)
EXTENDS CacheSync

VARIABLE
  window        \* window[s]: the tables the Server had since sync s began

windowVars == <<vars, window>>

WindowInit == Init /\ window = [s \in Syncs |-> {}]

WindowStep ==
  window' = [s \in Syncs |-> IF step'[s] = "idle" THEN {} ELSE window[s] \cup {rows'}]

\* No damage: every difference comes from the syncs themselves.
WindowNext ==
  /\ ServerChanges \/ \E s \in Syncs : Begin(s) \/ SyncStep(s) \/ Abort(s)
  /\ WindowStep

WindowSpec == WindowInit /\ [][WindowNext]_windowVars /\ Fairness

(***************************************************************************)
(* docs/CLI.md on gkeep sync: after a successful synchronization the cache *)
(* corresponds to the state of the Server at the moment of the operation.  *)
(* Read generously: at some moment of it.  Sync compares the Server with a *)
(* state of the cache that a second sync may replace before the first one  *)
(* applies its changes.                                                    *)
(***************************************************************************)
SyncedCacheIsServerState ==
  [][\A s \in Syncs :
       Apply(s) => \E table \in window[s] : cached' = CacheOf(table)]_windowVars
=============================================================================
