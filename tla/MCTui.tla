--------------------------------- MODULE MCTui --------------------------------
(***************************************************************************)
(* Tui on small instances for TLC.                                         *)
(***************************************************************************)
EXTENDS Tui

CONSTANTS alice, home, other

\* The program starts in the directory home, with the session of alice or none.
HomeInit ==
  /\ Init
  /\ tui.dir = home
  /\ file[home] \in {alice, NoLogin}
  /\ file[other] = NoLogin

HomeSpec == HomeInit /\ [][Next]_vars /\ Fairness
=============================================================================
