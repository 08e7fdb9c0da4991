---------------------------- MODULE MCRecordList ----------------------------
(***************************************************************************)
(* RecordList on small instances for TLC.                                  *)
(***************************************************************************)
EXTENDS RecordList

(***************************************************************************)
(* "Resize keeps record mouse hitbox in sync with visible page" (a test of *)
(* the mouse): a list that is not covered shows its selected row, and no   *)
(* blank rows it could fill.                                               *)
(***************************************************************************)
ResizeKeepsPage == ~ picker => OnPage
=============================================================================
