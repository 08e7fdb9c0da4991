---------------------------- MODULE OperationTable ----------------------------
(***************************************************************************)
(* The table of requests that the terminal interface keeps: the type       *)
(* operationCoordinator of internal/client/tui/operations.go, with its     *)
(* methods as operators from a table to a table.                           *)
(*                                                                         *)
(* A request has a cancel function as long as it is pending: cancel and    *)
(* finish call it and forget it together.  So whether the context of a     *)
(* command is cancelled is not state of its own: it is cancelled when the  *)
(* table no longer accepts the command.                                    *)
(***************************************************************************)
EXTENDS Naturals

CONSTANT Kinds      \* operationKind

Request == [pending : BOOLEAN, id : Nat]

NoRequests == [k \in Kinds |-> [pending |-> FALSE, id |-> 0]]

\* Mutation: the request keeps its number when it is cancelled.
CancelKeepsID(r) == [pending |-> FALSE, id |-> r.id]

\* cancelRequest: an answer that is on its way gets a number nobody waits for.
Cancel(r) == [pending |-> FALSE, id |-> IF r.pending THEN r.id + 1 ELSE r.id]

\* begin, of one request.
Begin(r) == [pending |-> TRUE, id |-> Cancel(r).id + 1]

\* finish, of one request.
Finish(r) == [pending |-> FALSE, id |-> r.id]

-----------------------------------------------------------------------------
Cancelled(table, K) == [k \in Kinds |-> IF k \in K THEN Cancel(table[k]) ELSE table[k]]

Begun(table, kind) == [table EXCEPT ![kind] = Begin(@)]

Finished(table, kind) == [table EXCEPT ![kind] = Finish(@)]

\* Mutation: a result is taken for its kind alone.
AcceptsAnyID(table, kind, id) == table[kind].pending

\* accepts: the result that is waited for, and no other.
Accepts(table, kind, id) == table[kind].pending /\ id = table[kind].id
=============================================================================
