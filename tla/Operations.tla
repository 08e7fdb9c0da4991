------------------------------ MODULE Operations ------------------------------
(***************************************************************************)
(* What the operation table promises to the windows above it, whatever     *)
(* they do: the user starts at most one command in a step and may cancel   *)
(* others, commands run in goroutines of their own, and a result is        *)
(* applied only if the table still accepts it.                             *)
(*                                                                         *)
(* internal/client/tui/operations.go with the pattern that every caller    *)
(* of it follows: "if !accepts return; finish; ...".                       *)
(***************************************************************************)
EXTENDS OperationTable

VARIABLES
  requests,     \* operationCoordinator.requests
  tasks         \* commands that run, or whose result has not been delivered

vars == <<requests, tasks>>

Task == [kind : Kinds, id : Nat]

\* newModel may begin a request before the loop runs.
Init ==
  \E B \in {{}} \cup {{k} : k \in Kinds} :
    /\ requests = [k \in Kinds |-> IF k \in B THEN Begin(NoRequests[k]) ELSE NoRequests[k]]
    /\ tasks = {[kind |-> k, id |-> requests[k].id] : k \in B}

\* From the table base, requests are cancelled and at most one is begun.
Change(base, rest) ==
  /\ requests' \in [Kinds -> Request]
  /\ \E B \in {{}} \cup {{k} : k \in Kinds} :
       /\ tasks' = rest \cup {[kind |-> k, id |-> requests'[k].id] : k \in B}
       /\ \A k \in B : requests'[k] = Begin(base[k])
       /\ \A k \in Kinds \ B : requests'[k] \in {base[k], Cancel(base[k])}

\* A step of the user.
UserStep == Change(requests, tasks)

\* A result that is accepted finishes its request and may begin the next one.
Deliver(t) ==
  /\ Accepts(requests, t.kind, t.id)
  /\ Change(Finished(requests, t.kind), tasks \ {t})

\* A result that nobody waits for changes nothing.
Drop(t) ==
  /\ ~ Accepts(requests, t.kind, t.id)
  /\ tasks' = tasks \ {t}
  /\ UNCHANGED requests

\* The program ends, and its commands with it.
Quit == requests' = NoRequests /\ tasks' = {}

Next == UserStep \/ Quit \/ \E t \in tasks : Deliver(t) \/ Drop(t)

Spec == Init /\ [][Next]_vars

-----------------------------------------------------------------------------
TypeOK ==
  /\ requests \in [Kinds -> Request]
  /\ tasks \subseteq Task

(***************************************************************************)
(* A request that is pending has a command on its way: a window that waits *)
(* for a result does not wait for nothing (begin and finish).              *)
(***************************************************************************)
PendingHasTask ==
  \A k \in Kinds : requests[k].pending => [kind |-> k, id |-> requests[k].id] \in tasks

(***************************************************************************)
(* Numbers are not used twice: no command on its way has a number that the *)
(* table will give again, and the last number given belongs to a command   *)
(* only while its request is pending (begin and cancelRequest).            *)
(***************************************************************************)
NumbersAreFresh ==
  \A t \in tasks : /\ t.id <= requests[t.kind].id
                   /\ t.id = requests[t.kind].id => requests[t.kind].pending

(***************************************************************************)
(* What was cancelled or superseded stays so: a command whose result is    *)
(* not accepted now will never be accepted (accepts, cancelRequest).       *)
(***************************************************************************)
StaleForEver ==
  [][\A t \in tasks \cap tasks' :
       Accepts(requests, t.kind, t.id)' => Accepts(requests, t.kind, t.id)]_vars
=============================================================================
