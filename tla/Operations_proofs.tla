--------------------------- MODULE Operations_proofs ---------------------------
(***************************************************************************)
(* Theorems about Operations, for any set of kinds and any number of       *)
(* commands in flight.                                                     *)
(***************************************************************************)
EXTENDS Operations, TLAPS

(***************************************************************************)
(* The inductive invariant, of a table and the commands in flight.  That   *)
(* an answer that was cancelled cannot be taken for a later one rests on   *)
(* the order of numbers: none in flight is above the last one given.       *)
(***************************************************************************)
Typed(table, flying) == table \in [Kinds -> Request] /\ flying \subseteq Task

Waits(table, flying) ==
  \A k \in Kinds : table[k].pending => [kind |-> k, id |-> table[k].id] \in flying

Fresh(table, flying) ==
  \A t \in flying : /\ t.id <= table[t.kind].id
                    /\ t.id = table[t.kind].id => table[t.kind].pending

Consistent(table, flying) ==
  Typed(table, flying) /\ Waits(table, flying) /\ Fresh(table, flying)

IInv == Consistent(requests, tasks)

\* What the methods of the table do to the request of one kind.
LEMMA RequestSteps ==
  ASSUME NEW r \in Request
  PROVE  /\ Cancel(r) \in Request /\ ~ Cancel(r).pending /\ Cancel(r).id >= r.id
         /\ r.pending => Cancel(r).id > r.id
         /\ Begin(r) \in Request /\ Begin(r).pending /\ Begin(r).id > r.id
         /\ Finish(r) \in Request /\ ~ Finish(r).pending /\ Finish(r).id = r.id
BY DEF Request, Cancel, Begin, Finish

\* After a change each request is the one of the base, cancelled or begun.
LEMMA ChangedRequests ==
  ASSUME NEW base \in [Kinds -> Request], NEW rest, Change(base, rest), NEW k \in Kinds
  PROVE  \/ requests'[k] = base[k]
         \/ requests'[k] = Cancel(base[k])
         \/ /\ requests'[k] = Begin(base[k])
            /\ [kind |-> k, id |-> requests'[k].id] \in tasks'
BY DEF Change

\* Commands in flight after a change were there, or were begun by it.
LEMMA ChangedTasks ==
  ASSUME NEW base \in [Kinds -> Request], NEW rest \in SUBSET Task, Change(base, rest)
  PROVE  /\ rest \subseteq tasks'
         /\ tasks' \subseteq Task
         /\ \A t \in tasks' \ rest : /\ t.id = requests'[t.kind].id
                                     /\ requests'[t.kind] = Begin(base[t.kind])
<1>1. PICK B \in {{}} \cup {{k} : k \in Kinds} :
        /\ tasks' = rest \cup {[kind |-> k, id |-> requests'[k].id] : k \in B}
        /\ \A k \in B : requests'[k] = Begin(base[k])
  BY DEF Change
<1>2. B \subseteq Kinds
  OBVIOUS
<1>3. \A k \in Kinds : requests'[k].id \in Nat
  BY DEF Change, Request
<1>4. QED
  BY <1>1, <1>2, <1>3 DEF Task

LEMMA ChangeKeeps ==
  ASSUME NEW base, NEW rest, Consistent(base, rest), Change(base, rest)
  PROVE  IInv'
<1>0. base \in [Kinds -> Request] /\ rest \in SUBSET Task
  BY DEF Consistent, Typed
<1>1. Typed(requests, tasks)'
  BY <1>0, ChangedTasks DEF Typed, Change
<1>2. Waits(requests, tasks)'
  <2> SUFFICES ASSUME NEW k \in Kinds, requests'[k].pending
               PROVE  [kind |-> k, id |-> requests'[k].id] \in tasks'
    BY DEF Waits
  <2>1. base[k] \in Request
    BY <1>0
  <2>2. requests'[k] # Cancel(base[k])
    BY <2>1, RequestSteps
  <2>3. CASE requests'[k] = base[k]
    BY <2>3, <1>0, ChangedTasks DEF Consistent, Waits
  <2>4. QED
    BY <2>2, <2>3, <1>0, ChangedRequests
<1>3. Fresh(requests, tasks)'
  <2> SUFFICES ASSUME NEW t \in tasks'
               PROVE  /\ t.id <= requests'[t.kind].id
                      /\ t.id = requests'[t.kind].id => requests'[t.kind].pending
    BY DEF Fresh
  <2>1. t \in Task /\ t.kind \in Kinds /\ t.id \in Nat
    BY <1>0, ChangedTasks DEF Task
  <2>2. base[t.kind] \in Request /\ base[t.kind].id \in Nat
    BY <1>0, <2>1 DEF Request
  <2>3. requests'[t.kind].id \in Nat
    BY <2>1 DEF Change, Request
  <2>4. CASE t \in rest
    <3>1. t.id <= base[t.kind].id /\ (t.id = base[t.kind].id => base[t.kind].pending)
      BY <2>4 DEF Consistent, Fresh
    <3>2. CASE requests'[t.kind] = base[t.kind]
      BY <3>1, <3>2
    <3>3. CASE requests'[t.kind] = Cancel(base[t.kind])
      BY <3>1, <3>3, <2>1, <2>2, <2>3, RequestSteps
    <3>4. CASE requests'[t.kind] = Begin(base[t.kind])
      BY <3>1, <3>4, <2>1, <2>2, <2>3, RequestSteps
    <3>5. QED
      BY <3>2, <3>3, <3>4, <1>0, <2>1, ChangedRequests
  <2>5. CASE t \notin rest
    <3>1. t.id = requests'[t.kind].id /\ requests'[t.kind] = Begin(base[t.kind])
      BY <2>5, <1>0, ChangedTasks
    <3>2. QED
      BY <3>1, <2>1, <2>2, RequestSteps
  <2>6. QED
    BY <2>4, <2>5
<1>4. QED
  BY <1>1, <1>2, <1>3 DEF IInv, Consistent

\* The table of which an accepted answer has been finished is consistent
\* with the commands that are left.
LEMMA FinishedConsistent ==
  ASSUME IInv, NEW t \in tasks, Accepts(requests, t.kind, t.id)
  PROVE  Consistent(Finished(requests, t.kind), tasks \ {t})
<1> DEFINE base == Finished(requests, t.kind)
<1>1. t \in Task /\ t.kind \in Kinds /\ t = [kind |-> t.kind, id |-> t.id]
  BY DEF IInv, Consistent, Typed, Task
<1>2. requests \in [Kinds -> Request] /\ tasks \subseteq Task
  BY DEF IInv, Consistent, Typed
<1>3. base[t.kind] = Finish(requests[t.kind])
  BY <1>1, <1>2 DEF Finished
<1>4. \A k \in Kinds : k # t.kind => base[k] = requests[k]
  BY <1>1, <1>2 DEF Finished
<1>5. Typed(base, tasks \ {t})
  <2>1. Finish(requests[t.kind]) \in Request
    BY <1>1, <1>2, RequestSteps
  <2>2. QED
    BY <2>1, <1>2 DEF Typed, Finished
<1>6. Waits(base, tasks \ {t})
  <2> SUFFICES ASSUME NEW k \in Kinds, base[k].pending
               PROVE  [kind |-> k, id |-> base[k].id] \in tasks \ {t}
    BY DEF Waits
  <2>1. k # t.kind
    BY <1>3 DEF Finish
  <2>2. [kind |-> k, id |-> requests[k].id] \in tasks
    BY <1>4, <2>1 DEF IInv, Consistent, Waits
  <2>3. QED
    BY <1>1, <1>4, <2>1, <2>2
<1>7. Fresh(base, tasks \ {t})
  <2> SUFFICES ASSUME NEW u \in tasks \ {t}
               PROVE  /\ u.id <= base[u.kind].id
                      /\ u.id = base[u.kind].id => base[u.kind].pending
    BY DEF Fresh
  <2>1. u.id <= requests[u.kind].id /\ (u.id = requests[u.kind].id => requests[u.kind].pending)
    BY DEF IInv, Consistent, Fresh
  <2>2. u.kind \in Kinds /\ u = [kind |-> u.kind, id |-> u.id]
    BY <1>2 DEF Task
  <2>3. CASE u.kind = t.kind
    <3>1. u.id # t.id
      BY <2>2, <2>3, <1>1
    <3>2. t.id = requests[t.kind].id
      BY DEF Accepts
    <3>3. base[u.kind].id = requests[u.kind].id
      BY <1>3, <2>3 DEF Finish
    <3>4. QED
      BY <2>1, <2>3, <3>1, <3>2, <3>3
  <2>4. CASE u.kind # t.kind
    BY <2>1, <2>2, <2>4, <1>4
  <2>5. QED
    BY <2>3, <2>4
<1>8. QED
  BY <1>5, <1>6, <1>7 DEF Consistent

-----------------------------------------------------------------------------
LEMMA InitInvariant == Init => IInv
<1> SUFFICES ASSUME Init PROVE IInv
  OBVIOUS
<1>1. PICK B \in {{}} \cup {{k} : k \in Kinds} :
        /\ requests = [k \in Kinds |-> IF k \in B THEN Begin(NoRequests[k]) ELSE NoRequests[k]]
        /\ tasks = {[kind |-> k, id |-> requests[k].id] : k \in B}
  BY DEF Init
<1>2. B \subseteq Kinds
  OBVIOUS
<1>3. \A k \in Kinds : NoRequests[k] \in Request /\ ~ NoRequests[k].pending
  BY DEF NoRequests, Request
<1>4. \A k \in Kinds : requests[k] \in Request /\ (requests[k].pending <=> k \in B)
  BY <1>1, <1>3, RequestSteps
<1>5. requests \in [Kinds -> Request]
  BY <1>1, <1>4
<1>6. \A k \in Kinds : requests[k].id \in Nat
  BY <1>5 DEF Request
<1>7. \A t \in tasks : /\ t \in Task /\ t.id = requests[t.kind].id
                       /\ requests[t.kind].pending
  <2> SUFFICES ASSUME NEW t \in tasks
               PROVE  /\ t \in Task /\ t.id = requests[t.kind].id
                      /\ requests[t.kind].pending
    OBVIOUS
  <2>1. PICK k \in B : t = [kind |-> k, id |-> requests[k].id]
    BY <1>1
  <2>2. k \in Kinds /\ t.kind = k /\ t.id = requests[k].id
    BY <1>2, <2>1
  <2>3. QED
    BY <1>4, <1>6, <2>1, <2>2 DEF Task
<1>8. Waits(requests, tasks)
  BY <1>1, <1>4 DEF Waits
<1>9. Fresh(requests, tasks)
  BY <1>6, <1>7 DEF Fresh, Task
<1>10. QED
  BY <1>5, <1>7, <1>8, <1>9 DEF IInv, Consistent, Typed

LEMMA NextInvariant == IInv /\ [Next]_vars => IInv'
<1> SUFFICES ASSUME IInv, [Next]_vars PROVE IInv'
  OBVIOUS
<1>1. CASE UserStep
  BY <1>1, ChangeKeeps DEF UserStep, IInv
<1>2. CASE Quit
  <2>1. requests' \in [Kinds -> Request] /\ \A k \in Kinds : ~ requests'[k].pending
    BY <1>2 DEF Quit, NoRequests, Request
  <2>2. QED
    BY <1>2, <2>1 DEF Quit, IInv, Consistent, Typed, Waits, Fresh
<1>3. ASSUME NEW t \in tasks, Deliver(t) PROVE IInv'
  BY <1>3, FinishedConsistent, ChangeKeeps DEF Deliver
<1>4. ASSUME NEW t \in tasks, Drop(t) PROVE IInv'
  <2>1. Typed(requests, tasks)' /\ Fresh(requests, tasks)'
    BY <1>4 DEF Drop, IInv, Consistent, Typed, Fresh
  <2>2. Waits(requests, tasks)'
    <3> SUFFICES ASSUME NEW k \in Kinds, requests[k].pending
                 PROVE  [kind |-> k, id |-> requests[k].id] \in tasks \ {t}
      BY <1>4 DEF Drop, Waits
    <3>1. [kind |-> k, id |-> requests[k].id] \in tasks
      BY DEF IInv, Consistent, Waits
    <3>2. [kind |-> k, id |-> requests[k].id] # t
      BY <1>4 DEF Drop, Accepts
    <3>3. QED
      BY <3>1, <3>2
  <2>3. QED
    BY <2>1, <2>2 DEF IInv, Consistent
<1>5. CASE UNCHANGED vars
  BY <1>5 DEF vars, IInv, Consistent, Typed, Waits, Fresh
<1>6. QED
  BY <1>1, <1>2, <1>3, <1>4, <1>5 DEF Next

\* IInv holds for ever.
THEOREM Invariance == Spec => []IInv
BY InitInvariant, NextInvariant, PTL DEF Spec

(***************************************************************************)
(* Every variable has its type, in every reachable state.                  *)
(***************************************************************************)
THEOREM TypeCorrect == Spec => []TypeOK
<1>1. IInv => TypeOK
  BY DEF IInv, Consistent, Typed, TypeOK
<1>2. QED
  BY <1>1, Invariance, PTL

(***************************************************************************)
(* No window waits for nothing: a pending request has its command in       *)
(* flight (begin and finish of operations.go).                             *)
(***************************************************************************)
THEOREM NobodyWaitsForNothing == Spec => []PendingHasTask
<1>1. IInv => PendingHasTask
  BY DEF IInv, Consistent, Waits, PendingHasTask
<1>2. QED
  BY <1>1, Invariance, PTL

(***************************************************************************)
(* No number that is in flight is given again (begin and cancelRequest).   *)
(***************************************************************************)
THEOREM NumbersStayFresh == Spec => []NumbersAreFresh
<1>1. IInv => NumbersAreFresh
  BY DEF IInv, Consistent, Fresh, NumbersAreFresh
<1>2. QED
  BY <1>1, Invariance, PTL

-----------------------------------------------------------------------------
\* A change makes no command acceptable that was not.
LEMMA ChangeAcceptsNoMore ==
  ASSUME NEW base, NEW rest, Consistent(base, rest), Change(base, rest),
         NEW t \in rest, Accepts(requests', t.kind, t.id)
  PROVE  Accepts(base, t.kind, t.id)
<1>1. base \in [Kinds -> Request] /\ t \in Task /\ t.kind \in Kinds /\ t.id \in Nat
  BY DEF Consistent, Typed, Task
<1>2. t.id <= base[t.kind].id
  BY DEF Consistent, Fresh
<1>3. base[t.kind] \in Request /\ base[t.kind].id \in Nat
  BY <1>1 DEF Request
<1>4. requests'[t.kind].pending /\ t.id = requests'[t.kind].id
  BY DEF Accepts
<1>5. requests'[t.kind] # Cancel(base[t.kind])
  BY <1>3, <1>4, RequestSteps
<1>6. requests'[t.kind] # Begin(base[t.kind])
  BY <1>1, <1>2, <1>3, <1>4, RequestSteps
<1>7. requests'[t.kind] = base[t.kind]
  BY <1>1, <1>5, <1>6, ChangedRequests
<1>8. QED
  BY <1>4, <1>7 DEF Accepts

(***************************************************************************)
(* What was cancelled or superseded stays so: no later step of the user    *)
(* and no later answer makes the table accept it (accepts and              *)
(* cancelRequest of operations.go).                                        *)
(***************************************************************************)
THEOREM StaleStaysStale == Spec => StaleForEver
<1> DEFINE Kept == \A t \in tasks \cap tasks' :
                     Accepts(requests, t.kind, t.id)' => Accepts(requests, t.kind, t.id)
<1>1. ASSUME IInv, [Next]_vars PROVE [Kept]_vars
  <2> SUFFICES ASSUME NEW t \in tasks, t \in tasks', Accepts(requests', t.kind, t.id)
               PROVE  Accepts(requests, t.kind, t.id)
    OBVIOUS
  <2>1. CASE UserStep
    BY <1>1, <2>1, ChangeAcceptsNoMore DEF UserStep, IInv
  <2>2. CASE Quit
    BY <2>2 DEF Quit
  <2>3. ASSUME NEW u \in tasks, Deliver(u) PROVE Accepts(requests, t.kind, t.id)
    <3>1. CASE t = u
      BY <2>3, <3>1 DEF Deliver
    <3>2. CASE t # u
      <4>1. Accepts(Finished(requests, u.kind), t.kind, t.id)
        BY <1>1, <2>3, <3>2, FinishedConsistent, ChangeAcceptsNoMore DEF Deliver
      <4>2. requests \in [Kinds -> Request] /\ t.kind \in Kinds /\ u.kind \in Kinds
        BY <1>1 DEF IInv, Consistent, Typed, Task
      <4>3. QED
        BY <4>1, <4>2 DEF Accepts, Finished, Finish
    <3>3. QED
      BY <3>1, <3>2
  <2>4. ASSUME NEW u \in tasks, Drop(u) PROVE Accepts(requests, t.kind, t.id)
    BY <2>4 DEF Drop
  <2>5. CASE UNCHANGED vars
    BY <2>5 DEF vars
  <2>6. QED
    BY <1>1, <2>1, <2>2, <2>3, <2>4, <2>5 DEF Next
<1>2. QED
  BY <1>1, Invariance, PTL DEF Spec, StaleForEver
=============================================================================
