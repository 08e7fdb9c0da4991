----------------------------- MODULE Transports -----------------------------
(***************************************************************************)
(* The life of the Server process from the start of its transports to its  *)
(* exit: ServeTransports (internal/server/app/transport.go) over the serve *)
(* functions of the HTTPS and the gRPC transport, and what run of          *)
(* cmd/server/main.go does after it returned.                              *)
(*                                                                         *)
(* Each transport runs in a goroutine of its own, with its accept loop in  *)
(* a second one and a handler per request.  They share the connection pool *)
(* of PostgreSQL, which run closes when every transport has returned.      *)
(*                                                                         *)
(* What net/http and grpc-go do is modelled from how the serve functions   *)
(* use them: a graceful stop ends accepting at once and returns when no    *)
(* request runs; a forced one breaks the connections of those that do.     *)
(***************************************************************************)
EXTENDS FiniteSets

CONSTANTS
  Names,        \* the transports: HTTPS and gRPC
  Exchanges,    \* requests that clients may send, each with its answer
  Via           \* Via[r]: the transport that request r comes in by

ASSUME ViaAssumption == Via \in [Exchanges -> Names]

VARIABLES
  signalled,    \* the context of main is cancelled: SIGINT or SIGTERM
  transport,    \* transport[t]: where the Serve function of t is
  broken,       \* broken[t]: the accept loop of t ended with an error
  collected,    \* transports whose result ServeTransports has received
  failed,       \* transports named by the joined error of ServeTransports
  exchange,     \* exchange[r]: what became of request r
  querying,     \* requests whose handler holds a connection of the pool
  process       \* where run is

processVars == <<signalled, transport, broken, collected, failed, exchange, querying, process>>

\* "stopped" and "failed" are the results of Serve: nil and an error.
TransportStates == {"starting", "serving", "stopping", "stopped", "failed"}
ExchangeStates == {"unsent", "running", "answered", "cut"}
ProcessStates == {"up", "closing", "exited"}

ProcessInit ==
  /\ signalled = FALSE
  /\ transport = [t \in Names |-> "starting"]
  /\ broken = [t \in Names |-> FALSE]
  /\ collected = {}
  /\ failed = {}
  /\ exchange = [r \in Exchanges |-> "unsent"]
  /\ querying = {}
  /\ process = "up"

-----------------------------------------------------------------------------
\* serveCtx of ServeTransports: cancelled with its parent or by a bad result.
Cancelled == signalled \/ failed # {}

Running(t) == {r \in Exchanges : Via[r] = t /\ exchange[r] = "running"}

Become(t, state) == transport' = [transport EXCEPT ![t] = state]

Signal ==
  /\ ~ signalled
  /\ signalled' = TRUE
  /\ UNCHANGED <<transport, broken, collected, failed, exchange, querying, process>>

Listen(t) ==
  /\ transport[t] = "starting" /\ ~ broken[t]
  /\ Become(t, "serving")
  /\ UNCHANGED <<signalled, broken, collected, failed, exchange, querying, process>>

\* The address is taken, the certificate unreadable, or accepting fails.
Break(t) ==
  /\ transport[t] \in {"starting", "serving"} /\ ~ broken[t]
  /\ broken' = [broken EXCEPT ![t] = TRUE]
  /\ UNCHANGED <<signalled, transport, collected, failed, exchange, querying, process>>

\* The select of serve takes the error.  The requests under way are left alone.
ServeFails(t) ==
  /\ transport[t] \in {"starting", "serving"} /\ broken[t]
  /\ Become(t, "failed")
  /\ UNCHANGED <<signalled, broken, collected, failed, exchange, querying, process>>

\* The select takes the cancelled context, be there an error or not.
BeginStop(t) ==
  /\ transport[t] \in {"starting", "serving"} /\ Cancelled
  /\ Become(t, "stopping")
  /\ UNCHANGED <<signalled, broken, collected, failed, exchange, querying, process>>

\* Mutation: the listener is closed and nobody is waited for.
FinishStopAtOnce(t) ==
  /\ transport[t] = "stopping"
  /\ Become(t, IF broken[t] THEN "failed" ELSE "stopped")
  /\ UNCHANGED <<signalled, broken, collected, failed, exchange, querying, process>>

\* Shutdown or GracefulStop returned; the result of the accept loop counts.
FinishStop(t) ==
  /\ transport[t] = "stopping"
  /\ Running(t) = {}
  /\ Become(t, IF broken[t] THEN "failed" ELSE "stopped")
  /\ UNCHANGED <<signalled, broken, collected, failed, exchange, querying, process>>

\* Mutation: the graceful stop has no deadline.
StopTimesOutNever(t) == FALSE /\ t \in Names /\ UNCHANGED processVars

\* shutdownTimeout passed: Close or Stop cuts the connections and the context
\* of every handler; the handlers themselves are not waited for.
StopTimesOut(t) ==
  /\ transport[t] = "stopping"
  /\ Become(t, "failed")
  /\ exchange' = [r \in Exchanges |-> IF r \in Running(t) THEN "cut" ELSE exchange[r]]
  /\ UNCHANGED <<signalled, broken, collected, failed, querying, process>>

Returned(t) == transport[t] \in {"stopped", "failed"}

\* Mutation: an error that arrives after the stop has begun is dropped.
CollectFirstError(t) ==
  /\ Returned(t) /\ t \notin collected
  /\ collected' = collected \cup {t}
  /\ failed' = IF ~ Cancelled THEN failed \cup {t} ELSE failed
  /\ UNCHANGED <<signalled, transport, broken, exchange, querying, process>>

\* An error, or a return nobody asked for, is reported and stops the others.
Collect(t) ==
  /\ Returned(t) /\ t \notin collected
  /\ collected' = collected \cup {t}
  /\ failed' = IF transport[t] = "failed" \/ ~ Cancelled THEN failed \cup {t} ELSE failed
  /\ UNCHANGED <<signalled, transport, broken, exchange, querying, process>>

\* ServeTransports returns; the deferred pool.Close of run begins.
Return ==
  /\ process = "up"
  /\ collected = Names
  /\ process' = "closing"
  /\ UNCHANGED <<signalled, transport, broken, collected, failed, exchange, querying>>

\* pool.Close returns when every connection is back; then the process is gone,
\* and with it the handlers that a broken accept loop left running.
Exit ==
  /\ process = "closing"
  /\ querying = {}
  /\ process' = "exited"
  /\ exchange' = [r \in Exchanges |-> IF exchange[r] = "running" THEN "cut" ELSE exchange[r]]
  /\ UNCHANGED <<signalled, transport, broken, collected, failed, querying>>

-----------------------------------------------------------------------------
Accept(r) ==
  /\ exchange[r] = "unsent"
  /\ transport[Via[r]] = "serving" /\ ~ broken[Via[r]]
  /\ exchange' = [exchange EXCEPT ![r] = "running"]
  /\ UNCHANGED <<signalled, transport, broken, collected, failed, querying, process>>

\* A closed pool gives out no connections.
Query(r) ==
  /\ exchange[r] = "running" /\ r \notin querying /\ process = "up"
  /\ querying' = querying \cup {r}
  /\ UNCHANGED <<signalled, transport, broken, collected, failed, exchange, process>>

\* The statement ended, at the latest because the context was cancelled.
Release(r) ==
  /\ r \in querying
  /\ querying' = querying \ {r}
  /\ UNCHANGED <<signalled, transport, broken, collected, failed, exchange, process>>

\* Mutation: a handler answers without giving its connection back.
ReplyLeaking(r) ==
  /\ exchange[r] = "running" /\ process # "exited"
  /\ exchange' = [exchange EXCEPT ![r] = "answered"]
  /\ UNCHANGED <<signalled, transport, broken, collected, failed, querying, process>>

\* A handler answers when its last statement is over.
Reply(r) ==
  /\ exchange[r] = "running" /\ r \notin querying /\ process # "exited"
  /\ exchange' = [exchange EXCEPT ![r] = "answered"]
  /\ UNCHANGED <<signalled, transport, broken, collected, failed, querying, process>>

Serve(t) ==
  Listen(t) \/ ServeFails(t) \/ BeginStop(t) \/ FinishStop(t) \/ StopTimesOut(t)

ProcessNext ==
  \/ Signal \/ Return \/ Exit
  \/ \E t \in Names : Serve(t) \/ Break(t) \/ Collect(t)
  \/ \E r \in Exchanges : Accept(r) \/ Query(r) \/ Release(r) \/ Reply(r)

(***************************************************************************)
(* Goroutines that can run do run, timers go off, statements end.  Nothing *)
(* makes a client send, a handler finish or a signal come.                 *)
(***************************************************************************)
Fairness ==
  /\ WF_processVars(Return) /\ WF_processVars(Exit)
  /\ \A t \in Names : WF_processVars(Serve(t)) /\ WF_processVars(Collect(t))
  /\ \A r \in Exchanges : WF_processVars(Release(r))

ProcessSpec == ProcessInit /\ [][ProcessNext]_processVars /\ Fairness

-----------------------------------------------------------------------------
ProcessTypeOK ==
  /\ signalled \in BOOLEAN
  /\ transport \in [Names -> TransportStates]
  /\ broken \in [Names -> BOOLEAN]
  /\ collected \subseteq {t \in Names : Returned(t)}
  /\ failed \subseteq collected
  /\ exchange \in [Exchanges -> ExchangeStates]
  /\ querying \subseteq {r \in Exchanges : exchange[r] \in {"running", "cut"}}
  /\ process \in ProcessStates

(***************************************************************************)
(* A transport the final error does not name has answered every request it *)
(* accepted before the pool is closed, also when the process goes down     *)
(* because the other transport broke (docs/PROJECT_REQUIREMENTS.md: the    *)
(* Server then stops the second one properly).  So an exit without an      *)
(* error cut nobody off.                                                   *)
(***************************************************************************)
HealthyTransportsDrain ==
  process # "up" =>
    \A r \in Exchanges : Via[r] \notin failed => exchange[r] \in {"unsent", "answered"}

(***************************************************************************)
(* The error of ServeTransports names every transport that failed, not     *)
(* only the one that brought the others down: a stop that times out, or an *)
(* accept loop that breaks while its peer stops, is reported as well, and  *)
(* an exit that was asked for and went well reports none.                  *)
(***************************************************************************)
EveryFailureReported ==
  process # "up" => failed = {t \in Names : transport[t] = "failed"}

(***************************************************************************)
(* Once a signal came or a transport broke the whole process exits, even   *)
(* if a client keeps a request running for ever.                           *)
(***************************************************************************)
ProcessEnds == (signalled \/ \E t \in Names : broken[t]) ~> process = "exited"
=============================================================================
