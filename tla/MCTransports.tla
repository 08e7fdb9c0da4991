---------------------------- MODULE MCTransports ----------------------------
(***************************************************************************)
(* The two transports of the Server with three requests for TLC.           *)
(***************************************************************************)
EXTENDS Transports, TLC

CONSTANTS https, grpc, r1, r2, r3

\* Two requests by HTTPS, one by gRPC.
TwoAndOne == r1 :> https @@ r2 :> https @@ r3 :> grpc
=============================================================================
