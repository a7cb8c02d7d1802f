------------------------------ MODULE MCBroker ------------------------------
(* The broker with a connection that sends two requests and one that sends a
   single request in between. *)
EXTENDS Broker, TLC

CONSTANTS c1, c2

TwoAndOne == (c1 :> 2) @@ (c2 :> 1)
One == c1 :> 1

(* The base sequence of a producer that is not idempotent *)
NotIdempotent == {-1}
=============================================================================
