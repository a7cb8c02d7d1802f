---------------------------- MODULE MCForwarder ----------------------------
(* The forwarder with two submitting goroutines, the message pipeline and the
   cache's retry loop, and its flush loop. *)
EXTENDS Forwarder
=============================================================================
