------------------------------ MODULE MCSpool ------------------------------
(* One spooled directory behind one forwarder that the pipeline also uses. *)
EXTENDS Spool
=============================================================================
