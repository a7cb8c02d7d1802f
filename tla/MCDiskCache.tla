---------------------------- MODULE MCDiskCache ----------------------------
(* The disk cache on directories of a few small files. *)
EXTENDS DiskCache
=============================================================================
