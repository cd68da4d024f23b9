------------------------------ MODULE MCRwLock ------------------------------
(* Three clients that read and write, with a count that overflows at two. *)
EXTENDS RwLock
=============================================================================
