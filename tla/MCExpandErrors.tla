--------------------------- MODULE MCExpandErrors ---------------------------
(* Four levels of identifiers with one or two leaves in each expansion. *)
EXTENDS ExpandErrors
=============================================================================
