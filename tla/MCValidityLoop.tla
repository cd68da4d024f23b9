--------------------------- MODULE MCValidityLoop ---------------------------
(* Three labelled assertions per query, so that there is one before, one between and one after others. *)
EXTENDS ValidityLoop
=============================================================================
