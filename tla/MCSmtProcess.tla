---------------------------- MODULE MCSmtProcess ----------------------------
(* The SMT process on small pipes: requests that do not fit, answers that  *)
(* do not fit, a solver that crashes anywhere, blank lines, slow queries.  *)
EXTENDS SmtProcess
=============================================================================
