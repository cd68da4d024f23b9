----------------------------- MODULE MCQueryOps -----------------------------
(* One function under --profile and --expand-errors, and two mutually      *)
(* recursive ones under --expand-errors only; a query has one or two       *)
(* command lists.                                                          *)
EXTENDS QueryOps

MCConfig ==
    {[funs |-> 1, profile |-> "yes", expand |-> "yes"],
     [funs |-> 2, profile |-> "no", expand |-> "yes"]}

MCProfile == {[funs |-> 1, profile |-> "yes", expand |-> "yes"]}
=============================================================================
