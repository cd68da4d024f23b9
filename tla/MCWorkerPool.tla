---------------------------- MODULE MCWorkerPool ----------------------------
(***************************************************************************)
(* WorkerPool for TLC.  The span of a bucket's second diagnostic lies      *)
(* before that of its first, so that sorting a batch changes its order.    *)
(***************************************************************************)
EXTENDS WorkerPool

CONSTANTS w1, w2

MCWorker == {w1, w2}
MCSpan == [n \in 1..MaxMsgs |-> 10 - n]
=============================================================================
