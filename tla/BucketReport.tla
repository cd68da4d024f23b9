---------------------------- MODULE BucketReport ----------------------------
(***************************************************************************)
(* What the parallel verifier promises a reader of its terminal.  The      *)
(* buckets of a crate are verified by several threads at once, yet their   *)
(* diagnostics come out in one block per bucket: while a bucket's block is *)
(* open nothing of another bucket is printed, and a block that was closed  *)
(* is never opened again.                                                  *)
(***************************************************************************)
EXTENDS Naturals, Sequences

CONSTANTS Bucket, NoBucket

VARIABLES out,      \* diagnostics printed so far, records with a field bucket
          open,     \* the bucket whose block is being printed, or NoBucket
          closed    \* the buckets whose block is complete

outVars == <<out, open, closed>>

ReportInit == /\ out = <<>>
              /\ open = NoBucket
              /\ closed = {}

(* Only diagnostics of bucket b are added to the output, perhaps none. *)
Adds(b) ==
    /\ Len(out') >= Len(out)
    /\ \A i \in 1..Len(out) : out'[i] = out[i]
    /\ \A i \in (Len(out) + 1)..Len(out') : out'[i].bucket = b

(* Print in the block of b, which is open or can be opened, and leave it open. *)
PrintOpen(b) ==
    /\ open \in {NoBucket, b}
    /\ b \notin closed
    /\ Adds(b)
    /\ open' = b
    /\ closed' = closed

(* Print in the block of b and close it. *)
PrintLast(b) ==
    /\ open \in {NoBucket, b}
    /\ b \notin closed
    /\ Adds(b)
    /\ open' = NoBucket
    /\ closed' = closed \cup {b}

(* A bucket that reported nothing is complete, whichever block is open. *)
Silent(b) ==
    /\ b \notin closed /\ b # open
    /\ \A i \in 1..Len(out) : out[i].bucket # b
    /\ closed' = closed \cup {b}
    /\ UNCHANGED <<out, open>>

ReportNext == \E b \in Bucket : PrintOpen(b) \/ PrintLast(b) \/ Silent(b)

ReportSpec == ReportInit /\ [][ReportNext]_outVars
=============================================================================
