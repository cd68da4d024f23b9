----------------------------- MODULE RwLockToks -----------------------------
(***************************************************************************)
(* The tokenized state machine of vstd/rwlock.rs.  It is the contract of   *)
(* the lock: which tokens the threads may hold, and when the stored value  *)
(* may be withdrawn, guarded and deposited.  A multiset of tokens is the   *)
(* number of them, per value for the readers.                              *)
(***************************************************************************)
EXTENDS RwLockValues

VARIABLES
    flag_exc, flag_rc, storage,
    pending_writer, writer,         \* options: the number of tokens there are
    pending_reader, reader          \* multisets

toksVars == <<flag_exc, flag_rc, storage, pending_writer, writer, pending_reader, reader>>

InitializeFull ==
    /\ flag_exc = "no"
    /\ flag_rc = 0
    /\ storage \in V
    /\ pending_writer = 0
    /\ writer = 0
    /\ pending_reader = 0
    /\ reader = [v \in V |-> 0]

AcquireReadStart ==
    /\ flag_rc' = flag_rc + 1
    /\ pending_reader' = pending_reader + 1
    /\ UNCHANGED <<flag_exc, storage, pending_writer, writer, reader>>

\* x is storage->0, any value if there is none.
AcquireReadEnd(x) ==
    /\ flag_exc = "no"
    /\ pending_reader > 0
    /\ storage \in V => x = storage
    /\ pending_reader' = pending_reader - 1
    /\ reader' = [reader EXCEPT ![x] = @ + 1]
    /\ UNCHANGED <<flag_exc, flag_rc, storage, pending_writer, writer>>

AcquireReadAbandon ==
    /\ pending_reader > 0
    /\ pending_reader' = pending_reader - 1
    /\ flag_rc' = flag_rc - 1
    /\ UNCHANGED <<flag_exc, storage, pending_writer, writer, reader>>

AcquireExcStart ==
    /\ flag_exc = "no"
    /\ flag_exc' = "yes"
    /\ pending_writer' = pending_writer + 1
    /\ UNCHANGED <<flag_rc, storage, writer, pending_reader, reader>>

AcquireExcEnd ==
    /\ flag_rc = 0
    /\ pending_writer > 0
    /\ pending_writer' = pending_writer - 1
    /\ writer' = writer + 1
    /\ storage' = None
    /\ UNCHANGED <<flag_exc, flag_rc, pending_reader, reader>>

ReleaseExc(x) ==
    /\ writer > 0
    /\ writer' = writer - 1
    /\ flag_exc' = "no"
    /\ storage' = x
    /\ UNCHANGED <<flag_rc, pending_writer, pending_reader, reader>>

ReleaseShared(x) ==
    /\ reader[x] > 0
    /\ reader' = [reader EXCEPT ![x] = @ - 1]
    /\ flag_rc' = flag_rc - 1
    /\ UNCHANGED <<flag_exc, storage, pending_writer, writer, pending_reader>>

Transition ==
    \/ AcquireReadStart \/ AcquireReadAbandon \/ AcquireExcStart \/ AcquireExcEnd
    \/ \E x \in V : AcquireReadEnd(x) \/ ReleaseExc(x) \/ ReleaseShared(x)

ToksSpec == InitializeFull /\ [][Transition]_toksVars

-----------------------------------------------------------------------------
ToksTypeOK ==
    /\ flag_exc \in {"yes", "no"}
    /\ flag_rc \in Nat
    /\ storage \in V \cup {None}
    /\ pending_writer \in 0..1
    /\ writer \in 0..1
    /\ pending_reader \in Nat
    /\ reader \in [V -> Nat]

\* The number of readers; they all read the stored value.
Readers == IF storage \in V THEN reader[storage] ELSE 0

(* exc_bit_matches: the flag is set exactly while a writer waits or writes. *)
ExcBitMatches == pending_writer + writer = IF flag_exc = "yes" THEN 1 ELSE 0

(* count_matches: the count is the number of readers, pending ones included.*)
CountMatches == flag_rc = pending_reader + Readers

(* reader_agrees_storage and writer_agrees_storage, both ways: a reader     *)
(* guards the value that is stored, and the value is out exactly while      *)
(* there is a writer.                                                       *)
TokensAgreeWithStorage ==
    /\ \A v \in V : reader[v] > 0 => storage = v
    /\ writer = 1 <=> storage = None
=============================================================================
