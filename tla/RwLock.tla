------------------------------- MODULE RwLock -------------------------------
(***************************************************************************)
(* The reader-writer lock of vstd/rwlock.rs as it runs: an exclusive flag, *)
(* a count of readers and a cell.  A client is one use of the lock by some *)
(* thread, from acquire to release; a thread that holds several handles is *)
(* several clients.  Each access to exc or rc is one step (the atomics of  *)
(* vstd are sequentially consistent), and so is each access to the cell.   *)
(* A compare_exchange or load that makes its loop spin changes nothing and *)
(* is no step.                                                             *)
(***************************************************************************)
EXTENDS RwLockValues, FiniteSets

CONSTANTS
    Reader, Writer, \* clients that call acquire_read, acquire_write
    Forgets     \* "yes" if a handle may be dropped without a release

Client == Reader \cup Writer

ASSUME RwLockAssumption ==
    /\ IsFiniteSet(Client)
    /\ Forgets \in {"yes", "no"}

VARIABLES
    exc, rc, cell,  \* the fields of the lock
    pc,             \* where a client is
    val,            \* val in acquire_read
    view,           \* the value a read handle stands for
    consumed        \* "yes" once into_inner has taken the lock

vars == <<exc, rc, cell, pc, val, view, consumed>>

Init ==
    /\ exc = "no"
    /\ rc = 0
    /\ cell \in V
    /\ pc = [c \in Client |-> "idle"]
    /\ val = [c \in Client |-> 0]
    /\ view = [c \in Client |-> None]
    /\ consumed = "no"

Goto(c, from, to) == pc[c] = from /\ pc' = [pc EXCEPT ![c] = to]

-----------------------------------------------------------------------------
AcquireWrite(c) ==
    /\ c \in Writer
    /\ consumed = "no"
    /\ Goto(c, "idle", "cas exc")
    /\ UNCHANGED <<exc, rc, cell, val, view, consumed>>

\* into_inner takes the lock by value: no handle borrows it any more.
IntoInner(c) ==
    /\ consumed = "no"
    /\ \A d \in Client : pc[d] \in {"idle", "dropped write", "dropped read"}
    /\ Goto(c, "idle", "cas exc")
    /\ consumed' = "yes"
    /\ UNCHANGED <<exc, rc, cell, val, view>>

\* Mutant: the flag is set whatever it was.
CasExcBlind(c) ==
    /\ Goto(c, "cas exc", "load rc")
    /\ exc' = "yes"
    /\ UNCHANGED <<rc, cell, val, view, consumed>>

\* Mutant: the two values of the compare_exchange are swapped.
CasExcSwapped(c) ==
    /\ Goto(c, "cas exc", "load rc")
    /\ exc = "yes"
    /\ exc' = "no"
    /\ UNCHANGED <<rc, cell, val, view, consumed>>

\* self.exc compare_exchange(false, true)
CasExc(c) ==
    /\ Goto(c, "cas exc", "load rc")
    /\ exc = "no"
    /\ exc' = "yes"
    /\ UNCHANGED <<rc, cell, val, view, consumed>>

LoadRc(c) ==
    /\ Goto(c, "load rc", "take")
    /\ rc = 0
    /\ UNCHANGED <<exc, rc, cell, val, view, consumed>>

Take(c) ==
    /\ Goto(c, "take", "write")
    /\ cell' = None
    /\ UNCHANGED <<exc, rc, val, view, consumed>>

\* Mutant: the value is not put back.
PutNothing(c, v) ==
    /\ consumed = "no"
    /\ Goto(c, "write", "store exc")
    /\ UNCHANGED <<exc, rc, cell, val, view, consumed>>

\* release_write: the value goes back, and then the flag.
Put(c, v) ==
    /\ consumed = "no"
    /\ Goto(c, "write", "store exc")
    /\ cell' = v
    /\ UNCHANGED <<exc, rc, val, view, consumed>>

StoreExc(c) ==
    /\ Goto(c, "store exc", "idle")
    /\ exc' = "no"
    /\ UNCHANGED <<rc, cell, val, view, consumed>>

-----------------------------------------------------------------------------
AcquireRead(c) ==
    /\ c \in Reader
    /\ consumed = "no"
    /\ Goto(c, "idle", "load val")
    /\ UNCHANGED <<exc, rc, cell, val, view, consumed>>

\* if val < usize::MAX
LoadVal(c) ==
    /\ Goto(c, "load val", "cas rc")
    /\ rc < MaxRc
    /\ val' = [val EXCEPT ![c] = rc]
    /\ UNCHANGED <<exc, rc, cell, view, consumed>>

CasRc(c) ==
    /\ rc = val[c]
    /\ Goto(c, "cas rc", "load exc")
    /\ rc' = (rc + 1) % (MaxRc + 1)
    /\ UNCHANGED <<exc, cell, val, view, consumed>>

CasRcFails(c) ==
    /\ rc # val[c]
    /\ Goto(c, "cas rc", "load val")
    /\ UNCHANGED <<exc, rc, cell, val, view, consumed>>

\* Mutant: a reader that sees the flag reads nevertheless.
LoadExcAny(c) ==
    /\ Goto(c, "load exc", "read")
    /\ view' = [view EXCEPT ![c] = cell]
    /\ UNCHANGED <<exc, rc, cell, val, consumed>>

LoadExc(c) ==
    /\ exc = "no"
    /\ Goto(c, "load exc", "read")
    /\ view' = [view EXCEPT ![c] = cell]
    /\ UNCHANGED <<exc, rc, cell, val, consumed>>

LoadExcSet(c) ==
    /\ exc = "yes"
    /\ Goto(c, "load exc", "abandon")
    /\ UNCHANGED <<exc, rc, cell, val, view, consumed>>

\* fetch_sub(1) wraps around at zero.
FetchSub == rc' = IF rc = 0 THEN MaxRc ELSE rc - 1

\* Mutant: a reader that gives up keeps its count.
AbandonKeepsCount(c) ==
    /\ Goto(c, "abandon", "load val")
    /\ UNCHANGED <<exc, rc, cell, val, view, consumed>>

Abandon(c) ==
    /\ Goto(c, "abandon", "load val")
    /\ FetchSub
    /\ UNCHANGED <<exc, cell, val, view, consumed>>

ReleaseRead(c) ==
    /\ Goto(c, "read", "idle")
    /\ FetchSub
    /\ UNCHANGED <<exc, cell, val, view, consumed>>

\* A handle that is dropped releases nothing; so does the one of into_inner.
DropHandle(c) ==
    /\ \/ Forgets = "yes" /\ consumed = "no" /\ Goto(c, "read", "dropped read")
       \/ (Forgets = "yes" \/ consumed = "yes") /\ Goto(c, "write", "dropped write")
    /\ UNCHANGED <<exc, rc, cell, val, view, consumed>>

ClientStep(c) ==
    \/ CasExc(c) \/ LoadRc(c) \/ Take(c) \/ StoreExc(c)
    \/ \E v \in V : Put(c, v)
    \/ LoadVal(c) \/ CasRc(c) \/ CasRcFails(c) \/ LoadExc(c) \/ LoadExcSet(c) \/ Abandon(c)
    \/ ReleaseRead(c)

\* The lock is gone and its last user has stopped.
Stopped ==
    /\ consumed = "yes"
    /\ \A c \in Client : pc[c] \in {"idle", "dropped write", "dropped read"}
    /\ UNCHANGED vars

Next ==
    \/ \E c \in Client :
          AcquireWrite(c) \/ IntoInner(c) \/ AcquireRead(c) \/ ClientStep(c) \/ DropHandle(c)
    \/ Stopped

Spec == Init /\ [][Next]_vars

\* A thread that has called goes on, and releases what it holds.
FairSpec == Spec /\ \A c \in Client : WF_vars(ClientStep(c))

-----------------------------------------------------------------------------
Pending == {c \in Client : pc[c] \in {"load exc", "abandon"}}
Reading == {c \in Client : pc[c] \in {"read", "dropped read"}}
Waiting == {c \in Client : pc[c] = "load rc"}
Writing == {c \in Client : pc[c] \in {"take", "write", "store exc", "dropped write"}}

Where ==
    {"idle", "cas exc", "load rc", "take", "write", "store exc", "dropped write",
     "load val", "cas rc", "load exc", "abandon", "read", "dropped read"}

TypeOK ==
    /\ exc \in {"yes", "no"}
    /\ rc \in 0..MaxRc
    /\ cell \in V \cup {None}
    /\ pc \in [Client -> Where]
    /\ val \in [Client -> 0..MaxRc]
    /\ view \in [Client -> V \cup {None}]
    /\ consumed \in {"yes", "no"}

(* A writer is alone: from its load of rc to its store of exc no other      *)
(* client writes or reads, whatever readers come, look and give up in       *)
(* between, and also when a handle is dropped and never released.           *)
Exclusion ==
    \A c \in Writing : \A d \in Client : d # c => d \notin Writing \cup Reading

(* The cell is there when it is taken or borrowed and gone when a value is  *)
(* put: take, borrow and put would otherwise touch uninitialised memory or  *)
(* leak, and a reader sees one value until it releases.                     *)
CellInitialised ==
    \A c \in Client :
        /\ pc[c] = "take" => cell \in V
        /\ pc[c] = "write" => cell = None
        /\ c \in Reading => cell \in V /\ cell = view[c]

(* The count never runs over or under: it is the number of readers, pending *)
(* ones and dropped handles included.                                       *)
CountExact == rc = Cardinality(Pending \cup Reading)

(* What the flag means: nobody waits or writes while it is clear, and it    *)
(* has one owner while it is set.                                           *)
FlagOwned ==
    /\ exc = "no" => Waiting \cup Writing = {}
    /\ \A c, d \in Waiting \cup Writing : c = d

(* What the cell holds at every point at which a client may touch it.       *)
CellHeld ==
    /\ Writing = {} => cell \in V
    /\ \A c \in Client :
        /\ pc[c] \in {"take", "store exc"} => cell \in V
        /\ pc[c] \in {"write", "dropped write"} => cell = None
        /\ c \in Reading => cell \in V /\ cell = view[c]

\* The test val < usize::MAX still holds when the compare_exchange is tried.
ValBelowMax == \A c \in Client : pc[c] = "cas rc" => val[c] < MaxRc

(* The inductive invariant of the lock: writers exclude only together with  *)
(* the exact count, which a writer waits for, and the count stays in range  *)
(* only because no reader ever subtracts what it did not add.               *)
LockInv == TypeOK /\ FlagOwned /\ Exclusion /\ CellHeld /\ ValBelowMax /\ CountExact

(* into_inner returns the value unless a handle was dropped before.         *)
InnerReturns ==
    (consumed = "yes" /\ \A c \in Client : pc[c] \notin {"dropped read", "dropped write"})
        ~> \E c \in Client : pc[c] = "write"

\* The tokens the clients hold; the value is out while a client writes.
Stored == IF Writing = {} THEN cell ELSE None
ReadingValue(v) == {c \in Reading : view[c] = v}
Toks == INSTANCE RwLockToks WITH
    flag_exc <- exc, flag_rc <- rc, storage <- Stored,
    pending_writer <- Cardinality(Waiting), writer <- Cardinality(Writing),
    pending_reader <- Cardinality(Pending),
    reader <- [v \in V |-> Cardinality(ReadingValue(v))]

(* The running lock implements the tokenized state machine: each step takes *)
(* a transition of it or none, so its invariants hold of the running lock.  *)
ImplementsToks == Toks!ToksSpec
=============================================================================
