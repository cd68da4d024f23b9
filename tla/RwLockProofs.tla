---------------------------- MODULE RwLockProofs ----------------------------
(***************************************************************************)
(* The reader-writer lock for every set of clients, every set of values    *)
(* and every largest count: the inductive invariant LockInv, and the       *)
(* refinement of the tokenized state machine.                              *)
(***************************************************************************)
EXTENDS RwLock, RwLockToks, FiniteSetTheorems, TLAPS

\* The clients rc counts.
Counted == {c \in Client : pc[c] \in {"load exc", "abandon", "read", "dropped read"}}

(* The clients rc counts are the pending and the reading ones.              *)
LEMMA CountedIs == Counted = Pending \cup Reading
  BY DEF Counted, Pending, Reading

(* CountExact, in terms of the clients rc counts.                           *)
LEMMA CountOf == CountExact <=> rc = Cardinality(Counted)
  BY CountedIs DEF CountExact

(* A set of clients is finite.                                              *)
LEMMA ClientsFinite ==
  ASSUME NEW S \in SUBSET Client
  PROVE  IsFiniteSet(S) /\ Cardinality(S) \in Nat
  <1>1. IsFiniteSet(Client) BY RwLockAssumption
  <1>2. IsFiniteSet(S) BY <1>1, FS_Subset
  <1> QED BY <1>2, FS_CardinalityType

(* One more client makes one more.                                          *)
LEMMA OneMore ==
  ASSUME NEW S \in SUBSET Client, NEW c \in Client, c \notin S
  PROVE  Cardinality(S \cup {c}) = Cardinality(S) + 1
  <1>1. IsFiniteSet(S) BY ClientsFinite
  <1> QED BY <1>1, FS_AddElement

(* One client less makes one less, and there was at least one.              *)
LEMMA OneLess ==
  ASSUME NEW S \in SUBSET Client, NEW c \in S
  PROVE  /\ Cardinality(S \ {c}) = Cardinality(S) - 1
         /\ Cardinality(S) > 0
  <1>1. IsFiniteSet(S) BY ClientsFinite
  <1>2. Cardinality(S \ {c}) = Cardinality(S) - 1 BY <1>1, FS_RemoveElement
  <1>3. Cardinality(S \ {c}) \in Nat BY ClientsFinite
  <1>4. Cardinality(S) \in Nat BY ClientsFinite
  <1> QED BY <1>2, <1>3, <1>4

(* A set of clients with no member counts zero, and only that.              *)
LEMMA NoneCounted ==
  ASSUME NEW S \in SUBSET Client
  PROVE  Cardinality(S) = 0 <=> S = {}
  <1>1. IsFiniteSet(S) BY ClientsFinite
  <1> QED BY <1>1, FS_EmptySet

-----------------------------------------------------------------------------
(* The invariant holds initially.                                           *)
LEMMA LockInit == Init => LockInv
  <1> SUFFICES ASSUME Init PROVE LockInv
    OBVIOUS
  <1> USE DEF Init
  <1>1. TypeOK BY RwLockAssumption, ValuesAssumption DEF TypeOK, Where
  <1>2. Waiting = {} /\ Writing = {} /\ Reading = {} /\ Pending = {}
    BY DEF Waiting, Writing, Reading, Pending
  <1>3. FlagOwned /\ Exclusion BY <1>2 DEF FlagOwned, Exclusion
  <1>4. CellHeld BY <1>2 DEF CellHeld
  <1>5. ValBelowMax BY DEF ValBelowMax
  <1>6. CountExact BY <1>2, NoneCounted DEF CountExact
  <1> QED BY <1>1, <1>3, <1>4, <1>5, <1>6 DEF LockInv

-----------------------------------------------------------------------------
(* A step that neither counts nor discounts keeps the count exact.          *)
LEMMA CountKept ==
  ASSUME CountExact, Counted' = Counted, rc' = rc
  PROVE  CountExact'
  <1>1. rc = Cardinality(Counted) BY CountOf
  <1>2. rc' = Cardinality(Counted') BY <1>1
  <1>3. Counted' = (Pending \cup Reading)' BY DEF Counted, Pending, Reading
  <1> QED BY <1>2, <1>3 DEF CountExact

(* compare_exchange(val, val + 1) neither overflows nor loses a reader.     *)
LEMMA CountUp ==
  ASSUME TypeOK, ValBelowMax, CountExact, NEW c \in Client, CasRc(c)
  PROVE  /\ rc' = rc + 1
         /\ rc' \in 0..MaxRc
         /\ CountExact'
  <1>1. rc \in 0..MaxRc /\ rc < MaxRc /\ MaxRc \in Nat
    BY RwLockAssumption, ValuesAssumption DEF TypeOK, ValBelowMax, CasRc, Goto
  <1>2. rc' = (rc + 1) % (MaxRc + 1) BY DEF CasRc
  <1>3. (rc + 1) % (MaxRc + 1) = rc + 1 BY <1>1
  <1>4. rc' = rc + 1 BY <1>2, <1>3
  <1>5. Counted' = Counted \cup {c} /\ c \notin Counted
    BY DEF CasRc, Goto, TypeOK, Counted
  <1>6. rc = Cardinality(Counted) BY CountOf
  <1>7. Counted \in SUBSET Client BY DEF Counted
  <1>8. Cardinality(Counted \cup {c}) = Cardinality(Counted) + 1
    BY <1>5, <1>7, OneMore
  <1>9. rc' = Cardinality(Counted') BY <1>4, <1>5, <1>6, <1>8
  <1>10. Counted' = (Pending \cup Reading)' BY DEF Counted, Pending, Reading
  <1>11. CountExact' BY <1>9, <1>10 DEF CountExact
  <1> QED BY <1>1, <1>4, <1>11

(* fetch_sub(1) never wraps around: who subtracts was counted.              *)
LEMMA CountDown ==
  ASSUME TypeOK, CountExact, NEW c \in Client, Abandon(c) \/ ReleaseRead(c)
  PROVE  /\ rc' = rc - 1
         /\ rc' \in 0..MaxRc
         /\ CountExact'
  <1>1. Counted' = Counted \ {c} /\ c \in Counted
    BY DEF Abandon, ReleaseRead, Goto, TypeOK, Counted
  <1>2. rc = Cardinality(Counted) BY CountOf
  <1>3. Counted \in SUBSET Client BY DEF Counted
  <1>4. Cardinality(Counted \ {c}) = Cardinality(Counted) - 1 /\ Cardinality(Counted) > 0
    BY <1>1, <1>3, OneLess
  <1>5. rc \in 0..MaxRc /\ MaxRc \in Nat BY RwLockAssumption, ValuesAssumption DEF TypeOK
  <1>6. rc > 0 BY <1>2, <1>4
  <1>7. rc' = rc - 1
    <2>1. FetchSub BY DEF Abandon, ReleaseRead
    <2>2. rc # 0 BY <1>5, <1>6
    <2> QED BY <2>1, <2>2 DEF FetchSub
  <1>8. rc' \in 0..MaxRc BY <1>5, <1>6, <1>7
  <1>9. rc' = Cardinality(Counted') BY <1>1, <1>2, <1>4, <1>7
  <1>10. Counted' = (Pending \cup Reading)' BY DEF Counted, Pending, Reading
  <1>11. CountExact' BY <1>9, <1>10 DEF CountExact
  <1> QED BY <1>7, <1>8, <1>11

-----------------------------------------------------------------------------
\* The places at which a client holds nothing of the lock.
Outside == {"idle", "cas exc", "load val", "cas rc"}

(* A client that moves outside the lock disturbs nobody.                    *)
LEMMA OutsideStep ==
  ASSUME LockInv, NEW c \in Client, pc[c] \in Outside, pc'[c] \in Outside,
         \A d \in Client \ {c} : pc'[d] = pc[d],
         UNCHANGED <<exc, rc, cell, view>>
  PROVE  FlagOwned' /\ Exclusion' /\ CellHeld' /\ CountExact'
  <1>1. /\ Waiting' = Waiting
        /\ Writing' = Writing
        /\ Reading' = Reading
        /\ Counted' = Counted
    BY DEF Outside, Waiting, Writing, Reading, Counted
  <1>2. FlagOwned' BY <1>1 DEF LockInv, FlagOwned
  <1>3. Exclusion' BY <1>1 DEF LockInv, Exclusion
  <1>4. CellHeld'
    <2>1. Writing' = {} => cell' \in V BY <1>1 DEF LockInv, CellHeld
    <2>2. ASSUME NEW d \in Client
          PROVE  /\ pc'[d] \in {"take", "store exc"} => cell' \in V
                 /\ pc'[d] \in {"write", "dropped write"} => cell' = None
                 /\ d \in Reading' => cell' \in V /\ cell' = view'[d]
      BY <1>1 DEF LockInv, CellHeld, Outside
    <2> QED BY <2>1, <2>2 DEF CellHeld
  <1>5. CountExact' BY <1>1, CountKept DEF LockInv
  <1> QED BY <1>2, <1>3, <1>4, <1>5

(* The calls of acquire_read, acquire_write and into_inner, the load of val *)
(* and a failed compare_exchange keep the invariant.                        *)
LEMMA OutsideActions ==
  ASSUME LockInv, NEW c \in Client,
         AcquireWrite(c) \/ IntoInner(c) \/ AcquireRead(c) \/ LoadVal(c) \/ CasRcFails(c)
  PROVE  LockInv'
  <1>1. TypeOK'
    <2>1. CASE LoadVal(c)
      BY <2>1 DEF LockInv, TypeOK, LoadVal, Goto, Where
    <2>2. CASE ~LoadVal(c)
      BY <2>2
        DEF LockInv, TypeOK, Goto, Where, AcquireWrite, IntoInner, AcquireRead,
           CasRcFails
    <2> QED BY <2>1, <2>2
  <1>2. /\ pc[c] \in Outside /\ pc'[c] \in Outside
        /\ \A d \in Client \ {c} : pc'[d] = pc[d]
        /\ UNCHANGED <<exc, rc, cell, view>>
    BY
      DEF LockInv, TypeOK, Outside, Goto, AcquireWrite, IntoInner, AcquireRead,
         LoadVal, CasRcFails
  <1>3. FlagOwned' /\ Exclusion' /\ CellHeld' /\ CountExact' BY <1>2, OutsideStep
  <1>4. ValBelowMax'
    <2>1. CASE LoadVal(c)
      BY <2>1 DEF LockInv, TypeOK, ValBelowMax, LoadVal, Goto
    <2>2. CASE ~LoadVal(c)
      BY <2>2
        DEF LockInv, TypeOK, ValBelowMax, Goto, AcquireWrite, IntoInner,
           AcquireRead,
                  CasRcFails
    <2> QED BY <2>1, <2>2
  <1> QED BY <1>1, <1>3, <1>4 DEF LockInv

(* FlagOwned stays as long as the flag and its owners do.                   *)
LEMMA OwnersKept ==
  ASSUME LockInv, exc' = exc, (Waiting \cup Writing)' = Waiting \cup Writing
  PROVE  FlagOwned'
  BY DEF LockInv, FlagOwned

(* Setting the flag keeps the invariant: nobody else owns it. *)
LEMMA CasExcKeeps ==
  ASSUME LockInv, NEW c \in Client, CasExc(c)
  PROVE  LockInv'
  <1>1. TypeOK' BY DEF LockInv, TypeOK, CasExc, Goto, Where
  <1>2. FlagOwned' BY DEF LockInv, TypeOK, CasExc, Goto, FlagOwned, Waiting, Writing
  <1>3. Exclusion' BY DEF LockInv, TypeOK, CasExc, Goto, Exclusion, FlagOwned, Waiting, Writing, Reading
  <1>4. CellHeld' BY DEF LockInv, TypeOK, CasExc, Goto, CellHeld, Exclusion, FlagOwned, Waiting, Writing, Reading
  <1>5. ValBelowMax' BY DEF LockInv, TypeOK, CasExc, Goto, ValBelowMax
  <1>6. CountExact' BY CountKept DEF LockInv, TypeOK, CasExc, Goto, Counted
  <1> QED BY <1>1, <1>2, <1>3, <1>4, <1>5, <1>6 DEF LockInv

(* A load of rc that finds zero keeps it: then there are no readers. *)
LEMMA LoadRcKeeps ==
  ASSUME LockInv, NEW c \in Client, LoadRc(c)
  PROVE  LockInv'
  <1>1. Reading = {}
    <2>1. Counted \in SUBSET Client BY DEF Counted
    <2>2. Cardinality(Counted) = 0 BY CountOf DEF LockInv, LoadRc
    <2>3. Counted = {} BY <2>1, <2>2, NoneCounted
    <2> QED BY <2>3, CountedIs
  <1>2. Writing = {} /\ Writing' = {c} /\ Reading' = {}
    <2>1. c \in Waiting BY DEF LoadRc, Goto, Waiting
    <2>2. \A d \in Writing : d = c BY <2>1 DEF LockInv, FlagOwned
    <2>3. c \notin Writing BY <2>1 DEF Waiting, Writing
    <2>4. Writing = {} BY <2>2, <2>3
    <2> QED BY <1>1, <2>4 DEF LockInv, TypeOK, LoadRc, Goto, Writing, Reading
  <1>3. TypeOK' BY DEF LockInv, TypeOK, LoadRc, Goto, Where
  <1>4. FlagOwned'
    <2>1. exc' = exc BY DEF LoadRc
    <2>2. (Waiting \cup Writing)' = Waiting \cup Writing
      BY DEF LockInv, TypeOK, LoadRc, Goto, Waiting, Writing
    <2> QED BY <2>1, <2>2, OwnersKept
  <1>5. Exclusion' BY <1>2 DEF Exclusion
  <1>6. CellHeld'
    BY <1>2 DEF LockInv, TypeOK, LoadRc, Goto, CellHeld, Writing
  <1>7. ValBelowMax' BY DEF LockInv, TypeOK, LoadRc, Goto, ValBelowMax
  <1>8. CountExact' BY CountKept DEF LockInv, TypeOK, LoadRc, Goto, Counted
  <1> QED BY <1>3, <1>4, <1>5, <1>6, <1>7, <1>8 DEF LockInv

(* Taking the value keeps it: the writer is alone. *)
LEMMA TakeKeeps ==
  ASSUME LockInv, NEW c \in Client, Take(c)
  PROVE  LockInv'
  <1>1. TypeOK' BY DEF LockInv, TypeOK, Take, Goto, Where
  <1>2. FlagOwned'
    <2>1. exc' = exc BY DEF Take
    <2>2. (Waiting \cup Writing)' = Waiting \cup Writing
      BY DEF LockInv, TypeOK, Take, Goto, Waiting, Writing
    <2> QED BY <2>1, <2>2, OwnersKept
  <1>3. Exclusion' BY DEF LockInv, TypeOK, Take, Goto, Exclusion, FlagOwned, Waiting, Writing, Reading
  <1>4. CellHeld' BY DEF LockInv, TypeOK, Take, Goto, CellHeld, Exclusion, FlagOwned, Waiting, Writing, Reading
  <1>5. ValBelowMax' BY DEF LockInv, TypeOK, Take, Goto, ValBelowMax
  <1>6. CountExact' BY CountKept DEF LockInv, TypeOK, Take, Goto, Counted
  <1> QED BY <1>1, <1>2, <1>3, <1>4, <1>5, <1>6 DEF LockInv

(* Putting a value back keeps it. *)
LEMMA PutKeeps ==
  ASSUME LockInv, NEW c \in Client, NEW v \in V, Put(c, v)
  PROVE  LockInv'
  <1>1. TypeOK' BY DEF LockInv, TypeOK, Put, Goto, Where
  <1>2. FlagOwned'
    <2>1. exc' = exc BY DEF Put
    <2>2. (Waiting \cup Writing)' = Waiting \cup Writing
      BY DEF LockInv, TypeOK, Put, Goto, Waiting, Writing
    <2> QED BY <2>1, <2>2, OwnersKept
  <1>3. Exclusion' BY DEF LockInv, TypeOK, Put, Goto, Exclusion, FlagOwned, Waiting, Writing, Reading
  <1>4. CellHeld' BY DEF LockInv, TypeOK, Put, Goto, CellHeld, Exclusion, FlagOwned, Waiting, Writing, Reading
  <1>5. ValBelowMax' BY DEF LockInv, TypeOK, Put, Goto, ValBelowMax
  <1>6. CountExact' BY CountKept DEF LockInv, TypeOK, Put, Goto, Counted
  <1> QED BY <1>1, <1>2, <1>3, <1>4, <1>5, <1>6 DEF LockInv

(* Clearing the flag keeps it: its owner has put the value back. *)
LEMMA StoreExcKeeps ==
  ASSUME LockInv, NEW c \in Client, StoreExc(c)
  PROVE  LockInv'
  <1>1. TypeOK' BY DEF LockInv, TypeOK, StoreExc, Goto, Where
  <1>2. FlagOwned'
    <2>1. ASSUME NEW d \in (Waiting \cup Writing)' PROVE FALSE
      <3>1. c \in Waiting \cup Writing BY DEF StoreExc, Goto, Writing
      <3>2. d # c /\ d \in Waiting \cup Writing
        BY <2>1 DEF LockInv, TypeOK, StoreExc, Goto, Waiting, Writing
      <3> QED BY <3>1, <3>2 DEF LockInv, FlagOwned
    <2> QED BY <2>1 DEF FlagOwned
  <1>3. Exclusion' BY DEF LockInv, TypeOK, StoreExc, Goto, Exclusion, FlagOwned, Waiting, Writing, Reading
  <1>4. CellHeld' BY DEF LockInv, TypeOK, StoreExc, Goto, CellHeld, Exclusion, FlagOwned, Waiting, Writing, Reading
  <1>5. ValBelowMax' BY DEF LockInv, TypeOK, StoreExc, Goto, ValBelowMax
  <1>6. CountExact' BY CountKept DEF LockInv, TypeOK, StoreExc, Goto, Counted
  <1> QED BY <1>1, <1>2, <1>3, <1>4, <1>5, <1>6 DEF LockInv

(* Counting a reader keeps it. *)
LEMMA CasRcKeeps ==
  ASSUME LockInv, NEW c \in Client, CasRc(c)
  PROVE  LockInv'
  <1>1. TypeOK' 
    <2>1. rc' \in 0..MaxRc BY CountUp DEF LockInv
    <2> QED BY <2>1 DEF LockInv, TypeOK, CasRc, Goto, Where
  <1>2. FlagOwned' BY DEF LockInv, TypeOK, CasRc, Goto, FlagOwned, Waiting, Writing
  <1>3. Exclusion' BY DEF LockInv, TypeOK, CasRc, Goto, Exclusion, FlagOwned, Waiting, Writing, Reading
  <1>4. CellHeld' BY DEF LockInv, TypeOK, CasRc, Goto, CellHeld, Exclusion, FlagOwned, Waiting, Writing, Reading
  <1>5. ValBelowMax' BY DEF LockInv, TypeOK, CasRc, Goto, ValBelowMax
  <1>6. CountExact' BY CountUp DEF LockInv
  <1> QED BY <1>1, <1>2, <1>3, <1>4, <1>5, <1>6 DEF LockInv

(* A reader that finds the flag clear keeps it: nobody writes. *)
LEMMA LoadExcKeeps ==
  ASSUME LockInv, NEW c \in Client, LoadExc(c)
  PROVE  LockInv'
  <1>1. TypeOK' BY DEF LockInv, TypeOK, LoadExc, Goto, Where
  <1>2. FlagOwned' BY DEF LockInv, TypeOK, LoadExc, Goto, FlagOwned, Waiting, Writing
  <1>3. Exclusion' BY DEF LockInv, TypeOK, LoadExc, Goto, Exclusion, FlagOwned, Waiting, Writing, Reading
  <1>4. CellHeld' BY DEF LockInv, TypeOK, LoadExc, Goto, CellHeld, Exclusion, FlagOwned, Waiting, Writing, Reading
  <1>5. ValBelowMax' BY DEF LockInv, TypeOK, LoadExc, Goto, ValBelowMax
  <1>6. CountExact' BY CountKept DEF LockInv, TypeOK, LoadExc, Goto, Counted
  <1> QED BY <1>1, <1>2, <1>3, <1>4, <1>5, <1>6 DEF LockInv

(* A reader that finds the flag set keeps it. *)
LEMMA LoadExcSetKeeps ==
  ASSUME LockInv, NEW c \in Client, LoadExcSet(c)
  PROVE  LockInv'
  <1>1. TypeOK' BY DEF LockInv, TypeOK, LoadExcSet, Goto, Where
  <1>2. FlagOwned'
    <2>1. exc' = exc BY DEF LoadExcSet
    <2>2. (Waiting \cup Writing)' = Waiting \cup Writing
      BY DEF LockInv, TypeOK, LoadExcSet, Goto, Waiting, Writing
    <2> QED BY <2>1, <2>2, OwnersKept
  <1>3. Exclusion' BY DEF LockInv, TypeOK, LoadExcSet, Goto, Exclusion, FlagOwned, Waiting, Writing, Reading
  <1>4. CellHeld' BY DEF LockInv, TypeOK, LoadExcSet, Goto, CellHeld, Exclusion, FlagOwned, Waiting, Writing, Reading
  <1>5. ValBelowMax' BY DEF LockInv, TypeOK, LoadExcSet, Goto, ValBelowMax
  <1>6. CountExact' BY CountKept DEF LockInv, TypeOK, LoadExcSet, Goto, Counted
  <1> QED BY <1>1, <1>2, <1>3, <1>4, <1>5, <1>6 DEF LockInv

(* A reader that gives up keeps it. *)
LEMMA AbandonKeeps ==
  ASSUME LockInv, NEW c \in Client, Abandon(c)
  PROVE  LockInv'
  <1>1. TypeOK' 
    <2>1. rc' \in 0..MaxRc BY CountDown DEF LockInv
    <2> QED BY <2>1 DEF LockInv, TypeOK, Abandon, Goto, Where
  <1>2. FlagOwned' BY DEF LockInv, TypeOK, Abandon, Goto, FlagOwned, Waiting, Writing
  <1>3. Exclusion' BY DEF LockInv, TypeOK, Abandon, Goto, Exclusion, FlagOwned, Waiting, Writing, Reading
  <1>4. CellHeld' BY DEF LockInv, TypeOK, Abandon, Goto, CellHeld, Exclusion, FlagOwned, Waiting, Writing, Reading
  <1>5. ValBelowMax' BY DEF LockInv, TypeOK, Abandon, Goto, ValBelowMax
  <1>6. CountExact' BY CountDown DEF LockInv
  <1> QED BY <1>1, <1>2, <1>3, <1>4, <1>5, <1>6 DEF LockInv

(* A reader that releases keeps it. *)
LEMMA ReleaseReadKeeps ==
  ASSUME LockInv, NEW c \in Client, ReleaseRead(c)
  PROVE  LockInv'
  <1>1. TypeOK' 
    <2>1. rc' \in 0..MaxRc BY CountDown DEF LockInv
    <2> QED BY <2>1 DEF LockInv, TypeOK, ReleaseRead, Goto, Where
  <1>2. FlagOwned' BY DEF LockInv, TypeOK, ReleaseRead, Goto, FlagOwned, Waiting, Writing
  <1>3. Exclusion' BY DEF LockInv, TypeOK, ReleaseRead, Goto, Exclusion, FlagOwned, Waiting, Writing, Reading
  <1>4. CellHeld' BY DEF LockInv, TypeOK, ReleaseRead, Goto, CellHeld, Exclusion, FlagOwned, Waiting, Writing, Reading
  <1>5. ValBelowMax' BY DEF LockInv, TypeOK, ReleaseRead, Goto, ValBelowMax
  <1>6. CountExact' BY CountDown DEF LockInv
  <1> QED BY <1>1, <1>2, <1>3, <1>4, <1>5, <1>6 DEF LockInv

(* A handle dropped without a release keeps it. *)
LEMMA DropHandleKeeps ==
  ASSUME LockInv, NEW c \in Client, DropHandle(c)
  PROVE  LockInv'
  <1>1. TypeOK' BY DEF LockInv, TypeOK, DropHandle, Goto, Where
  <1>2. FlagOwned'
    <2>1. exc' = exc BY DEF DropHandle
    <2>2. (Waiting \cup Writing)' = Waiting \cup Writing
      BY DEF LockInv, TypeOK, DropHandle, Goto, Waiting, Writing
    <2> QED BY <2>1, <2>2, OwnersKept
  <1>3. Exclusion' BY DEF LockInv, TypeOK, DropHandle, Goto, Exclusion, FlagOwned, Waiting, Writing, Reading
  <1>4. CellHeld' BY DEF LockInv, TypeOK, DropHandle, Goto, CellHeld, Exclusion, FlagOwned, Waiting, Writing, Reading
  <1>5. ValBelowMax' BY DEF LockInv, TypeOK, DropHandle, Goto, ValBelowMax
  <1>6. CountExact' BY CountKept DEF LockInv, TypeOK, DropHandle, Goto, Counted
  <1> QED BY <1>1, <1>2, <1>3, <1>4, <1>5, <1>6 DEF LockInv

(* LockInv is inductive.                                                    *)
LEMMA LockStep == LockInv /\ [Next]_vars => LockInv'
  <1> SUFFICES ASSUME LockInv, [Next]_vars PROVE LockInv'
    OBVIOUS
  <1>1. ASSUME NEW c \in Client,
               AcquireWrite(c) \/ IntoInner(c) \/ AcquireRead(c) \/ LoadVal(c) \/ CasRcFails(c)
        PROVE  LockInv'
    BY <1>1, OutsideActions
  <1>2. ASSUME NEW c \in Client, ClientStep(c) PROVE LockInv'
    BY <1>1, <1>2, CasExcKeeps, LoadRcKeeps, TakeKeeps, PutKeeps, StoreExcKeeps,
         CasRcKeeps,
       LoadExcKeeps, LoadExcSetKeeps, AbandonKeeps, ReleaseReadKeeps
       DEF ClientStep
  <1>3. ASSUME NEW c \in Client, DropHandle(c) PROVE LockInv'
    BY <1>3, DropHandleKeeps
  <1>4. CASE UNCHANGED vars
    BY <1>4
      DEF vars, LockInv, TypeOK, FlagOwned, Exclusion, CellHeld, ValBelowMax,
         CountExact,
                Waiting, Writing, Reading, Pending
  <1> QED BY <1>1, <1>2, <1>3, <1>4 DEF Next, Stopped

-----------------------------------------------------------------------------
(* LockInv holds in every reachable state of the lock of rwlock.rs.         *)
THEOREM LockInvariant == Spec => []LockInv
  BY LockInit, LockStep, PTL DEF Spec

(* Every variable of the lock keeps its type: rc stays in the range of usize*)
(* without its wrap-around ever being used.                                 *)
THEOREM TypeCorrect == Spec => []TypeOK
  <1>1. LockInv => TypeOK BY DEF LockInv
  <1> QED BY <1>1, LockInvariant, PTL

(* A writer of the lock is alone.                                           *)
THEOREM WritersAlone == Spec => []Exclusion
  <1>1. LockInv => Exclusion BY DEF LockInv
  <1> QED BY <1>1, LockInvariant, PTL

(* take, borrow and put never meet a cell in the wrong state.               *)
THEOREM CellNeverMisused == Spec => []CellInitialised
  <1>1. LockInv => CellInitialised BY DEF LockInv, CellHeld, CellInitialised
  <1> QED BY <1>1, LockInvariant, PTL

(* The count of the lock is the number of its readers.                      *)
THEOREM CountNeverOff == Spec => []CountExact
  <1>1. LockInv => CountExact BY DEF LockInv
  <1> QED BY <1>1, LockInvariant, PTL

-----------------------------------------------------------------------------
(* A step that keeps the clients at each place, the flag, the count and the *)
(* value that can be seen keeps the tokens.                                 *)
LEMMA TokensKept ==
  ASSUME Waiting' = Waiting, Writing' = Writing, Pending' = Pending,
         \A v \in V : ReadingValue(v)' = ReadingValue(v),
         UNCHANGED <<exc, rc>>, Stored' = Stored
  PROVE  UNCHANGED Toks!toksVars
  <1>1. [v \in V |-> Cardinality(ReadingValue(v))]' = [v \in V |-> Cardinality(ReadingValue(v))]
    OBVIOUS
  <1> QED BY <1>1 DEF Toks!toksVars

(* Who is at which place is a set of clients.                               *)
LEMMA PlacesAreClients ==
  /\ Waiting \in SUBSET Client /\ Writing \in SUBSET Client /\ Pending \in SUBSET Client
  /\ \A v : ReadingValue(v) \in SUBSET Client
  BY DEF Waiting, Writing, Pending, ReadingValue, Reading

(* new sets up the tokens as initialize_full does.                          *)
LEMMA ToksInit == Init => Toks!InitializeFull
  <1> SUFFICES ASSUME Init PROVE Toks!InitializeFull
    OBVIOUS
  <1>1. Waiting = {} /\ Writing = {} /\ Pending = {} /\ \A v \in V : ReadingValue(v) = {}
    BY DEF Init, Waiting, Writing, Pending, ReadingValue, Reading
  <1>2. Cardinality({}) = 0 BY FS_EmptySet
  <1>3. Stored \in V BY <1>1 DEF Init, Stored
  <1>4. [v \in V |-> Cardinality(ReadingValue(v))] = [v \in V |-> 0] BY <1>1, <1>2
  <1> QED BY <1>1, <1>2, <1>3, <1>4 DEF Init, Toks!InitializeFull

(* Steps of the lock that take no transition of the tokens.                 *)
LEMMA TokensStutter ==
  ASSUME LockInv, NEW c \in Client,
         \/ AcquireWrite(c) \/ IntoInner(c) \/ AcquireRead(c) \/ LoadVal(c) \/ CasRcFails(c)
         \/ Take(c) \/ (\E v \in V : Put(c, v)) \/ LoadExcSet(c) \/ DropHandle(c)
  PROVE  UNCHANGED Toks!toksVars
  <1> USE DEF AcquireWrite, IntoInner, AcquireRead, LoadVal, CasRcFails, Take, Put, LoadExcSet,
              DropHandle, Goto
  <1>1. UNCHANGED <<exc, rc>> OBVIOUS
  <1>2. Waiting' = Waiting BY DEF LockInv, TypeOK, Waiting
  <1>3. Writing' = Writing BY DEF LockInv, TypeOK, Writing
  <1>4. Pending' = Pending BY DEF LockInv, TypeOK, Pending
  <1>5. Reading' = Reading BY DEF LockInv, TypeOK, Reading
  <1>6. \A v \in V : ReadingValue(v)' = ReadingValue(v) BY <1>5 DEF ReadingValue
  <1>7. Stored' = Stored
    <2>1. CASE Take(c) \/ (\E v \in V : Put(c, v))
      <3>1. c \in Writing BY <2>1 DEF Writing
      <3> QED BY <3>1, <1>3 DEF Stored
    <2>2. CASE ~(Take(c) \/ (\E v \in V : Put(c, v)))
      <3>1. cell' = cell BY <2>2
      <3> QED BY <3>1, <1>3 DEF Stored
    <2> QED BY <2>1, <2>2
  <1> QED BY <1>1, <1>2, <1>3, <1>4, <1>6, <1>7, TokensKept

(* Setting the flag is acquire_exc_start.                                   *)
LEMMA CasExcIs ==
  ASSUME LockInv, NEW c \in Client, CasExc(c)
  PROVE  Toks!AcquireExcStart
  <1> USE DEF CasExc, Goto
  <1>1. Waiting' = Waiting \cup {c} /\ c \notin Waiting BY DEF LockInv, TypeOK, Waiting
  <1>2. Writing' = Writing BY DEF LockInv, TypeOK, Writing
  <1>3. Pending' = Pending BY DEF LockInv, TypeOK, Pending
  <1>4. Reading' = Reading BY DEF LockInv, TypeOK, Reading
  <1>5. [v \in V |-> Cardinality(ReadingValue(v))]' = [v \in V |-> Cardinality(ReadingValue(v))]
    BY <1>4 DEF ReadingValue
  <1>6. Cardinality(Waiting)' = Cardinality(Waiting) + 1
    BY <1>1, OneMore, PlacesAreClients
  <1>7. Stored' = Stored BY <1>2 DEF Stored
  <1> QED BY <1>2, <1>3, <1>5, <1>6, <1>7 DEF Toks!AcquireExcStart

(* A load of rc that finds zero is acquire_exc_end.                         *)
LEMMA LoadRcIs ==
  ASSUME LockInv, NEW c \in Client, LoadRc(c)
  PROVE  Toks!AcquireExcEnd
  <1> USE DEF LoadRc, Goto
  <1>1. Waiting' = Waiting \ {c} /\ c \in Waiting BY DEF LockInv, TypeOK, Waiting
  <1>2. Writing' = Writing \cup {c} /\ c \notin Writing BY DEF LockInv, TypeOK, Writing
  <1>3. Pending' = Pending BY DEF LockInv, TypeOK, Pending
  <1>4. Reading' = Reading BY DEF LockInv, TypeOK, Reading
  <1>5. [v \in V |-> Cardinality(ReadingValue(v))]' = [v \in V |-> Cardinality(ReadingValue(v))]
    BY <1>4 DEF ReadingValue
  <1>6. Cardinality(Waiting)' = Cardinality(Waiting) - 1 /\ Cardinality(Waiting) > 0
    BY <1>1, OneLess, PlacesAreClients
  <1>7. Cardinality(Writing)' = Cardinality(Writing) + 1
    BY <1>2, OneMore, PlacesAreClients
  <1>8. Stored' = None BY <1>2 DEF Stored
  <1> QED BY <1>3, <1>5, <1>6, <1>7, <1>8 DEF Toks!AcquireExcEnd

(* Clearing the flag is release_exc, with the value put back before.        *)
LEMMA StoreExcIs ==
  ASSUME LockInv, NEW c \in Client, StoreExc(c)
  PROVE  \E x \in V : Toks!ReleaseExc(x)
  <1> USE DEF StoreExc, Goto
  <1>1. Waiting' = Waiting BY DEF LockInv, TypeOK, Waiting
  <1>2. Writing' = Writing \ {c} /\ c \in Writing BY DEF LockInv, TypeOK, Writing
  <1>3. Pending' = Pending BY DEF LockInv, TypeOK, Pending
  <1>4. Reading' = Reading BY DEF LockInv, TypeOK, Reading
  <1>5. [v \in V |-> Cardinality(ReadingValue(v))]' = [v \in V |-> Cardinality(ReadingValue(v))]
    BY <1>4 DEF ReadingValue
  <1>6. Cardinality(Writing)' = Cardinality(Writing) - 1 /\ Cardinality(Writing) > 0
    BY <1>2, OneLess, PlacesAreClients
  <1>7. Writing' = {}
    <2>1. \A d \in Writing : d = c BY <1>2 DEF LockInv, FlagOwned
    <2> QED BY <1>2, <2>1
  <1>8. cell \in V BY DEF LockInv, CellHeld
  <1>9. Stored' = cell BY <1>7 DEF Stored
  <1>10. Toks!ReleaseExc(cell) BY <1>1, <1>3, <1>5, <1>6, <1>9 DEF Toks!ReleaseExc
  <1> QED BY <1>8, <1>10

(* Counting a reader is acquire_read_start.                                 *)
LEMMA CasRcIs ==
  ASSUME LockInv, NEW c \in Client, CasRc(c)
  PROVE  Toks!AcquireReadStart
  <1>0. rc' = rc + 1 BY CountUp DEF LockInv
  <1> USE DEF CasRc, Goto
  <1>1. Waiting' = Waiting BY DEF LockInv, TypeOK, Waiting
  <1>2. Writing' = Writing BY DEF LockInv, TypeOK, Writing
  <1>3. Pending' = Pending \cup {c} /\ c \notin Pending BY DEF LockInv, TypeOK, Pending
  <1>4. Reading' = Reading BY DEF LockInv, TypeOK, Reading
  <1>5. [v \in V |-> Cardinality(ReadingValue(v))]' = [v \in V |-> Cardinality(ReadingValue(v))]
    BY <1>4 DEF ReadingValue
  <1>6. Cardinality(Pending)' = Cardinality(Pending) + 1
    BY <1>3, OneMore, PlacesAreClients
  <1>7. Stored' = Stored BY <1>2 DEF Stored
  <1> QED BY <1>0, <1>1, <1>2, <1>5, <1>6, <1>7 DEF Toks!AcquireReadStart

(* A reader that gives up is acquire_read_abandon.                          *)
LEMMA AbandonIs ==
  ASSUME LockInv, NEW c \in Client, Abandon(c)
  PROVE  Toks!AcquireReadAbandon
  <1>0. rc' = rc - 1 BY CountDown DEF LockInv
  <1> USE DEF Abandon, Goto
  <1>1. Waiting' = Waiting BY DEF LockInv, TypeOK, Waiting
  <1>2. Writing' = Writing BY DEF LockInv, TypeOK, Writing
  <1>3. Pending' = Pending \ {c} /\ c \in Pending BY DEF LockInv, TypeOK, Pending
  <1>4. Reading' = Reading BY DEF LockInv, TypeOK, Reading
  <1>5. [v \in V |-> Cardinality(ReadingValue(v))]' = [v \in V |-> Cardinality(ReadingValue(v))]
    BY <1>4 DEF ReadingValue
  <1>6. Cardinality(Pending)' = Cardinality(Pending) - 1 /\ Cardinality(Pending) > 0
    BY <1>3, OneLess, PlacesAreClients
  <1>7. Stored' = Stored BY <1>2 DEF Stored
  <1> QED BY <1>0, <1>1, <1>2, <1>5, <1>6, <1>7 DEF Toks!AcquireReadAbandon

(* A reader that finds the flag clear is acquire_read_end.                  *)
LEMMA LoadExcIs ==
  ASSUME LockInv, NEW c \in Client, LoadExc(c)
  PROVE  \E x \in V : Toks!AcquireReadEnd(x)
  <1> USE DEF LoadExc, Goto
  <1>1. Waiting' = Waiting BY DEF LockInv, TypeOK, Waiting
  <1>2. Writing' = Writing BY DEF LockInv, TypeOK, Writing
  <1>3. Pending' = Pending \ {c} /\ c \in Pending BY DEF LockInv, TypeOK, Pending
  <1>4. Reading' = Reading \cup {c} /\ c \notin Reading BY DEF LockInv, TypeOK, Reading
  <1>5. Writing = {} BY DEF LockInv, FlagOwned
  <1>6. Stored = cell /\ Stored' = cell /\ cell \in V
    BY <1>2, <1>5 DEF LockInv, CellHeld, Stored
  <1>7. view'[c] = cell /\ \A d \in Client \ {c} : view'[d] = view[d] BY DEF LockInv, TypeOK
  <1>8. ReadingValue(cell)' = ReadingValue(cell) \cup {c} /\ c \notin ReadingValue(cell)
    BY <1>4, <1>7 DEF ReadingValue, Reading
  <1>9. ASSUME NEW v \in V, v # cell PROVE ReadingValue(v)' = ReadingValue(v)
    BY <1>4, <1>7, <1>9 DEF ReadingValue, Reading
  <1>10. Cardinality(Pending)' = Cardinality(Pending) - 1 /\ Cardinality(Pending) > 0
    BY <1>3, OneLess, PlacesAreClients
  <1>11. Cardinality(ReadingValue(cell))' = Cardinality(ReadingValue(cell)) + 1
    BY <1>8, OneMore, PlacesAreClients
  <1>12. [v \in V |-> Cardinality(ReadingValue(v))]'
         = [[v \in V |-> Cardinality(ReadingValue(v))] EXCEPT ![cell] = @ + 1]
    BY <1>6, <1>9, <1>11
  <1>13. Toks!AcquireReadEnd(cell)
    BY <1>1, <1>2, <1>6, <1>10, <1>12 DEF Toks!AcquireReadEnd
  <1> QED BY <1>6, <1>13

(* A reader that releases is release_shared of the value it stands for.     *)
LEMMA ReleaseReadIs ==
  ASSUME LockInv, NEW c \in Client, ReleaseRead(c)
  PROVE  \E x \in V : Toks!ReleaseShared(x)
  <1>0. rc' = rc - 1 BY CountDown DEF LockInv
  <1> USE DEF ReleaseRead, Goto
  <1>1. Waiting' = Waiting BY DEF LockInv, TypeOK, Waiting
  <1>2. Writing' = Writing BY DEF LockInv, TypeOK, Writing
  <1>3. Pending' = Pending BY DEF LockInv, TypeOK, Pending
  <1>4. Reading' = Reading \ {c} /\ c \in Reading BY DEF LockInv, TypeOK, Reading
  <1>5. Stored' = Stored BY <1>2 DEF Stored
  <1>6. view[c] \in V BY <1>4 DEF LockInv, CellHeld
  <1>7. ReadingValue(view[c])' = ReadingValue(view[c]) \ {c} /\ c \in ReadingValue(view[c])
    BY <1>4 DEF ReadingValue
  <1>8. ASSUME NEW v \in V, v # view[c] PROVE ReadingValue(v)' = ReadingValue(v)
    BY <1>4, <1>8 DEF ReadingValue
  <1>9. /\ Cardinality(ReadingValue(view[c]))' = Cardinality(ReadingValue(view[c])) - 1
        /\ Cardinality(ReadingValue(view[c])) > 0
    BY <1>7, OneLess, PlacesAreClients
  <1>10. [v \in V |-> Cardinality(ReadingValue(v))]'
         = [[v \in V |-> Cardinality(ReadingValue(v))] EXCEPT ![view[c]] = @ - 1]
    BY <1>6, <1>8, <1>9
  <1>11. Toks!ReleaseShared(view[c])
    BY <1>0, <1>1, <1>2, <1>3, <1>5, <1>6, <1>9, <1>10 DEF Toks!ReleaseShared
  <1> QED BY <1>6, <1>11

(* Every step of the lock takes a transition of the tokens or none.         *)
LEMMA ToksStep == LockInv /\ [Next]_vars => [Toks!Transition]_(Toks!toksVars)
  <1> SUFFICES ASSUME LockInv, [Next]_vars PROVE [Toks!Transition]_(Toks!toksVars)
    OBVIOUS
  <1>1. ASSUME NEW c \in Client,
               \/ AcquireWrite(c) \/ IntoInner(c) \/ AcquireRead(c) \/ LoadVal(c) \/ CasRcFails(c)
               \/ Take(c) \/ (\E v \in V : Put(c, v)) \/ LoadExcSet(c) \/ DropHandle(c)
        PROVE  UNCHANGED Toks!toksVars
    BY <1>1, TokensStutter
  <1>2. ASSUME NEW c \in Client, ClientStep(c)
        PROVE  UNCHANGED Toks!toksVars \/ Toks!Transition
    BY <1>1, <1>2, CasExcIs, LoadRcIs, StoreExcIs, CasRcIs, LoadExcIs, AbandonIs, ReleaseReadIs
       DEF ClientStep, Toks!Transition
  <1>3. CASE UNCHANGED vars
    <2>1. \A v \in V : ReadingValue(v)' = ReadingValue(v)
      BY <1>3 DEF vars, ReadingValue, Reading
    <2> QED BY <1>3, <2>1, TokensKept DEF vars, Waiting, Writing, Pending, Stored
  <1> QED BY <1>1, <1>2, <1>3 DEF Next, Stopped

(* The lock that runs implements the tokenized state machine of rwlock.rs,  *)
(* for every number of clients and every largest count.                     *)
THEOREM LockImplementsToks == Spec => ImplementsToks
  BY LockInvariant, ToksInit, ToksStep, PTL DEF Spec, ImplementsToks, Toks!ToksSpec

-----------------------------------------------------------------------------
(* The tokenized state machine of the source: its invariants, which the    *)
(* source proves with its inductive functions, for every set of values.    *)

\* All invariants together; none of them is inductive alone.
ToksInv == ToksTypeOK /\ ExcBitMatches /\ CountMatches /\ TokensAgreeWithStorage

(* initialize_full_inductive.                                               *)
LEMMA ToksInvInit == InitializeFull => ToksInv
  BY ValuesAssumption
     DEF InitializeFull, ToksInv, ToksTypeOK, ExcBitMatches, CountMatches, TokensAgreeWithStorage,
         Readers

(* acquire_read_start_inductive.                                            *)
LEMMA AcquireReadStartInductive == ToksInv /\ AcquireReadStart => ToksInv'
  BY ValuesAssumption
     DEF AcquireReadStart, ToksInv, ToksTypeOK, ExcBitMatches, CountMatches,
         TokensAgreeWithStorage, Readers

(* acquire_read_end_inductive: the flag is clear, so the value is stored.   *)
LEMMA AcquireReadEndInductive ==
  ASSUME ToksInv, NEW x \in V, AcquireReadEnd(x)
  PROVE  ToksInv'
  <1>1. writer = 0 /\ storage = x
    BY DEF AcquireReadEnd, ToksInv, ToksTypeOK, ExcBitMatches, TokensAgreeWithStorage
  <1>2. /\ pending_reader \in Nat \ {0} /\ reader[x] \in Nat /\ flag_rc \in Nat
        /\ flag_rc = pending_reader + reader[x]
    BY <1>1, ValuesAssumption DEF AcquireReadEnd, ToksInv, ToksTypeOK, CountMatches, Readers
  <1>3. reader[x] + 1 \in Nat /\ pending_reader - 1 \in Nat BY <1>2
  <1>4. reader' \in [V -> Nat] /\ reader'[x] = reader[x] + 1
        /\ \A v \in V \ {x} : reader'[v] = reader[v]
    BY <1>3 DEF AcquireReadEnd, ToksInv, ToksTypeOK
  <1>5. ToksTypeOK' BY <1>3, <1>4 DEF AcquireReadEnd, ToksInv, ToksTypeOK
  <1>6. ExcBitMatches' BY DEF AcquireReadEnd, ToksInv, ExcBitMatches
  <1>7. CountMatches' BY <1>1, <1>2, <1>4 DEF AcquireReadEnd, CountMatches, Readers
  <1>8. TokensAgreeWithStorage'
    BY <1>1, <1>4 DEF AcquireReadEnd, ToksInv, TokensAgreeWithStorage
  <1> QED BY <1>5, <1>6, <1>7, <1>8 DEF ToksInv

(* acquire_read_abandon_inductive.                                          *)
LEMMA AcquireReadAbandonInductive == ToksInv /\ AcquireReadAbandon => ToksInv'
  BY ValuesAssumption
     DEF AcquireReadAbandon, ToksInv, ToksTypeOK, ExcBitMatches, CountMatches,
         TokensAgreeWithStorage, Readers

(* acquire_exc_start_inductive.                                             *)
LEMMA AcquireExcStartInductive == ToksInv /\ AcquireExcStart => ToksInv'
  BY ValuesAssumption
     DEF AcquireExcStart, ToksInv, ToksTypeOK, ExcBitMatches, CountMatches,
         TokensAgreeWithStorage, Readers

(* acquire_exc_end_inductive: the count is zero, so nobody guards the value.*)
LEMMA AcquireExcEndInductive == ToksInv /\ AcquireExcEnd => ToksInv'
  BY ValuesAssumption
     DEF AcquireExcEnd, ToksInv, ToksTypeOK, ExcBitMatches, CountMatches,
         TokensAgreeWithStorage, Readers

(* release_exc_inductive.                                                   *)
LEMMA ReleaseExcInductive ==
  ASSUME ToksInv, NEW x \in V, ReleaseExc(x)
  PROVE  ToksInv'
  BY ValuesAssumption
     DEF ReleaseExc, ToksInv, ToksTypeOK, ExcBitMatches, CountMatches, TokensAgreeWithStorage,
         Readers

(* release_shared_inductive: the value released is the one stored.          *)
LEMMA ReleaseSharedInductive ==
  ASSUME ToksInv, NEW x \in V, ReleaseShared(x)
  PROVE  ToksInv'
  <1>1. storage = x BY DEF ReleaseShared, ToksInv, TokensAgreeWithStorage
  <1>2. /\ pending_reader \in Nat /\ reader[x] \in Nat \ {0} /\ flag_rc \in Nat
        /\ flag_rc = pending_reader + reader[x]
    BY <1>1, ValuesAssumption DEF ReleaseShared, ToksInv, ToksTypeOK, CountMatches, Readers
  <1>3. reader[x] - 1 \in Nat /\ flag_rc - 1 \in Nat BY <1>2
  <1>4. reader' \in [V -> Nat] /\ reader'[x] = reader[x] - 1
        /\ \A v \in V \ {x} : reader'[v] = reader[v]
    BY <1>3 DEF ReleaseShared, ToksInv, ToksTypeOK
  <1>5. ToksTypeOK' BY <1>3, <1>4 DEF ReleaseShared, ToksInv, ToksTypeOK
  <1>6. ExcBitMatches' BY DEF ReleaseShared, ToksInv, ExcBitMatches
  <1>7. CountMatches' BY <1>1, <1>2, <1>4 DEF ReleaseShared, CountMatches, Readers
  <1>8. TokensAgreeWithStorage'
    BY <1>1, <1>4 DEF ReleaseShared, ToksInv, TokensAgreeWithStorage
  <1> QED BY <1>5, <1>6, <1>7, <1>8 DEF ToksInv

(* The invariants of RwLockToks hold together in every reachable state.     *)
THEOREM ToksInvariant == ToksSpec => []ToksInv
  <1>1. ToksInv /\ [Transition]_toksVars => ToksInv'
    <2> SUFFICES ASSUME ToksInv, [Transition]_toksVars PROVE ToksInv'
      OBVIOUS
    <2>1. CASE Transition
      BY <2>1, AcquireReadStartInductive, AcquireReadEndInductive, AcquireReadAbandonInductive,
         AcquireExcStartInductive, AcquireExcEndInductive, ReleaseExcInductive,
         ReleaseSharedInductive DEF Transition
    <2>2. CASE UNCHANGED toksVars
      BY <2>2 DEF toksVars, ToksInv, ToksTypeOK, ExcBitMatches, CountMatches,
                  TokensAgreeWithStorage, Readers
    <2> QED BY <2>1, <2>2
  <1> QED BY <1>1, ToksInvInit, PTL DEF ToksSpec

(* Readers guard the stored value, and a writer has it: the permission to   *)
(* access the cell is never there twice.                                    *)
THEOREM PermissionNeverTwice == ToksSpec => []TokensAgreeWithStorage
  <1>1. ToksInv => TokensAgreeWithStorage BY DEF ToksInv
  <1> QED BY <1>1, ToksInvariant, PTL
=============================================================================
