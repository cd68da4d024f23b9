--------------------------- MODULE QueryOpsProofs ---------------------------
(***************************************************************************)
(* The operations of a component, for every component and any number of    *)
(* command lists and of queries of the driver: what is put at either end   *)
(* of the queue neither drops, repeats nor reorders an operation, the      *)
(* queries are counted once, and no error is lost.  Then the driver that   *)
(* puts queries of its own in front of the queue, ExpandErrors, for every  *)
(* limit: each leaf is asked about once, and its lines read as one tree.   *)
(***************************************************************************)
EXTENDS QueryOps, ExpandErrors, FiniteSetTheorems, WellFoundedInduction, TLAPS

-----------------------------------------------------------------------------
(* The initial queue.                                                      *)

\* What the parts of the queue but the last one are made of.
NotAxiom == {o \in Op : o.kind \in ErrorKind \cup {"reqens"} /\ o.rerun = "no"}
Axiom == {o \in Op : o.kind = "axioms" /\ o.rerun = "no"}

(* Behind a part without axioms, axioms are last.                           *)
LEMMA PartsInOrder ==
  ASSUME NEW s \in Seq(NotAxiom), NEW t \in Seq(Axiom)
  PROVE  /\ s \o t \in Seq(Op)
         /\ \A i \in 1..Len(s \o t) :
                (s \o t)[i].kind \in ContextKind \cup ErrorKind /\ (s \o t)[i].rerun = "no"
         /\ \A i, j \in 1..Len(s \o t) :
                i < j /\ (s \o t)[i].kind = "axioms" => (s \o t)[j].kind = "axioms"
  <1>1. Len(s) \in Nat /\ Len(t) \in Nat /\ Len(s \o t) = Len(s) + Len(t) OBVIOUS
  <1>2. s \in Seq(Op) /\ t \in Seq(Op) BY DEF NotAxiom, Axiom
  <1>3. s \o t \in Seq(Op) BY <1>2
  <1>4. \A i \in 1..Len(s \o t) : IF i <= Len(s) THEN (s \o t)[i] = s[i] /\ s[i] \in NotAxiom
                                  ELSE (s \o t)[i] = t[i - Len(s)] /\ t[i - Len(s)] \in Axiom
    BY <1>1
  <1>5. \A i \in 1..Len(s \o t) : IF i <= Len(s) THEN (s \o t)[i] \in NotAxiom
                                  ELSE (s \o t)[i] \in Axiom
    BY <1>4
  <1>6. \A o \in NotAxiom : o.kind \in ContextKind \cup ErrorKind /\ o.kind # "axioms" /\ o.rerun = "no"
    BY DEF NotAxiom, ContextKind, ErrorKind
  <1>7. \A o \in Axiom : o.kind \in ContextKind \cup ErrorKind /\ o.kind = "axioms" /\ o.rerun = "no"
    BY DEF Axiom, ContextKind
  <1>8. \A i \in 1..Len(s \o t) :
            (s \o t)[i].kind \in ContextKind \cup ErrorKind /\ (s \o t)[i].rerun = "no"
    BY <1>5, <1>6, <1>7
  <1>9. ASSUME NEW i \in 1..Len(s \o t), NEW j \in 1..Len(s \o t), i < j, (s \o t)[i].kind = "axioms"
        PROVE  (s \o t)[j].kind = "axioms"
    <2>1. ~(i <= Len(s)) BY <1>5, <1>6, <1>9
    <2>2. ~(j <= Len(s)) BY <1>1, <1>9, <2>1
    <2> QED BY <1>5, <1>7, <2>2
  <1> QED BY <1>3, <1>8, <1>9

(* handle_scc_component: its queue has the shape the invariant asks for.    *)
LEMMA SccOpsShape ==
  ASSUME config \in Config, NEW exec \in Ascending, NEW n \in [Fun -> 0..1],
         initial = SccOps(exec, n)
  PROVE  initial \in Seq(Op) /\ AxiomsLast
  <1>1. config.funs \in Nat /\ MaxCmds \in Nat BY OpsAssumption
  <1>2. Fun \subseteq Nat BY <1>1 DEF Fun
  <1>3. PICK m \in 0..config.funs : exec \in [1..m -> Fun] BY DEF Ascending
  <1>4. exec \in Seq(Fun) /\ Len(exec) = m BY <1>1, <1>3
  <1>5. \A f \in Nat, c \in Nat : /\ Operation("reqens", f, c) \in NotAxiom
                                  /\ \A k \in ErrorKind : Operation(k, f, c) \in NotAxiom
                                  /\ Operation("axioms", f, c) \in Axiom
    BY DEF Operation, NotAxiom, Axiom, Op, ErrorKind, ContextKind
  <1>6. \A f \in Fun : n[f] \in Nat OBVIOUS
  <1>7. Declarations \in Seq(NotAxiom) BY <1>1, <1>2, <1>5 DEF Declarations, Fun
  <1>8. Terminations(n) \in Seq(NotAxiom)
    <2>1. \A f \in Fun : Operation("termination", f, n[f]) \in NotAxiom
      BY <1>2, <1>5, <1>6 DEF ErrorKind
    <2> QED BY <1>1, <2>1 DEF Terminations, Fun
  <1>9. Axioms \in Seq(Axiom) BY <1>1, <1>2, <1>5 DEF Axioms, Fun
  <1>10. Bodies(exec, n) \in Seq(NotAxiom)
    <2>1. ASSUME NEW i \in 1..(2 * Len(exec))
          PROVE  (IF i % 2 = 1
                  THEN Operation("normal", exec[(i + 1) \div 2], MaxCmds)
                  ELSE Operation("api", exec[i \div 2], n[exec[i \div 2]])) \in NotAxiom
      <3>1. CASE i % 2 = 1
        <4>1. (i + 1) \div 2 \in 1..Len(exec) BY <1>4, <3>1
        <4>2. \A k \in 1..Len(exec) : exec[k] \in Nat BY <1>2, <1>4
        <4>3. exec[(i + 1) \div 2] \in Nat BY <4>1, <4>2
        <4> QED BY <1>1, <1>5, <3>1, <4>3 DEF ErrorKind
      <3>2. CASE i % 2 # 1
        <4>1. i \div 2 \in 1..Len(exec) BY <1>4, <3>2
        <4>2. exec[i \div 2] \in Fun BY <1>4, <4>1
        <4>3. exec[i \div 2] \in Nat /\ n[exec[i \div 2]] \in Nat BY <1>2, <1>6, <4>2
        <4> QED BY <1>5, <3>2, <4>3 DEF ErrorKind
      <3> QED BY <3>1, <3>2
    <2>2. 2 * Len(exec) \in Nat BY <1>4
    <2> QED BY <2>1, <2>2 DEF Bodies
  <1> DEFINE s == Declarations \o Terminations(n) \o Bodies(exec, n)
  <1>11. s \in Seq(NotAxiom) BY <1>7, <1>8, <1>10
  <1>12. initial = s \o Axioms BY DEF SccOps
  <1> HIDE DEF s
  <1> QED BY <1>9, <1>11, <1>12, PartsInOrder DEF AxiomsLast

-----------------------------------------------------------------------------
(* Errors held back and reported.                                          *)

UpTo(n) == [i \in 1..n |-> i]

\* The part of NoErrorLost that does not depend on pc.
ErrorsKept ==
    out \o held = UpTo(found) /\ (sink = "direct" => held = <<>>)

ErrorsTyped ==
    out \in Seq(Nat) /\ held \in Seq(Nat) /\ found \in Nat /\ sink \in {"held", "direct"}

(* A flush moves what is held back behind what was reported.                *)
LEMMA FlushedKeepsErrors ==
  ASSUME ErrorsTyped, ErrorsKept, NEW due, Flushed(due), found' = found
  PROVE  /\ ErrorsTyped' /\ ErrorsKept'
         /\ sink = "direct" \/ due = "yes" => sink' = "direct"
  <1>1. out \in Seq(Nat) /\ held \in Seq(Nat) /\ out \o held \in Seq(Nat) BY DEF ErrorsTyped
  <1>2. (out \o held) \o <<>> = out \o held BY <1>1
  <1>3. CASE due = "yes" BY <1>1, <1>2, <1>3 DEF Flushed, ErrorsTyped, ErrorsKept
  <1>4. CASE due # "yes" BY <1>1, <1>4 DEF Flushed, ErrorsTyped, ErrorsKept
  <1> QED BY <1>3, <1>4

(* An error is recorded behind the others.                                  *)
LEMMA RecordErrorKeepsErrors ==
  ASSUME ErrorsTyped, ErrorsKept, NEW r, RecordError(r), sink' = sink
  PROVE  ErrorsTyped' /\ ErrorsKept'
  <1>1. out \in Seq(Nat) /\ held \in Seq(Nat) /\ found \in Nat /\ sink \in {"held", "direct"}
    BY DEF ErrorsTyped
  <1>2. out \o held = UpTo(found) /\ (sink = "direct" => held = <<>>) BY DEF ErrorsKept
  <1>3. Append(UpTo(found), found + 1) = UpTo(found + 1) BY <1>1 DEF UpTo
  <1>4. out \o Append(held, found + 1) = Append(out \o held, found + 1) BY <1>1
  <1>5. CASE IsLocated(r) /\ Reports
    <2>1. found' = found + 1 BY <1>5 DEF RecordError
    <2>2. CASE sink = "held"
      <3>1. held' = Append(held, found + 1) /\ out' = out BY <1>5, <2>2 DEF RecordError
      <3>2. out' \o held' = UpTo(found') BY <1>2, <1>3, <1>4, <2>1, <3>1
      <3> QED BY <1>1, <2>1, <2>2, <3>1, <3>2 DEF ErrorsTyped, ErrorsKept
    <2>3. CASE sink = "direct"
      <3>1. held' = <<>> /\ out' = Append(out, found + 1) BY <1>2, <1>5, <2>3 DEF RecordError
      <3>2. out \o held = out /\ out' \o held' = out' BY <1>1, <1>2, <2>3, <3>1
      <3>3. out' \o held' = UpTo(found') BY <1>2, <1>3, <2>1, <3>1, <3>2
      <3> QED BY <1>1, <2>1, <2>3, <3>1, <3>3 DEF ErrorsTyped, ErrorsKept
    <2> QED BY <1>1, <2>2, <2>3
  <1>6. CASE ~(IsLocated(r) /\ Reports)
    BY <1>6 DEF RecordError, ErrorsTyped, ErrorsKept
  <1> QED BY <1>5, <1>6

-----------------------------------------------------------------------------
(* The queue.                                                              *)

(* Whatever comes behind a check of the recommends clauses is not another.  *)
LEMMA OnlyFirstIsRetry ==
  ASSUME TypeOK, AxiomsLast, QueueOK, NEW i \in 1..Len(queue), i > Ahead
  PROVE  ~IsRetry(queue[i])
  <1>1. Ahead \in {0, 1} BY DEF Ahead
  <1>2. Len(queue) \in Nat /\ Len(initial) \in Nat /\ Len(ran) \in Nat BY DEF TypeOK
  <1>3. Left \in Nat /\ Left <= Len(initial) /\ Len(ran) + Left = Len(initial) BY <1>2 DEF QueueOK, Left
  <1>4. CASE i <= Ahead + Left
    <2>1. i - Ahead \in 1..Left /\ Ahead + (i - Ahead) = i BY <1>1, <1>2, <1>3, <1>4
    <2>2. queue[i] = initial[Len(ran) + (i - Ahead)] BY <2>1 DEF QueueOK
    <2>3. Len(ran) + (i - Ahead) \in 1..Len(initial) BY <1>2, <1>3, <2>1
    <2>4. queue[i].kind \in ContextKind \cup ErrorKind BY <2>2, <2>3 DEF AxiomsLast
    <2> QED BY <2>4 DEF IsRetry, ContextKind, ErrorKind, RecommendsKind
  <1>5. CASE i > Ahead + Left
    <2>1. i \in (Ahead + Left + 1)..Len(queue) BY <1>1, <1>2, <1>3, <1>5
    <2> QED BY <2>1 DEF QueueOK, IsRetry
  <1> QED BY <1>1, <1>2, <1>3, <1>4, <1>5

\* What is left of QueueOK in the queue alone, with a check of recommends ahead or not.
Queued(q, a, r) ==
    /\ a \in {0, 1}
    /\ Len(r) <= Len(initial)
    /\ \A i \in 1..Len(r) : r[i] = initial[i]
    /\ a + (Len(initial) - Len(r)) <= Len(q)
    /\ \A i \in 1..(Len(initial) - Len(r)) : q[a + i] = initial[Len(r) + i]
    /\ \A i \in (a + (Len(initial) - Len(r)) + 1)..Len(q) : q[i].rerun = "yes"

LEMMA QueuedNow == QueueOK => Queued(queue, Ahead, ran)
  BY DEF QueueOK, Queued, Left, Ahead

(* Taking the first operation, a check of the recommends clauses.           *)
LEMMA PopRetry ==
  ASSUME TypeOK, Queued(queue, 1, ran)
  PROVE  Queued(Tail(queue), 0, ran)
  <1>1. Len(queue) \in Nat /\ Len(initial) \in Nat /\ Len(ran) \in Nat BY DEF TypeOK
  <1>2. Len(queue) >= 1 BY <1>1 DEF Queued
  <1>3. Len(Tail(queue)) = Len(queue) - 1 /\ \A i \in 1..(Len(queue) - 1) : Tail(queue)[i] = queue[i + 1]
    BY <1>1, <1>2 DEF TypeOK
  <1>4. \A i \in 1..(Len(initial) - Len(ran)) : Tail(queue)[0 + i] = initial[Len(ran) + i]
    <2> TAKE i \in 1..(Len(initial) - Len(ran))
    <2>1. i \in 1..(Len(queue) - 1) /\ 1 + i = i + 1 /\ 0 + i = i BY <1>1 DEF Queued
    <2>2. queue[1 + i] = initial[Len(ran) + i] BY DEF Queued
    <2> QED BY <1>3, <2>1, <2>2
  <1>5. \A i \in (0 + (Len(initial) - Len(ran)) + 1)..Len(Tail(queue)) : Tail(queue)[i].rerun = "yes"
    <2> TAKE i \in (0 + (Len(initial) - Len(ran)) + 1)..Len(Tail(queue))
    <2>1. /\ i \in 1..(Len(queue) - 1)
          /\ i + 1 \in (1 + (Len(initial) - Len(ran)) + 1)..Len(queue)
      BY <1>1, <1>3 DEF Queued
    <2> QED BY <1>3, <2>1 DEF Queued
  <1> QED BY <1>1, <1>2, <1>3, <1>4, <1>5 DEF Queued

(* Taking the first operation, the next one of the component.               *)
LEMMA PopNext ==
  ASSUME TypeOK, Queued(queue, 0, ran), Len(ran) < Len(initial)
  PROVE  /\ queue # <<>> /\ Head(queue) = initial[Len(ran) + 1]
         /\ Queued(Tail(queue), 0, Append(ran, Head(queue)))
  <1>1. Len(queue) \in Nat /\ Len(initial) \in Nat /\ Len(ran) \in Nat BY DEF TypeOK
  <1>2. Len(queue) >= 1 BY <1>1 DEF Queued
  <1>3. Len(Tail(queue)) = Len(queue) - 1 /\ \A i \in 1..(Len(queue) - 1) : Tail(queue)[i] = queue[i + 1]
    BY <1>1, <1>2 DEF TypeOK
  <1>4. queue # <<>> /\ Head(queue) = queue[1] BY <1>1, <1>2 DEF TypeOK
  <1>5. queue[1] = initial[Len(ran) + 1]
    <2>1. 1 \in 1..(Len(initial) - Len(ran)) BY <1>1
    <2> QED BY <1>1, <2>1 DEF Queued
  <1> DEFINE r == Append(ran, Head(queue))
  <1>6. Len(r) = Len(ran) + 1 /\ r[Len(ran) + 1] = Head(queue) /\ \A i \in 1..Len(ran) : r[i] = ran[i]
    BY <1>1, <1>4 DEF TypeOK
  <1> HIDE DEF r
  <1>7. Queued(Tail(queue), 0, r)
    <2>1. \A i \in 1..Len(r) : r[i] = initial[i] BY <1>1, <1>4, <1>5, <1>6 DEF Queued
    <2>2. \A i \in 1..(Len(initial) - Len(r)) : Tail(queue)[0 + i] = initial[Len(r) + i]
      <3> TAKE i \in 1..(Len(initial) - Len(r))
      <3>1. i + 1 \in 1..(Len(initial) - Len(ran)) /\ i \in 1..(Len(queue) - 1)
        BY <1>1, <1>6 DEF Queued
      <3>2. Tail(queue)[i] = queue[i + 1] /\ queue[0 + (i + 1)] = initial[Len(ran) + (i + 1)]
        BY <1>3, <3>1 DEF Queued
      <3> QED BY <1>1, <1>6, <3>1, <3>2
    <2>3. \A i \in (0 + (Len(initial) - Len(r)) + 1)..Len(Tail(queue)) : Tail(queue)[i].rerun = "yes"
      BY <1>1, <1>3, <1>6 DEF Queued
    <2> QED BY <1>1, <1>3, <1>6, <2>1, <2>2, <2>3 DEF Queued
  <1> QED BY <1>4, <1>5, <1>7 DEF r

(* Taking the first operation, a rerun.                                     *)
LEMMA PopRerun ==
  ASSUME TypeOK, Queued(queue, 0, ran), Len(ran) = Len(initial), queue # <<>>
  PROVE  Head(queue).rerun = "yes" /\ Queued(Tail(queue), 0, ran)
  <1>1. Len(queue) \in Nat /\ Len(initial) \in Nat /\ Len(ran) \in Nat BY DEF TypeOK
  <1>2. Len(queue) >= 1 /\ Head(queue) = queue[1] BY <1>1 DEF TypeOK
  <1>3. Len(Tail(queue)) = Len(queue) - 1 /\ \A i \in 1..(Len(queue) - 1) : Tail(queue)[i] = queue[i + 1]
    BY <1>1, <1>2 DEF TypeOK
  <1> QED BY <1>1, <1>2, <1>3 DEF Queued

(* retry_with_recommends.                                                   *)
LEMMA PushFront ==
  ASSUME TypeOK, Queued(queue, 0, ran), NEW o \in Op
  PROVE  Queued(<<o>> \o queue, 1, ran)
  <1>1. Len(queue) \in Nat /\ Len(initial) \in Nat /\ Len(ran) \in Nat BY DEF TypeOK
  <1>2. Len(<<o>> \o queue) = Len(queue) + 1 /\ \A i \in 1..Len(queue) : (<<o>> \o queue)[i + 1] = queue[i]
    BY <1>1 DEF TypeOK
  <1> DEFINE q == <<o>> \o queue
  <1> HIDE DEF q
  <1>3. \A i \in 1..(Len(initial) - Len(ran)) : q[1 + i] = initial[Len(ran) + i]
    BY <1>1, <1>2 DEF Queued, q
  <1>4. \A i \in (1 + (Len(initial) - Len(ran)) + 1)..Len(q) : q[i].rerun = "yes"
    <2> TAKE i \in (1 + (Len(initial) - Len(ran)) + 1)..Len(q)
    <2>1. i - 1 \in (0 + (Len(initial) - Len(ran)) + 1)..Len(queue) /\ i - 1 \in 1..Len(queue)
      BY <1>1, <1>2 DEF Queued, q
    <2>2. q[i] = queue[i - 1] BY <1>1, <1>2, <2>1 DEF q
    <2> QED BY <2>1, <2>2 DEF Queued
  <1> QED BY <1>1, <1>2, <1>3, <1>4 DEF Queued, q

(* retry_with_profile.                                                      *)
LEMMA PushBack ==
  ASSUME TypeOK, NEW a, Queued(queue, a, ran), NEW o \in Op, o.rerun = "yes"
  PROVE  Queued(Append(queue, o), a, ran)
  <1>1. Len(queue) \in Nat /\ Len(initial) \in Nat /\ Len(ran) \in Nat /\ a \in {0, 1}
    BY DEF TypeOK, Queued
  <1> DEFINE q == Append(queue, o)
  <1>2. Len(q) = Len(queue) + 1 /\ q[Len(queue) + 1] = o /\ \A i \in 1..Len(queue) : q[i] = queue[i]
    BY <1>1 DEF TypeOK
  <1> HIDE DEF q
  <1>3. \A i \in 1..(Len(initial) - Len(ran)) : q[a + i] = initial[Len(ran) + i]
    <2> TAKE i \in 1..(Len(initial) - Len(ran))
    <2>1. a + i \in 1..Len(queue) BY <1>1 DEF Queued
    <2>2. queue[a + i] = initial[Len(ran) + i] BY DEF Queued
    <2> QED BY <1>2, <2>1, <2>2
  <1>4. \A i \in (a + (Len(initial) - Len(ran)) + 1)..Len(q) : q[i].rerun = "yes"
    <2> TAKE i \in (a + (Len(initial) - Len(ran)) + 1)..Len(q)
    <2>1. CASE i = Len(queue) + 1 BY <1>2, <2>1
    <2>2. CASE i # Len(queue) + 1
      <3>1. i \in (a + (Len(initial) - Len(ran)) + 1)..Len(queue) /\ i \in 1..Len(queue)
        BY <1>1, <1>2, <2>2 DEF Queued
      <3> QED BY <1>2, <3>1 DEF Queued
    <2> QED BY <2>1, <2>2
  <1>5. Queued(q, a, ran) BY <1>1, <1>2, <1>3, <1>4 DEF Queued
  <1> QED BY <1>5 DEF q

(* The parts of QueueOK together.                                           *)
LEMMA QueuedNext ==
  ASSUME initial' = initial, NEW a, Queued(queue', a, ran'), Ahead' = a,
         pc' = "query" /\ op'.kind # "expanded" => a = 0,
         pc' = "end" => queue' = <<>>
  PROVE  QueueOK'
  BY DEF Queued, QueueOK, Left

-----------------------------------------------------------------------------
(* The command lists that were counted.                                    *)

(* A query starts with none of its lists counted.                           *)
LEMMA CountedAppend ==
  ASSUME NEW r \in Seq(Op), NEW o \in Op, NEW last, o.kind \in ErrorKind => last = 0
  PROVE  CountedLists(Append(r, o), last) = CountedLists(r, r[Len(r)].cmds)
  <1> DEFINE s == Append(r, o)
  <1>1. Len(r) \in Nat /\ Len(s) = Len(r) + 1 /\ s[Len(r) + 1] = o /\ \A i \in 1..Len(r) : s[i] = r[i]
    OBVIOUS
  <1> HIDE DEF s
  <1> DEFINE I(t) == {j \in 1..Len(t) : t[j].kind \in ErrorKind}
             Up(t, l, i) == IF i = Len(t) THEN l ELSE t[i].cmds
             l0 == r[Len(r)].cmds
  <1>2. ASSUME NEW i \in I(s), NEW x \in {i} \X (1..Up(s, last, i))
        PROVE  i \in I(r) /\ x \in {i} \X (1..Up(r, l0, i))
    <2>1. CASE i = Len(r) + 1
      <3>1. last = 0 BY <1>1, <2>1
      <3>2. 1..Up(s, last, i) = {} BY <1>1, <2>1, <3>1
      <3> QED BY <1>2, <3>2
    <2>2. CASE i # Len(r) + 1
      <3>1. i \in 1..Len(r) /\ s[i] = r[i] BY <1>1, <2>2
      <3>2. Up(s, last, i) = r[i].cmds /\ Up(r, l0, i) = r[i].cmds BY <1>1, <2>2, <3>1
      <3> QED BY <1>2, <3>1, <3>2
    <2> QED BY <2>1, <2>2
  <1>3. ASSUME NEW i \in I(r)
        PROVE  i \in I(s) /\ Up(r, l0, i) = Up(s, last, i)
    BY <1>1, <1>3
  <1>4. \A x : x \in CountedLists(s, last) <=> \E i \in I(s) : x \in {i} \X (1..Up(s, last, i))
    BY DEF CountedLists
  <1>5. \A x : x \in CountedLists(r, l0) <=> \E i \in I(r) : x \in {i} \X (1..Up(r, l0, i))
    BY DEF CountedLists
  <1> HIDE DEF I, Up, l0
  <1>6. CountedLists(s, last) = CountedLists(r, l0)
    <2>1. \A x : x \in CountedLists(s, last) => x \in CountedLists(r, l0) BY <1>2, <1>4, <1>5
    <2>2. \A x : x \in CountedLists(r, l0) => x \in CountedLists(s, last) BY <1>3, <1>4, <1>5
    <2> QED BY <2>1, <2>2
  <1> QED BY <1>6 DEF s, l0

(* A command list more.                                                     *)
LEMMA CountedMore ==
  ASSUME NEW r \in Seq(Op), r # <<>>, r[Len(r)].kind \in ErrorKind, NEW k \in Nat
  PROVE  /\ <<Len(r), k + 1>> \notin CountedLists(r, k)
         /\ CountedLists(r, k + 1) = CountedLists(r, k) \cup {<<Len(r), k + 1>>}
  <1> DEFINE I == {j \in 1..Len(r) : r[j].kind \in ErrorKind}
             Up(l, i) == IF i = Len(r) THEN l ELSE r[i].cmds
             m == Len(r)
  <1>1. m \in I /\ m \in Nat OBVIOUS
  <1>2. \A l, x : x \in CountedLists(r, l) <=> \E i \in I : x \in {i} \X (1..Up(l, i))
    BY DEF CountedLists
  <1>3. /\ \A l : Up(l, m) = l
        /\ \A l, h : \A i \in I \ {m} : Up(l, i) = Up(h, i)
    OBVIOUS
  <1> HIDE DEF I, Up, m
  <1>4. <<m, k + 1>> \notin CountedLists(r, k)
    <2>1. ASSUME NEW i \in I, <<m, k + 1>> \in {i} \X (1..Up(k, i)) PROVE FALSE
      <3>1. m = i /\ k + 1 \in 1..Up(k, i) BY <2>1
      <3> QED BY <1>3, <3>1
    <2> QED BY <1>2, <2>1
  <1>5. <<m, k + 1>> \in CountedLists(r, k + 1)
    <2>1. <<m, k + 1>> \in {m} \X (1..Up(k + 1, m)) BY <1>3
    <2> QED BY <1>1, <1>2, <2>1
  <1>6. ASSUME NEW x \in CountedLists(r, k) PROVE x \in CountedLists(r, k + 1)
    <2>1. PICK i \in I : x \in {i} \X (1..Up(k, i)) BY <1>2, <1>6
    <2>2. CASE i = m
      <3>1. x \in {m} \X (1..k) BY <1>3, <2>1, <2>2
      <3>2. x \in {m} \X (1..(k + 1)) BY <3>1
      <3> QED BY <1>1, <1>2, <1>3, <3>2
    <2>3. CASE i # m
      <3>1. Up(k + 1, i) = Up(k, i) BY <1>3, <2>3
      <3> QED BY <1>2, <2>1, <3>1
    <2> QED BY <2>2, <2>3
  <1>7. ASSUME NEW x \in CountedLists(r, k + 1), x # <<m, k + 1>> PROVE x \in CountedLists(r, k)
    <2>1. PICK i \in I : x \in {i} \X (1..Up(k + 1, i)) BY <1>2, <1>7
    <2>2. CASE i = m
      <3>1. x \in {m} \X (1..(k + 1)) BY <1>3, <2>1, <2>2
      <3>2. x \in {m} \X (1..k) BY <1>7, <3>1
      <3> QED BY <1>1, <1>2, <1>3, <3>2
    <2>3. CASE i # m
      <3>1. Up(k + 1, i) = Up(k, i) BY <1>3, <2>3
      <3> QED BY <1>2, <2>1, <3>1
    <2> QED BY <2>2, <2>3
  <1> QED BY <1>4, <1>5, <1>6, <1>7 DEF m

-----------------------------------------------------------------------------
(* The invariant.                                                          *)

LEMMA ErrorsNow ==
  OpsInv => ErrorsTyped /\ ErrorsKept /\ (pc = "end" => sink = "direct")
  BY DEF OpsInv, TypeOK, NoErrorLost, ErrorsTyped, ErrorsKept, UpTo

LEMMA ErrorsNext ==
  ASSUME ErrorsKept', pc' = "end" => sink' = "direct"
  PROVE  NoErrorLost'
  BY DEF NoErrorLost, ErrorsKept, UpTo

(* The operations of the component do not change.                           *)
LEMMA AxiomsLastKept ==
  ASSUME AxiomsLast, initial' = initial
  PROVE  AxiomsLast'
  BY DEF AxiomsLast

LEMMA InitOps == Init => OpsInv
  <1> SUFFICES ASSUME Init PROVE OpsInv OBVIOUS
  <1>1. PICK exec \in Ascending, n \in [Fun -> 0..1] : initial = SccOps(exec, n) BY DEF Init
  <1>2. initial \in Seq(Op) /\ AxiomsLast
    <2>1. config \in Config BY DEF Init
    <2> QED BY <1>1, <2>1, SccOpsShape
  <1>3. /\ queue = initial /\ pc = "loop" /\ op = NoOp /\ cmd = 1 /\ sink = "held" /\ held = <<>>
        /\ out = <<>> /\ found = 0 /\ ran = <<>> /\ tally = 0
    BY DEF Init
  <1>4. TypeOK
    <2>1. NoOp \in Op BY DEF NoOp, Op
    <2>2. ran \in Seq(Op) /\ held \in Seq(Nat) /\ out \in Seq(Nat) BY <1>3
    <2> QED BY <1>2, <1>3, <2>1, <2>2 DEF TypeOK
  <1>5. Len(initial) \in Nat /\ Len(ran) = 0 BY <1>2, <1>3
  <1>6. Ahead = 0
    <2>1. ASSUME queue # <<>> PROVE ~IsRetry(queue[1])
      <3>1. 1 \in 1..Len(initial) BY <1>2, <1>3, <1>5, <2>1
      <3>2. queue[1].kind \in ContextKind \cup ErrorKind BY <1>2, <1>3, <3>1 DEF AxiomsLast
      <3> QED BY <3>2 DEF IsRetry, ContextKind, ErrorKind, RecommendsKind
    <2> QED BY <2>1 DEF Ahead
  <1>7. QueueOK
    <2>1. Left = Len(initial) BY <1>5 DEF Left
    <2>2. \A i \in 1..Left : queue[Ahead + i] = initial[Len(ran) + i] BY <1>3, <1>5, <1>6, <2>1
    <2>3. \A i \in (Ahead + Left + 1)..Len(queue) : FALSE BY <1>3, <1>5, <1>6, <2>1
    <2>4. Ahead + Left <= Len(queue) /\ Len(ran) <= Len(initial) BY <1>3, <1>5, <1>6, <2>1
    <2>5. \A i \in 1..Len(ran) : FALSE BY <1>5
    <2> QED BY <1>3, <2>2, <2>3, <2>4, <2>5 DEF QueueOK
  <1>8. TallyOK
    <2>1. CountedLists(ran, CountedOfLast) = {}
      <3>1. {j \in 1..Len(ran) : ran[j].kind \in ErrorKind} = {} BY <1>5
      <3> QED BY <3>1 DEF CountedLists
    <2> QED BY <1>3, <2>1, FS_EmptySet DEF TallyOK, Counting
  <1>9. NoErrorLost
    <2>1. <<>> \o <<>> = [i \in 1..0 |-> i] OBVIOUS
    <2> QED BY <1>3, <2>1 DEF NoErrorLost
  <1> QED BY <1>2, <1>4, <1>7, <1>8, <1>9 DEF OpsInv

(* Nothing is counted between two queries.                                  *)
LEMMA TallyAtLoop ==
  ASSUME OpsInv, pc = "loop"
  PROVE  /\ CountedOfLast = ran[Len(ran)].cmds
         /\ IsFiniteSet(CountedLists(ran, ran[Len(ran)].cmds))
         /\ tally = Cardinality(CountedLists(ran, ran[Len(ran)].cmds))
  <1>1. CountedOfLast = ran[Len(ran)].cmds BY DEF CountedOfLast, Counting
  <1> QED BY <1>1 DEF OpsInv, TallyOK

(* The driver's query goes before the queue.                                *)
LEMMA NextExpandedKeeps == OpsInv /\ NextExpanded => OpsInv'
  <1> SUFFICES ASSUME OpsInv, NextExpanded PROVE OpsInv' OBVIOUS
  <1>1. ErrorsTyped' /\ ErrorsKept'
    BY ErrorsNow, FlushedKeepsErrors DEF NextExpanded
  <1>2. /\ op' = Operation("expanded", op.fun, 1) /\ cmd' = 1 /\ pc' = "query" /\ ran' = ran
        /\ queue' = queue /\ initial' = initial /\ tally' = tally /\ pc = "loop"
    BY DEF NextExpanded, Begin, Operation, QueueBehindDriver, ContextKind, ErrorKind
  <1>3. op' \in Op /\ op'.kind = "expanded" /\ op'.cmds = 1
    BY <1>2 DEF OpsInv, TypeOK, Op, Operation
  <1>4. TypeOK' BY <1>1, <1>2, <1>3 DEF OpsInv, TypeOK, ErrorsTyped
  <1>5. AxiomsLast' BY <1>2, AxiomsLastKept DEF OpsInv
  <1>6. QueueOK'
    <2>1. Ahead' = Ahead BY <1>2 DEF Ahead
    <2>2. Queued(queue', Ahead, ran') BY <1>2, QueuedNow DEF OpsInv
    <2> QED BY <1>2, <1>3, <2>1, <2>2, QueuedNext
  <1>7. TallyOK'
    <2>1. ~Counting' BY <1>3 DEF Counting, Counts, ErrorKind
    <2>2. CountedOfLast' = ran[Len(ran)].cmds BY <1>2, <2>1 DEF CountedOfLast
    <2>3. op'.kind \notin ContextKind BY <1>3 DEF ContextKind
    <2> QED BY <1>2, <1>3, <2>1, <2>2, <2>3, TallyAtLoop DEF TallyOK
  <1>8. NoErrorLost' BY <1>1, <1>2, ErrorsNext
  <1> QED BY <1>4, <1>5, <1>6, <1>7, <1>8 DEF OpsInv

\* What the queue gives: the next operation of the component, or one that is not one of it.
TakenNext(o) ==
    /\ o.kind \in ContextKind \cup ErrorKind /\ o.rerun = "no" /\ ran' = Append(ran, o)
TakenOther(o) ==
    /\ o.kind \in RecommendsKind \/ o.rerun = "yes"
    /\ ran' = ran

LEMMA NextQueuedKeeps == OpsInv /\ NextQueued => OpsInv'
  <1> SUFFICES ASSUME OpsInv, NextQueued PROVE OpsInv' OBVIOUS
  <1> DEFINE o == Head(queue)
  <1>1. ErrorsTyped' /\ ErrorsKept'
    BY ErrorsNow, FlushedKeepsErrors DEF NextQueued
  <1>2. /\ op' = o /\ cmd' = 1 /\ queue' = Tail(queue) /\ initial' = initial /\ tally' = tally
        /\ pc = "loop" /\ queue # <<>>
        /\ pc' = IF o.kind \in ContextKind THEN "loop" ELSE "query"
    BY DEF NextQueued, Begin
  <1>3. ran' = IF o.kind \in ContextKind \cup ErrorKind /\ o.rerun = "no" THEN Append(ran, o) ELSE ran
    BY DEF NextQueued, Begin
  <1>4. TypeOK /\ AxiomsLast /\ QueueOK BY DEF OpsInv
  <1>5. queue \in Seq(Op) /\ ran \in Seq(Op) /\ Len(queue) \in Nat /\ Len(queue) >= 1 /\ o = queue[1]
    BY <1>2, <1>4 DEF TypeOK
  <1>6. o \in Op /\ Tail(queue) \in Seq(Op) BY <1>5
  <1>7. Ahead \in {0, 1} BY DEF Ahead
  <1>8. Queued(queue, Ahead, ran) BY <1>4, QueuedNow
  <1>9. Queued(queue', 0, ran') /\ (TakenNext(o) \/ TakenOther(o))
    <2>1. CASE Ahead = 1
      <3>1. IsRetry(o) BY <1>5, <2>1 DEF Ahead
      <3>2. o.kind \in RecommendsKind /\ o.kind \notin ContextKind \cup ErrorKind
        BY <3>1 DEF IsRetry, RecommendsKind, ContextKind, ErrorKind
      <3>3. ran' = ran BY <1>3, <3>2
      <3>4. Queued(queue', 0, ran') BY <1>2, <1>4, <1>8, <2>1, <3>3, PopRetry
      <3> QED BY <3>2, <3>3, <3>4 DEF TakenOther
    <2>2. CASE Ahead = 0 /\ Len(ran) < Len(initial)
      <3>1. o = initial[Len(ran) + 1] /\ Queued(Tail(queue), 0, Append(ran, o))
        BY <1>4, <1>8, <2>2, PopNext
      <3>2. Len(ran) + 1 \in 1..Len(initial) BY <1>4, <2>2 DEF TypeOK
      <3>3. o.kind \in ContextKind \cup ErrorKind /\ o.rerun = "no"
        BY <1>4, <3>1, <3>2 DEF AxiomsLast
      <3>4. ran' = Append(ran, o) BY <1>3, <3>3
      <3> QED BY <1>2, <3>1, <3>3, <3>4 DEF TakenNext
    <2>3. CASE Ahead = 0 /\ Len(ran) = Len(initial)
      <3>1. o.rerun = "yes" /\ Queued(Tail(queue), 0, ran) BY <1>2, <1>4, <1>8, <2>3, PopRerun
      <3>2. ran' = ran BY <1>3, <3>1
      <3> QED BY <1>2, <3>1, <3>2 DEF TakenOther
    <2>4. Len(ran) <= Len(initial) /\ Len(ran) \in Nat /\ Len(initial) \in Nat
      BY <1>4 DEF QueueOK, TypeOK
    <2> QED BY <1>7, <2>1, <2>2, <2>3, <2>4
  <1>10. Ahead' = 0
    <2>1. ASSUME queue' # <<>> PROVE ~IsRetry(queue'[1])
      <3>1. Len(Tail(queue)) = Len(queue) - 1 /\ (Len(queue) - 1 >= 1 => Tail(queue)[1] = queue[2])
        BY <1>5
      <3>2. Len(Tail(queue)) >= 1 BY <1>2, <1>6, <2>1
      <3>3. queue'[1] = queue[2] /\ 2 \in 1..Len(queue) BY <1>2, <1>5, <3>1, <3>2
      <3>4. 2 > Ahead BY <1>7
      <3> QED BY <1>4, <3>3, <3>4, OnlyFirstIsRetry
    <2> QED BY <2>1 DEF Ahead
  <1> HIDE DEF o
  <1>11. ran' \in Seq(Op) BY <1>5, <1>6, <1>9 DEF TakenNext, TakenOther
  <1>12. pc' \in {"loop", "query"} BY <1>2
  <1>13. TypeOK'
    BY <1>1, <1>2, <1>4, <1>6, <1>11, <1>12 DEF TypeOK, ErrorsTyped
  <1>14. AxiomsLast' BY <1>2, <1>4, AxiomsLastKept
  <1>15. QueueOK' BY <1>2, <1>9, <1>10, <1>12, QueuedNext
  <1>16. TallyOK'
    <2>1. pc' = "query" => op'.kind \notin ContextKind /\ cmd' <= op'.cmds + 1
      BY <1>2, <1>6 DEF Op
    <2>2. CASE TakenNext(o)
      <3>1. ran' # <<>> /\ ran'[Len(ran')] = o BY <1>5, <1>6, <2>2 DEF TakenNext
      <3>2. o.kind \in ErrorKind => pc' = "query" BY <1>2 DEF ErrorKind, ContextKind
      <3>3. o.kind \in ErrorKind => Counting'
        BY <1>2, <2>2, <3>2 DEF Counting, Counts, TakenNext
      <3>4. o.kind \in ErrorKind => CountedOfLast' = 0 BY <1>2, <3>3 DEF CountedOfLast
      <3>5. CountedLists(ran', CountedOfLast') = CountedLists(ran, ran[Len(ran)].cmds)
        BY <1>5, <1>6, <2>2, <3>4, CountedAppend DEF TakenNext
      <3> QED BY <1>2, <2>1, <3>1, <3>5, TallyAtLoop DEF TallyOK
    <2>3. CASE TakenOther(o)
      <3>1. ~Counting' BY <1>2, <2>3 DEF Counting, Counts, TakenOther, ErrorKind, RecommendsKind
      <3>2. ran' = ran /\ CountedOfLast' = ran[Len(ran)].cmds
        BY <2>3, <3>1 DEF CountedOfLast, TakenOther
      <3> QED BY <1>2, <2>1, <3>1, <3>2, TallyAtLoop DEF TallyOK
    <2> QED BY <1>9, <2>2, <2>3
  <1>17. NoErrorLost' BY <1>1, <1>12, ErrorsNext
  <1> QED BY <1>13, <1>14, <1>15, <1>16, <1>17 DEF OpsInv

(* A step that leaves the queue, the operation and the tally alone.         *)
Quiet == UNCHANGED <<initial, queue, op, cmd, ran, tally>>

LEMMA QuietKeeps ==
  ASSUME OpsInv, Quiet, ErrorsTyped', ErrorsKept'
  PROVE  /\ AxiomsLast'
         /\ pc' \in {"loop", "query", "end", "failed", "panic"} => TypeOK'
         /\ (pc' = "query" => pc = "query") /\ (pc' = "end" => queue = <<>>) => QueueOK'
  <1>1. /\ initial' = initial /\ queue' = queue /\ op' = op /\ cmd' = cmd /\ ran' = ran
        /\ tally' = tally
    BY DEF Quiet
  <1>2. AxiomsLast' BY <1>1, AxiomsLastKept DEF OpsInv
  <1>3. ASSUME pc' \in {"loop", "query", "end", "failed", "panic"} PROVE TypeOK'
    BY <1>1, <1>3 DEF OpsInv, TypeOK, ErrorsTyped
  <1>4. ASSUME pc' = "query" => pc = "query", pc' = "end" => queue = <<>> PROVE QueueOK'
    <2>1. Ahead' = Ahead BY <1>1 DEF Ahead
    <2>2. Queued(queue', Ahead, ran') BY <1>1, QueuedNow DEF OpsInv
    <2>3. pc' = "query" /\ op'.kind # "expanded" => Ahead = 0 BY <1>1, <1>4 DEF OpsInv, QueueOK
    <2> QED BY <1>1, <1>4, <2>1, <2>2, <2>3, QueuedNext
  <1> QED BY <1>2, <1>3, <1>4

LEMMA LoopEndKeeps == OpsInv /\ LoopEnd => OpsInv'
  <1> SUFFICES ASSUME OpsInv, LoopEnd PROVE OpsInv' OBVIOUS
  <1>1. ErrorsTyped' /\ ErrorsKept' /\ sink' = "direct"
    BY ErrorsNow, FlushedKeepsErrors DEF LoopEnd
  <1>2. Quiet /\ pc = "loop" /\ pc' = "end" /\ queue = <<>> BY DEF LoopEnd, Quiet
  <1>3. TypeOK' /\ AxiomsLast' /\ QueueOK' BY <1>1, <1>2, QuietKeeps
  <1>4. TallyOK'
    <2>1. ~Counting' BY <1>2 DEF Counting
    <2>2. CountedOfLast' = ran[Len(ran)].cmds BY <1>2, <2>1 DEF CountedOfLast, Quiet
    <2> QED BY <1>2, <2>1, <2>2, TallyAtLoop DEF TallyOK, Quiet
  <1>5. NoErrorLost' BY <1>1, ErrorsNext
  <1> QED BY <1>3, <1>4, <1>5 DEF OpsInv

(* A panic, or an error of the system that leaves the loop.                 *)
LEMMA StopsKeeps == OpsInv /\ (ProfileFileExists \/ Fails \/ NoDriver) => OpsInv'
  <1> SUFFICES ASSUME OpsInv, ProfileFileExists \/ Fails \/ NoDriver PROVE OpsInv' OBVIOUS
  <1>1. /\ Quiet /\ pc' \in {"failed", "panic"}
        /\ out' = out /\ held' = held /\ found' = found /\ sink' = sink
    BY DEF ProfileFileExists, Fails, NoDriver, Quiet
  <1>2. ErrorsTyped' /\ ErrorsKept' BY <1>1, ErrorsNow DEF ErrorsTyped, ErrorsKept
  <1>3. TypeOK' /\ AxiomsLast' /\ QueueOK' BY <1>1, <1>2, QuietKeeps
  <1>4. TallyOK' BY <1>1 DEF TallyOK, Counting
  <1>5. NoErrorLost' BY <1>1, <1>2, ErrorsNext
  <1> QED BY <1>3, <1>4, <1>5 DEF OpsInv

LEMMA LongRunningKeeps == OpsInv /\ LongRunning => OpsInv'
  <1> SUFFICES ASSUME OpsInv, LongRunning PROVE OpsInv' OBVIOUS
  <1>1. ErrorsTyped' /\ ErrorsKept'
    BY ErrorsNow, FlushedKeepsErrors DEF LongRunning
  <1>2. Quiet /\ pc = "query" /\ pc' = "query" BY DEF LongRunning, Quiet
  <1>3. TypeOK' /\ AxiomsLast' /\ QueueOK' BY <1>1, <1>2, QuietKeeps
  <1>4. TallyOK'
    <2>1. Counting' = Counting /\ CountedOfLast' = CountedOfLast
      BY <1>2 DEF Counting, Counts, CountedOfLast, Quiet
    <2> QED BY <1>2, <2>1 DEF TallyOK, Quiet, OpsInv
  <1>5. NoErrorLost' BY <1>1, <1>2, ErrorsNext
  <1> QED BY <1>3, <1>4, <1>5 DEF OpsInv

(* After its last command list all of a query's lists are counted.          *)
LEMMA QueryDone ==
  ASSUME OpsInv, pc = "query", cmd > op.cmds, UNCHANGED <<op, cmd, ran, tally>>, pc' = "loop"
  PROVE  TallyOK'
  <1>1. ~Counting' BY DEF Counting
  <1>2. CountedOfLast' = ran[Len(ran)].cmds BY <1>1 DEF CountedOfLast
  <1>3. cmd = op.cmds + 1 BY DEF OpsInv, TallyOK, TypeOK, Op
  <1>4. CountedOfLast = ran[Len(ran)].cmds
    <2>1. Counting => ran[Len(ran)] = op BY DEF OpsInv, TallyOK
    <2>2. op.cmds \in Nat BY DEF OpsInv, TypeOK, Op
    <2> QED BY <1>3, <2>1, <2>2 DEF CountedOfLast
  <1> QED BY <1>1, <1>2, <1>4 DEF OpsInv, TallyOK

LEMMA EndExpandedKeeps ==
  ASSUME OpsInv, NEW next, EndExpanded(next)
  PROVE  OpsInv'
  <1>1. /\ Quiet /\ pc = "query" /\ pc' = "loop" /\ cmd > op.cmds
        /\ out' = out /\ held' = held /\ found' = found /\ sink' = sink
    BY DEF EndExpanded, Quiet
  <1>2. ErrorsTyped' /\ ErrorsKept' BY <1>1, ErrorsNow DEF ErrorsTyped, ErrorsKept
  <1>3. TypeOK' /\ AxiomsLast' /\ QueueOK' BY <1>1, <1>2, QuietKeeps
  <1>4. TallyOK' BY <1>1, QueryDone DEF Quiet
  <1>5. NoErrorLost' BY <1>1, <1>2, ErrorsNext
  <1> QED BY <1>3, <1>4, <1>5 DEF OpsInv

(* The recommends check goes to the front, where no other one is.           *)
LEMMA EndQueryKeeps ==
  ASSUME OpsInv, NEW n \in 0..1, NEW next, EndQuery(n, next)
  PROVE  OpsInv'
  <1>1. /\ pc = "query" /\ pc' = "loop" /\ cmd > op.cmds /\ op.kind # "expanded"
        /\ initial' = initial /\ op' = op /\ cmd' = cmd /\ ran' = ran /\ tally' = tally
        /\ out' = out /\ held' = held /\ found' = found /\ sink' = sink
    BY DEF EndQuery
  <1>2. ErrorsTyped' /\ ErrorsKept' BY <1>1, ErrorsNow DEF ErrorsTyped, ErrorsKept
  <1>3. Recommends(n) \in Op /\ IsRetry(Recommends(n))
    BY DEF Recommends, Operation, IsRetry, RecommendsKind, Op, OpsInv, TypeOK
  <1>4. queue' = queue \/ queue' = <<Recommends(n)>> \o queue
    BY DEF EndQuery, RetryWithRecommends
  <1>5. Ahead = 0 /\ Queued(queue, 0, ran) BY <1>1, QueuedNow DEF OpsInv, QueueOK
  <1>6. TypeOK /\ queue \in Seq(Op) BY DEF OpsInv, TypeOK
  <1>7. queue' \in Seq(Op) /\ QueueOK'
    <2>1. CASE queue' = queue
      <3>1. Ahead' = 0 BY <1>5, <2>1 DEF Ahead
      <3> QED BY <1>1, <1>5, <1>6, <2>1, <3>1, QueuedNext
    <2>2. CASE queue' = <<Recommends(n)>> \o queue
      <3>1. queue' \in Seq(Op) /\ queue' # <<>> /\ queue'[1] = Recommends(n) BY <1>3, <1>6, <2>2
      <3>2. Ahead' = 1
        <4>1. IsRetry(queue'[1]) BY <1>3, <3>1
        <4> QED BY <3>1, <4>1 DEF Ahead
      <3>3. Queued(queue', 1, ran') BY <1>1, <1>3, <1>5, <1>6, <2>2, PushFront
      <3> QED BY <1>1, <3>1, <3>2, <3>3, QueuedNext
    <2> QED BY <1>4, <2>1, <2>2
  <1>8. TypeOK' BY <1>1, <1>2, <1>6, <1>7 DEF TypeOK, ErrorsTyped
  <1>9. AxiomsLast' BY <1>1, AxiomsLastKept DEF OpsInv
  <1>10. TallyOK' BY <1>1, QueryDone
  <1>11. NoErrorLost' BY <1>1, <1>2, ErrorsNext
  <1> QED BY <1>7, <1>8, <1>9, <1>10, <1>11 DEF OpsInv

(* A rerun goes to the back, and the list just run is counted.              *)
LEMMA RunCommandsKeeps ==
  ASSUME OpsInv, NEW r, RunCommands(r)
  PROVE  OpsInv'
  <1>1. /\ pc = "query" /\ pc' = "query" /\ cmd <= op.cmds /\ cmd' = cmd + 1
        /\ initial' = initial /\ op' = op /\ ran' = ran /\ sink' = sink
        /\ tally' = IF Counts THEN tally + 1 ELSE tally
    BY DEF RunCommands
  <1>2. ErrorsTyped' /\ ErrorsKept'
    BY <1>1, ErrorsNow, RecordErrorKeepsErrors DEF RunCommands
  <1> DEFINE o == [op EXCEPT !.rerun = "yes"]
  <1>3. o \in Op /\ o.rerun = "yes" BY DEF OpsInv, TypeOK, Op
  <1> HIDE DEF o
  <1>4. queue' = queue \/ queue' = Append(queue, o) BY DEF RunCommands, RetryWithProfile, o
  <1>5. TypeOK /\ queue \in Seq(Op) /\ cmd \in Nat \ {0} /\ op \in Op /\ tally \in Nat /\ ran \in Seq(Op)
    BY DEF OpsInv, TypeOK
  <1>6. queue' \in Seq(Op) /\ QueueOK'
    <2>1. Queued(queue, Ahead, ran) /\ (op.kind # "expanded" => Ahead = 0)
      BY <1>1, QueuedNow DEF OpsInv, QueueOK
    <2>2. CASE queue' = queue
      <3>1. Ahead' = Ahead BY <2>2 DEF Ahead
      <3> QED BY <1>1, <1>5, <2>1, <2>2, <3>1, QueuedNext
    <2>3. CASE queue' = Append(queue, o)
      <3>1. queue' \in Seq(Op) /\ queue' # <<>> BY <1>3, <1>5, <2>3
      <3>2. Ahead' = Ahead
        <4>1. CASE queue = <<>>
          <5>1. queue'[1] = o BY <1>3, <2>3, <4>1
          <5>2. ~IsRetry(queue'[1]) BY <1>3, <5>1 DEF IsRetry
          <5> QED BY <4>1, <5>2 DEF Ahead
        <4>2. CASE queue # <<>>
          <5>1. queue'[1] = queue[1] BY <1>3, <1>5, <2>3, <4>2
          <5> QED BY <3>1, <4>2, <5>1 DEF Ahead
        <4> QED BY <4>1, <4>2
      <3>3. Queued(queue', Ahead, ran') BY <1>1, <1>3, <1>5, <2>1, <2>3, PushBack
      <3> QED BY <1>1, <2>1, <3>1, <3>2, <3>3, QueuedNext
    <2> QED BY <1>4, <2>2, <2>3
  <1>7. tally' \in Nat BY <1>1, <1>5
  <1>8. TypeOK' BY <1>1, <1>2, <1>5, <1>6, <1>7 DEF TypeOK, ErrorsTyped
  <1>9. AxiomsLast' BY <1>1, AxiomsLastKept DEF OpsInv
  <1>10. TallyOK'
    <2>1. op.cmds \in Nat BY <1>5 DEF Op
    <2>2. cmd' <= op'.cmds + 1 /\ op'.kind \notin ContextKind
      BY <1>1, <1>5, <2>1 DEF OpsInv, TallyOK
    <2>3. Counting' = Counting /\ Counting = Counts BY <1>1 DEF Counting, Counts
    <2>4. /\ IsFiniteSet(CountedLists(ran, CountedOfLast))
          /\ tally = Cardinality(CountedLists(ran, CountedOfLast))
      BY <1>1 DEF OpsInv, TallyOK
    <2>5. CASE Counts
      <3>1. ran # <<>> /\ ran[Len(ran)] = op /\ op.kind \in ErrorKind
        BY <2>3, <2>5 DEF OpsInv, TallyOK, Counts
      <3>2. CountedOfLast = cmd - 1 /\ CountedOfLast' = cmd /\ cmd - 1 \in Nat /\ (cmd - 1) + 1 = cmd
        BY <1>1, <1>5, <2>3, <2>5 DEF CountedOfLast
      <3>3. /\ <<Len(ran), cmd>> \notin CountedLists(ran, cmd - 1)
            /\ CountedLists(ran, cmd) = CountedLists(ran, cmd - 1) \cup {<<Len(ran), cmd>>}
        BY <1>5, <3>1, <3>2, CountedMore
      <3>4. IsFiniteSet(CountedLists(ran, cmd - 1)) /\ tally = Cardinality(CountedLists(ran, cmd - 1))
        BY <2>4, <3>2
      <3>5. IsFiniteSet(CountedLists(ran, cmd)) /\ Cardinality(CountedLists(ran, cmd)) = tally + 1
        <4> DEFINE S == CountedLists(ran, cmd - 1)
                   x == <<Len(ran), cmd>>
        <4>1. IsFiniteSet(S) /\ tally = Cardinality(S) /\ x \notin S /\ CountedLists(ran, cmd) = S \cup {x}
          BY <3>3, <3>4
        <4> HIDE DEF S, x
        <4>2. IsFiniteSet(S \cup {x}) /\ Cardinality(S \cup {x}) = Cardinality(S) + 1
          BY <4>1, FS_AddElement
        <4> QED BY <4>1, <4>2
      <3>6. Counting' => ran' # <<>> /\ ran'[Len(ran')] = op' BY <1>1, <3>1
      <3> QED BY <1>1, <2>2, <2>5, <3>2, <3>5, <3>6 DEF TallyOK
    <2>6. CASE ~Counts
      <3>1. CountedOfLast' = CountedOfLast /\ ~Counting' BY <1>1, <2>3, <2>6 DEF CountedOfLast
      <3> QED BY <1>1, <2>2, <2>4, <2>6, <3>1 DEF TallyOK
    <2> QED BY <2>5, <2>6
  <1>11. NoErrorLost' BY <1>1, <1>2, ErrorsNext
  <1> QED BY <1>6, <1>8, <1>9, <1>10, <1>11 DEF OpsInv

LEMMA OpsStep == OpsInv /\ [Next]_vars => OpsInv'
  <1> SUFFICES ASSUME OpsInv, [Next]_vars PROVE OpsInv' OBVIOUS
  <1>1. CASE Next
    BY <1>1, NextExpandedKeeps, NextQueuedKeeps, LoopEndKeeps, StopsKeeps, LongRunningKeeps,
       RunCommandsKeeps, EndQueryKeeps, EndExpandedKeeps DEF Next
  <1>2. CASE UNCHANGED vars
    BY <1>2 DEF vars, OpsInv, TypeOK, AxiomsLast, QueueOK, Ahead, Left, TallyOK, Counting, Counts,
                CountedOfLast, NoErrorLost
  <1> QED BY <1>1, <1>2

(* The queue keeps its shape, every query at level Error is counted as it   *)
(* is run, and the errors found are those held back and reported.           *)
THEOREM OpsInvariant == Spec => []OpsInv
  BY InitOps, OpsStep, PTL DEF Spec

-----------------------------------------------------------------------------
(* What follows.                                                           *)

(* No query whose verdict counts runs once an axiom of its component is in  *)
(* the context.                                                             *)
THEOREM AxiomsNeverAssumedEarly == Spec => []AxiomsAfterObligations
  <1>1. OpsInv => AxiomsAfterObligations
    <2> SUFFICES ASSUME OpsInv, pc = "query", op.kind \in ErrorKind, op.rerun = "no",
                        NEW i \in 1..Len(ran), ran[i].kind = "axioms"
                 PROVE  FALSE
      BY DEF AxiomsAfterObligations
    <2>1. ran # <<>> /\ ran[Len(ran)] = op BY DEF OpsInv, TallyOK, Counting, Counts
    <2>2. Len(ran) \in Nat /\ Len(ran) >= 1 /\ Len(initial) \in Nat /\ Len(ran) <= Len(initial)
      BY <2>1 DEF OpsInv, TypeOK, QueueOK
    <2>3. initial[i].kind = "axioms" /\ initial[Len(ran)].kind = op.kind
      BY <2>1, <2>2 DEF OpsInv, QueueOK
    <2>4. i \in 1..Len(initial) /\ Len(ran) \in 1..Len(initial) /\ (i < Len(ran) \/ i = Len(ran))
      BY <2>2
    <2>5. op.kind = "axioms" BY <2>3, <2>4 DEF OpsInv, AxiomsLast
    <2> QED BY <2>5 DEF ErrorKind
  <1> QED BY <1>1, OpsInvariant, PTL

(* The operations of the component are run once each and in their order,    *)
(* whatever retries, reruns and the driver do, and each command list of a   *)
(* query at level Error is counted once.                                    *)
THEOREM OperationsNeverLost == Spec => []NothingLost
  <1>1. OpsInv => NothingLost
    <2> SUFFICES ASSUME OpsInv PROVE NothingLost OBVIOUS
    <2>1. /\ ran \in Seq(Op) /\ initial \in Seq(Op) /\ queue \in Seq(Op)
          /\ Len(ran) \in Nat /\ Len(initial) \in Nat /\ Len(ran) <= Len(initial)
          /\ \A i \in 1..Len(ran) : ran[i] = initial[i]
      BY DEF OpsInv, TypeOK, QueueOK
    <2>2. IsPrefix(ran, initial) BY <2>1 DEF IsPrefix
    <2>3. ASSUME pc = "end"
          PROVE  /\ ran = initial
                 /\ tally = Cardinality(UNION {{i} \X (1..initial[i].cmds) : i \in Obligations})
      <3>1. queue = <<>> /\ Ahead = 0 /\ Ahead + Left <= Len(queue) BY <2>3 DEF OpsInv, QueueOK, Ahead
      <3>2. Len(ran) = Len(initial) BY <2>1, <3>1 DEF Left
      <3>3. ran = initial BY <2>1, <3>2
      <3>4. tally = Cardinality(CountedLists(ran, ran[Len(ran)].cmds))
        BY <2>3 DEF OpsInv, TallyOK, CountedOfLast, Counting
      <3>5. CountedLists(ran, ran[Len(ran)].cmds) =
              UNION {{i} \X (1..initial[i].cmds) : i \in Obligations}
        <4>1. \A i \in Obligations :
                (IF i = Len(initial) THEN initial[Len(initial)].cmds ELSE initial[i].cmds) = initial[i].cmds
          OBVIOUS
        <4>2. CountedLists(initial, initial[Len(initial)].cmds) =
                UNION {{i} \X (1..(IF i = Len(initial) THEN initial[Len(initial)].cmds
                                   ELSE initial[i].cmds)) : i \in Obligations}
          BY DEF CountedLists, Obligations
        <4> QED BY <3>3, <4>1, <4>2
      <3> QED BY <3>3, <3>4, <3>5
    <2> QED BY <2>2, <2>3 DEF NothingLost
  <1> QED BY <1>1, OpsInvariant, PTL

(* Errors come out once each and in the order in which they were found, and *)
(* at the end none is left held back.                                       *)
THEOREM ErrorsNeverLost == Spec => []NoErrorLost
  <1>1. OpsInv => NoErrorLost BY DEF OpsInv
  <1> QED BY <1>1, OpsInvariant, PTL

-----------------------------------------------------------------------------
(* The order of the identifiers, place by place.                           *)

Id == Seq(Nat)
Agree(a, b, n) == \A i \in 1..n : a[i] = b[i]
\* b is below a in the tree.
Below(b, a) == Len(a) < Len(b) /\ Agree(a, b, Len(a))
\* a and b part at level k, a to the left.
PartAt(a, b, k) == k \in 1..Len(a) /\ k <= Len(b) /\ Agree(a, b, k - 1) /\ a[k] < b[k]

(* Equal prefixes agree at each place.                                      *)
LEMMA SamePrefix ==
  ASSUME NEW a \in Id, NEW b \in Id, NEW n \in Nat, n <= Len(a), n <= Len(b)
  PROVE  SubSeq(a, 1, n) = SubSeq(b, 1, n) <=> Agree(a, b, n)
  <1>1. SubSeq(a, 1, n) \in Id /\ Len(SubSeq(a, 1, n)) = n /\ \A i \in 1..n : SubSeq(a, 1, n)[i] = a[i]
    BY DEF Id
  <1>2. SubSeq(b, 1, n) \in Id /\ Len(SubSeq(b, 1, n)) = n /\ \A i \in 1..n : SubSeq(b, 1, n)[i] = b[i]
    BY DEF Id
  <1>3. ASSUME SubSeq(a, 1, n) = SubSeq(b, 1, n) PROVE Agree(a, b, n)
    BY <1>1, <1>2, <1>3 DEF Agree
  <1>4. ASSUME Agree(a, b, n) PROVE SubSeq(a, 1, n) = SubSeq(b, 1, n)
    <2>1. \A i \in 1..n : SubSeq(a, 1, n)[i] = SubSeq(b, 1, n)[i] BY <1>1, <1>2, <1>4 DEF Agree
    <2>2. QED BY <2>1, <1>1, <1>2 DEF Id
  <1>5. QED BY <1>3, <1>4

LEMMA PrefixByPlace ==
  ASSUME NEW a \in Id, NEW b \in Id
  PROVE  IsPrefix(a, b) <=> Len(a) <= Len(b) /\ Agree(a, b, Len(a))
  BY SamePrefix, Len(a) \in Nat, Len(b) \in Nat DEF IsPrefix, Id

LEMMA BeforeByPlace ==
  ASSUME NEW a \in Id, NEW b \in Id
  PROVE  Before(a, b) <=> Below(b, a) \/ \E k \in Nat : PartAt(a, b, k)
  <1>0. Len(a) \in Nat /\ Len(b) \in Nat BY DEF Id
  <1>1. Len(a) < Len(b) /\ IsPrefix(a, b) <=> Below(b, a) BY <1>0, PrefixByPlace DEF Below
  <1>2. \A k \in 1..Len(a) : k <= Len(b) => (SubSeq(a, 1, k - 1) = SubSeq(b, 1, k - 1) <=> Agree(a, b, k - 1))
    <2>1. SUFFICES ASSUME NEW k \in 1..Len(a), k <= Len(b)
                   PROVE  SubSeq(a, 1, k - 1) = SubSeq(b, 1, k - 1) <=> Agree(a, b, k - 1)
      OBVIOUS
    <2>2. k - 1 \in Nat /\ k - 1 <= Len(a) /\ k - 1 <= Len(b) BY <1>0, <2>1
    <2>3. QED BY <2>2, SamePrefix
  <1>3. QED BY <1>0, <1>1, <1>2 DEF Before, PartAt

LEMMA NotBeforeItself ==
  ASSUME NEW a \in Id PROVE ~ Before(a, a)
  <1>1. Len(a) \in Nat /\ \A k \in 1..Len(a) : a[k] \in Nat BY DEF Id
  <1>2. QED BY <1>1, BeforeByPlace DEF Below, PartAt

LEMMA BeforeTransitive ==
  ASSUME NEW a \in Id, NEW b \in Id, NEW c \in Id, Before(a, b), Before(b, c)
  PROVE  Before(a, c)
  <1>0. /\ Len(a) \in Nat /\ Len(b) \in Nat /\ Len(c) \in Nat
        /\ \A k \in 1..Len(a) : a[k] \in Nat
        /\ \A k \in 1..Len(b) : b[k] \in Nat
        /\ \A k \in 1..Len(c) : c[k] \in Nat
    BY DEF Id
  <1>1. CASE Below(b, a)
    <2>1. CASE Below(c, b)
      <3>1. Below(c, a) BY <1>0, <1>1, <2>1 DEF Below, Agree
      <3>2. QED BY <3>1, BeforeByPlace
    <2>2. ASSUME NEW k \in Nat, PartAt(b, c, k) PROVE Before(a, c)
      <3>1. CASE k <= Len(a)
        <4>1. PartAt(a, c, k) BY <1>0, <1>1, <2>2, <3>1 DEF Below, PartAt, Agree
        <4>2. QED BY <4>1, BeforeByPlace
      <3>2. CASE k > Len(a)
        <4>1. Below(c, a) BY <1>0, <1>1, <2>2, <3>2 DEF Below, PartAt, Agree
        <4>2. QED BY <4>1, BeforeByPlace
      <3>3. QED BY <1>0, <3>1, <3>2
    <2>3. QED BY <2>1, <2>2, BeforeByPlace
  <1>2. ASSUME NEW k \in Nat, PartAt(a, b, k) PROVE Before(a, c)
    <2>1. CASE Below(c, b)
      <3>1. PartAt(a, c, k) BY <1>0, <1>2, <2>1 DEF Below, PartAt, Agree
      <3>2. QED BY <3>1, BeforeByPlace
    <2>2. ASSUME NEW m \in Nat, PartAt(b, c, m) PROVE Before(a, c)
      <3>1. CASE m < k
        <4>1. PartAt(a, c, m) BY <1>0, <1>2, <2>2, <3>1 DEF PartAt, Agree
        <4>2. QED BY <4>1, BeforeByPlace
      <3>2. CASE m >= k
        <4>1. PartAt(a, c, k) BY <1>0, <1>2, <2>2, <3>2 DEF PartAt, Agree
        <4>2. QED BY <4>1, BeforeByPlace
      <3>3. QED BY <3>1, <3>2
    <2>3. QED BY <2>1, <2>2, BeforeByPlace
  <1>3. QED BY <1>1, <1>2, BeforeByPlace

-----------------------------------------------------------------------------
(* Leaves of one identifier.                                               *)

LEMMA LeafPlaces ==
  ASSUME NEW id \in Id, NEW k \in Nat
  PROVE  /\ Append(id, k) \in Id /\ Len(Append(id, k)) = Len(id) + 1
         /\ Agree(id, Append(id, k), Len(id)) /\ Agree(Append(id, k), id, Len(id))
         /\ Append(id, k)[Len(id) + 1] = k
         /\ Append(id, k) # <<>>
  BY DEF Id, Agree

LEMMA LeafAfterParent ==
  ASSUME NEW id \in Id, NEW k \in Nat
  PROVE  Before(id, Append(id, k))
  <1>1. Below(Append(id, k), id) BY LeafPlaces, Len(id) \in Nat DEF Below, Id
  <1>2. QED BY <1>1, LeafPlaces, BeforeByPlace

LEMMA LeavesInOrder ==
  ASSUME NEW id \in Id, NEW k \in Nat, NEW m \in Nat, k < m
  PROVE  /\ Before(Append(id, k), Append(id, m))
         /\ ~ IsPrefix(Append(id, k), Append(id, m))
  <1>0. Len(id) \in Nat BY DEF Id
  <1>a. \A i \in 1..Len(id) : Append(id, k)[i] = id[i] BY LeafPlaces DEF Agree
  <1>b. \A i \in 1..Len(id) : Append(id, m)[i] = id[i] BY LeafPlaces DEF Agree
  <1>1. Agree(Append(id, k), Append(id, m), Len(id)) BY <1>a, <1>b DEF Agree
  <1>c. (Len(id) + 1) - 1 = Len(id) BY <1>0
  <1>d. /\ Len(Append(id, k)) = Len(id) + 1 /\ Append(id, k)[Len(id) + 1] = k
        /\ Len(Append(id, m)) = Len(id) + 1 /\ Append(id, m)[Len(id) + 1] = m
    BY LeafPlaces
  <1>e. Agree(Append(id, k), Append(id, m), (Len(id) + 1) - 1) BY <1>1, <1>c
  <1>f. Len(id) + 1 \in 1..Len(Append(id, k)) /\ Len(id) + 1 <= Len(Append(id, m)) BY <1>0, <1>d
  <1>2. PartAt(Append(id, k), Append(id, m), Len(id) + 1) BY <1>d, <1>e, <1>f DEF PartAt
  <1>3. Before(Append(id, k), Append(id, m)) BY <1>0, <1>2, LeafPlaces, BeforeByPlace
  <1>4. Append(id, k)[Len(id) + 1] # Append(id, m)[Len(id) + 1] BY LeafPlaces
  <1>5. Len(id) + 1 \in 1..Len(Append(id, k)) BY <1>0, LeafPlaces
  <1>6. ~ Agree(Append(id, k), Append(id, m), Len(Append(id, k))) BY <1>4, <1>5 DEF Agree
  <1>7. QED BY <1>3, <1>6, LeafPlaces, PrefixByPlace

(* What comes after an identifier and is not below it comes after its       *)
(* leaves, and is not below them either.                                    *)
LEMMA AfterLeaves ==
  ASSUME NEW id \in Id, NEW k \in Nat, NEW b \in Id, Before(id, b), ~ Below(b, id)
  PROVE  Before(Append(id, k), b) /\ ~ IsPrefix(Append(id, k), b)
  <1>0. Len(id) \in Nat /\ Len(b) \in Nat /\ \A i \in 1..Len(id) : id[i] \in Nat BY DEF Id
  <1>1. PICK m \in Nat : PartAt(id, b, m) BY BeforeByPlace
  <1>2. m \in 1..Len(id) /\ m \in 1..Len(Append(id, k)) BY <1>0, <1>1, LeafPlaces DEF PartAt
  <1>3. \A i \in 1..Len(id) : Append(id, k)[i] = id[i] BY LeafPlaces DEF Agree
  <1>4. Agree(Append(id, k), b, m - 1) BY <1>0, <1>1, <1>2, <1>3 DEF PartAt, Agree
  <1>5. PartAt(Append(id, k), b, m) BY <1>1, <1>2, <1>3, <1>4 DEF PartAt
  <1>6. Append(id, k)[m] # b[m] BY <1>0, <1>1, <1>2, <1>3 DEF PartAt
  <1>7. ~ Agree(Append(id, k), b, Len(Append(id, k))) BY <1>2, <1>6 DEF Agree
  <1>8. QED BY <1>5, <1>7, LeafPlaces, PrefixByPlace, BeforeByPlace

(* What is above a leaf is the leaf or above its parent.                    *)
LEMMA AboveLeaf ==
  ASSUME NEW a \in Id, NEW id \in Id, NEW k \in Nat, IsPrefix(a, Append(id, k))
  PROVE  a = Append(id, k) \/ IsPrefix(a, id)
  <1>0. Len(id) \in Nat /\ Len(a) \in Nat BY DEF Id
  <1>1. Len(a) <= Len(id) + 1 /\ Agree(a, Append(id, k), Len(a)) BY LeafPlaces, PrefixByPlace
  <1>2. CASE Len(a) <= Len(id)
    <2>1. Agree(a, id, Len(a)) BY <1>0, <1>1, <1>2, LeafPlaces DEF Agree
    <2>2. QED BY <1>2, <2>1, PrefixByPlace
  <1>3. CASE Len(a) = Len(id) + 1
    <2>1. Len(Append(id, k)) = Len(a) /\ Append(id, k) \in Id BY <1>3, LeafPlaces
    <2>2. a = Append(id, k) BY <1>1, <2>1 DEF Agree, Id
    <2>3. QED BY <2>2
  <1>4. QED BY <1>0, <1>1, <1>2, <1>3

-----------------------------------------------------------------------------
(* Nodes of the tree of expansions.                                        *)

NodeIn(f, id) ==
    /\ id # <<>> /\ id[1] = Base
    /\ \A j \in 2..Len(id) : Above(id, j) \in DOMAIN f /\ id[j] < f[Above(id, j)]

LEMMA AboveSame ==
  ASSUME NEW a \in Id, NEW b \in Id, NEW j \in Nat \ {0}, j - 1 <= Len(a), j - 1 <= Len(b),
         Agree(a, b, j - 1)
  PROVE  Above(a, j) = Above(b, j)
  BY SamePrefix, j - 1 \in Nat DEF Above

LEMMA AboveEnd ==
  ASSUME NEW a \in Id PROVE Above(a, Len(a) + 1) = a
  <1>1. Len(a) \in Nat /\ (Len(a) + 1) - 1 = Len(a) BY DEF Id
  <1>2. QED BY <1>1 DEF Above, Id

LEMMA NodeKept ==
  ASSUME NEW f, NEW g, NEW id, NodeIn(f, id), \A x \in DOMAIN f : x \in DOMAIN g /\ g[x] = f[x]
  PROVE  NodeIn(g, id)
  BY DEF NodeIn

LEMMA NodeLeaf ==
  ASSUME NEW f, NEW id \in Id, NodeIn(f, id), id \in DOMAIN f, NEW k \in Nat, k < f[id]
  PROVE  NodeIn(f, Append(id, k))
  <1>0. Len(id) \in Nat /\ 1 \in 1..Len(id) BY DEF NodeIn, Id
  <1>1. Append(id, k)[1] = Base BY <1>0, LeafPlaces DEF NodeIn, Agree
  <1>2. ASSUME NEW j \in 2..Len(Append(id, k))
        PROVE  Above(Append(id, k), j) \in DOMAIN f /\ Append(id, k)[j] < f[Above(Append(id, k), j)]
    <2>0. j \in Nat \ {0} /\ Len(Append(id, k)) = Len(id) + 1 /\ Append(id, k) \in Id BY <1>2, LeafPlaces
    <2>6. j \in 2..(Len(id) + 1) BY <1>2, <2>0
    <2>7. j - 1 \in Nat /\ j - 1 <= Len(id) /\ j - 1 <= Len(Append(id, k)) BY <1>0, <2>0, <2>6
    <2>8. \A i \in 1..Len(id) : Append(id, k)[i] = id[i] BY LeafPlaces DEF Agree
    <2>1. j - 1 \in Nat /\ j - 1 <= Len(id) /\ j - 1 <= Len(Append(id, k)) /\ Agree(Append(id, k), id, j - 1)
      BY <1>0, <2>7, <2>8 DEF Agree
    <2>2. Above(Append(id, k), j) = Above(id, j) BY <2>0, <2>1, AboveSame
    <2>3. CASE j <= Len(id)
      <3>1. Append(id, k)[j] = id[j] BY <2>0, <2>3, <1>0, LeafPlaces DEF Agree
      <3>2. QED BY <2>0, <2>2, <2>3, <3>1, <1>2, <1>0 DEF NodeIn
    <2>4. CASE j = Len(id) + 1
      <3>1. Above(id, j) = id BY <2>4, AboveEnd
      <3>2. QED BY <2>2, <2>4, <3>1, LeafPlaces
    <2>5. QED BY <1>0, <2>0, <2>3, <2>4
  <1>3. QED BY <1>1, <1>2, LeafPlaces DEF NodeIn

(* What has a node below it was expanded.                                   *)
LEMMA NodeBelow ==
  ASSUME NEW f, NEW a \in Id, NEW b \in Id, a # <<>>, NodeIn(f, b), Below(b, a)
  PROVE  a \in DOMAIN f
  <1>0. Len(a) \in Nat \ {0} /\ Len(b) \in Nat BY DEF Id
  <1>1. Len(a) + 1 \in 2..Len(b) /\ (Len(a) + 1) - 1 = Len(a) /\ Len(a) + 1 \in Nat \ {0}
    BY <1>0 DEF Below
  <1>2. Above(a, Len(a) + 1) = Above(b, Len(a) + 1) BY <1>0, <1>1, AboveSame DEF Below
  <1>3. QED BY <1>1, <1>2, AboveEnd DEF NodeIn

-----------------------------------------------------------------------------
(* Where the walk goes next.                                               *)

LEMMA GreatestUpTo ==
  ASSUME NEW n \in Nat, NEW T \in SUBSET (1..n), T # {}
  PROVE  \E x \in T : \A y \in T : x >= y
  <1> DEFINE R == OpToRel(<, Nat)
             D == {d \in 0..n : n - d \in T}
  <1>1. IsWellFoundedOn(R, Nat) BY NatLessThanWellFounded
  <1>2. \A x, y \in Nat : <<x, y>> \in R <=> x < y BY DEF OpToRel
  <1>3. D \subseteq Nat OBVIOUS
  <1>4. D # {}
    <2>1. PICK x \in T : x \in 1..n OBVIOUS
    <2>2. n - x \in 0..n /\ n - (n - x) = x BY <2>1
    <2>3. n - x \in D BY <2>1, <2>2
    <2>4. QED BY <2>3
  <1>5. \A x \in T : x \in 1..n /\ n - x \in D
    <2> TAKE x \in T
    <2>2. x \in 1..n /\ n - x \in 0..n /\ n - (n - x) = x OBVIOUS
    <2>3. QED BY <2>2
  <1>6. \A d \in D : d \in 0..n /\ n - d \in T OBVIOUS
  <1> HIDE DEF R, D
  <1>7. PICK d \in D : \A e \in D : ~ (<<e, d>> \in R) BY <1>1, <1>3, <1>4, WFMin
  <1>8. \A y \in T : n - d >= y
    <2> TAKE y \in T
    <2>1. n - y \in D /\ y \in 1..n /\ d \in 0..n BY <1>5, <1>6
    <2>2. ~ (n - y < d) BY <1>2, <1>3, <1>7, <2>1
    <2>3. QED BY <2>1, <2>2
  <1>9. QED BY <1>6, <1>8

\* The walk goes from a to b, to the next leaf at level k.
Bump(a, b, k) ==
    k \in 1..Len(a) /\ b \in Id /\ Len(b) = k /\ Agree(b, a, k - 1) /\ b[k] = a[k] + 1

LEMMA AdvanceStep ==
  ASSUME current \in Id, caps \in Seq(Nat), Len(caps) = Len(current), Advance
  PROVE  /\ caps' \in Seq(Nat)
         /\ \/ AdvanceLevels = {} /\ current' = <<>>
            \/ \E k \in AdvanceLevels :
                /\ \A j \in AdvanceLevels : j <= k
                /\ Bump(current, current', k)
                /\ Len(caps') = k /\ \A j \in 1..k : caps'[j] = caps[j]
  <1>0. Len(current) \in Nat BY DEF Id
  <1>1. CASE AdvanceLevels = {}
    <2>1. current' = <<>> /\ caps' = SubSeq(caps, 1, 0) BY <1>1 DEF Advance
    <2>2. caps' \in Seq(Nat) BY <2>1
    <2>3. QED BY <1>1, <2>1, <2>2
  <1>2. CASE AdvanceLevels # {}
    <2>1. AdvanceLevels \in SUBSET (1..Len(current)) BY DEF AdvanceLevels
    <2>2. \E x \in AdvanceLevels : \A y \in AdvanceLevels : x >= y BY <1>0, <1>2, <2>1, GreatestUpTo
    <2>3. PICK k \in AdvanceLevels : k = Max(AdvanceLevels) /\ \A y \in AdvanceLevels : k >= y
      BY <2>2 DEF Max
    <2>4. k \in 1..Len(current) /\ k \in Nat \ {0} BY <1>0, <2>1
    <2>5. current' = [SubSeq(current, 1, k) EXCEPT ![k] = @ + 1] /\ caps' = SubSeq(caps, 1, k)
      BY <1>2, <2>3, <2>4 DEF Advance
    <2>6. PICK up : up = SubSeq(current, 1, k) OBVIOUS
    <2>14. up \in Id /\ Len(up) = k /\ \A i \in 1..k : up[i] = current[i]
      BY <1>0, <2>4, <2>6 DEF Id
    <2>15. \A i \in 1..k : up[i] \in Nat BY <2>14 DEF Id
    <2>7. PICK c : c = [up EXCEPT ![k] = @ + 1] OBVIOUS
    <2>8. c \in Id /\ Len(c) = k /\ c[k] = up[k] + 1 /\ \A i \in 1..k : i # k => c[i] = up[i]
      <3>1. DOMAIN up = 1..k /\ up \in [1..k -> Nat] BY <2>4, <2>14 DEF Id
      <3>2. c \in [1..k -> Nat] BY <2>4, <2>7, <2>15, <3>1
      <3>3. c \in Id /\ Len(c) = k BY <2>4, <3>2 DEF Id
      <3>4. QED BY <2>4, <2>7, <3>1, <3>3
    <2>9. current' = c BY <2>5, <2>6, <2>7
    <2>10. Bump(current, c, k) BY <2>4, <2>14, <2>8 DEF Bump, Agree
    <2>11. caps' \in Seq(Nat) /\ Len(caps') = k /\ \A j \in 1..k : caps'[j] = caps[j]
      BY <1>0, <2>4, <2>5
    <2>12. \A j \in AdvanceLevels : j <= k BY <2>1, <2>3, <2>4
    <2>13. QED BY <2>9, <2>10, <2>11, <2>12
  <1>3. QED BY <1>1, <1>2

(* All that was passed, and all that is below it, comes before the next.    *)
LEMMA BumpAfter ==
  ASSUME NEW a \in Id, NEW b, NEW k \in Nat, Bump(a, b, k),
         NEW x \in Id, x = a \/ Below(x, a) \/ Before(x, a)
  PROVE  Before(x, b)
  <1>0. Len(a) \in Nat /\ b \in Id /\ \A i \in 1..Len(a) : a[i] \in Nat BY DEF Bump, Id
  <1>1. PartAt(a, b, k) BY <1>0 DEF Bump, PartAt, Agree
  <1>2. CASE x = a BY <1>0, <1>1, <1>2, BeforeByPlace
  <1>3. CASE Below(x, a)
    <2>1. PartAt(x, b, k) BY <1>0, <1>1, <1>3, Len(x) \in Nat DEF PartAt, Agree, Below, Id
    <2>2. QED BY <1>0, <2>1, BeforeByPlace
  <1>4. CASE Before(x, a)
    <2>1. Before(a, b) BY <1>0, <1>1, BeforeByPlace
    <2>2. QED BY <1>0, <1>4, <2>1, BeforeTransitive
  <1>5. QED BY <1>2, <1>3, <1>4

(* What parts from a at a level up to that of the next is the next or comes *)
(* after it.                                                                *)
LEMMA BumpNext ==
  ASSUME NEW a \in Id, NEW b, NEW k \in Nat, Bump(a, b, k),
         NEW y \in Id, NEW m \in Nat, PartAt(a, y, m), m <= k
  PROVE  y = b \/ Before(b, y)
  <1>0. /\ Len(a) \in Nat /\ Len(y) \in Nat /\ b \in Id /\ Len(b) = k /\ k \in 1..Len(a) /\ m \in 1..Len(a)
        /\ m <= Len(y)
        /\ \A i \in 1..Len(a) : a[i] \in Nat
        /\ \A i \in 1..Len(y) : y[i] \in Nat
        /\ \A i \in 1..(k - 1) : b[i] = a[i]
        /\ b[k] = a[k] + 1
        /\ \A i \in 1..(m - 1) : a[i] = y[i]
        /\ a[m] < y[m]
    <2>1. Len(a) \in Nat /\ Len(y) \in Nat BY DEF Id
    <2>2. (\A i \in 1..Len(a) : a[i] \in Nat) /\ (\A i \in 1..Len(y) : y[i] \in Nat) BY DEF Id
    <2>3. QED BY <2>1, <2>2 DEF Bump, PartAt, Agree
  <1>1. CASE m < k
    <2>1. PartAt(b, y, m) BY <1>0, <1>1 DEF PartAt, Agree
    <2>2. QED BY <1>0, <2>1, BeforeByPlace
  <1>2. CASE m = k /\ y[k] > a[k] + 1
    <2>1. PartAt(b, y, k) BY <1>0, <1>2 DEF PartAt, Agree
    <2>2. QED BY <1>0, <2>1, BeforeByPlace
  <1>3. CASE m = k /\ y[k] = a[k] + 1
    <2>1. \A i \in 1..k : b[i] = y[i]
      <3> TAKE i \in 1..k
      <3>1. CASE i = k BY <1>0, <1>3, <3>1
      <3>2. CASE i < k
        <4>1. i \in 1..(k - 1) BY <1>0, <3>2
        <4>2. QED BY <4>1, <1>0, <1>3
      <3>3. QED BY <1>0, <3>1, <3>2
    <2>2. CASE Len(y) = k BY <1>0, <2>1, <2>2 DEF Id
    <2>3. CASE Len(y) > k
      <3>1. Below(y, b) BY <1>0, <2>1, <2>3 DEF Below, Agree
      <3>2. QED BY <1>0, <3>1, BeforeByPlace
    <2>4. QED BY <1>0, <1>3, <2>2, <2>3
  <1>4. y[m] \in Nat /\ a[m] \in Nat /\ m \in Nat BY <1>0
  <1>5. QED BY <1>0, <1>1, <1>2, <1>3, <1>4

-----------------------------------------------------------------------------
(* Lines of the output.                                                    *)

Line == [indent : Nat, leaf : Id]
LineBefore(x, y) ==
    x.leaf # <<>> /\ y.leaf # <<>> =>
        Before(x.leaf, y.leaf) /\ (IsPrefix(x.leaf, y.leaf) => x.indent < y.indent)
Ordered(s) == \A i, j \in 1..Len(s) : i < j => LineBefore(s[i], s[j])
Spliced(s, l, p) == SubSeq(s, 1, p) \o l \o SubSeq(s, p + 1, Len(s))

LEMMA SplicePlaces ==
  ASSUME NEW s \in Seq(Line), NEW l \in Seq(Line), NEW p \in 0..Len(s), NEW t, t = Spliced(s, l, p)
  PROVE  /\ t \in Seq(Line) /\ Len(t) = Len(s) + Len(l)
         /\ \A i \in 1..Len(t) :
                t[i] = IF i <= p THEN s[i] ELSE IF i <= p + Len(l) THEN l[i - p] ELSE s[i - Len(l)]
  <1>0. Len(s) \in Nat /\ Len(l) \in Nat /\ p \in Nat OBVIOUS
  <1>1. PICK a : a = SubSeq(s, 1, p) OBVIOUS
  <1>2. PICK b : b = SubSeq(s, p + 1, Len(s)) OBVIOUS
  <1>3. a \in Seq(Line) /\ Len(a) = p /\ \A i \in 1..p : a[i] = s[i] BY <1>0, <1>1
  <1>4. b \in Seq(Line) /\ Len(b) = Len(s) - p /\ \A i \in 1..(Len(s) - p) : b[i] = s[i + p] BY <1>0, <1>2
  <1>5. t = (a \o l) \o b BY <1>1, <1>2 DEF Spliced
  <1>6. PICK c : c = a \o l OBVIOUS
  <1>7. c \in Seq(Line) /\ Len(c) = p + Len(l)
        /\ \A i \in 1..(p + Len(l)) : c[i] = IF i <= p THEN a[i] ELSE l[i - p]
    BY <1>0, <1>3, <1>6
  <1>8. t \in Seq(Line) /\ Len(t) = Len(c) + Len(b)
        /\ \A i \in 1..Len(t) : t[i] = IF i <= Len(c) THEN c[i] ELSE b[i - Len(c)]
    <2>1. t = c \o b BY <1>5, <1>6
    <2>2. c \in Seq(Line) /\ b \in Seq(Line) BY <1>4, <1>7
    <2>3. QED BY <2>1, <2>2
  <1>9. ASSUME NEW i \in 1..Len(t)
        PROVE  t[i] = IF i <= p THEN s[i] ELSE IF i <= p + Len(l) THEN l[i - p] ELSE s[i - Len(l)]
    <2>1. CASE i <= p BY <1>0, <1>3, <1>7, <1>8, <1>9, <2>1
    <2>2. CASE i > p /\ i <= p + Len(l) BY <1>0, <1>7, <1>8, <1>9, <2>2
    <2>3. CASE i > p + Len(l)
      <3>1. i - (p + Len(l)) \in 1..(Len(s) - p) BY <1>0, <1>4, <1>7, <1>8, <1>9, <2>3
      <3>2. (i - (p + Len(l))) + p = i - Len(l) BY <1>0, <1>9
      <3>3. b[i - (p + Len(l))] = s[i - Len(l)] BY <1>4, <3>1, <3>2
      <3>4. t[i] = b[i - (p + Len(l))] BY <1>0, <1>7, <1>8, <1>9, <2>3
      <3>5. QED BY <1>0, <3>3, <3>4, <2>3, <1>9
    <2>4. QED BY <1>0, <1>9, <2>1, <2>2, <2>3
  <1>10. QED BY <1>0, <1>4, <1>7, <1>8, <1>9

\* The lines of t are those of s and of l.
LinesOf(t, s, l) ==
    /\ \A i \in 1..Len(t) : (\E j \in 1..Len(s) : t[i] = s[j]) \/ (\E j \in 1..Len(l) : t[i] = l[j])
    /\ \A j \in 1..Len(s) : \E i \in 1..Len(t) : t[i] = s[j]
    /\ \A j \in 1..Len(l) : \E i \in 1..Len(t) : t[i] = l[j]

(* Each line of the result was there or is new, and none is lost.           *)
LEMMA SpliceLines ==
  ASSUME NEW s \in Seq(Line), NEW l \in Seq(Line), NEW p \in 0..Len(s), NEW t, t = Spliced(s, l, p)
  PROVE  LinesOf(t, s, l)
  <1>0. Len(s) \in Nat /\ Len(l) \in Nat /\ p \in Nat /\ p <= Len(s) OBVIOUS
  <1>1. Len(t) = Len(s) + Len(l)
        /\ \A i \in 1..Len(t) :
               t[i] = IF i <= p THEN s[i] ELSE IF i <= p + Len(l) THEN l[i - p] ELSE s[i - Len(l)]
    BY SplicePlaces
  <1>2. ASSUME NEW i \in 1..Len(t)
        PROVE  (\E j \in 1..Len(s) : t[i] = s[j]) \/ (\E j \in 1..Len(l) : t[i] = l[j])
    <2>1. CASE i <= p BY <1>0, <1>1, <2>1
    <2>2. CASE i > p /\ i <= p + Len(l)
      <3>1. i - p \in 1..Len(l) /\ t[i] = l[i - p] BY <1>0, <1>1, <2>2
      <3>2. QED BY <3>1
    <2>3. CASE i > p + Len(l)
      <3>1. i - Len(l) \in 1..Len(s) /\ t[i] = s[i - Len(l)] BY <1>0, <1>1, <2>3
      <3>2. QED BY <3>1
    <2>4. QED BY <1>0, <1>1, <2>1, <2>2, <2>3
  <1>3. ASSUME NEW j \in 1..Len(s) PROVE \E i \in 1..Len(t) : t[i] = s[j]
    <2>1. CASE j <= p
      <3>1. j \in 1..Len(t) BY <1>0, <1>1
      <3>2. t[j] = s[j] BY <1>1, <2>1, <3>1
      <3>3. QED BY <3>1, <3>2
    <2>2. CASE j > p
      <3>1. j + Len(l) \in 1..Len(t) /\ (j + Len(l)) - Len(l) = j /\ ~ (j + Len(l) <= p)
            /\ ~ (j + Len(l) <= p + Len(l))
        BY <1>0, <1>1, <2>2
      <3>2. t[j + Len(l)] = s[j] BY <1>1, <3>1
      <3>3. QED BY <3>1, <3>2
    <2>3. QED BY <1>0, <2>1, <2>2
  <1>4. ASSUME NEW j \in 1..Len(l) PROVE \E i \in 1..Len(t) : t[i] = l[j]
    <2>1. j + p \in 1..Len(t) /\ (j + p) - p = j /\ ~ (j + p <= p) /\ j + p <= p + Len(l) BY <1>0, <1>1
    <2>2. t[j + p] = l[j] BY <1>1, <2>1
    <2>3. QED BY <2>1, <2>2
  <1>5. QED BY <1>2, <1>3, <1>4 DEF LinesOf

LEMMA SpliceOrdered ==
  ASSUME NEW s \in Seq(Line), NEW l \in Seq(Line), NEW p \in 0..Len(s), NEW t, t = Spliced(s, l, p),
         Ordered(s), Ordered(l),
         \A i \in 1..p, j \in 1..Len(l) : LineBefore(s[i], l[j]),
         \A i \in 1..Len(l), j \in (p + 1)..Len(s) : LineBefore(l[i], s[j])
  PROVE  Ordered(t)
  <1>0. Len(s) \in Nat /\ Len(l) \in Nat /\ p \in Nat /\ p <= Len(s) OBVIOUS
  <1>1. Len(t) = Len(s) + Len(l)
        /\ \A i \in 1..Len(t) :
               t[i] = IF i <= p THEN s[i] ELSE IF i <= p + Len(l) THEN l[i - p] ELSE s[i - Len(l)]
    BY SplicePlaces
  <1>2. SUFFICES ASSUME NEW i \in 1..Len(t), NEW j \in 1..Len(t), i < j
                 PROVE  LineBefore(t[i], t[j])
    BY DEF Ordered
  <1>3. CASE i <= p
    <2>0. i \in 1..p /\ i \in 1..Len(s) /\ t[i] = s[i] BY <1>0, <1>1, <1>3
    <2>1. CASE j <= p
      <3>1. j \in 1..Len(s) /\ t[j] = s[j] BY <1>0, <1>1, <2>1
      <3>2. QED BY <1>2, <2>0, <3>1 DEF Ordered
    <2>2. CASE j > p /\ j <= p + Len(l)
      <3>1. j - p \in 1..Len(l) /\ t[j] = l[j - p] BY <1>0, <1>1, <2>2
      <3>2. QED BY <2>0, <3>1
    <2>3. CASE j > p + Len(l)
      <3>1. j - Len(l) \in 1..Len(s) /\ t[j] = s[j - Len(l)] /\ i < j - Len(l) BY <1>0, <1>1, <1>3, <2>3
      <3>2. QED BY <2>0, <3>1 DEF Ordered
    <2>4. QED BY <1>0, <1>1, <2>1, <2>2, <2>3
  <1>4. CASE i > p /\ i <= p + Len(l)
    <2>0. i - p \in 1..Len(l) /\ t[i] = l[i - p] BY <1>0, <1>1, <1>4
    <2>2. CASE j <= p + Len(l)
      <3>1. j - p \in 1..Len(l) /\ t[j] = l[j - p] /\ i - p < j - p BY <1>0, <1>1, <1>2, <1>4, <2>2
      <3>2. QED BY <2>0, <3>1 DEF Ordered
    <2>3. CASE j > p + Len(l)
      <3>1. j - Len(l) \in (p + 1)..Len(s) /\ t[j] = s[j - Len(l)] BY <1>0, <1>1, <2>3
      <3>2. QED BY <2>0, <3>1
    <2>4. QED BY <1>0, <1>1, <2>2, <2>3
  <1>5. CASE i > p + Len(l)
    <2>0. i - Len(l) \in 1..Len(s) /\ t[i] = s[i - Len(l)] BY <1>0, <1>1, <1>5
    <2>1. j - Len(l) \in 1..Len(s) /\ t[j] = s[j - Len(l)] /\ i - Len(l) < j - Len(l)
      BY <1>0, <1>1, <1>2, <1>5
    <2>2. QED BY <2>0, <2>1 DEF Ordered
  <1>6. QED BY <1>0, <1>1, <1>3, <1>4, <1>5

\* The lines l are those of the n leaves of id, behind d others that are not of a leaf.
LinesOfLeaves(l, id, n, ind, d) ==
    /\ l \in Seq(Line) /\ Len(l) = n + d
    /\ \A m \in 1..d : l[m].leaf = <<>>
    /\ \A m \in (d + 1)..(n + d) : l[m] = Leaf(ind, Append(id, (m - d) - 1))

\* In l, the lines of leaves are those of the n leaves of id, in order.
LeafLines(l, id, n, ind) ==
    /\ l \in Seq(Line) /\ Ordered(l)
    /\ \A m \in 1..Len(l) : l[m].leaf # <<>> =>
            l[m].indent = ind /\ \E k \in 0..(n - 1) : l[m].leaf = Append(id, k)
    /\ \A k \in 0..(n - 1) : \E m \in 1..Len(l) : l[m].leaf = Append(id, k)

LEMMA LeavesOrdered ==
  ASSUME NEW id \in Id, NEW n \in Nat, NEW ind \in Nat, NEW d \in Nat, NEW l,
         LinesOfLeaves(l, id, n, ind, d)
  PROVE  LeafLines(l, id, n, ind)
  <1>0. l \in Seq(Line) /\ Len(l) = n + d BY DEF LinesOfLeaves
  <1>1. ASSUME NEW m \in (d + 1)..(n + d)
        PROVE  /\ (m - d) - 1 \in 0..(n - 1)
               /\ l[m].indent = ind /\ l[m].leaf = Append(id, (m - d) - 1)
    <2>1. (m - d) - 1 \in 0..(n - 1) BY <1>1
    <2>2. l[m] = Leaf(ind, Append(id, (m - d) - 1)) BY <1>1 DEF LinesOfLeaves
    <2>3. QED BY <2>1, <2>2 DEF Leaf
  <1>2. ASSUME NEW m \in 1..Len(l), l[m].leaf # <<>> PROVE m \in (d + 1)..(n + d)
    BY <1>0, <1>2 DEF LinesOfLeaves
  <1>3. Ordered(l)
    <2>1. SUFFICES ASSUME NEW i \in 1..Len(l), NEW j \in 1..Len(l), i < j, l[i].leaf # <<>>, l[j].leaf # <<>>
                   PROVE  Before(l[i].leaf, l[j].leaf) /\ ~ IsPrefix(l[i].leaf, l[j].leaf)
      BY DEF Ordered, LineBefore
    <2>2. i \in (d + 1)..(n + d) /\ j \in (d + 1)..(n + d) BY <1>2, <2>1
    <2>3. (i - d) - 1 \in Nat /\ (j - d) - 1 \in Nat /\ (i - d) - 1 < (j - d) - 1 BY <2>1, <2>2
    <2>4. l[i].leaf = Append(id, (i - d) - 1) /\ l[j].leaf = Append(id, (j - d) - 1) BY <1>1, <2>2
    <2>5. QED BY <2>3, <2>4, LeavesInOrder
  <1>4. ASSUME NEW k \in 0..(n - 1) PROVE \E m \in 1..Len(l) : l[m].leaf = Append(id, k)
    <2>1. k + d + 1 \in (d + 1)..(n + d) /\ ((k + d + 1) - d) - 1 = k /\ k + d + 1 \in 1..Len(l)
      BY <1>0
    <2>2. l[k + d + 1].leaf = Append(id, k) BY <1>1, <2>1
    <2>3. QED BY <2>1, <2>2
  <1>5. ASSUME NEW m \in 1..Len(l), l[m].leaf # <<>>
        PROVE  l[m].indent = ind /\ \E k \in 0..(n - 1) : l[m].leaf = Append(id, k)
    <2>1. m \in (d + 1)..(n + d) BY <1>2, <1>5
    <2>2. QED BY <1>1, <2>1
  <1>6. QED BY <1>0, <1>3, <1>4, <1>5 DEF LeafLines

LEMMA NewLinesShape ==
  ASSUME NEW id \in Id, Len(id) > 0, NEW n \in Nat \ {0}, NEW ind \in Nat,
         NEW unfolds \in {"yes", "no"}, unfolds = "no" => n = 1
  PROVE  \/ n = 1 /\ NewLines(id, Tree(id, n, unfolds, ind)) = <<>>
         \/ Len(id) = 1 /\ LinesOfLeaves(NewLines(id, Tree(id, n, unfolds, ind)), id, n, ind, 0)
         \/ Len(id) = 1 /\ LinesOfLeaves(NewLines(id, Tree(id, n, unfolds, ind)), id, n, ind + 1, 1)
         \/ LinesOfLeaves(NewLines(id, Tree(id, n, unfolds, ind)), id, n, ind + 1, 0)
  <1>0. Len(id) \in Nat BY DEF Id
  <1>1. CASE unfolds = "no"
    <2>1. PICK x : x = Leaf(ind, Append(id, 0)) OBVIOUS
    <2>2. x \in Line BY <2>1, LeafPlaces DEF Line, Leaf
    <2>3. n = 1 /\ Tree(id, n, unfolds, ind) = <<x>> BY <1>1, <2>1 DEF Tree
    <2>4. CASE Len(id) = 1
      <3>1. NewLines(id, Tree(id, n, unfolds, ind)) = <<x>> BY <2>3, <2>4 DEF NewLines
      <3>2. LinesOfLeaves(<<x>>, id, 1, ind, 0) BY <2>1, <2>2 DEF LinesOfLeaves
      <3>3. QED BY <2>3, <2>4, <3>1, <3>2
    <2>5. CASE Len(id) # 1
      <3>1. NewLines(id, Tree(id, n, unfolds, ind)) = Tail(<<x>>) BY <2>3, <2>5 DEF NewLines
      <3>3. Tail(<<x>>) = <<>> OBVIOUS
      <3>2. QED BY <2>3, <3>1, <3>3
    <2>6. QED BY <2>4, <2>5
  <1>2. CASE unfolds = "yes"
    <2>1. PICK l : l = [k \in 1..n |-> Leaf(ind + 1, Append(id, k - 1))] OBVIOUS
    <2>2. PICK t : t = <<Intro(ind)>> \o l OBVIOUS
    <2>3. Tree(id, n, unfolds, ind) = t BY <1>2, <2>1, <2>2 DEF Tree, Unfolded
    <2>4. \A k \in 1..n : Leaf(ind + 1, Append(id, k - 1)) \in Line
      <3> TAKE k \in 1..n
      <3>1. k - 1 \in Nat OBVIOUS
      <3>2. QED BY <3>1, LeafPlaces DEF Line, Leaf
    <2>5. l \in Seq(Line) /\ Len(l) = n /\ \A k \in 1..n : l[k] = Leaf(ind + 1, Append(id, k - 1))
      BY <2>1, <2>4
    <2>6. Intro(ind) \in Line /\ Intro(ind).leaf = <<>> BY DEF Line, Intro, Id
    <2>7. PICK x \in Line : x = Intro(ind) BY <2>6
    <2>8. t \in Seq(Line) /\ Len(t) = n + 1 /\ t[1] = x /\ \A m \in 2..(n + 1) : t[m] = l[m - 1]
      BY <2>2, <2>5, <2>7
    <2>9. CASE Len(id) = 1
      <3>1. \A m \in 2..(n + 1) : t[m] = Leaf(ind + 1, Append(id, (m - 1) - 1))
        <4> TAKE m \in 2..(n + 1)
        <4>1. m - 1 \in 1..n OBVIOUS
        <4>2. QED BY <4>1, <2>5, <2>8
      <3>2. LinesOfLeaves(t, id, n, ind + 1, 1) BY <2>6, <2>7, <2>8, <3>1 DEF LinesOfLeaves
      <3>3. QED BY <2>3, <2>9, <3>2 DEF NewLines
    <2>10. CASE Len(id) # 1
      <3>1. Tail(t) \in Seq(Line) /\ Len(Tail(t)) = n BY <2>8
      <3>2. \A m \in 1..n : Tail(t)[m] = l[m]
        <4> TAKE m \in 1..n
        <4>1. Tail(t)[m] = t[m + 1] /\ m + 1 \in 2..(n + 1) /\ (m + 1) - 1 = m BY <2>8
        <4>2. QED BY <4>1, <2>8
      <3>3. \A m \in 1..n : Tail(t)[m] = Leaf(ind + 1, Append(id, (m - 0) - 1))
        <4> TAKE m \in 1..n
        <4>1. m - 0 = m OBVIOUS
        <4>2. QED BY <4>1, <3>2, <2>5
      <3>4. LinesOfLeaves(Tail(t), id, n, ind + 1, 0) BY <3>1, <3>3 DEF LinesOfLeaves
      <3>5. QED BY <2>3, <2>10, <3>4 DEF NewLines
    <2>11. QED BY <2>9, <2>10
  <1>3. QED BY <1>1, <1>2

-----------------------------------------------------------------------------
(* The walk through the tree.                                              *)

LEMMA CurrentFacts ==
  ASSUME ExpandInv, current # <<>>
  PROVE  /\ current \in Id /\ Len(current) \in Nat \ {0}
         /\ \A j \in 1..Len(current) : current[j] \in Nat
         /\ NodeIn(leaves, current) /\ current[1] = 0
         /\ current \notin DOMAIN leaves /\ current \notin DOMAIN results
         /\ skipped = "no"
         /\ caps \in Seq(Nat) /\ Len(caps) = Len(current) /\ caps[1] = 1
         /\ \A j \in 2..Len(current) : caps[j] = leaves[Above(current, j)] /\ caps[j] > 1
         /\ \A id \in DOMAIN leaves \cup DOMAIN results : id \in Id /\ Before(id, current)
  <1>1. current \in Id /\ caps \in Seq(Nat) BY DEF ExpandInv, ExpandTypeOK, Id
  <1>2. Len(current) \in Nat \ {0} /\ \A j \in 1..Len(current) : current[j] \in Nat BY <1>1 DEF Id
  <1>3. CurrentOK /\ CountsFailures /\ ExpandTypeOK BY DEF ExpandInv
  <1>4. NodeIn(leaves, current) BY <1>3 DEF CurrentOK, IsNode, NodeIn
  <1>5. current[1] = 0 /\ caps[1] = 1 /\ Len(caps) = Len(current) BY <1>3, <1>4 DEF CurrentOK, NodeIn, Base
  <1>6. \A id \in DOMAIN leaves \cup DOMAIN results : id \in Id /\ Before(id, current)
    BY <1>3 DEF CurrentOK, ExpandTypeOK, Id
  <1>7. current \notin DOMAIN leaves /\ current \notin DOMAIN results BY <1>1, <1>6, NotBeforeItself
  <1>8. skipped = "no" BY <1>3 DEF CountsFailures, ExpandTypeOK
  <1>9. QED BY <1>1, <1>2, <1>3, <1>4, <1>5, <1>6, <1>7, <1>8 DEF CurrentOK

(* No node is below what is asked about, so one that comes later parts from *)
(* it, at a level that has another leaf.                                    *)
LEMMA LaterParts ==
  ASSUME ExpandInv, current # <<>>, NEW y \in Id, NodeIn(leaves, y), Before(current, y)
  PROVE  ~ Below(y, current) /\ \E m \in AdvanceLevels : PartAt(current, y, m)
  <1>1. ~ Below(y, current) BY CurrentFacts, NodeBelow
  <1>2. PICK m \in Nat : PartAt(current, y, m) BY <1>1, CurrentFacts, BeforeByPlace
  <1>3. Len(y) \in Nat /\ \A j \in 1..Len(y) : y[j] \in Nat BY DEF Id
  <1>4. m \in 1..Len(current) /\ m \in 1..Len(y) /\ Agree(current, y, m - 1) /\ current[m] < y[m]
    BY <1>2, <1>3, CurrentFacts DEF PartAt
  <1>5. m # 1
    <2>1. y[1] = 0 BY DEF NodeIn, Base
    <2>2. QED BY <2>1, <1>4, CurrentFacts
  <1>6. m \in 2..Len(current) /\ m \in 2..Len(y) /\ m \in Nat \ {0} /\ m - 1 <= Len(current) /\ m - 1 <= Len(y)
    BY <1>3, <1>4, <1>5, CurrentFacts
  <1>7. Above(current, m) = Above(y, m) BY <1>4, <1>6, AboveSame, CurrentFacts
  <1>8. y[m] < caps[m] BY <1>6, <1>7, CurrentFacts DEF NodeIn
  <1>9. y[m] \in Nat /\ current[m] \in Nat /\ caps[m] \in Nat BY <1>3, <1>4, CurrentFacts
  <1>10. current[m] + 1 < caps[m] BY <1>4, <1>8, <1>9
  <1>11. m \in AdvanceLevels BY <1>4, <1>10 DEF AdvanceLevels
  <1>12. QED BY <1>1, <1>2, <1>11

\* A node that came later is asked about now, or still comes later.
NoneSkipped ==
    \A y \in Id : NodeIn(leaves, y) /\ Before(current, y) =>
        current' # <<>> /\ (y = current' \/ Before(current', y))

LEMMA AdvanceNoneSkipped ==
  ASSUME ExpandInv, current # <<>>, Advance PROVE NoneSkipped
  <1>1. SUFFICES ASSUME NEW y \in Id, NodeIn(leaves, y), Before(current, y)
                 PROVE  current' # <<>> /\ (y = current' \/ Before(current', y))
    BY DEF NoneSkipped
  <1>2. PICK m \in AdvanceLevels : PartAt(current, y, m) BY <1>1, LaterParts
  <1>3. PICK k \in AdvanceLevels : m <= k /\ Bump(current, current', k)
    BY <1>2, AdvanceStep, CurrentFacts
  <1>4. k \in Nat /\ m \in Nat /\ k > 0 BY CurrentFacts DEF AdvanceLevels
  <1>5. y = current' \/ Before(current', y) BY <1>2, <1>3, <1>4, BumpNext, CurrentFacts
  <1>6. current' # <<>>
    <2>1. Len(current') = k BY <1>3 DEF Bump
    <2>2. QED BY <2>1, <1>4
  <1>7. QED BY <1>5, <1>6

LEMMA AdvanceCurrentOK ==
  ASSUME ExpandInv, current # <<>>, Advance,
         \A x \in DOMAIN leaves : x \in DOMAIN leaves' /\ leaves'[x] = leaves[x],
         DOMAIN leaves' \cup DOMAIN results'
            \subseteq DOMAIN leaves \cup DOMAIN results \cup {current, Append(current, 0)}
  PROVE  current' \in Id /\ caps' \in Seq(Nat) /\ CurrentOK'
  <1>0. caps' \in Seq(Nat) BY AdvanceStep, CurrentFacts
  <1>1. CASE current' = <<>> BY <1>0, <1>1 DEF CurrentOK, Id
  <1>2. CASE current' # <<>>
    <2>1. PICK k \in AdvanceLevels : /\ Bump(current, current', k)
                                     /\ Len(caps') = k /\ \A j \in 1..k : caps'[j] = caps[j]
      BY <1>2, AdvanceStep, CurrentFacts
    <2>2. k \in 1..Len(current) /\ current[k] + 1 < caps[k] BY DEF AdvanceLevels
    <2>3. k # 1 BY <2>2, CurrentFacts
    <2>4. k \in 2..Len(current) /\ k \in Nat /\ Len(current) \in Nat BY <2>2, <2>3, CurrentFacts
    <2>5. current' \in Id /\ Len(current') = k /\ Agree(current', current, k - 1)
          /\ current'[k] = current[k] + 1
      BY <2>1 DEF Bump
    <2>6. \A j \in 2..k : Above(current', j) = Above(current, j)
      <3> TAKE j \in 2..k
      <3>1. j \in Nat \ {0} /\ j - 1 <= Len(current) /\ j - 1 <= Len(current') BY <2>4, <2>5
      <3>2. Agree(current', current, j - 1) BY <2>4, <2>5 DEF Agree
      <3>3. QED BY <2>5, <3>1, <3>2, AboveSame, CurrentFacts
    <2>7. current'[1] = Base BY <2>4, <2>5, CurrentFacts DEF Agree, Base
    <2>8. \A j \in 2..k : /\ Above(current', j) \in DOMAIN leaves'
                          /\ current'[j] < leaves'[Above(current', j)]
                          /\ caps'[j] = leaves'[Above(current', j)] /\ caps'[j] > 1
      <3> TAKE j \in 2..k
      <3>1. j \in 2..Len(current) /\ j \in 1..k BY <2>4
      <3>2. Above(current, j) \in DOMAIN leaves /\ current[j] < leaves[Above(current, j)]
        BY <3>1, CurrentFacts DEF NodeIn
      <3>3. Above(current', j) \in DOMAIN leaves' /\ leaves'[Above(current', j)] = leaves[Above(current, j)]
        BY <2>6, <3>2
      <3>4. caps'[j] = leaves[Above(current, j)] /\ caps'[j] > 1 BY <2>1, <3>1, CurrentFacts
      <3>5. current'[j] < caps'[j]
        <4>1. CASE j = k BY <4>1, <2>1, <2>2, <2>5, <3>1
        <4>2. CASE j # k
          <5>1. j \in 1..(k - 1) BY <2>4, <4>2
          <5>2. current'[j] = current[j] BY <2>5, <5>1 DEF Agree
          <5>3. QED BY <3>2, <3>4, <5>2
        <4>3. QED BY <4>1, <4>2
      <3>6. QED BY <3>3, <3>4, <3>5
    <2>9. Len(current') <= MaxDepth
      <3>1. Len(current) <= MaxDepth /\ MaxDepth \in Nat BY ExpandAssumption DEF ExpandInv, CurrentOK
      <3>2. QED BY <2>4, <2>5, <3>1
    <2>10. caps'[1] = Base + 1 BY <2>1, <2>4, CurrentFacts DEF Base
    <2>11. ASSUME NEW id \in DOMAIN leaves' \cup DOMAIN results' PROVE Before(id, current')
      <3>1. id \in DOMAIN leaves \cup DOMAIN results \/ id = current \/ id = Append(current, 0) BY <2>11
      <3>2. Below(Append(current, 0), current) /\ Append(current, 0) \in Id
        <4>1. current \in Id /\ Len(current) \in Nat BY CurrentFacts
        <4>2. QED BY <4>1, LeafPlaces DEF Below
      <3>3. id \in Id /\ (id = current \/ Below(id, current) \/ Before(id, current))
        BY <3>1, <3>2, CurrentFacts
      <3>4. QED BY <2>1, <2>4, <3>3, BumpAfter, CurrentFacts
    <2>12. IsNode(current)' BY <1>2, <2>5, <2>7, <2>8 DEF IsNode
    <2>13. Len(caps') = Len(current') BY <2>1, <2>5
    <2>14. \A j \in 2..Len(current') : caps'[j] = leaves'[Above(current', j)] /\ caps'[j] > 1
      BY <2>5, <2>8
    <2>15. CurrentOK' BY <2>9, <2>10, <2>11, <2>12, <2>13, <2>14 DEF CurrentOK
    <2>16. QED BY <1>0, <2>5, <2>15
  <1>3. QED BY <1>1, <1>2

LEMMA DescendNoneSkipped ==
  ASSUME ExpandInv, current # <<>>, current' = Append(current, 0) PROVE NoneSkipped
  <1>1. SUFFICES ASSUME NEW y \in Id, NodeIn(leaves, y), Before(current, y)
                 PROVE  current' # <<>> /\ (y = current' \/ Before(current', y))
    BY DEF NoneSkipped
  <1>2. ~ Below(y, current) BY <1>1, LaterParts
  <1>3. Before(Append(current, 0), y) BY <1>1, <1>2, AfterLeaves, CurrentFacts
  <1>4. Append(current, 0) # <<>> BY LeafPlaces, CurrentFacts
  <1>5. QED BY <1>3, <1>4

LEMMA DescendCurrentOK ==
  ASSUME ExpandInv, current # <<>>, NEW n \in Nat, n > 1, Len(current) < MaxDepth, Descend(n),
         \A x \in DOMAIN leaves : x \in DOMAIN leaves' /\ leaves'[x] = leaves[x],
         current \in DOMAIN leaves', leaves'[current] = n,
         DOMAIN leaves' \cup DOMAIN results' \subseteq DOMAIN leaves \cup DOMAIN results \cup {current}
  PROVE  current' \in Id /\ caps' \in Seq(Nat) /\ CurrentOK'
  <1>0. current' = Append(current, 0) /\ caps' = Append(caps, n) BY DEF Descend
  <1>1. /\ current \in Id /\ Len(current) \in Nat \ {0} /\ caps \in Seq(Nat) /\ Len(caps) = Len(current)
        /\ NodeIn(leaves, current)
    BY CurrentFacts
  <1>2. /\ current' \in Id /\ Len(current') = Len(current) + 1 /\ current' # <<>>
        /\ Agree(current', current, Len(current)) /\ current'[Len(current) + 1] = 0
    BY <1>0, <1>1, LeafPlaces
  <1>3. /\ caps' \in Seq(Nat) /\ Len(caps') = Len(current')
        /\ caps'[Len(current) + 1] = n /\ \A j \in 1..Len(current) : caps'[j] = caps[j]
    BY <1>0, <1>1, <1>2
  <1>4. NodeIn(leaves', current)
    <2>1. PICK f : f = leaves' OBVIOUS
    <2>2. \A x \in DOMAIN leaves : x \in DOMAIN f /\ f[x] = leaves[x] BY <2>1
    <2>3. NodeIn(f, current) BY <1>1, <2>2, NodeKept
    <2>4. QED BY <2>1, <2>3
  <1>5. NodeIn(leaves', current')
    <2>1. PICK f : f = leaves' OBVIOUS
    <2>2. NodeIn(f, current) /\ current \in DOMAIN f /\ 0 < f[current] BY <1>4, <2>1
    <2>3. NodeIn(f, Append(current, 0)) BY <1>1, <2>2, NodeLeaf
    <2>4. QED BY <1>0, <2>1, <2>3
  <1>6. IsNode(current)' BY <1>5 DEF IsNode, NodeIn
  <1>7. \A j \in 2..Len(current') : caps'[j] = leaves'[Above(current', j)] /\ caps'[j] > 1
    <2> TAKE j \in 2..Len(current')
    <2>1. /\ j \in Nat \ {0} /\ j - 1 <= Len(current) /\ j - 1 <= Len(current')
          /\ j <= Len(current) \/ j = Len(current) + 1
      <3>1. Len(current) \in Nat /\ Len(current') = Len(current) + 1 BY <1>1, <1>2
      <3>2. j \in 2..(Len(current) + 1) BY <3>1
      <3>3. QED BY <3>1, <3>2
    <2>7. \A i \in 1..(j - 1) : i \in 1..Len(current) BY <1>1, <2>1
    <2>8. \A i \in 1..Len(current) : current'[i] = current[i] BY <1>2 DEF Agree
    <2>2. Agree(current', current, j - 1) BY <2>7, <2>8 DEF Agree
    <2>3. Above(current', j) = Above(current, j) BY <1>1, <1>2, <2>1, <2>2, AboveSame
    <2>4. CASE j <= Len(current)
      <3>1. j \in 2..Len(current) /\ j \in 1..Len(current) BY <1>1, <2>4
      <3>2. Above(current, j) \in DOMAIN leaves BY <1>1, <3>1 DEF NodeIn
      <3>3. leaves'[Above(current', j)] = leaves[Above(current, j)] BY <2>3, <3>2
      <3>4. QED BY <1>3, <3>1, <3>3, CurrentFacts
    <2>5. CASE j = Len(current) + 1
      <3>1. Above(current, j) = current BY <1>1, <2>5, AboveEnd
      <3>2. QED BY <1>3, <2>3, <2>5, <3>1
    <2>6. QED BY <2>1, <2>4, <2>5
  <1>8. ASSUME NEW id \in DOMAIN leaves' \cup DOMAIN results' PROVE Before(id, current')
    <2>1. Before(current, current') BY <1>0, <1>1, LeafAfterParent
    <2>2. CASE id = current BY <2>1, <2>2
    <2>3. CASE id \in DOMAIN leaves \cup DOMAIN results
      BY <1>1, <1>2, <2>1, <2>3, CurrentFacts, BeforeTransitive
    <2>4. QED BY <1>8, <2>2, <2>3
  <1>9. Len(current') <= MaxDepth BY <1>1, <1>2, ExpandAssumption
  <1>10. caps'[1] = Base + 1 BY <1>1, <1>3, CurrentFacts DEF Base
  <1>11. CurrentOK' BY <1>3, <1>6, <1>7, <1>8, <1>9, <1>10 DEF CurrentOK
  <1>12. QED BY <1>2, <1>3, <1>11

(* A leaf of an expansion that was there before has a result or is still    *)
(* to be asked about.                                                       *)
LEMMA LeftToAskKept ==
  ASSUME ExpandInv, current # <<>>, NoneSkipped,
         DOMAIN results \cup {current} \subseteq DOMAIN results',
         NEW id \in DOMAIN leaves, Len(id) < MaxDepth, NEW k \in 0..(leaves[id] - 1)
  PROVE  \/ Append(id, k) \in DOMAIN results'
         \/ current' # <<>> /\ (Append(id, k) = current' \/ Before(current', Append(id, k)))
  <1>1. id \in Id /\ leaves[id] \in Nat /\ leaves[id] \in 1..MaxLeaves BY ExpandAssumption DEF ExpandInv, ExpandTypeOK, Id
  <1>2. k \in Nat /\ k < leaves[id] BY <1>1
  <1>3. \/ Append(id, k) \in DOMAIN results
        \/ current # <<>> /\ (Append(id, k) = current \/ Before(current, Append(id, k)))
    BY CurrentFacts DEF ExpandInv, LeftToAsk
  <1>4. NodeIn(leaves, id) BY DEF ExpandInv, IsNode, NodeIn
  <1>5. NodeIn(leaves, Append(id, k)) /\ Append(id, k) \in Id BY <1>1, <1>2, <1>4, NodeLeaf, LeafPlaces
  <1>6. QED BY <1>3, <1>5 DEF NoneSkipped

-----------------------------------------------------------------------------
(* The lines of an expansion go below the line of what is expanded.        *)

LEMMA OutputFacts ==
  ASSUME ExpandInv
  PROVE  /\ output \in Seq(Line) /\ Ordered(output)
         /\ \A i \in 1..Len(output) :
                /\ output[i] \in Line /\ output[i].leaf \in Id /\ output[i].indent \in Nat
                /\ output[i].leaf # <<>> => NodeIn(leaves, output[i].leaf) /\ Len(output[i].leaf) > 1
  <1>1. output \in Seq(Line) BY DEF ExpandInv, ExpandTypeOK, Line, Id
  <1>2. Ordered(output) BY DEF ExpandInv, OutputIsTree, Ordered, LineBefore
  <1>3. DOMAIN output = 1..Len(output) BY <1>1
  <1>4. \A i \in 1..Len(output) : output[i].leaf # <<>> => NodeIn(leaves, output[i].leaf) /\ Len(output[i].leaf) > 1
    BY <1>3 DEF ExpandInv, LinesOK, IsNode, NodeIn
  <1>5. \A i \in 1..Len(output) : output[i] \in Line BY <1>1
  <1>6. \A i \in 1..Len(output) : output[i].leaf \in Id /\ output[i].indent \in Nat BY <1>5 DEF Line
  <1>7. QED BY <1>1, <1>2, <1>4, <1>5, <1>6

(* Before the first expansion no line is that of a leaf.                    *)
LEMMA NoLeafAtRoot ==
  ASSUME ExpandInv, current # <<>>, Len(current) = 1
  PROVE  \A i \in 1..Len(output) : output[i].leaf = <<>>
  <1>1. DOMAIN leaves = {}
    <2>1. SUFFICES ASSUME NEW id \in DOMAIN leaves PROVE FALSE OBVIOUS
    <2>2. id \in Id /\ Before(id, current) /\ current \in Id BY CurrentFacts
    <2>3. id # <<>> /\ id[1] = 0 BY DEF ExpandInv, IsNode, Base
    <2>4. Len(id) \in Nat \ {0} BY <2>2, <2>3 DEF Id
    <2>5. ~ Below(current, id) BY <2>4 DEF Below
    <2>6. PICK k \in Nat : PartAt(id, current, k) BY <2>2, <2>5, BeforeByPlace
    <2>7. k = 1 BY <2>6, <2>4 DEF PartAt
    <2>8. QED BY <2>3, <2>6, <2>7, CurrentFacts DEF PartAt
  <1>2. SUFFICES ASSUME NEW i \in 1..Len(output), output[i].leaf # <<>> PROVE FALSE OBVIOUS
  <1>3. NodeIn(leaves, output[i].leaf) /\ Len(output[i].leaf) > 1 /\ output[i].leaf \in Id
    BY <1>2, OutputFacts
  <1>4. 2 \in 2..Len(output[i].leaf) BY <1>3, Len(output[i].leaf) \in Nat DEF Id
  <1>5. QED BY <1>1, <1>3, <1>4 DEF NodeIn

(* Below the root there is a line to splice below.                          *)
LEMMA LineFound ==
  ASSUME ExpandInv, current # <<>>, Len(current) # 1
  PROVE  LineOf(current) \in 1..Len(output) /\ output[LineOf(current)].leaf = current
  <1>1. current \in Id /\ Len(current) \in Nat \ {0} /\ Len(current) \in 2..Len(current) BY CurrentFacts
  <1>2. PICK up : up = Above(current, Len(current)) OBVIOUS
  <1>3. up \in DOMAIN leaves /\ current[Len(current)] < leaves[up] /\ leaves[up] > 1
    BY <1>1, <1>2, CurrentFacts DEF NodeIn
  <1>4. up \in Id /\ Len(up) = Len(current) - 1 /\ \A i \in 1..(Len(current) - 1) : up[i] = current[i]
    BY <1>1, <1>2 DEF Above, Id
  <1>5. current[Len(current)] \in Nat BY <1>1, CurrentFacts
  <1>6. current = Append(up, current[Len(current)])
    <2>1. PICK c : c = Append(up, current[Len(current)]) OBVIOUS
    <2>2. c \in Id /\ Len(c) = Len(current) /\ c[Len(current)] = current[Len(current)]
          /\ \A i \in 1..(Len(current) - 1) : c[i] = up[i]
      BY <1>1, <1>4, <1>5, <2>1 DEF Id
    <2>3. \A i \in 1..Len(current) : c[i] = current[i]
      <3> TAKE i \in 1..Len(current)
      <3>1. CASE i = Len(current) BY <2>2, <3>1
      <3>2. CASE i # Len(current)
        <4>1. i \in 1..(Len(current) - 1) BY <1>1, <3>2
        <4>2. QED BY <1>4, <2>2, <4>1
      <3>3. QED BY <3>1, <3>2
    <2>4. QED BY <1>1, <2>1, <2>2, <2>3 DEF Id
  <1>7. current[Len(current)] \in 0..(leaves[up] - 1)
    <2>1. leaves[up] \in Nat BY <1>3, ExpandAssumption DEF ExpandInv, ExpandTypeOK
    <2>2. QED BY <1>3, <1>5, <2>1
  <1>8. \E i \in DOMAIN output : output[i].leaf = Append(up, current[Len(current)])
    BY <1>3, <1>7 DEF ExpandInv, LinesOK
  <1>9. DOMAIN output = 1..Len(output) BY OutputFacts
  <1>10. \E i \in 1..Len(output) : output[i].leaf = current BY <1>6, <1>8, <1>9
  <1>11. QED BY <1>10 DEF LineOf

\* The lines l can be spliced below the line of id, which has n leaves.
LinesFor(l, id, n) ==
    /\ l \in Seq(Line) /\ LineOf(id) \in 0..Len(output)
    /\ Ordered(Spliced(output, l, LineOf(id)))
    /\ \A m \in 1..Len(l) : l[m].leaf # <<>> => \E k \in 0..(n - 1) : l[m].leaf = Append(id, k)
    /\ n > 1 => \A k \in 0..(n - 1) : \E m \in 1..Len(l) : l[m].leaf = Append(id, k)

LEMMA ExpandOrdered ==
  ASSUME ExpandInv, current # <<>>, NEW n \in 1..MaxLeaves, NEW unfolds \in {"yes", "no"},
         unfolds = "no" => n = 1
  PROVE  LinesFor(NewLines(current, Tree(current, n, unfolds, IndentOf(current))), current, n)
  <1>10. PICK l : l = NewLines(current, Tree(current, n, unfolds, IndentOf(current))) OBVIOUS
  <1>0. current \in Id /\ Len(current) \in Nat \ {0} /\ n \in Nat \ {0} BY CurrentFacts, ExpandAssumption
  <1>1. LineOf(current) \in 0..Len(output) /\ IndentOf(current) \in Nat
    <2>1. CASE Len(current) = 1 BY <2>1, OutputFacts DEF LineOf, IndentOf
    <2>2. CASE Len(current) # 1
      <3>1. LineOf(current) \in 1..Len(output) BY <2>2, LineFound
      <3>2. output[LineOf(current)].indent \in Nat BY <3>1, OutputFacts
      <3>3. Len(output) \in Nat BY OutputFacts
      <3>4. QED BY <2>2, <3>1, <3>2, <3>3 DEF IndentOf
    <2>3. QED BY <2>1, <2>2
  <1>2. PICK ind \in Nat : ind = IndentOf(current) BY <1>1
  <1>3. PICK p \in 0..Len(output) : p = LineOf(current) BY <1>1
  <1>4. \/ n = 1 /\ l = <<>>
        \/ Len(current) = 1 /\ LinesOfLeaves(l, current, n, ind, 0)
        \/ Len(current) = 1 /\ LinesOfLeaves(l, current, n, ind + 1, 1)
        \/ LinesOfLeaves(l, current, n, ind + 1, 0)
    BY <1>0, <1>2, <1>10, NewLinesShape
  <1>5. /\ l \in Seq(Line) /\ Ordered(l)
        /\ \A m \in 1..Len(l) : l[m].leaf # <<>> =>
               (Len(current) # 1 => l[m].indent = ind + 1) /\ \E k \in 0..(n - 1) : l[m].leaf = Append(current, k)
        /\ n > 1 => \A k \in 0..(n - 1) : \E m \in 1..Len(l) : l[m].leaf = Append(current, k)
    <2>1. CASE n = 1 /\ l = <<>>
      <3>0. << >> \in Seq(Line) /\ Len(<< >>) = 0 OBVIOUS
      <3>1. l \in Seq(Line) /\ Len(l) = 0 BY <2>1, <3>0, Zenon
      <3>2. 1..Len(l) = {} BY <3>1
      <3>3. Ordered(l) BY <3>2 DEF Ordered
      <3>4. QED BY <2>1, <3>1, <3>2, <3>3
    <2>2. CASE Len(current) = 1 /\ LeafLines(l, current, n, ind) BY <2>2 DEF LeafLines
    <2>3. CASE LeafLines(l, current, n, ind + 1) BY <2>3 DEF LeafLines
    <2>4. (n = 1 /\ l = <<>>) \/ (Len(current) = 1 /\ LeafLines(l, current, n, ind)) \/ LeafLines(l, current, n, ind + 1)
      <3>1. n \in Nat /\ ind + 1 \in Nat /\ current \in Id BY <1>0
      <3>2. QED BY <1>4, <3>1, LeavesOrdered
    <2>5. QED BY <2>1, <2>2, <2>3, <2>4
  <1>6. ASSUME NEW i \in 1..p, NEW j \in 1..Len(l) PROVE LineBefore(output[i], l[j])
    <2>1. SUFFICES ASSUME output[i].leaf # <<>>, l[j].leaf # <<>>
                   PROVE  /\ Before(output[i].leaf, l[j].leaf)
                          /\ IsPrefix(output[i].leaf, l[j].leaf) => output[i].indent < l[j].indent
      BY DEF LineBefore
    <2>2. Len(output) \in Nat /\ i \in 1..Len(output) BY <1>6, OutputFacts
    <2>3. Len(current) # 1 BY <2>1, <2>2, NoLeafAtRoot
    <2>4. PICK k \in 0..(n - 1) : l[j].leaf = Append(current, k) BY <1>5, <2>1
    <2>5. k \in Nat /\ l[j].indent = ind + 1 BY <1>0, <1>5, <2>1, <2>3
    <2>6. p \in 1..Len(output) /\ output[p].leaf = current /\ output[p].indent = ind
      BY <1>2, <1>3, <2>3, LineFound DEF IndentOf
    <2>7. output[i].leaf \in Id /\ output[i].indent \in Nat BY <2>2, OutputFacts
    <2>8. Append(current, k) \in Id /\ Before(current, Append(current, k)) BY <1>0, <2>5, LeafPlaces, LeafAfterParent
    <2>9. CASE i = p BY <2>4, <2>5, <2>6, <2>8, <2>9
    <2>10. CASE i # p
      <3>1. i < p BY <1>6, <2>6, <2>10
      <3>2. LineBefore(output[i], output[p]) BY <2>2, <2>6, <3>1, OutputFacts DEF Ordered
      <3>3. Before(output[i].leaf, current) /\ (IsPrefix(output[i].leaf, current) => output[i].indent < ind)
        BY <2>1, <2>6, <3>2 DEF LineBefore
      <3>4. Before(output[i].leaf, Append(current, k)) BY <1>0, <2>7, <2>8, <3>3, BeforeTransitive
      <3>5. output[i].leaf # Append(current, k) BY <2>8, <3>4, NotBeforeItself
      <3>6. ASSUME IsPrefix(output[i].leaf, Append(current, k)) PROVE output[i].indent < ind + 1
        <4>1. IsPrefix(output[i].leaf, current) BY <1>0, <2>5, <2>7, <3>5, <3>6, AboveLeaf
        <4>2. output[i].indent < ind BY <3>3, <4>1
        <4>3. QED BY <2>7, <4>2
      <3>7. QED BY <2>4, <2>5, <3>4, <3>6
    <2>11. QED BY <2>9, <2>10
  <1>7. ASSUME NEW i \in 1..Len(l), NEW j \in (p + 1)..Len(output) PROVE LineBefore(l[i], output[j])
    <2>1. SUFFICES ASSUME l[i].leaf # <<>>, output[j].leaf # <<>>
                   PROVE  Before(l[i].leaf, output[j].leaf) /\ ~ IsPrefix(l[i].leaf, output[j].leaf)
      BY DEF LineBefore
    <2>2. Len(output) \in Nat /\ j \in 1..Len(output) /\ p < j BY <1>7, OutputFacts
    <2>3. Len(current) # 1 BY <2>1, <2>2, NoLeafAtRoot
    <2>4. PICK k \in 0..(n - 1) : l[i].leaf = Append(current, k) BY <1>5, <2>1
    <2>5. k \in Nat BY <1>0
    <2>6. p \in 1..Len(output) /\ output[p].leaf = current BY <1>3, <2>3, LineFound
    <2>7. output[j].leaf \in Id /\ NodeIn(leaves, output[j].leaf) BY <2>1, <2>2, OutputFacts
    <2>8. LineBefore(output[p], output[j]) BY <2>2, <2>6, OutputFacts DEF Ordered
    <2>9. Before(current, output[j].leaf) BY <2>1, <2>6, <2>8 DEF LineBefore
    <2>10. ~ Below(output[j].leaf, current) BY <2>7, <2>9, LaterParts
    <2>11. QED BY <1>0, <2>4, <2>5, <2>7, <2>9, <2>10, AfterLeaves
  <1>8. Ordered(Spliced(output, l, p))
    <2>1. PICK t : t = Spliced(output, l, p) OBVIOUS
    <2>2. l \in Seq(Line) /\ Ordered(l) BY <1>5
    <2>3. output \in Seq(Line) /\ Ordered(output) BY OutputFacts
    <2>4. \A i \in 1..p, j \in 1..Len(l) : LineBefore(output[i], l[j]) BY <1>6
    <2>5. \A i \in 1..Len(l), j \in (p + 1)..Len(output) : LineBefore(l[i], output[j]) BY <1>7
    <2>6. Ordered(t) BY <2>1, <2>2, <2>3, <2>4, <2>5, SpliceOrdered
    <2>7. QED BY <2>1, <2>6
  <1>9. LinesFor(l, current, n) BY <1>3, <1>5, <1>8 DEF LinesFor
  <1>11. QED BY <1>9, <1>10

-----------------------------------------------------------------------------
(* The steps.                                                              *)

LEMMA WithFacts ==
  ASSUME NEW f, NEW k, NEW v
  PROVE  /\ DOMAIN With(f, k, v) = DOMAIN f \cup {k} /\ With(f, k, v)[k] = v
         /\ \A x \in DOMAIN f : x # k => With(f, k, v)[x] = f[x]
  BY DEF With

\* What an expansion into n leaves does to the records of the driver.
Recorded(n) ==
    /\ DOMAIN leaves' = DOMAIN leaves \cup {current} /\ leaves'[current] = n
    /\ \A x \in DOMAIN leaves : x \in DOMAIN leaves' /\ leaves'[x] = leaves[x]
    /\ leaves' \in [DOMAIN leaves' -> 1..MaxLeaves]
    /\ DOMAIN results' = DOMAIN results \cup {current} \cup (IF n = 1 THEN {Append(current, 0)} ELSE {})

LEMMA ExpandRecords ==
  ASSUME ExpandInv, NEW n \in 1..MaxLeaves, NEW unfolds \in {"yes", "no"}, Expand(n, unfolds)
  PROVE  Recorded(n)
  <1>0. current # <<>> /\ leaves' = With(leaves, current, n) BY DEF Expand
  <1>7. leaves' = [x \in DOMAIN leaves \cup {current} |-> IF x = current THEN n ELSE leaves[x]]
    BY <1>0 DEF With
  <1>1. DOMAIN leaves' = DOMAIN leaves \cup {current} /\ leaves'[current] = n BY <1>7
  <1>2. \A x \in DOMAIN leaves : x # current BY <1>0, CurrentFacts
  <1>3. \A x \in DOMAIN leaves : x \in DOMAIN leaves' /\ leaves'[x] = leaves[x] BY <1>7, <1>1, <1>2
  <1>4. leaves' \in [DOMAIN leaves' -> 1..MaxLeaves]
    <2>1. leaves' = [x \in DOMAIN leaves' |-> leaves'[x]] BY <1>0, <1>1 DEF With
    <2>2. \A x \in DOMAIN leaves : leaves[x] \in 1..MaxLeaves BY DEF ExpandInv, ExpandTypeOK
    <2>3. \A x \in DOMAIN leaves' : leaves'[x] \in 1..MaxLeaves BY <1>1, <1>3, <2>2
    <2>4. QED BY <2>1, <2>3
  <1>5. DOMAIN results' = DOMAIN results \cup {current} \cup (IF n = 1 THEN {Append(current, 0)} ELSE {})
    <2>1. CASE n = 1
      <3>1. results' = With(With(results, current, "fail"), Append(current, 0), "presumed fail")
        BY <2>1 DEF Expand
      <3>2. DOMAIN results' = DOMAIN With(results, current, "fail") \cup {Append(current, 0)} BY <3>1, WithFacts
      <3>3. DOMAIN With(results, current, "fail") = DOMAIN results \cup {current} BY WithFacts
      <3>4. QED BY <2>1, <3>2, <3>3
    <2>2. CASE n # 1
      <3>1. results' = With(results, current, "fail") BY <2>2 DEF Expand
      <3>2. DOMAIN results' = DOMAIN results \cup {current} BY <3>1, WithFacts
      <3>3. QED BY <2>2, <3>2
    <2>3. QED BY <2>1, <2>2
  <1>6. QED BY <1>1, <1>3, <1>4, <1>5 DEF Recorded

LEMMA ExpandNodes ==
  ASSUME ExpandInv, current # <<>>, NEW n \in 1..MaxLeaves, Recorded(n)
  PROVE  /\ \A id \in DOMAIN leaves' : NodeIn(leaves', id)
         /\ \A id : NodeIn(leaves, id) => NodeIn(leaves', id)
         /\ \A k \in 0..(n - 1) : NodeIn(leaves', Append(current, k))
  <1>1. PICK f : f = leaves' OBVIOUS
  <1>2. /\ DOMAIN f = DOMAIN leaves \cup {current} /\ f[current] = n
        /\ \A x \in DOMAIN leaves : x \in DOMAIN f /\ f[x] = leaves[x]
    BY <1>1 DEF Recorded
  <1>3. \A id : NodeIn(leaves, id) => NodeIn(f, id) BY <1>2, NodeKept
  <1>4. \A id \in DOMAIN leaves : NodeIn(leaves, id) BY DEF ExpandInv, IsNode, NodeIn
  <1>5. NodeIn(f, current) /\ current \in Id BY <1>3, CurrentFacts
  <1>6. ASSUME NEW k \in 0..(n - 1) PROVE NodeIn(f, Append(current, k))
    <2>1. k \in Nat /\ k < f[current] /\ current \in DOMAIN f BY <1>2, ExpandAssumption
    <2>2. QED BY <1>5, <2>1, NodeLeaf
  <1>7. QED BY <1>1, <1>2, <1>3, <1>4, <1>5, <1>6

LEMMA ExpandLines ==
  ASSUME ExpandInv, NEW n \in 1..MaxLeaves, NEW unfolds \in {"yes", "no"}, Expand(n, unfolds)
  PROVE  output' \in Seq(Line) /\ OutputIsTree' /\ LinesOK'
  <1>0. current # <<>> /\ (unfolds = "no" => n = 1) BY DEF Expand
  <1>1. PICK l : l = NewLines(current, Tree(current, n, unfolds, IndentOf(current))) OBVIOUS
  <1>2. PICK t : t = Spliced(output, l, LineOf(current)) OBVIOUS
  <1>3. output' = t BY <1>1, <1>2 DEF Expand, Splice, Spliced
  <1>4. /\ l \in Seq(Line) /\ LineOf(current) \in 0..Len(output) /\ Ordered(t)
        /\ \A m \in 1..Len(l) : l[m].leaf # <<>> => \E k \in 0..(n - 1) : l[m].leaf = Append(current, k)
        /\ n > 1 => \A k \in 0..(n - 1) : \E m \in 1..Len(l) : l[m].leaf = Append(current, k)
    <2>1. LinesFor(l, current, n) BY <1>0, <1>1, ExpandOrdered
    <2>2. QED BY <1>2, <2>1 DEF LinesFor
  <1>5. t \in Seq(Line) BY <1>2, <1>4, OutputFacts, SplicePlaces
  <1>6. /\ \A i \in 1..Len(t) : (\E j \in 1..Len(output) : t[i] = output[j]) \/ (\E j \in 1..Len(l) : t[i] = l[j])
        /\ \A j \in 1..Len(output) : \E i \in 1..Len(t) : t[i] = output[j]
        /\ \A j \in 1..Len(l) : \E i \in 1..Len(t) : t[i] = l[j]
    <2>1. output \in Seq(Line) /\ l \in Seq(Line) BY <1>4, OutputFacts
    <2>2. PICK p \in 0..Len(output) : p = LineOf(current) BY <1>4
    <2>3. t = Spliced(output, l, p) BY <1>2, <2>2
    <2>4. LinesOf(t, output, l) BY <2>1, <2>3, SpliceLines
    <2>5. QED BY <2>4 DEF LinesOf
  <1>7. OutputIsTree' BY <1>3, <1>4 DEF OutputIsTree, Ordered, LineBefore
  <1>8. DOMAIN t = 1..Len(t) BY <1>5
  <1>9. Recorded(n) BY ExpandRecords
  <1>10. ASSUME NEW i \in 1..Len(t), t[i].leaf # <<>>
         PROVE  NodeIn(leaves', t[i].leaf) /\ Len(t[i].leaf) > 1
    <2>1. ASSUME NEW j \in 1..Len(output), t[i] = output[j]
          PROVE  NodeIn(leaves', t[i].leaf) /\ Len(t[i].leaf) > 1
      <3>1. NodeIn(leaves, output[j].leaf) /\ Len(output[j].leaf) > 1 BY <1>10, <2>1, OutputFacts
      <3>2. QED BY <1>0, <1>9, <2>1, <3>1, ExpandNodes
    <2>2. ASSUME NEW j \in 1..Len(l), t[i] = l[j]
          PROVE  NodeIn(leaves', t[i].leaf) /\ Len(t[i].leaf) > 1
      <3>1. PICK k \in 0..(n - 1) : t[i].leaf = Append(current, k) BY <1>4, <1>10, <2>2
      <3>2. NodeIn(leaves', Append(current, k)) BY <1>0, <1>9, ExpandNodes
      <3>3. k \in Nat /\ current \in Id /\ Len(current) \in Nat \ {0} BY <1>0, CurrentFacts, ExpandAssumption
      <3>4. Len(Append(current, k)) > 1 BY <3>3, LeafPlaces
      <3>5. QED BY <3>1, <3>2, <3>4
    <2>3. QED BY <1>6, <1>10, <2>1, <2>2
  <1>11. ASSUME NEW id \in DOMAIN leaves', leaves'[id] > 1, NEW k \in 0..(leaves'[id] - 1)
         PROVE  \E i \in 1..Len(t) : t[i].leaf = Append(id, k)
    <2>1. CASE id = current
      <3>1. leaves'[id] = n BY <1>9, <2>1 DEF Recorded
      <3>2. PICK m \in 1..Len(l) : l[m].leaf = Append(current, k) BY <1>4, <1>11, <3>1
      <3>3. QED BY <1>6, <2>1, <3>2
    <2>2. CASE id # current
      <3>1. id \in DOMAIN leaves /\ leaves'[id] = leaves[id] BY <1>9, <1>11, <2>2 DEF Recorded
      <3>2. DOMAIN output = 1..Len(output) BY OutputFacts
      <3>3. PICK j \in 1..Len(output) : output[j].leaf = Append(id, k)
        BY <1>11, <3>1, <3>2 DEF ExpandInv, LinesOK
      <3>4. QED BY <1>6, <3>3
    <2>3. QED BY <2>1, <2>2
  <1>12. LinesOK' BY <1>3, <1>8, <1>10, <1>11 DEF LinesOK, IsNode, NodeIn
  <1>13. QED BY <1>3, <1>5, <1>7, <1>12

LEMMA ExpandKeeps ==
  ASSUME ExpandInv, NEW n \in 1..MaxLeaves, NEW unfolds \in {"yes", "no"}, Expand(n, unfolds)
  PROVE  ExpandInv'
  <1>0. current # <<>> BY DEF Expand
  <1>1. Recorded(n) BY ExpandRecords
  <1>2. output' \in Seq(Line) /\ OutputIsTree' /\ LinesOK' BY ExpandLines
  <1>3. (\A id \in DOMAIN leaves : IsNode(id))'
    <2>1. \A id \in DOMAIN leaves' : NodeIn(leaves', id) BY <1>0, <1>1, ExpandNodes
    <2>2. QED BY <2>1 DEF IsNode, NodeIn
  <1>4. n \in Nat \ {0} /\ leafFails \in Nat /\ leafFails < MaxFailures /\ MaxFailures \in Nat
    BY <1>0, CurrentFacts, ExpandAssumption DEF ExpandInv, ExpandTypeOK, CountsFailures
  <1>5. leafFails' = IF n = 1 THEN leafFails + 1 ELSE leafFails BY DEF Expand, LeafFailsAfter
  <1>6. leafFails' \in Nat /\ (n # 1 => leafFails' < MaxFailures) BY <1>4, <1>5
  <1>7. \/ n = 1 /\ leafFails' >= MaxFailures /\ SkipToEnd /\ skipped' = "yes"
        \/ n = 1 /\ leafFails' < MaxFailures /\ Advance /\ skipped' = "no"
        \/ n > 1 /\ Len(current) < MaxDepth /\ Descend(n) /\ skipped' = "no"
        \/ n > 1 /\ Len(current) >= MaxDepth /\ Advance /\ skipped' = "no"
    BY <1>0, CurrentFacts DEF Expand
  <1>8. /\ \A x \in DOMAIN leaves : x \in DOMAIN leaves' /\ leaves'[x] = leaves[x]
        /\ DOMAIN leaves' \cup DOMAIN results'
               \subseteq DOMAIN leaves \cup DOMAIN results \cup {current, Append(current, 0)}
        /\ n > 1 => DOMAIN leaves' \cup DOMAIN results' \subseteq DOMAIN leaves \cup DOMAIN results \cup {current}
        /\ current \in DOMAIN leaves' /\ leaves'[current] = n
        /\ DOMAIN results \cup {current} \subseteq DOMAIN results'
    BY <1>1, <1>4 DEF Recorded
  <1>9. current' \in Id /\ caps' \in Seq(Nat) /\ CurrentOK'
    <2>1. CASE SkipToEnd
      <3>1. current' = <<>> /\ caps' = caps BY <2>1 DEF SkipToEnd
      <3>2. caps \in Seq(Nat) BY <1>0, CurrentFacts
      <3>3. QED BY <3>1, <3>2 DEF CurrentOK, Id
    <2>2. CASE Advance BY <1>0, <1>8, <2>2, AdvanceCurrentOK
    <2>3. CASE n > 1 /\ Len(current) < MaxDepth /\ Descend(n) BY <1>0, <1>4, <1>8, <2>3, DescendCurrentOK
    <2>4. QED BY <1>7, <2>1, <2>2, <2>3
  <1>10. LeftToAsk'
    <2>1. SUFFICES ASSUME skipped' = "no", NEW id \in DOMAIN leaves', Len(id) < MaxDepth,
                          NEW k \in 0..(leaves'[id] - 1)
                   PROVE  \/ Append(id, k) \in DOMAIN results'
                          \/ current' # <<>> /\ (Append(id, k) = current' \/ Before(current', Append(id, k)))
      BY DEF LeftToAsk
    <2>2. CASE id # current
      <3>1. id \in DOMAIN leaves /\ leaves'[id] = leaves[id] BY <1>1, <2>1, <2>2 DEF Recorded
      <3>2. NoneSkipped
        <4>1. CASE Advance BY <1>0, <4>1, AdvanceNoneSkipped
        <4>2. CASE Descend(n) BY <1>0, <4>2, DescendNoneSkipped DEF Descend
        <4>3. QED BY <1>7, <2>1, <4>1, <4>2
      <3>3. k \in 0..(leaves[id] - 1) BY <2>1, <3>1
      <3>4. QED BY <1>0, <1>8, <2>1, <3>1, <3>2, <3>3, LeftToAskKept
    <2>3. CASE id = current
      <3>1. leaves'[id] = n /\ k \in 0..(n - 1) BY <1>8, <2>1, <2>3
      <3>2. CASE n = 1
        <4>1. k = 0 BY <3>1, <3>2
        <4>2. Append(id, k) \in DOMAIN results' BY <1>1, <2>3, <3>2, <4>1 DEF Recorded
        <4>3. QED BY <4>2
      <3>3. CASE n # 1
        <4>1. Len(current) \in Nat /\ current \in Id /\ MaxDepth \in Nat BY <1>0, CurrentFacts, ExpandAssumption
        <4>2. current' = Append(current, 0) BY <1>7, <2>1, <2>3, <3>3, <4>1 DEF Descend
        <4>3. current' # <<>> BY <4>1, <4>2, LeafPlaces
        <4>4. k \in Nat BY <1>4, <3>1
        <4>5. CASE k = 0 BY <2>3, <4>2, <4>3, <4>5
        <4>6. CASE k # 0
          <5>1. 0 < k BY <4>4, <4>6
          <5>2. Before(Append(current, 0), Append(current, k)) BY <4>1, <4>4, <5>1, LeavesInOrder
          <5>3. QED BY <2>3, <4>2, <4>3, <5>2
        <4>7. QED BY <4>5, <4>6
      <3>4. QED BY <3>2, <3>3
    <2>4. QED BY <2>2, <2>3
  <1>11. CountsFailures'
    <2>1. CASE n = 1 /\ leafFails' >= MaxFailures /\ SkipToEnd /\ skipped' = "yes"
      BY <1>4, <1>5, <2>1 DEF CountsFailures, SkipToEnd
    <2>2. CASE leafFails' < MaxFailures /\ skipped' = "no" BY <2>2 DEF CountsFailures
    <2>3. QED BY <1>6, <1>7, <2>1, <2>2
  <1>12. ExpandTypeOK'
    <2>1. current' \in Seq(Nat) /\ caps' \in Seq(Nat) /\ leafFails' \in Nat BY <1>6, <1>9 DEF Id
    <2>2. skipped' \in {"yes", "no"} BY <1>7
    <2>3. output' \in Seq([indent : Nat, leaf : Seq(Nat)]) BY <1>2 DEF Line, Id
    <2>4. current \in Id /\ Append(current, 0) \in Id BY <1>0, CurrentFacts, LeafPlaces
    <2>5. DOMAIN leaves' \subseteq Seq(Nat) /\ DOMAIN results' \subseteq Seq(Nat)
      BY <1>0, <1>8, <2>4, CurrentFacts DEF Id
    <2>6. leaves' \in [DOMAIN leaves' -> 1..MaxLeaves] BY <1>1 DEF Recorded
    <2>7. QED BY <2>1, <2>2, <2>3, <2>5, <2>6 DEF ExpandTypeOK
  <1>13. QED BY <1>2, <1>3, <1>9, <1>10, <1>11, <1>12 DEF ExpandInv

LEMMA PassKeeps == ExpandInv /\ Pass => ExpandInv'
  <1>0. SUFFICES ASSUME ExpandInv, Pass PROVE ExpandInv' OBVIOUS
  <1>1. current # <<>>
    <2>1. Len(<< >>) = 0 OBVIOUS
    <2>2. Len(current) > 1 BY <1>0 DEF Pass
    <2>3. QED BY <2>1, <2>2
  <1>2. DOMAIN results' = DOMAIN results \cup {current} BY <1>0, WithFacts DEF Pass
  <1>3. Advance /\ leafFails' = leafFails /\ leaves' = leaves /\ output' = output /\ skipped' = skipped
    BY <1>0 DEF Pass
  <1>4. current' \in Id /\ caps' \in Seq(Nat) /\ CurrentOK' BY <1>0, <1>1, <1>2, <1>3, AdvanceCurrentOK
  <1>5. NoneSkipped BY <1>0, <1>1, <1>3, AdvanceNoneSkipped
  <1>6. LeftToAsk'
    <2>1. SUFFICES ASSUME NEW id \in DOMAIN leaves, Len(id) < MaxDepth, NEW k \in 0..(leaves[id] - 1)
                   PROVE  \/ Append(id, k) \in DOMAIN results'
                          \/ current' # <<>> /\ (Append(id, k) = current' \/ Before(current', Append(id, k)))
      BY <1>3 DEF LeftToAsk
    <2>2. QED BY <1>0, <1>1, <1>2, <1>5, <2>1, LeftToAskKept
  <1>7. skipped = "no" BY <1>0, <1>1, CurrentFacts
  <1>8. CountsFailures' BY <1>0, <1>3, <1>7 DEF ExpandInv, CountsFailures
  <1>9. LinesOK' /\ OutputIsTree' /\ (\A id \in DOMAIN leaves : IsNode(id))'
    <2>1. LinesOK' BY <1>0, <1>3 DEF ExpandInv, LinesOK, IsNode
    <2>2. OutputIsTree' BY <1>0, <1>3 DEF ExpandInv, OutputIsTree
    <2>3. (\A id \in DOMAIN leaves : IsNode(id))' BY <1>0, <1>3 DEF ExpandInv, IsNode
    <2>4. QED BY <2>1, <2>2, <2>3
  <1>10. ExpandTypeOK'
    <2>1. DOMAIN results' \subseteq Seq(Nat) BY <1>0, <1>2 DEF ExpandInv, ExpandTypeOK
    <2>2. QED BY <1>0, <1>3, <1>4, <2>1 DEF ExpandInv, ExpandTypeOK, Id
  <1>11. QED BY <1>4, <1>6, <1>8, <1>9, <1>10 DEF ExpandInv

LEMMA ExpandInitHolds == ExpandInit => ExpandInv
  <1>0. SUFFICES ASSUME ExpandInit PROVE ExpandInv OBVIOUS
  <1>1. /\ current = <<0>> /\ caps = <<1>> /\ leafFails = 0 /\ results = << >> /\ leaves = << >>
        /\ output = << >> /\ skipped = "no"
    BY <1>0 DEF ExpandInit, Root, Base
  <1>2. DOMAIN leaves = {} /\ DOMAIN results = {} /\ DOMAIN output = {} /\ Len(output) = 0 /\ output \in Seq(Line)
    BY <1>1
  <1>3. current \in Id /\ caps \in Seq(Nat) /\ Len(current) = 1 /\ Len(caps) = 1 /\ current[1] = 0 /\ caps[1] = 1
    BY <1>1 DEF Id
  <1>4. leaves \in [DOMAIN leaves -> 1..MaxLeaves] BY <1>1, <1>2
  <1>5. ExpandTypeOK BY <1>1, <1>2, <1>3, <1>4 DEF ExpandTypeOK, Line, Id
  <1>6. CurrentOK
    <2>1. current # <<>> BY <1>3
    <2>2. IsNode(current) BY <1>3, <2>1 DEF IsNode, Base
    <2>3. MaxDepth \in Nat /\ MaxDepth > 1 BY ExpandAssumption
    <2>4. QED BY <1>2, <1>3, <2>2, <2>3 DEF CurrentOK, Base
  <1>7. LeftToAsk /\ LinesOK BY <1>2 DEF LeftToAsk, LinesOK
  <1>8. OutputIsTree BY <1>2 DEF OutputIsTree
  <1>9. CountsFailures BY <1>1, ExpandAssumption DEF CountsFailures
  <1>10. QED BY <1>2, <1>5, <1>6, <1>7, <1>8, <1>9 DEF ExpandInv

LEMMA ExpandStep == ExpandInv /\ [ExpandNext]_expandVars => ExpandInv'
  <1>1. SUFFICES ASSUME ExpandInv, [ExpandNext]_expandVars PROVE ExpandInv' OBVIOUS
  <1>2. CASE Pass BY <1>1, <1>2, PassKeeps
  <1>3. ASSUME NEW n \in 1..MaxLeaves, NEW unfolds \in {"yes", "no"}, Expand(n, unfolds) PROVE ExpandInv'
    BY <1>1, <1>3, ExpandKeeps
  <1>4. CASE UNCHANGED expandVars
    BY <1>1, <1>4 DEF ExpandInv, ExpandTypeOK, CurrentOK, LeftToAsk, LinesOK, CountsFailures, OutputIsTree,
                      IsNode, expandVars
  <1>5. QED BY <1>1, <1>2, <1>3, <1>4 DEF ExpandNext

(* The driver of --expand-errors keeps its invariant, for every limit on    *)
(* the failures, the depth and the leaves of an expansion.                  *)
THEOREM ExpandInvariant == ExpandSpec => []ExpandInv
  BY ExpandInitHolds, ExpandStep, PTL DEF ExpandSpec

(* The lines that the driver splices together always read as one tree.      *)
THEOREM OutputReadsAsTree == ExpandSpec => []OutputIsTree
  <1>1. ExpandInv => OutputIsTree BY DEF ExpandInv
  <1>2. QED BY <1>1, ExpandInvariant, PTL

(* Every leaf is asked about once, and get_current and add_lines_to_output  *)
(* find what they look up.                                                  *)
THEOREM EveryLeafAsked == ExpandSpec => []AllAsked
  <1>1. ExpandInv => CurrentIsLeaf
    <2>1. SUFFICES ASSUME ExpandInv, current # <<>>, current # Root
                   PROVE  /\ Parent(current) \in DOMAIN leaves
                          /\ Last(current) < leaves[Parent(current)]
                          /\ current \notin DOMAIN results
                          /\ \E i \in 1..Len(output) : output[i].leaf = current
      BY DEF CurrentIsLeaf
    <2>2. current \in Id /\ Len(current) \in Nat \ {0} /\ current[1] = 0 /\ current \notin DOMAIN results
      BY <2>1, CurrentFacts
    <2>3. Len(current) # 1
      <3>1. SUFFICES ASSUME Len(current) = 1 PROVE FALSE OBVIOUS
      <3>2. current = <<0>> BY <2>2, <3>1 DEF Id
      <3>3. QED BY <2>1, <3>2 DEF Root, Base
    <2>4. Len(current) \in 2..Len(current) BY <2>2, <2>3
    <2>5. Above(current, Len(current)) \in DOMAIN leaves /\ current[Len(current)] < leaves[Above(current, Len(current))]
      BY <2>1, <2>4, CurrentFacts DEF NodeIn
    <2>6. Parent(current) = Above(current, Len(current)) /\ Last(current) = current[Len(current)]
      BY DEF Parent, Front, Above, Last
    <2>7. LineOf(current) \in 1..Len(output) /\ output[LineOf(current)].leaf = current
      BY <2>1, <2>3, LineFound
    <2>8. QED BY <2>2, <2>5, <2>6, <2>7
  <1>2. ExpandInv => (skipped = "yes" <=> leafFails = MaxFailures)
    <2>1. SUFFICES ASSUME ExpandInv PROVE skipped = "yes" <=> leafFails = MaxFailures OBVIOUS
    <2>2. leafFails \in Nat /\ MaxFailures \in Nat /\ skipped \in {"yes", "no"}
      BY <2>1, ExpandAssumption DEF ExpandInv, ExpandTypeOK
    <2>3. QED BY <2>1, <2>2 DEF ExpandInv, CountsFailures
  <1>3. ExpandInv => AllAsked BY <1>1, <1>2 DEF AllAsked, ExpandInv, LeftToAsk
  <1>4. QED BY <1>3, ExpandInvariant, PTL
=============================================================================
