-------------------------- MODULE WorkerPoolProofs --------------------------
(***************************************************************************)
(* Theorems about WorkerPool for any number of buckets and workers and any *)
(* values of the bounds.                                                   *)
(***************************************************************************)
EXTENDS WorkerPool, FiniteSetTheorems, WellFoundedInduction, TLAPS

LEMMA BucketFacts ==
    /\ NoBucket \notin Bucket
    /\ \A b \in Bucket : b \in Nat
    /\ Cardinality(Bucket) = NumBuckets
    /\ IsFiniteSet(Bucket)
BY NumBucketsAssumption, FS_Interval DEF Bucket, NoBucket

LEMMA Bounds == MaxMsgs \in Nat /\ MaxSends \in Nat /\ MaxLong \in Nat
BY BoundsAssumption

(* A message a worker builds is a message of its bucket. *)
LEMMA NextMsgsType ==
    ASSUME WorkerTypeOK, NEW b \in Bucket, NEW k \in 0..MaxMsgs,
           sent[b] + k <= MaxMsgs, sends[b] < MaxSends
    PROVE  /\ NextMsgs(b, k) \in Seq(Msg)
           /\ DOMAIN NextMsgs(b, k) = 1..k
           /\ \A i \in 1..k : /\ NextMsgs(b, k)[i].bucket = b
                              /\ NextMsgs(b, k)[i] \in Msg
<1>1. \A i \in 1..k : sent[b] + i \in 1..MaxMsgs /\ sends[b] + 1 \in 1..MaxSends
  BY Bounds DEF WorkerTypeOK
<1>2. \A i \in 1..k : [bucket |-> b, send |-> sends[b] + 1, n |-> sent[b] + i] \in Msg
  BY <1>1 DEF Msg
<1>3. k \in Nat /\ NextMsgs(b, k) \in [1..k -> Msg]
  BY <1>2, Bounds DEF NextMsgs
<1> QED BY <1>3 DEF NextMsgs

(* What the constructors of messages build. *)
LEMMA MessageTypes ==
    ASSUME NEW b \in Bucket, NEW now \in BOOLEAN, NEW p \in Pid
    PROVE  /\ \A m \in Msg : Message(b, m, now) \in ReporterMessage
           /\ \A ms \in Seq(Msg) : Messages(b, ms) \in ReporterMessage
           /\ Done(b) \in ReporterMessage
           /\ ReportLongRunning(b, p) \in ReporterMessage
           /\ FinishLongRunning(b, p) \in ReporterMessage
           /\ WorkerPanicked(b) \in ReporterMessage
<1>1. \A m \in Msg : <<m>> \in Seq(Msg) OBVIOUS
<1>2. <<>> \in Seq(Msg) OBVIOUS
<1> QED BY <1>1, <1>2 DEF ReporterMessage, Message, Messages, Done,
               ReportLongRunning, FinishLongRunning, WorkerPanicked

(* What a send does to the channel. *)
LEMMA SendFacts ==
    ASSUME queue \in Seq(ReporterMessage), NEW m \in ReporterMessage, Send(m)
    PROVE  /\ queue' \in Seq(ReporterMessage)
           /\ DOMAIN queue' = 1..(Len(queue) + 1)
           /\ DOMAIN queue = 1..Len(queue)
           /\ Len(queue) \in Nat
           /\ \A i \in 1..Len(queue) : queue'[i] = queue[i]
           /\ queue'[Len(queue) + 1] = m
BY DEF Send

LEMMA CountSendType ==
    ASSUME WorkerTypeOK, NEW b \in Bucket, NEW k \in 0..MaxMsgs, CountSend(b, k)
    PROVE  /\ sent' \in [Bucket -> 0..MaxMsgs]
           /\ sends' \in [Bucket -> 0..MaxSends]
BY Bounds DEF WorkerTypeOK, CountSend

(* A worker's step leaves every variable of its type; what it sends is a   *)
(* message of the bucket it holds.                                         *)
LEMMA WorkerStepType ==
    ASSUME TypeOK, OneOwner, NEW w \in Worker, WorkerStep(w)
    PROVE  TypeOK'
<1> USE DEF TypeOK
<1>m. ASSUME UNCHANGED mainVars PROVE MainTypeOK'
  BY <1>m DEF MainTypeOK, mainVars, reportVars
<1>h. Holds(w) => wbucket[w] \in Bucket
  BY DEF OneOwner
<1>1. CASE Pop(w)
  <2>1. taskq # <<>> => Head(taskq) \in Bucket /\ Tail(taskq) \in Seq(Bucket)
    BY DEF WorkerTypeOK
  <2>2. CASE taskq = <<>>
    BY <1>1, <1>m, <2>2 DEF WorkerTypeOK, Pop, PC
  <2>3. CASE taskq # <<>>
    BY <1>1, <1>m, <2>1, <2>3 DEF WorkerTypeOK, Pop, PC
  <2> QED BY <2>2, <2>3
<1>2. ASSUME NEW now \in BOOLEAN, Report(w, now) PROVE TypeOK'
  <2>1. wbucket[w] \in Bucket /\ 1 \in 0..MaxMsgs
    BY <1>2, <1>h, Bounds DEF Report, Holds, CountSend, WorkerTypeOK
  <2>2. NextMsgs(wbucket[w], 1)[1] \in Msg
    BY <1>2, <2>1, NextMsgsType DEF Report, CountSend
  <2>3. Message(wbucket[w], NextMsgs(wbucket[w], 1)[1], now) \in ReporterMessage
    BY <2>1, <2>2 DEF Message, ReporterMessage
  <2>4. sent' \in [Bucket -> 0..MaxMsgs] /\ sends' \in [Bucket -> 0..MaxSends]
    BY <1>2, <2>1, CountSendType DEF Report
  <2> QED BY <1>2, <1>m, <2>3, <2>4 DEF Report, Send, WorkerTypeOK, PC
<1>3. ASSUME NEW k \in 0..MaxMsgs, ReportMulti(w, k) PROVE TypeOK'
  <2>1. wbucket[w] \in Bucket
    BY <1>3, <1>h DEF ReportMulti, Holds
  <2>2. NextMsgs(wbucket[w], k) \in Seq(Msg)
    BY <1>3, <2>1, NextMsgsType DEF ReportMulti, CountSend
  <2>3. Messages(wbucket[w], NextMsgs(wbucket[w], k)) \in ReporterMessage
    BY <2>1, <2>2 DEF Messages, ReporterMessage
  <2>4. sent' \in [Bucket -> 0..MaxMsgs] /\ sends' \in [Bucket -> 0..MaxSends]
    BY <1>3, <2>1, CountSendType DEF ReportMulti
  <2> QED BY <1>3, <1>m, <2>3, <2>4 DEF ReportMulti, Send, WorkerTypeOK, PC
<1>4. ASSUME NEW p \in Pid, StartLong(w, p) PROVE TypeOK'
  <2>1. wbucket[w] \in Bucket
    BY <1>4, <1>h DEF StartLong, Holds
  <2>2. ReportLongRunning(wbucket[w], p) \in ReporterMessage
    BY <2>1, MessageTypes
  <2>3. longs' \in [Bucket -> 0..MaxLong]
    BY <1>4, <2>1, Bounds DEF StartLong, WorkerTypeOK, PC
  <2> QED BY <1>4, <1>m, <2>2, <2>3 DEF StartLong, Send, WorkerTypeOK, PC
<1>5. CASE FinishLong(w)
  <2>1. wbucket[w] \in Bucket /\ wlong[w] \in Pid
    BY <1>5, <1>h DEF FinishLong, Holds, WorkerTypeOK
  <2>2. FinishLongRunning(wbucket[w], wlong[w]) \in ReporterMessage
    BY <2>1, MessageTypes
  <2> QED BY <1>5, <1>m, <2>2 DEF FinishLong, Send, WorkerTypeOK, PC
<1>6. CASE BucketOk(w)
  BY <1>6, <1>m DEF BucketOk, WorkerTypeOK, PC
<1>7. CASE BucketErr(w)
  <2>1. wbucket[w] \in Bucket /\ 1 \in 0..MaxMsgs
    BY <1>7, <1>h, Bounds DEF BucketErr, Holds, CountSend, WorkerTypeOK
  <2>2. NextMsgs(wbucket[w], 1)[1] \in Msg
    BY <1>7, <2>1, NextMsgsType DEF BucketErr, CountSend
  <2>3. Message(wbucket[w], NextMsgs(wbucket[w], 1)[1], TRUE) \in ReporterMessage
    BY <2>1, <2>2 DEF Message, ReporterMessage
  <2>4. sent' \in [Bucket -> 0..MaxMsgs] /\ sends' \in [Bucket -> 0..MaxSends]
    BY <1>7, <2>1, CountSendType DEF BucketErr
  <2>5. wpc' \in [Worker -> PC]
    BY <1>7 DEF BucketErr, WorkerTypeOK, PC
  <2>6. WorkerTypeOK'
    BY <1>7, <2>4, <2>5 DEF BucketErr, WorkerTypeOK, PC
  <2>7. queue' \in Seq(ReporterMessage)
    BY <1>7, <2>3, SendFacts DEF BucketErr
  <2> QED BY <1>7, <1>m, <2>6, <2>7 DEF BucketErr
<1>8. CASE SendDone(w)
  <2>1. wbucket[w] \in Bucket
    BY <1>8, <1>h DEF SendDone, Holds
  <2>2. Done(wbucket[w]) \in ReporterMessage
    BY <2>1 DEF Done, ReporterMessage
  <2>3. completed' \in [Worker -> Seq(Bucket \X BOOLEAN)]
    <3>1. \A x \in BOOLEAN : <<wbucket[w], x>> \in Bucket \X BOOLEAN
      BY <2>1
    <3>2. <<wbucket[w], wpc[w] = "ok">> \in Bucket \X BOOLEAN
      BY <3>1
    <3>3. Append(completed[w], <<wbucket[w], wpc[w] = "ok">>) \in Seq(Bucket \X BOOLEAN)
      BY <3>2 DEF WorkerTypeOK
    <3> QED BY <1>8, <3>3 DEF SendDone, WorkerTypeOK, PC
  <2> QED BY <1>8, <1>m, <2>2, <2>3 DEF SendDone, Send, WorkerTypeOK, PC
<1>9. CASE Panic(w)
  <2>1. wbucket[w] \in Bucket
    BY <1>9, <1>h DEF Panic, Holds
  <2>2. WorkerPanicked(wbucket[w]) \in ReporterMessage
    BY <2>1 DEF WorkerPanicked, ReporterMessage
  <2> QED BY <1>9, <1>m, <2>2 DEF Panic, Send, WorkerTypeOK, PC
<1>10. CASE Die(w)
  BY <1>10, <1>m DEF Die, WorkerTypeOK, PC
<1>11. CASE SendToClosed(w)
  BY <1>11, <1>m DEF SendToClosed, WorkerTypeOK, PC
<1> QED BY <1>1, <1>2, <1>3, <1>4, <1>5, <1>6, <1>7, <1>8, <1>9, <1>10, <1>11 DEF WorkerStep

(* A send by the worker that holds the message's bucket keeps the order of *)
(* the channel: the bucket is not done and has not announced it.           *)
LEMMA SendKeepsOrder ==
    ASSUME TypeOK, OneOwner, DoneIsLast, OwnMessages,
           NEW w \in Worker, Holds(w),
           NEW m \in ReporterMessage, m.bucket = wbucket[w],
           \A k \in DOMAIN m.msgs : m.msgs[k].bucket = m.bucket,
           m.type = "Message" => Len(m.msgs) = 1,
           Send(m), UNCHANGED mainVars
    PROVE  DoneIsLast' /\ OwnMessages'
<1>1. /\ DOMAIN queue' = 1..(Len(queue) + 1)
      /\ DOMAIN queue = 1..Len(queue)
      /\ Len(queue) \in Nat
      /\ \A i \in 1..Len(queue) : queue'[i] = queue[i]
      /\ queue'[Len(queue) + 1] = m
  BY SendFacts DEF TypeOK
<1>2. UNCHANGED <<done, local, buffered>>
  BY DEF mainVars, reportVars
<1>3. /\ ~done[m.bucket]
      /\ \A k \in DOMAIN queue : queue[k].type = "Done" => queue[k].bucket # m.bucket
  BY DEF OneOwner
<1>4. DoneIsLast'
  <2>1. \A i \in 1..(Len(queue) + 1) : ~done[queue'[i].bucket]
    BY <1>1, <1>3 DEF DoneIsLast
  <2>2. \A i, j \in 1..(Len(queue) + 1) :
            i < j /\ queue'[i].type = "Done" => queue'[j].bucket # queue'[i].bucket
    BY <1>1, <1>3 DEF DoneIsLast
  <2> QED BY <1>1, <1>2, <2>1, <2>2 DEF DoneIsLast
<1>5. OwnMessages'
  BY <1>1, <1>2 DEF OwnMessages
<1> QED BY <1>4, <1>5

(* A send other than Done keeps the ownership of buckets. *)
LEMMA SendKeepsOwner ==
    ASSUME TypeOK, OneOwner,
           NEW w \in Worker, Holds(w),
           NEW m \in ReporterMessage, m.bucket = wbucket[w], m.type # "Done",
           Send(m), UNCHANGED <<mainVars, taskq, wbucket>>,
           \A v \in Worker : Holds(v)' => Holds(v)
    PROVE  OneOwner'
<1>1. /\ DOMAIN queue' = 1..(Len(queue) + 1)
      /\ DOMAIN queue = 1..Len(queue)
      /\ Len(queue) \in Nat
      /\ \A i \in 1..Len(queue) : queue'[i] = queue[i]
      /\ queue'[Len(queue) + 1] = m
  BY SendFacts DEF TypeOK
<1>2. UNCHANGED done
  BY DEF mainVars, reportVars
<1>3. \A i \in DOMAIN taskq : \A k \in DOMAIN queue' : queue'[k].bucket # taskq[i]
  BY <1>1 DEF OneOwner
<1>4. \A v \in Worker : Holds(v) =>
          \A k \in DOMAIN queue' : queue'[k].type = "Done" => queue'[k].bucket # wbucket[v]
  BY <1>1 DEF OneOwner
<1> QED BY <1>2, <1>3, <1>4 DEF OneOwner

(* A step that sends nothing and takes no bucket keeps both. *)
LEMMA QuietKeepsOwner ==
    ASSUME OneOwner, DoneIsLast, OwnMessages,
           UNCHANGED <<mainVars, taskq, wbucket, queue>>,
           \A v \in Worker : Holds(v)' => Holds(v)
    PROVE  OneOwner' /\ DoneIsLast' /\ OwnMessages'
BY DEF OneOwner, DoneIsLast, OwnMessages, mainVars, reportVars

LEMMA PopKeepsOwner ==
    ASSUME TypeOK, OneOwner, DoneIsLast, OwnMessages, NEW w \in Worker, Pop(w)
    PROVE  OneOwner' /\ DoneIsLast' /\ OwnMessages'
<1>1. UNCHANGED <<done, local, buffered, queue>>
  BY DEF Pop, mainVars, reportVars
<1>2. DoneIsLast' /\ OwnMessages'
  BY <1>1 DEF DoneIsLast, OwnMessages
<1>3. CASE taskq = <<>>
  <2>1. UNCHANGED <<taskq, wbucket>> /\ wpc' = [wpc EXCEPT ![w] = "exited"] /\ wpc \in [Worker -> PC]
    BY <1>3 DEF Pop, TypeOK, WorkerTypeOK
  <2>2. \A v \in Worker : Holds(v)' => Holds(v)
    BY <2>1 DEF Holds, PC
  <2> QED BY <1>1, <1>2, <2>1, <2>2 DEF OneOwner
<1>4. CASE taskq # <<>>
  <2> DEFINE b == taskq[1]
  <2>1. /\ wpc' = [wpc EXCEPT ![w] = "verify"]
        /\ wbucket' = [wbucket EXCEPT ![w] = b]
        /\ taskq' = Tail(taskq)
        /\ taskq \in Seq(Bucket)
        /\ wpc \in [Worker -> PC] /\ wpc[w] = "pop"
        /\ wbucket \in [Worker -> Bucket \cup {NoBucket}]
    BY <1>4 DEF Pop, TypeOK, WorkerTypeOK
  <2>2. /\ b \in Bucket
        /\ 1 \in DOMAIN taskq
        /\ \A i \in DOMAIN taskq' : /\ taskq'[i] = taskq[i + 1]
                                    /\ i + 1 \in DOMAIN taskq
                                    /\ i + 1 # 1
    BY <1>4, <2>1
  <2>3. \A i, j \in DOMAIN taskq' : i # j => taskq'[i] # taskq'[j]
    <3> SUFFICES ASSUME NEW i \in DOMAIN taskq', NEW j \in DOMAIN taskq', i # j
                 PROVE  taskq'[i] # taskq'[j]
      OBVIOUS
    <3>1. i + 1 # j + 1
      BY <2>1
    <3> QED BY <2>2, <3>1 DEF OneOwner
  <2>4. \A v \in Worker : v # w => (Holds(v)' <=> Holds(v)) /\ wbucket'[v] = wbucket[v]
    BY <2>1 DEF Holds, PC
  <2>5. wbucket'[w] = b /\ ~Holds(w)
    BY <2>1 DEF Holds, PC
  <2>6. \A i \in DOMAIN taskq' : taskq'[i] # b
    BY <2>2 DEF OneOwner
  <2>7. /\ ~done[b]
        /\ \A k \in DOMAIN queue : queue[k].bucket # b
        /\ \A v \in Worker : Holds(v) => wbucket[v] # b
    BY <2>2 DEF OneOwner
  <2>8. \A i \in DOMAIN taskq' :
            /\ ~done[taskq'[i]]
            /\ \A k \in DOMAIN queue : queue[k].bucket # taskq'[i]
            /\ \A v \in Worker : Holds(v)' => wbucket'[v] # taskq'[i]
    BY <2>2, <2>4, <2>5, <2>6 DEF OneOwner
  <2>9. \A v \in Worker : Holds(v)' =>
            /\ wbucket'[v] \in Bucket
            /\ ~done[wbucket'[v]]
            /\ \A k \in DOMAIN queue : queue[k].type = "Done" => queue[k].bucket # wbucket'[v]
    BY <2>2, <2>4, <2>5, <2>7 DEF OneOwner
  <2>10. \A u, v \in Worker : Holds(u)' /\ Holds(v)' /\ u # v => wbucket'[u] # wbucket'[v]
    BY <2>4, <2>5, <2>7 DEF OneOwner
  <2> QED BY <1>1, <1>2, <2>3, <2>8, <2>9, <2>10 DEF OneOwner
<1> QED BY <1>3, <1>4

(* With Done the worker gives its bucket up. *)
LEMMA SendDoneKeepsOwner ==
    ASSUME TypeOK, OneOwner, NEW w \in Worker, SendDone(w)
    PROVE  OneOwner'
<1>1. /\ Holds(w)
      /\ wbucket[w] \in Bucket
      /\ Done(wbucket[w]) \in ReporterMessage
      /\ Done(wbucket[w]).bucket = wbucket[w]
  BY DEF SendDone, Holds, OneOwner, Done, ReporterMessage
<1>2. /\ DOMAIN queue' = 1..(Len(queue) + 1)
      /\ DOMAIN queue = 1..Len(queue)
      /\ Len(queue) \in Nat
      /\ \A i \in 1..Len(queue) : queue'[i] = queue[i]
      /\ queue'[Len(queue) + 1].bucket = wbucket[w]
  BY <1>1, SendFacts DEF TypeOK, SendDone
<1>3. UNCHANGED <<done, taskq>>
  BY DEF SendDone, mainVars, reportVars
<1>4. \A v \in Worker : Holds(v)' => Holds(v) /\ v # w /\ wbucket'[v] = wbucket[v]
  BY DEF SendDone, Holds, TypeOK, WorkerTypeOK, PC
<1>5. \A i \in DOMAIN taskq : \A k \in DOMAIN queue' : queue'[k].bucket # taskq[i]
  BY <1>1, <1>2 DEF OneOwner
<1>6. \A v \in Worker : Holds(v)' =>
          \A k \in DOMAIN queue' : queue'[k].type = "Done" => queue'[k].bucket # wbucket'[v]
  BY <1>1, <1>2, <1>4 DEF OneOwner
<1> QED BY <1>3, <1>4, <1>5, <1>6 DEF OneOwner

(* Every step of a worker keeps the invariants of the channel. *)
LEMMA WorkerStepOrder ==
    ASSUME TypeOK, OneOwner, DoneIsLast, OwnMessages, NEW w \in Worker, WorkerStep(w)
    PROVE  OneOwner' /\ DoneIsLast' /\ OwnMessages'
<1>h. Holds(w) => wbucket[w] \in Bucket
  BY DEF OneOwner
<1>0. wpc \in [Worker -> PC] /\ WorkerTypeOK
  BY DEF TypeOK, WorkerTypeOK
<1>1. CASE Pop(w)
  BY <1>1, PopKeepsOwner
<1>2. ASSUME NEW now \in BOOLEAN, Report(w, now) PROVE OneOwner' /\ DoneIsLast' /\ OwnMessages'
  <2> DEFINE m == Message(wbucket[w], NextMsgs(wbucket[w], 1)[1], now)
  <2>1. Holds(w) /\ wbucket[w] \in Bucket /\ 1 \in 0..MaxMsgs
    BY <1>2, <1>h, <1>0, Bounds DEF Report, Holds, CountSend, WorkerTypeOK
  <2>2. /\ NextMsgs(wbucket[w], 1)[1] \in Msg
        /\ NextMsgs(wbucket[w], 1)[1].bucket = wbucket[w]
    BY <1>2, <1>0, <2>1, NextMsgsType DEF Report, CountSend
  <2>3. /\ m \in ReporterMessage /\ m.bucket = wbucket[w] /\ m.type = "Message"
        /\ Len(m.msgs) = 1 /\ \A k \in DOMAIN m.msgs : m.msgs[k].bucket = m.bucket
    BY <2>1, <2>2 DEF Message, ReporterMessage
  <2>4. Send(m) /\ UNCHANGED <<mainVars, taskq, wbucket>> /\ \A v \in Worker : Holds(v)' => Holds(v)
    BY <1>2 DEF Report, Holds
  <2> HIDE DEF m
  <2> QED BY <2>1, <2>3, <2>4, SendKeepsOrder, SendKeepsOwner
<1>3. ASSUME NEW k \in 0..MaxMsgs, ReportMulti(w, k) PROVE OneOwner' /\ DoneIsLast' /\ OwnMessages'
  <2> DEFINE m == Messages(wbucket[w], NextMsgs(wbucket[w], k))
  <2>1. Holds(w) /\ wbucket[w] \in Bucket
    BY <1>3, <1>h DEF ReportMulti, Holds
  <2>2. /\ NextMsgs(wbucket[w], k) \in Seq(Msg)
        /\ DOMAIN NextMsgs(wbucket[w], k) = 1..k
        /\ \A i \in 1..k : NextMsgs(wbucket[w], k)[i].bucket = wbucket[w]
    BY <1>3, <1>0, <2>1, NextMsgsType DEF ReportMulti, CountSend
  <2>3. /\ m \in ReporterMessage /\ m.bucket = wbucket[w] /\ m.type = "Messages"
        /\ \A i \in DOMAIN m.msgs : m.msgs[i].bucket = m.bucket
    BY <2>1, <2>2 DEF Messages, ReporterMessage
  <2>4. Send(m) /\ UNCHANGED <<mainVars, taskq, wbucket>> /\ \A v \in Worker : Holds(v)' => Holds(v)
    BY <1>3 DEF ReportMulti, Holds
  <2> HIDE DEF m
  <2> QED BY <2>1, <2>3, <2>4, SendKeepsOrder, SendKeepsOwner
<1>4. ASSUME NEW p \in Pid, StartLong(w, p) PROVE OneOwner' /\ DoneIsLast' /\ OwnMessages'
  <2> DEFINE m == ReportLongRunning(wbucket[w], p)
  <2>1. Holds(w) /\ wbucket[w] \in Bucket
    BY <1>4, <1>h DEF StartLong, Holds
  <2>2. m \in ReporterMessage
    BY <2>1, MessageTypes
  <2>3. m.bucket = wbucket[w] /\ m.type = "ReportLongRunning" /\ DOMAIN m.msgs = {}
    BY DEF ReportLongRunning
  <2>4. Send(m) /\ UNCHANGED <<mainVars, taskq, wbucket>> /\ \A v \in Worker : Holds(v)' => Holds(v)
    BY <1>4 DEF StartLong, Holds
  <2> HIDE DEF m
  <2> QED BY <2>1, <2>2, <2>3, <2>4, SendKeepsOrder, SendKeepsOwner
<1>5. CASE FinishLong(w)
  <2> DEFINE m == FinishLongRunning(wbucket[w], wlong[w])
  <2>1. Holds(w) /\ wbucket[w] \in Bucket /\ wlong[w] \in Pid
    BY <1>5, <1>h, <1>0 DEF FinishLong, Holds, WorkerTypeOK
  <2>2. m \in ReporterMessage
    BY <2>1, MessageTypes
  <2>3. m.bucket = wbucket[w] /\ m.type = "FinishLongRunning" /\ DOMAIN m.msgs = {}
    BY DEF FinishLongRunning
  <2>4. Send(m) /\ UNCHANGED <<mainVars, taskq, wbucket>> /\ \A v \in Worker : Holds(v)' => Holds(v)
    BY <1>5 DEF FinishLong, Holds
  <2> HIDE DEF m
  <2> QED BY <2>1, <2>2, <2>3, <2>4, SendKeepsOrder, SendKeepsOwner
<1>6. CASE BucketOk(w)
  <2>1. UNCHANGED <<mainVars, taskq, wbucket, queue>> /\ \A v \in Worker : Holds(v)' => Holds(v)
    BY <1>6, <1>0 DEF BucketOk, Holds
  <2> QED BY <2>1, QuietKeepsOwner
<1>7. CASE BucketErr(w)
  <2> DEFINE m == Message(wbucket[w], NextMsgs(wbucket[w], 1)[1], TRUE)
  <2>1. Holds(w) /\ wbucket[w] \in Bucket /\ 1 \in 0..MaxMsgs
    BY <1>7, <1>h, <1>0, Bounds DEF BucketErr, Holds, CountSend, WorkerTypeOK
  <2>2. /\ NextMsgs(wbucket[w], 1)[1] \in Msg
        /\ NextMsgs(wbucket[w], 1)[1].bucket = wbucket[w]
    BY <1>7, <1>0, <2>1, NextMsgsType DEF BucketErr, CountSend
  <2>3. /\ m \in ReporterMessage /\ m.bucket = wbucket[w] /\ m.type = "Message"
        /\ Len(m.msgs) = 1 /\ \A k \in DOMAIN m.msgs : m.msgs[k].bucket = m.bucket
    BY <2>1, <2>2 DEF Message, ReporterMessage
  <2>4. Send(m) /\ UNCHANGED <<mainVars, taskq, wbucket>>
    BY <1>7 DEF BucketErr
  <2>5. \A v \in Worker : Holds(v)' => Holds(v)
    BY <1>7, <1>0 DEF BucketErr, Holds
  <2> HIDE DEF m
  <2> QED BY <2>1, <2>3, <2>4, <2>5, SendKeepsOrder, SendKeepsOwner
<1>8. CASE SendDone(w)
  <2> DEFINE m == Done(wbucket[w])
  <2>1. Holds(w) /\ wbucket[w] \in Bucket
    BY <1>8, <1>h DEF SendDone, Holds
  <2>2. m \in ReporterMessage /\ m.bucket = wbucket[w] /\ m.type = "Done" /\ DOMAIN m.msgs = {}
    BY <2>1 DEF Done, ReporterMessage
  <2>3. Send(m) /\ UNCHANGED mainVars
    BY <1>8 DEF SendDone
  <2> HIDE DEF m
  <2>4. DoneIsLast' /\ OwnMessages'
    BY <2>1, <2>2, <2>3, SendKeepsOrder
  <2> QED BY <1>8, <2>4, SendDoneKeepsOwner
<1>9. CASE Panic(w)
  <2> DEFINE m == WorkerPanicked(wbucket[w])
  <2>1. Holds(w) /\ wbucket[w] \in Bucket
    BY <1>9, <1>h DEF Panic, Holds
  <2>2. m \in ReporterMessage /\ m.bucket = wbucket[w] /\ m.type = "WorkerPanicked" /\ DOMAIN m.msgs = {}
    BY <2>1 DEF WorkerPanicked, ReporterMessage
  <2>3. Send(m) /\ UNCHANGED <<mainVars, taskq, wbucket>>
    BY <1>9 DEF Panic
  <2>4. \A v \in Worker : Holds(v)' => Holds(v)
    BY <1>9, <1>0 DEF Panic, Holds
  <2> HIDE DEF m
  <2> QED BY <2>1, <2>2, <2>3, <2>4, SendKeepsOrder, SendKeepsOwner
<1>10. CASE Die(w)
  <2>1. UNCHANGED <<mainVars, taskq, wbucket, queue>> /\ \A v \in Worker : Holds(v)' => Holds(v)
    BY <1>10, <1>0 DEF Die, Holds
  <2> QED BY <2>1, QuietKeepsOwner
<1>11. CASE SendToClosed(w)
  <2>1. UNCHANGED <<mainVars, taskq, wbucket, queue>> /\ \A v \in Worker : Holds(v)' => Holds(v)
    BY <1>11, <1>0 DEF SendToClosed, Holds
  <2> QED BY <2>1, QuietKeepsOwner
<1> QED BY <1>1, <1>2, <1>3, <1>4, <1>5, <1>6, <1>7, <1>8, <1>9, <1>10, <1>11 DEF WorkerStep

(* What a worker does is invisible to the main thread's bookkeeping. *)
LEMMA WorkerStepInv ==
    ASSUME PoolInv, NEW w \in Worker, WorkerStep(w)
    PROVE  PoolInv'
<1>1. UNCHANGED mainVars
  BY DEF WorkerStep, Pop, Report, ReportMulti, StartLong, FinishLong, BucketOk,
         BucketErr, SendDone, Panic, Die, SendToClosed
<1>2. BufferedOwn' /\ CountsDone' /\ PrintedForOpenOrClosed' /\ DrainIdle' /\ NothingStranded'
  BY <1>1 DEF PoolInv, BufferedOwn, CountsDone, PrintedForOpenOrClosed, DrainIdle, NothingStranded,
              NothingBuffered, mainVars, reportVars
<1> QED BY <1>2, WorkerStepType, WorkerStepOrder DEF PoolInv

-----------------------------------------------------------------------------
(* The main thread.                                                        *)

(* A received message is the head of local_msgs or of the channel, and the *)
(* rest stays in place.                                                    *)
LEMMA ReceiveFacts ==
    ASSUME TypeOK, NEW m, Receive(m)
    PROVE  /\ m \in ReporterMessage
           /\ queue' \in Seq(ReporterMessage)
           /\ local' \in Seq(ReporterMessage)
           /\ \/ /\ queue' = queue
                 /\ 1 \in DOMAIN local /\ m = local[1]
                 /\ \A i \in DOMAIN local' : i + 1 \in DOMAIN local /\ local'[i] = local[i + 1]
              \/ /\ local = <<>> /\ local' = local
                 /\ 1 \in DOMAIN queue /\ m = queue[1]
                 /\ \A i \in DOMAIN queue' : i + 1 \in DOMAIN queue /\ queue'[i] = queue[i + 1] /\ i \in Nat
<1>0. queue \in Seq(ReporterMessage) /\ local \in Seq(ReporterMessage)
  BY DEF TypeOK, MainTypeOK
<1>1. CASE local # <<>>
  <2>1. m = Head(local) /\ local' = Tail(local) /\ queue' = queue BY <1>1 DEF Receive
  <2> QED BY <1>0, <1>1, <2>1
<1>2. CASE local = <<>>
  <2>1. queue # <<>> /\ m = Head(queue) /\ queue' = Tail(queue) /\ local' = local BY <1>2 DEF Receive
  <2> QED BY <1>0, <1>2, <2>1
<1> QED BY <1>1, <1>2

(* What is printed, or waits to be, are diagnostics of buckets. *)
LEMMA MsgBucket == ASSUME NEW s \in Seq(Msg) PROVE \A i \in DOMAIN s : s[i].bucket \in Bucket
<1>1. \A i \in DOMAIN s : s[i] \in Msg OBVIOUS
<1> QED BY <1>1 DEF Msg

LEMMA ReceiveKeepsOrder ==
    ASSUME TypeOK, OneOwner, DoneIsLast, OwnMessages, NEW m, Receive(m),
           UNCHANGED <<done, workerVars>>
    PROVE  OneOwner' /\ DoneIsLast' /\ OwnMessages'
<1>1. UNCHANGED <<taskq, wpc, wbucket>> /\ \A v \in Worker : Holds(v)' <=> Holds(v)
  BY DEF workerVars, Holds
<1>2. CASE /\ queue' = queue
           /\ \A i \in DOMAIN local' : i + 1 \in DOMAIN local /\ local'[i] = local[i + 1]
  BY <1>1, <1>2 DEF OneOwner, DoneIsLast, OwnMessages
<1>3. CASE /\ local' = local
           /\ \A i \in DOMAIN queue' : i + 1 \in DOMAIN queue /\ queue'[i] = queue[i + 1] /\ i \in Nat
  <2>1. OneOwner' BY <1>1, <1>3 DEF OneOwner
  <2>2. DoneIsLast'
    <3>1. \A i, j \in DOMAIN queue' : i < j => i + 1 < j + 1
      BY <1>3
    <3> QED BY <1>3, <3>1 DEF DoneIsLast
  <2>3. OwnMessages' BY <1>3 DEF OwnMessages
  <2> QED BY <2>1, <2>2, <2>3
<1> QED BY <1>2, <1>3, ReceiveFacts

(* A message in hand: its bucket is not done. *)
LEMMA ReceivedNotDone ==
    ASSUME TypeOK, DoneIsLast, OwnMessages, NEW m, Receive(m)
    PROVE  /\ m.bucket \in Bucket
           /\ ~done[m.bucket]
           /\ m.type = "Message" =>
                /\ Len(m.msgs) = 1 /\ m.msgs[1] \in Msg
                /\ m.msgs[1].bucket = m.bucket
<1>1. m \in ReporterMessage BY ReceiveFacts
<1>2. ~done[m.bucket] BY ReceiveFacts DEF DoneIsLast
<1>3. m.type = "Message" => Len(m.msgs) = 1 BY ReceiveFacts DEF OwnMessages
<1>4. m.bucket \in Bucket /\ m.msgs \in Seq(Msg) BY <1>1 DEF ReporterMessage
<1>5. m.type = "Message" => m.msgs[1] \in Msg /\ 1 \in DOMAIN m.msgs
  <2>1. \A s \in Seq(Msg) : Len(s) = 1 => s[1] \in Msg /\ 1 \in DOMAIN s OBVIOUS
  <2> QED BY <1>3, <1>4, <2>1
<1>6. m.type = "Message" => m.msgs[1].bucket = m.bucket
  <2>1. CASE 1 \in DOMAIN local /\ m = local[1] BY <2>1 DEF OwnMessages
  <2>2. CASE 1 \in DOMAIN queue /\ m = queue[1] BY <1>5, <2>2 DEF OwnMessages
  <2> QED BY <2>1, <2>2, ReceiveFacts
<1> QED BY <1>2, <1>3, <1>4, <1>5, <1>6

LEMMA HandleMessageInv == ASSUME PoolInv, NEW m, HandleMessage(m) PROVE PoolInv'
<1> USE DEF PoolInv
<1>1. Receive(m) /\ UNCHANGED <<done, workerVars>> BY DEF HandleMessage
<1>2. OneOwner' /\ DoneIsLast' /\ OwnMessages' BY <1>1, ReceiveKeepsOrder
<1>3. /\ m.bucket \in Bucket /\ ~done[m.bucket]
      /\ m.msgs[1] \in Msg /\ m.msgs[1].bucket = m.bucket
  BY <1>1, ReceivedNotDone DEF HandleMessage
<1>4. mpc' \in {"handle", "reap"} /\ mpc = "handle"
  BY DEF HandleMessage, AfterMessage, Receive
<1>5. WorkerTypeOK' BY <1>1 DEF workerVars, WorkerTypeOK, TypeOK
<1>6. queue' \in Seq(ReporterMessage) /\ local' \in Seq(ReporterMessage) BY <1>1, ReceiveFacts
<1>7. CountsDone' /\ DrainIdle'
  BY <1>4 DEF HandleMessage, CountsDone, DrainIdle
<1>8. CASE MayPrint(m.bucket)
  <2>1. active' = m.bucket /\ printed' = Append(printed, m.msgs[1]) /\ UNCHANGED buffered
    BY <1>8 DEF HandleMessage
  <2>2. printed \in Seq(Msg) BY DEF TypeOK, MainTypeOK
  <2>3. TypeOK'
    <3>1. printed' \in Seq(Msg) BY <2>1, <2>2, <1>3
    <3> QED BY <1>3, <1>4, <1>5, <1>6, <2>1, <3>1 DEF HandleMessage, TypeOK, MainTypeOK
  <2>4. PrintedForOpenOrClosed'
    <3>1. \A i \in DOMAIN printed' : (i \in DOMAIN printed /\ printed'[i] = printed[i]) \/ printed'[i] = m.msgs[1]
      BY <2>1, <2>2
    <3>2. active \in {NoBucket, m.bucket} BY <1>8 DEF MayPrint
    <3>3. \A i \in DOMAIN printed : printed[i].bucket # NoBucket
      BY <2>2, MsgBucket, BucketFacts
    <3> QED BY <1>1, <1>3, <2>1, <3>1, <3>2, <3>3 DEF PrintedForOpenOrClosed
  <2>5. NothingStranded'
    <3>1. buffered[m.bucket] = <<>>
      BY <1>3, <1>4, <1>8, BucketFacts DEF MayPrint, NothingStranded, NothingBuffered
    <3> QED BY <1>1, <1>3, <2>1, <3>1, BucketFacts DEF NothingStranded
  <2> QED BY <1>2, <1>7, <2>1, <2>3, <2>4, <2>5 DEF BufferedOwn
<1>9. CASE ~MayPrint(m.bucket)
  <2>1. /\ buffered' = [buffered EXCEPT ![m.bucket] = Append(@, m.msgs[1])]
        /\ UNCHANGED <<active, printed>>
    BY <1>9 DEF HandleMessage
  <2>2. buffered \in [Bucket -> Seq(Msg)] BY DEF TypeOK, MainTypeOK
  <2>3. /\ buffered' \in [Bucket -> Seq(Msg)]
        /\ buffered'[m.bucket] = Append(buffered[m.bucket], m.msgs[1])
        /\ \A b \in Bucket : b # m.bucket => buffered'[b] = buffered[b]
    BY <1>3, <2>1, <2>2
  <2>4. TypeOK'
    BY <1>3, <1>4, <1>5, <1>6, <2>1, <2>3 DEF HandleMessage, TypeOK, MainTypeOK
  <2>5. PrintedForOpenOrClosed'
    <3>1. \A i \in DOMAIN printed : printed[i].bucket \in Bucket
      BY MsgBucket DEF TypeOK, MainTypeOK
    <3> QED BY <1>1, <1>3, <2>1, <2>3, <3>1 DEF PrintedForOpenOrClosed
  <2>6. NothingStranded'
    BY <1>1, <1>3, <1>9, <2>1, <2>3, BucketFacts DEF NothingStranded, NothingBuffered, MayPrint, TypeOK, MainTypeOK
  <2>7. BufferedOwn'
    <3>1. \A k \in DOMAIN buffered'[m.bucket] : buffered'[m.bucket][k].bucket = m.bucket
      BY <1>3, <2>2, <2>3 DEF BufferedOwn
    <3> QED BY <1>3, <2>3, <3>1 DEF BufferedOwn
  <2> QED BY <1>2, <1>7, <2>4, <2>5, <2>6, <2>7
<1> QED BY <1>8, <1>9

(* A message that touches neither buffers nor output keeps the invariant. *)
LEMMA HandleAsideInv ==
    ASSUME PoolInv, NEW m, Receive(m),
           UNCHANGED <<workerVars, active, buffered, done, printed, numDone, reaped, merged>>,
           mpc' \in {"handle", "reap", "panicked"}, bars' \in [Pid -> Bar], printedNow' \subseteq Msg
    PROVE  PoolInv'
<1> USE DEF PoolInv
<1>1. OneOwner' /\ DoneIsLast' /\ OwnMessages' BY ReceiveKeepsOrder
<1>2. WorkerTypeOK' BY DEF workerVars, WorkerTypeOK, TypeOK
<1>3. TypeOK' BY <1>2, ReceiveFacts DEF TypeOK, MainTypeOK
<1>4. mpc = "handle" BY DEF Receive
<1>5. CountsDone' /\ DrainIdle' /\ NothingStranded'
  BY <1>4 DEF CountsDone, DrainIdle, NothingStranded, NothingBuffered
<1>6. PrintedForOpenOrClosed' /\ BufferedOwn' BY DEF PrintedForOpenOrClosed, BufferedOwn
<1> QED BY <1>1, <1>3, <1>5, <1>6

LEMMA HandleNowInv == ASSUME PoolInv, NEW m, HandleNow(m) PROVE PoolInv'
<1>1. Receive(m) /\ mpc' = "handle" BY DEF HandleNow, Receive
<1>2. m.msgs[1] \in Msg BY <1>1, ReceivedNotDone DEF HandleNow, PoolInv
<1>3. printedNow' \subseteq Msg /\ bars' \in [Pid -> Bar]
  BY <1>2 DEF HandleNow, PoolInv, TypeOK, MainTypeOK
<1> QED BY <1>1, <1>3, HandleAsideInv DEF HandleNow

LEMMA HandleReportLongInv == ASSUME PoolInv, NEW m, HandleReportLong(m) PROVE PoolInv'
<1>1. Receive(m) /\ mpc' \in {"handle", "reap"} BY DEF HandleReportLong, AfterMessage
<1>2. bars \in [Pid -> Bar] /\ printedNow \subseteq Msg BY DEF PoolInv, TypeOK, MainTypeOK
<1>3. bars' \in [Pid -> Bar] BY <1>2 DEF HandleReportLong, Bar, BarState
<1> QED BY <1>1, <1>2, <1>3, HandleAsideInv DEF HandleReportLong, reportVars

LEMMA HandleFinishLongInv == ASSUME PoolInv, NEW m, HandleFinishLong(m) PROVE PoolInv'
<1>1. Receive(m) /\ mpc' \in {"handle", "reap", "panicked"} BY DEF HandleFinishLong, AfterMessage
<1>2. bars \in [Pid -> Bar] /\ printedNow \subseteq Msg BY DEF PoolInv, TypeOK, MainTypeOK
<1>3. bars' \in [Pid -> Bar] BY <1>2 DEF HandleFinishLong, Bar, BarState
<1> QED BY <1>1, <1>2, <1>3, HandleAsideInv DEF HandleFinishLong, reportVars

LEMMA HandlePanickedInv == ASSUME PoolInv, NEW m, HandlePanicked(m) PROVE PoolInv'
<1>1. Receive(m) /\ mpc' = "panicked" BY DEF HandlePanicked
<1>2. bars' \in [Pid -> Bar] /\ printedNow' \subseteq Msg
  BY DEF HandlePanicked, reportVars, PoolInv, TypeOK, MainTypeOK
<1> QED BY <1>1, <1>2, HandleAsideInv DEF HandlePanicked, reportVars

LEMMA HandleMessagesInv == ASSUME PoolInv, HandleMessages PROVE PoolInv'
<1> USE DEF PoolInv
<1> DEFINE m == Head(queue)
<1>1. /\ mpc = "handle" /\ local = <<>> /\ queue # <<>> /\ queue' = Tail(queue)
      /\ UNCHANGED <<workerVars, reportVars, numDone, bars, reaped, merged>>
      /\ mpc' \in {"handle", "reap"}
  BY DEF HandleMessages, AfterMessage
<1>2. queue \in Seq(ReporterMessage) BY DEF TypeOK
<1>3. /\ queue' \in Seq(ReporterMessage) /\ m \in ReporterMessage /\ m = queue[1]
      /\ 1 \in DOMAIN queue
      /\ \A i \in DOMAIN queue' : i \in Nat /\ i + 1 \in DOMAIN queue /\ queue'[i] = queue[i + 1]
  BY <1>1, <1>2
<1>4. PICK t \in SortedBySpan(m.msgs) : local' = [i \in DOMAIN t |-> Message(m.bucket, t[i], m.now)]
  BY DEF HandleMessages
<1>5. m.msgs \in Seq(Msg) /\ m.bucket \in Bucket /\ m.now \in BOOLEAN
  BY <1>3 DEF ReporterMessage
<1>6. /\ DOMAIN t = DOMAIN m.msgs
      /\ \A i \in DOMAIN t : \E k \in DOMAIN m.msgs : t[i] = m.msgs[k]
  BY <1>4 DEF SortedBySpan
<1>7. \A i \in DOMAIN t : t[i] \in Msg /\ t[i].bucket = m.bucket
  BY <1>3, <1>5, <1>6 DEF OwnMessages
<1>8. \A i \in DOMAIN t : Message(m.bucket, t[i], m.now) \in ReporterMessage
  BY <1>5, <1>7 DEF Message, ReporterMessage
<1>9. local' \in Seq(ReporterMessage)
  <2>1. Len(m.msgs) \in Nat /\ DOMAIN t = 1..Len(m.msgs) BY <1>5, <1>6
  <2>2. local' \in [1..Len(m.msgs) -> ReporterMessage] BY <1>4, <1>8, <2>1
  <2> QED BY <2>1, <2>2
<1>10. TypeOK'
  BY <1>1, <1>3, <1>9 DEF TypeOK, MainTypeOK, WorkerTypeOK, workerVars, reportVars
<1>11. \A i \in DOMAIN local' : /\ local'[i].bucket = m.bucket /\ local'[i].type = "Message"
                                /\ Len(local'[i].msgs) = 1 /\ local'[i].msgs[1].bucket = m.bucket
  BY <1>4, <1>7 DEF Message
<1>12. ~done[m.bucket] BY <1>3 DEF DoneIsLast
<1>13. DoneIsLast'
  <2>1. \A i, j \in DOMAIN queue' : i < j => i + 1 < j + 1 BY <1>3
  <2>2. UNCHANGED done BY <1>1 DEF reportVars
  <2> QED BY <1>3, <1>11, <1>12, <2>1, <2>2 DEF DoneIsLast
<1>14. OwnMessages' BY <1>3, <1>11 DEF OwnMessages
<1>15. OneOwner'
  <2>1. UNCHANGED <<taskq, wpc, wbucket, done>> BY <1>1 DEF workerVars, reportVars
  <2> QED BY <1>3, <2>1 DEF OneOwner, Holds
<1>16. BufferedOwn' /\ CountsDone' /\ DrainIdle' /\ NothingStranded' /\ PrintedForOpenOrClosed'
  BY <1>1 DEF BufferedOwn, CountsDone, DrainIdle, NothingStranded, NothingBuffered,
              PrintedForOpenOrClosed, reportVars
<1> QED BY <1>10, <1>13, <1>14, <1>15, <1>16

(* Marking one more bucket done adds one to the number of done buckets. *)
LEMMA OneMoreDone ==
    ASSUME done \in [Bucket -> BOOLEAN], NEW b \in Bucket, ~done[b],
           done' = [done EXCEPT ![b] = TRUE]
    PROVE  /\ Cardinality({c \in Bucket : done[c]}) \in Nat
           /\ Cardinality({c \in Bucket : done'[c]}) = Cardinality({c \in Bucket : done[c]}) + 1
<1> DEFINE S == {c \in Bucket : done[c]}
<1>1. IsFiniteSet(S) BY BucketFacts, FS_Subset
<1>2. {c \in Bucket : done'[c]} = S \cup {b} OBVIOUS
<1>3. b \notin S OBVIOUS
<1> HIDE DEF S
<1>4. Cardinality(S \cup {b}) = Cardinality(S) + 1 BY <1>1, <1>3, FS_AddElement
<1>5. Cardinality(S) \in Nat BY <1>1, FS_CardinalityType
<1> QED BY <1>2, <1>4, <1>5 DEF S

LEMMA HandleDoneInv == ASSUME PoolInv, NEW m, HandleDone(m) PROVE PoolInv'
<1> USE DEF PoolInv
<1>1. /\ Receive(m) /\ m.type = "Done" /\ done' = [done EXCEPT ![m.bucket] = TRUE]
      /\ UNCHANGED <<workerVars, buffered, printed, printedNow, bars, reaped, merged>>
  BY DEF HandleDone
<1>2. /\ local = <<>> /\ local' = local
      /\ 1 \in DOMAIN queue /\ m = queue[1]
      /\ \A i \in DOMAIN queue' : i + 1 \in DOMAIN queue /\ queue'[i] = queue[i + 1] /\ i \in Nat
  BY <1>1, ReceiveFacts DEF DoneIsLast
<1>3. m.bucket \in Bucket /\ ~done[m.bucket] BY <1>1, ReceivedNotDone
<1>4. done \in [Bucket -> BOOLEAN] /\ numDone \in Nat BY DEF TypeOK, MainTypeOK
<1>5. \A b \in Bucket : b # m.bucket => done'[b] = done[b] BY <1>1, <1>4
<1>5a. done'[m.bucket] /\ done' \in [Bucket -> BOOLEAN] BY <1>1, <1>3, <1>4
<1>6. mpc = "handle" /\ mpc' \in {"drain", "handle", "reap"} /\ numDone' \in Nat
  BY <1>4 DEF HandleDone, CountDone, AfterMessage, Receive, MayPrint
<1>7. active' \in {active, NoBucket} BY DEF HandleDone
<1>8. TypeOK'
  <2>1. WorkerTypeOK' BY <1>1 DEF TypeOK, WorkerTypeOK, workerVars
  <2>2. queue' \in Seq(ReporterMessage) /\ local' \in Seq(ReporterMessage) BY <1>1, ReceiveFacts
  <2> QED BY <1>1, <1>5a, <1>6, <1>7, <2>1, <2>2 DEF TypeOK, MainTypeOK
<1>9. OneOwner'
  <2>1. UNCHANGED <<taskq, wpc, wbucket>> /\ \A v \in Worker : Holds(v)' <=> Holds(v)
    BY <1>1 DEF workerVars, Holds
  <2>2. \A i \in DOMAIN taskq : taskq[i] # m.bucket /\ taskq[i] \in Bucket
    BY <1>2 DEF OneOwner, TypeOK, WorkerTypeOK
  <2>3. \A v \in Worker : Holds(v) => wbucket[v] # m.bucket /\ wbucket[v] \in Bucket
    BY <1>1, <1>2 DEF OneOwner
  <2>4. \A i \in DOMAIN taskq : ~done'[taskq[i]] BY <1>5, <2>2 DEF OneOwner
  <2>5. \A v \in Worker : Holds(v) => ~done'[wbucket[v]] BY <1>5, <2>3 DEF OneOwner
  <2> QED BY <1>2, <2>1, <2>4, <2>5 DEF OneOwner
<1>10. DoneIsLast'
  <2>1. \A i \in DOMAIN queue' : queue'[i].bucket # m.bucket
    <3>1. \A i \in DOMAIN queue' : 1 < i + 1
      <4>1. queue' \in Seq(ReporterMessage) BY <1>1, ReceiveFacts
      <4> QED BY <4>1
    <3> QED BY <1>1, <1>2, <3>1 DEF DoneIsLast
  <2>2. \A i \in DOMAIN queue' : queue'[i].bucket \in Bucket
    <3>1. \A i \in DOMAIN queue' : queue'[i] \in ReporterMessage BY <1>8 DEF TypeOK
    <3> QED BY <3>1 DEF ReporterMessage
  <2>3. \A i \in DOMAIN queue' : ~done'[queue'[i].bucket] BY <1>2, <1>5, <2>1, <2>2 DEF DoneIsLast
  <2>4. \A i, j \in DOMAIN queue' : i < j => i + 1 < j + 1 BY <1>2
  <2>5. DOMAIN local' = {} BY <1>2
  <2> QED BY <1>2, <2>3, <2>4, <2>5 DEF DoneIsLast
<1>11. OwnMessages' /\ BufferedOwn' BY <1>1, <1>2 DEF OwnMessages, BufferedOwn
<1>12. CountsDone'
  <2>1. Cardinality({c \in Bucket : done[c]}) = numDone
    BY <1>4, <1>6 DEF CountsDone
  <2>1a. Cardinality({c \in Bucket : done'[c]}) = numDone + 1
    BY <1>1, <1>3, <1>4, <2>1, OneMoreDone
  <2>2. CASE MayPrint(m.bucket)
    BY <1>4, <2>1a, <2>2 DEF HandleDone, CountsDone
  <2>3. CASE ~MayPrint(m.bucket)
    BY <1>4, <2>1a, <2>3 DEF HandleDone, CountDone, AfterMessage, CountsDone
  <2> QED BY <2>2, <2>3
<1>13. DrainIdle' BY DEF HandleDone, CountDone, AfterMessage, DrainIdle
<1>14. NothingStranded'
  <2>1. CASE MayPrint(m.bucket)
    BY <2>1 DEF HandleDone, NothingStranded
  <2>2. CASE ~MayPrint(m.bucket)
    <3>1. /\ active \notin {NoBucket, m.bucket} /\ active \in Bucket /\ active' = active
          /\ buffered' = buffered
      BY <1>1, <2>2 DEF HandleDone, MayPrint, TypeOK, MainTypeOK
    <3>2. buffered[active] = <<>> /\ ~done[active] BY <3>1 DEF NothingStranded
    <3>3. ~done'[active] BY <1>5, <3>1, <3>2
    <3> QED BY <3>1, <3>2, <3>3 DEF NothingStranded
  <2> QED BY <2>1, <2>2
<1>15. PrintedForOpenOrClosed'
  <2>1. \A i \in DOMAIN printed : printed[i].bucket \in Bucket BY MsgBucket DEF TypeOK, MainTypeOK
  <2>2. \A b \in Bucket : done[b] => done'[b] BY <1>5, <1>5a
  <2>3. CASE MayPrint(m.bucket)
    <3>1. active = m.bucket \/ active = NoBucket BY <2>3 DEF MayPrint
    <3>2. buffered[m.bucket] = <<>>
      BY <1>3, <1>6, <3>1, BucketFacts DEF NothingStranded, NothingBuffered
    <3> QED BY <1>1, <1>5a, <2>1, <2>2, <3>1, <3>2, BucketFacts DEF PrintedForOpenOrClosed
  <2>4. CASE ~MayPrint(m.bucket)
    BY <1>1, <2>1, <2>2, <2>4 DEF HandleDone, PrintedForOpenOrClosed
  <2> QED BY <2>3, <2>4
<1> QED BY <1>8, <1>9, <1>10, <1>11, <1>12, <1>13, <1>14, <1>15

(* A nonempty set of natural numbers has a least element. *)
LEMMA LeastNatural ==
    ASSUME NEW T \in SUBSET Nat, T # {}
    PROVE  \E x \in T : \A y \in T : x <= y
<1> DEFINE R == OpToRel(<, Nat)
<1>1. IsWellFoundedOn(R, Nat) BY NatLessThanWellFounded
<1>2. \A x, y \in Nat : <<x, y>> \in R <=> x < y BY DEF OpToRel
<1> HIDE DEF R
<1>3. PICK x \in T : \A y \in T : ~ (<<y, x>> \in R) BY <1>1, WFMin
<1>4. \A y \in T : x <= y
  <2> TAKE y \in T
  <2>1. x \in Nat /\ y \in Nat OBVIOUS
  <2>2. ~(<<y, x>> \in R) BY <1>3
  <2>3. ~(y < x) BY <1>2, <2>1, <2>2
  <2> QED BY <2>1, <2>3
<1> QED BY <1>4

(* The bucket the drain comes to next. *)
LEMMA FirstBufferedFacts ==
    ASSUME ~NothingBuffered
    PROVE  FirstBuffered \in Bucket /\ buffered[FirstBuffered] # <<>>
<1> DEFINE S == {b \in Bucket : buffered[b] # <<>>}
<1>1. S # {} BY DEF NothingBuffered
<1>2. S \in SUBSET Nat BY BucketFacts
<1>3. PICK b \in S : \A c \in S : b <= c BY <1>1, <1>2, LeastNatural
<1>4. \A c \in Bucket : c < b => buffered[c] = <<>> BY <1>2, <1>3, BucketFacts
<1> QED BY <1>3, <1>4 DEF FirstBuffered

LEMMA DrainInv == ASSUME PoolInv, Drain PROVE PoolInv'
<1> USE DEF PoolInv
<1> DEFINE b == FirstBuffered
<1>1. /\ mpc = "drain" /\ active = NoBucket
      /\ UNCHANGED <<workerVars, queue, done, printedNow, local, bars, reaped, merged>>
  BY DEF Drain, DrainIdle
<1>2. OneOwner' /\ DoneIsLast' /\ OwnMessages'
  BY <1>1 DEF OneOwner, DoneIsLast, OwnMessages, workerVars, Holds
<1>3. WorkerTypeOK' /\ queue' \in Seq(ReporterMessage)
  BY <1>1 DEF TypeOK, WorkerTypeOK, workerVars
<1>4. numDone \in Nat /\ buffered \in [Bucket -> Seq(Msg)] /\ printed \in Seq(Msg) /\ done \in [Bucket -> BOOLEAN]
  BY DEF TypeOK, MainTypeOK
<1>5. ASSUME CountDone PROVE CountsDone' /\ mpc' \in {"handle", "reap"} /\ numDone' \in Nat
  BY <1>1, <1>4, <1>5 DEF CountDone, AfterMessage, CountsDone
<1>6. CASE NothingBuffered
  <2>1. CountDone /\ UNCHANGED <<active, printed, buffered>> BY <1>6 DEF Drain
  <2>2. TypeOK' BY <1>1, <1>3, <1>5, <2>1 DEF TypeOK, MainTypeOK
  <2>3. NothingStranded' /\ DrainIdle' /\ BufferedOwn' /\ PrintedForOpenOrClosed'
    BY <1>1, <1>5, <1>6, <2>1 DEF NothingStranded, NothingBuffered, DrainIdle, BufferedOwn, PrintedForOpenOrClosed
  <2> QED BY <1>2, <1>5, <2>1, <2>2, <2>3
<1>7. CASE ~NothingBuffered
  <2>1. b \in Bucket BY <1>7, FirstBufferedFacts
  <2>2. printed' = printed \o buffered[b] /\ buffered' = [buffered EXCEPT ![b] = <<>>]
    BY <1>7 DEF Drain, PrintBuffered
  <2>3. IF ~done[b] THEN active' = b /\ CountDone ELSE UNCHANGED <<active, mpc, numDone>>
    BY <1>7 DEF Drain, BecomesActive
  <2> HIDE DEF b
  <2>4. /\ printed' \in Seq(Msg)
        /\ \A i \in DOMAIN printed' :
              \/ i \in DOMAIN printed /\ printed'[i] = printed[i]
              \/ \E k \in DOMAIN buffered[b] : printed'[i] = buffered[b][k]
    <3>1. buffered[b] \in Seq(Msg) BY <1>4, <2>1
    <3>2. \A s, t \in Seq(Msg) :
            /\ s \o t \in Seq(Msg)
            /\ \A i \in DOMAIN (s \o t) : \/ i \in DOMAIN s /\ (s \o t)[i] = s[i]
                                          \/ i - Len(s) \in DOMAIN t /\ (s \o t)[i] = t[i - Len(s)]
      OBVIOUS
    <3> QED BY <1>4, <2>2, <3>1, <3>2
  <2>5. \A i \in DOMAIN printed' : (i \in DOMAIN printed /\ printed'[i] = printed[i]) \/ printed'[i].bucket = b
    BY <2>1, <2>4 DEF BufferedOwn
  <2>6. /\ buffered' \in [Bucket -> Seq(Msg)] /\ buffered'[b] = <<>>
        /\ \A c \in Bucket : c # b => buffered'[c] = buffered[c]
    BY <1>4, <2>1, <2>2
  <2>7. BufferedOwn' BY <2>6 DEF BufferedOwn
  <2>8. \A i \in DOMAIN printed : /\ printed[i].bucket \in Bucket
                                  /\ done[printed[i].bucket] /\ buffered[printed[i].bucket] = <<>>
    BY <1>1, <1>4, MsgBucket, BucketFacts DEF PrintedForOpenOrClosed
  <2>9. \A i \in DOMAIN printed : buffered'[printed[i].bucket] = <<>> BY <2>6, <2>8
  <2>10. CASE ~done[b]
    <3>1. active' = b /\ CountDone BY <2>3, <2>10
    <3>2. TypeOK' BY <1>1, <1>3, <1>5, <2>1, <2>4, <2>6, <3>1 DEF TypeOK, MainTypeOK
    <3>3. PrintedForOpenOrClosed'
      BY <1>1, <2>5, <2>8, <2>9, <3>1 DEF PrintedForOpenOrClosed
    <3>4. NothingStranded' /\ DrainIdle'
      BY <1>1, <1>5, <2>1, <2>6, <2>10, <3>1, BucketFacts DEF NothingStranded, DrainIdle
    <3> QED BY <1>2, <1>5, <2>7, <3>1, <3>2, <3>3, <3>4
  <2>11. CASE done[b]
    <3>1. UNCHANGED <<active, mpc, numDone>> BY <2>3, <2>11
    <3>2. TypeOK' BY <1>1, <1>3, <2>4, <2>6, <3>1 DEF TypeOK, MainTypeOK
    <3>3. PrintedForOpenOrClosed'
      BY <1>1, <2>5, <2>6, <2>8, <2>9, <2>11 DEF PrintedForOpenOrClosed
    <3>4. NothingStranded' /\ DrainIdle' /\ CountsDone'
      BY <1>1, <3>1 DEF NothingStranded, DrainIdle, CountsDone
    <3> QED BY <1>2, <2>7, <3>2, <3>3, <3>4
  <2> QED BY <1>4, <2>1, <2>10, <2>11
<1> QED BY <1>6, <1>7

(* When all buckets are done, nothing is buffered. *)
LEMMA AllDoneNothingBuffered ==
    ASSUME PoolInv, mpc # "drain", numDone = NumBuckets
    PROVE  NothingBuffered
<1> DEFINE S == {c \in Bucket : done[c]}
<1>1. Cardinality(S) = NumBuckets
  BY NumBucketsAssumption DEF PoolInv, CountsDone
<1>2. S \in SUBSET Bucket OBVIOUS
<1> HIDE DEF S
<1>3. S = Bucket BY <1>1, <1>2, BucketFacts, FS_Subset
<1>4. \A b \in Bucket : done[b] BY <1>3 DEF S
<1>5. active = NoBucket BY <1>4 DEF PoolInv, TypeOK, MainTypeOK, NothingStranded
<1> QED BY <1>5 DEF PoolInv, NothingStranded

LEMMA ReapInv == ASSUME PoolInv, Reap PROVE PoolInv'
<1> USE DEF PoolInv
<1>1. /\ mpc = "reap" /\ mpc' \in {"panicked", "join", "handle"}
      /\ mpc' = "join" => numDone = NumBuckets
      /\ UNCHANGED <<workerVars, queue, reportVars, local, numDone, bars, merged>>
      /\ reaped' \subseteq Worker
  BY DEF Reap, TypeOK, MainTypeOK
<1>2. OneOwner' /\ DoneIsLast' /\ OwnMessages' /\ BufferedOwn' /\ PrintedForOpenOrClosed'
  BY <1>1 DEF OneOwner, DoneIsLast, OwnMessages, BufferedOwn, PrintedForOpenOrClosed,
              workerVars, reportVars, Holds
<1>3. TypeOK' BY <1>1 DEF TypeOK, MainTypeOK, WorkerTypeOK, workerVars, reportVars
<1>4. CountsDone' /\ DrainIdle' /\ NothingStranded'
  BY <1>1 DEF CountsDone, DrainIdle, NothingStranded, NothingBuffered, reportVars
<1> QED BY <1>2, <1>3, <1>4

LEMMA JoinInv == ASSUME PoolInv, Join PROVE PoolInv'
<1> USE DEF PoolInv
<1>1. /\ mpc = "join" /\ mpc' \in {"panicked", "emitted", "rest"}
      /\ UNCHANGED <<workerVars, queue, reportVars, local, numDone, bars, reaped>>
  BY DEF Join
<1>2. OneOwner' /\ DoneIsLast' /\ OwnMessages' /\ BufferedOwn' /\ PrintedForOpenOrClosed'
  BY <1>1 DEF OneOwner, DoneIsLast, OwnMessages, BufferedOwn, PrintedForOpenOrClosed,
              workerVars, reportVars, Holds
<1>3. merged' \in [Bucket -> Nat]
  <2>1. merged \in [Bucket -> Nat] BY DEF TypeOK, MainTypeOK
  <2>2. \A b \in Bucket : Cardinality(ResultsFor(b, Worker)) \in Nat
    <3> DEFINE f == [w \in Worker |-> {w} \X DOMAIN completed[w]]
               T == {{w} \X DOMAIN completed[w] : w \in Worker}
    <3>1. f \in Surjection(Worker, T) BY DEF Surjection
    <3>2. \A w \in Worker : IsFiniteSet(f[w])
      <4> TAKE w \in Worker
      <4>1. Len(completed[w]) \in Nat /\ DOMAIN completed[w] = 1..Len(completed[w])
        BY DEF TypeOK, WorkerTypeOK
      <4>2. IsFiniteSet(1..Len(completed[w])) BY <4>1, FS_Interval
      <4>3. IsFiniteSet({w}) BY FS_Singleton
      <4> QED BY <4>1, <4>2, <4>3, FS_Product
    <3>3. \A t \in T : IsFiniteSet(t) BY <3>2
    <3> HIDE DEF f, T
    <3>4. IsFiniteSet(T) BY <3>1, WorkerAssumption, FS_Surjection
    <3>5. IsFiniteSet(UNION T) BY <3>3, <3>4, FS_UNION
    <3>6. \A b \in Bucket : ResultsFor(b, Worker) \in SUBSET (UNION T) BY DEF ResultsFor, T
    <3> QED BY <3>5, <3>6, FS_Subset, FS_CardinalityType
  <2>3. \A b \in Bucket : merged[b] + Cardinality(ResultsFor(b, Worker)) \in Nat
    BY <2>1, <2>2
  <2> QED BY <2>1, <2>3 DEF Join
<1>4. TypeOK' BY <1>1, <1>3 DEF TypeOK, MainTypeOK, WorkerTypeOK, workerVars, reportVars
<1>5. CountsDone' /\ DrainIdle' /\ NothingStranded'
  BY <1>1 DEF CountsDone, DrainIdle, NothingStranded, NothingBuffered, reportVars
<1> QED BY <1>2, <1>4, <1>5

LEMMA PrintRestInv == ASSUME PoolInv, PrintRest PROVE PoolInv'
<1> USE DEF PoolInv
<1>0. NothingBuffered
  <2>1. mpc = "rest" BY DEF PrintRest
  <2>2. numDone = NumBuckets BY <2>1 DEF CountsDone
  <2> QED BY <2>1, <2>2, AllDoneNothingBuffered
<1>1. /\ mpc = "rest" /\ mpc' = "returned"
      /\ UNCHANGED <<workerVars, queue, reportVars, local, numDone, bars, reaped, merged>>
  BY <1>0 DEF PrintRest, reportVars
<1>2. OneOwner' /\ DoneIsLast' /\ OwnMessages' /\ BufferedOwn' /\ PrintedForOpenOrClosed'
  BY <1>1 DEF OneOwner, DoneIsLast, OwnMessages, BufferedOwn, PrintedForOpenOrClosed,
              workerVars, reportVars, Holds
<1>3. TypeOK' BY <1>1 DEF TypeOK, MainTypeOK, WorkerTypeOK, workerVars, reportVars
<1>4. CountsDone' /\ DrainIdle' /\ NothingStranded'
  BY <1>1 DEF CountsDone, DrainIdle, NothingStranded, NothingBuffered, reportVars
<1> QED BY <1>2, <1>3, <1>4

LEMMA InitInv == Init => PoolInv
<1> SUFFICES ASSUME Init PROVE PoolInv OBVIOUS
<1>1. TypeOK
  BY NumBucketsAssumption, Bounds DEF Init, TypeOK, WorkerTypeOK, MainTypeOK, PC, Bar, BarState, Bucket, NoBucket
<1>2. OneOwner
  <2>1. \A w \in Worker : ~Holds(w) BY DEF Init, Holds
  <2>2. DOMAIN queue = {} BY DEF Init
  <2>3. /\ DOMAIN taskq = Bucket /\ \A i \in Bucket : taskq[i] = i /\ ~done[i]
    BY DEF Init, Bucket
  <2> QED BY <2>1, <2>2, <2>3 DEF OneOwner
<1>3. DoneIsLast /\ OwnMessages /\ BufferedOwn /\ DrainIdle /\ NothingStranded /\ PrintedForOpenOrClosed
  BY DEF Init, DoneIsLast, OwnMessages, BufferedOwn, DrainIdle, NothingStranded, NothingBuffered, PrintedForOpenOrClosed
<1>4. CountsDone
  <2>1. {b \in Bucket : done[b]} = {} BY DEF Init
  <2>2. Cardinality({b \in Bucket : done[b]}) = 0 BY <2>1, FS_EmptySet
  <2>3. numDone = 0 /\ mpc = "handle" BY DEF Init
  <2> QED BY <2>2, <2>3 DEF CountsDone
<1> QED BY <1>1, <1>2, <1>3, <1>4 DEF PoolInv

LEMMA StutterInv == ASSUME PoolInv, UNCHANGED vars PROVE PoolInv'
BY DEF PoolInv, TypeOK, WorkerTypeOK, MainTypeOK, OneOwner, Holds, DoneIsLast, OwnMessages, BufferedOwn,
       CountsDone, PrintedForOpenOrClosed, DrainIdle, NothingStranded, NothingBuffered,
       vars, workerVars, reportVars

LEMMA NextInv == ASSUME PoolInv, [Next]_vars PROVE PoolInv'
<1>1. CASE HandleIncoming
  BY <1>1, HandleNowInv, HandleMessageInv, HandleDoneInv, HandleReportLongInv,
     HandleFinishLongInv, HandlePanickedInv DEF HandleIncoming
<1>2. CASE HandleMessages BY <1>2, HandleMessagesInv
<1>3. CASE Drain BY <1>3, DrainInv
<1>4. CASE Reap BY <1>4, ReapInv
<1>5. CASE Join BY <1>5, JoinInv
<1>6. CASE PrintRest BY <1>6, PrintRestInv
<1>7. CASE Stopped BY <1>7, StutterInv DEF Stopped
<1>8. CASE \E w \in Worker : WorkerStep(w) BY <1>8, WorkerStepInv
<1>9. CASE UNCHANGED vars BY <1>9, StutterInv
<1> QED BY <1>1, <1>2, <1>3, <1>4, <1>5, <1>6, <1>7, <1>8, <1>9 DEF Next, MainStep

(* The pool's invariant holds in every run, for any number of buckets and workers. *)
THEOREM PoolInvariant == Spec => []PoolInv
BY InitInv, NextInv, PTL DEF Spec

(* Type correctness of the pool. *)
THEOREM TypeCorrect == Spec => []TypeOK
<1>1. PoolInv => TypeOK BY DEF PoolInv
<1> QED BY <1>1, PoolInvariant, PTL

(* The assertion of the Done handler holds, and a diagnostic is buffered   *)
(* only while another bucket is active.                                    *)
THEOREM NeverStranded == Spec => []NothingStranded
<1>1. PoolInv => NothingStranded BY DEF PoolInv
<1> QED BY <1>1, PoolInvariant, PTL

(* When the receiver loop has ended no diagnostic is left in a buffer: the *)
(* early return on VerifyErr::Emitted loses nothing, and the final loop    *)
(* that prints remaining messages finds none.                              *)
THEOREM NothingLost == Spec => []NothingLeftAtExit
<1>1. PoolInv => NothingLeftAtExit
  <2> SUFFICES ASSUME PoolInv, mpc \in {"join", "rest", "returned", "emitted"} PROVE NothingBuffered
    BY DEF NothingLeftAtExit
  <2>1. numDone = NumBuckets /\ mpc # "drain" BY DEF PoolInv, CountsDone
  <2> QED BY <2>1, AllDoneNothingBuffered
<1> QED BY <1>1, PoolInvariant, PTL

-----------------------------------------------------------------------------
(* Refinement of BucketReport.                                             *)

(* A step that leaves buffers, output and the active bucket alone is a     *)
(* stuttering step of the report.                                          *)
LEMMA QuietReport ==
    ASSUME UNCHANGED <<active, buffered, done, printed>>
    PROVE  UNCHANGED Reporting!outVars
BY DEF Reporting!outVars, ClosedBuckets

LEMMA HandleMessageReport ==
    ASSUME PoolInv, NEW m, HandleMessage(m)
    PROVE  [Reporting!ReportNext]_Reporting!outVars
<1> USE DEF PoolInv
<1>1. Receive(m) /\ UNCHANGED done BY DEF HandleMessage
<1>2. /\ m.bucket \in Bucket /\ ~done[m.bucket]
      /\ m.msgs[1] \in Msg /\ m.msgs[1].bucket = m.bucket
  BY <1>1, ReceivedNotDone DEF HandleMessage
<1>3. printed \in Seq(Msg) /\ buffered \in [Bucket -> Seq(Msg)] BY DEF TypeOK, MainTypeOK
<1>4. CASE MayPrint(m.bucket)
  <2>1. active' = m.bucket /\ printed' = Append(printed, m.msgs[1]) /\ UNCHANGED buffered
    BY <1>4 DEF HandleMessage
  <2>2. Reporting!Adds(m.bucket)
    BY <1>2, <1>3, <2>1 DEF Reporting!Adds
  <2>3. ClosedBuckets' = ClosedBuckets /\ m.bucket \notin ClosedBuckets
    BY <1>1, <1>2, <2>1 DEF ClosedBuckets
  <2>4. Reporting!PrintOpen(m.bucket)
    BY <1>4, <2>1, <2>2, <2>3 DEF Reporting!PrintOpen, MayPrint
  <2> QED BY <1>2, <2>4 DEF Reporting!ReportNext
<1>5. CASE ~MayPrint(m.bucket)
  <2>1. /\ buffered' = [buffered EXCEPT ![m.bucket] = Append(@, m.msgs[1])]
        /\ UNCHANGED <<active, printed>>
    BY <1>5 DEF HandleMessage
  <2>2. \A b \in Bucket : b # m.bucket => buffered'[b] = buffered[b] BY <1>3, <2>1
  <2>3. ClosedBuckets' = ClosedBuckets BY <1>1, <1>2, <2>2 DEF ClosedBuckets
  <2> QED BY <2>1, <2>3 DEF Reporting!outVars
<1> QED BY <1>4, <1>5

LEMMA HandleDoneReport ==
    ASSUME PoolInv, NEW m, HandleDone(m)
    PROVE  [Reporting!ReportNext]_Reporting!outVars
<1> USE DEF PoolInv
<1>1. /\ Receive(m) /\ done' = [done EXCEPT ![m.bucket] = TRUE]
      /\ UNCHANGED <<buffered, printed>>
  BY DEF HandleDone
<1>2. m.bucket \in Bucket /\ ~done[m.bucket] BY <1>1, ReceivedNotDone
<1>3. /\ done \in [Bucket -> BOOLEAN] /\ printed \in Seq(Msg) /\ mpc = "handle"
  BY <1>1 DEF TypeOK, MainTypeOK, Receive
<1>4. m.bucket \notin ClosedBuckets BY <1>2 DEF ClosedBuckets
<1>5. /\ buffered[m.bucket] = <<>> => ClosedBuckets' = ClosedBuckets \cup {m.bucket}
      /\ buffered[m.bucket] # <<>> => ClosedBuckets' = ClosedBuckets
  BY <1>1, <1>2, <1>3 DEF ClosedBuckets
<1>6. CASE MayPrint(m.bucket)
  <2>1. active' = NoBucket /\ active \in {NoBucket, m.bucket} BY <1>6 DEF HandleDone, MayPrint
  <2>2. buffered[m.bucket] = <<>>
    BY <1>2, <1>3, <2>1, BucketFacts DEF NothingStranded, NothingBuffered
  <2>3. Reporting!Adds(m.bucket) BY <1>1, <1>3 DEF Reporting!Adds
  <2>4. Reporting!PrintLast(m.bucket)
    BY <1>4, <1>5, <2>1, <2>2, <2>3 DEF Reporting!PrintLast
  <2> QED BY <1>2, <2>4 DEF Reporting!ReportNext
<1>7. CASE ~MayPrint(m.bucket)
  <2>1. active' = active /\ active # m.bucket BY <1>7 DEF HandleDone, MayPrint
  <2>2. CASE buffered[m.bucket] # <<>>
    BY <1>1, <1>5, <2>1, <2>2 DEF Reporting!outVars
  <2>3. CASE buffered[m.bucket] = <<>>
    <3>1. \A i \in 1..Len(printed) : printed[i].bucket # m.bucket
      BY <1>2, <1>3, <2>1 DEF PrintedForOpenOrClosed
    <3>2. Reporting!Silent(m.bucket)
      BY <1>1, <1>4, <1>5, <2>1, <2>3, <3>1 DEF Reporting!Silent
    <3> QED BY <1>2, <3>2 DEF Reporting!ReportNext
  <2> QED BY <2>2, <2>3
<1> QED BY <1>6, <1>7

LEMMA DrainReport ==
    ASSUME PoolInv, Drain
    PROVE  [Reporting!ReportNext]_Reporting!outVars
<1> USE DEF PoolInv
<1> DEFINE b == FirstBuffered
<1>1. mpc = "drain" /\ active = NoBucket /\ UNCHANGED done BY DEF Drain, DrainIdle
<1>2. /\ buffered \in [Bucket -> Seq(Msg)] /\ printed \in Seq(Msg) /\ done \in [Bucket -> BOOLEAN]
  BY DEF TypeOK, MainTypeOK
<1>3. CASE NothingBuffered
  BY <1>1, <1>3, QuietReport DEF Drain
<1>4. CASE ~NothingBuffered
  <2>1. b \in Bucket /\ buffered[b] # <<>> BY <1>4, FirstBufferedFacts
  <2>2. printed' = printed \o buffered[b] /\ buffered' = [buffered EXCEPT ![b] = <<>>]
    BY <1>4 DEF Drain, PrintBuffered
  <2>3. active' = IF ~done[b] THEN b ELSE NoBucket
    BY <1>1, <1>4 DEF Drain, BecomesActive
  <2> HIDE DEF b
  <2>4. Reporting!Adds(b)
    <3>1. buffered[b] \in Seq(Msg) BY <1>2, <2>1
    <3>2. \A k \in 1..Len(buffered[b]) : buffered[b][k].bucket = b BY <2>1, <3>1 DEF BufferedOwn
    <3>3. /\ Len(printed') = Len(printed) + Len(buffered[b])
          /\ Len(printed) \in Nat /\ Len(buffered[b]) \in Nat
          /\ \A i \in 1..Len(printed) : printed'[i] = printed[i]
      BY <1>2, <2>2, <3>1
    <3>4. \A i \in (Len(printed) + 1)..Len(printed') :
            printed'[i] = buffered[b][i - Len(printed)] /\ i - Len(printed) \in 1..Len(buffered[b])
      BY <1>2, <2>2, <3>1, <3>3
    <3> QED BY <3>2, <3>3, <3>4 DEF Reporting!Adds
  <2>5. b \notin ClosedBuckets BY <2>1 DEF ClosedBuckets
  <2>6. buffered'[b] = <<>> /\ \A c \in Bucket : c # b => buffered'[c] = buffered[c] BY <1>2, <2>1, <2>2
  <2>7. CASE ~done[b]
    <3>1. ClosedBuckets' = ClosedBuckets BY <1>1, <2>6, <2>7 DEF ClosedBuckets
    <3>2. Reporting!PrintOpen(b)
      BY <1>1, <2>3, <2>4, <2>5, <2>7, <3>1 DEF Reporting!PrintOpen
    <3> QED BY <2>1, <3>2 DEF Reporting!ReportNext
  <2>8. CASE done[b]
    <3>1. ClosedBuckets' = ClosedBuckets \cup {b} BY <1>1, <2>1, <2>6, <2>8 DEF ClosedBuckets
    <3>2. Reporting!PrintLast(b)
      BY <1>1, <2>3, <2>4, <2>5, <2>8, <3>1 DEF Reporting!PrintLast
    <3> QED BY <2>1, <3>2 DEF Reporting!ReportNext
  <2> QED BY <2>7, <2>8
<1> QED BY <1>3, <1>4

(* Every other step leaves the report alone. *)
LEMMA OtherReport ==
    ASSUME PoolInv,
           \/ \E w \in Worker : WorkerStep(w)
           \/ \E m \in {Incoming} : HandleNow(m) \/ HandleReportLong(m) \/ HandleFinishLong(m) \/ HandlePanicked(m)
           \/ HandleMessages \/ Reap \/ Join \/ PrintRest \/ Stopped \/ UNCHANGED vars
    PROVE  [Reporting!ReportNext]_Reporting!outVars
<1>1. CASE \E w \in Worker : WorkerStep(w)
  BY <1>1, QuietReport DEF WorkerStep, Pop, Report, ReportMulti, StartLong, FinishLong, BucketOk,
         BucketErr, SendDone, Panic, Die, SendToClosed, mainVars, reportVars
<1>2. CASE \E m \in {Incoming} : HandleNow(m) \/ HandleReportLong(m) \/ HandleFinishLong(m) \/ HandlePanicked(m)
  BY <1>2, QuietReport DEF HandleNow, HandleReportLong, HandleFinishLong, HandlePanicked, reportVars
<1>3. CASE HandleMessages \/ Reap \/ Join \/ Stopped \/ UNCHANGED vars
  BY <1>3, QuietReport DEF HandleMessages, Reap, Join, Stopped, vars, reportVars
<1>4. CASE PrintRest
  <2>1. mpc = "rest" BY <1>4 DEF PrintRest
  <2>2. numDone = NumBuckets BY <2>1 DEF PoolInv, CountsDone
  <2>3. NothingBuffered BY <2>1, <2>2, AllDoneNothingBuffered
  <2> QED BY <1>4, <2>3, QuietReport DEF PrintRest
<1> QED BY <1>1, <1>2, <1>3, <1>4

(* The pool implements BucketReport: whatever the threads do, the output   *)
(* is one block per bucket.                                                *)
THEOREM PoolImplementsReport == Spec => OneBlockPerBucket
<1>1. Init => Reporting!ReportInit
  BY DEF Init, Reporting!ReportInit, ClosedBuckets
<1>2. ASSUME PoolInv, [Next]_vars PROVE [Reporting!ReportNext]_Reporting!outVars
  <2>1. CASE HandleIncoming
    <3>1. CASE HandleMessage(Incoming) BY <1>2, <3>1, HandleMessageReport
    <3>2. CASE HandleDone(Incoming) BY <1>2, <3>2, HandleDoneReport
    <3>3. CASE HandleNow(Incoming) \/ HandleReportLong(Incoming) \/ HandleFinishLong(Incoming) \/ HandlePanicked(Incoming)
      BY <1>2, <3>3, OtherReport
    <3> QED BY <2>1, <3>1, <3>2, <3>3 DEF HandleIncoming
  <2>2. CASE Drain BY <1>2, <2>2, DrainReport
  <2>3. CASE \/ \E w \in Worker : WorkerStep(w)
             \/ HandleMessages \/ Reap \/ Join \/ PrintRest \/ Stopped \/ UNCHANGED vars
    BY <1>2, <2>3, OtherReport
  <2> QED BY <1>2, <2>1, <2>2, <2>3 DEF Next, MainStep
<1> QED BY <1>1, <1>2, PoolInvariant, PTL DEF Spec, OneBlockPerBucket, Reporting!ReportSpec

-----------------------------------------------------------------------------
(* The progress bars.                                                      *)

(* What a received message leaves open: another bucket's bars as they were, *)
(* and of its own bucket only the bar it reports.                          *)
LEMMA TailOpens ==
    ASSUME TypeOK, LongsPaired, queue # <<>>, queue' = Tail(queue),
           UNCHANGED <<wpc, wbucket, wlong>>, NEW b \in Bucket, NEW p \in Pid, OpenBar(b, p)'
    PROVE  \/ ~IsLong(queue[1], b) /\ OpenBar(b, p)
           \/ IsLong(queue[1], b) /\ queue[1].type = "ReportLongRunning" /\ queue[1].pid = p
<1>1. /\ queue \in Seq(ReporterMessage) /\ Len(queue) \in Nat /\ Len(queue) >= 1
      /\ DOMAIN queue = 1..Len(queue) /\ DOMAIN queue' = 1..(Len(queue) - 1)
      /\ \A i \in 1..(Len(queue) - 1) : queue'[i] = queue[i + 1]
  BY DEF TypeOK
<1>2. CASE \E i \in DOMAIN queue' : FirstLong(queue', i, b) /\ queue'[i].type = "FinishLongRunning"
                                    /\ queue'[i].pid = p
  <2>1. PICK i \in DOMAIN queue' : FirstLong(queue', i, b) /\ queue'[i].type = "FinishLongRunning"
                                   /\ queue'[i].pid = p
    BY <1>2
  <2>2. i \in 1..(Len(queue) - 1) /\ i + 1 \in DOMAIN queue /\ queue'[i] = queue[i + 1] /\ 1 \in DOMAIN queue
    BY <1>1
  <2>3. \A k \in 2..((i + 1) - 1) : ~IsLong(queue[k], b)
    <3> TAKE k \in 2..((i + 1) - 1)
    <3>1. k - 1 \in 1..(i - 1) /\ k - 1 \in 1..(Len(queue) - 1) /\ (k - 1) + 1 = k BY <1>1, <2>2
    <3>2. queue'[k - 1] = queue[k] BY <1>1, <3>1
    <3> QED BY <2>1, <3>1, <3>2 DEF FirstLong
  <2>4. CASE IsLong(queue[1], b)
    <3>1. NextLong(queue, 1, i + 1, b) BY <1>1, <2>1, <2>2, <2>3, <2>4 DEF NextLong, FirstLong
    <3>2. Alternates(queue[1], queue[i + 1]) BY <2>2, <3>1 DEF LongsPaired
    <3> QED BY <2>1, <2>2, <2>4, <3>2 DEF Alternates, IsLong, LongType
  <2>5. CASE ~IsLong(queue[1], b)
    <3>1. \A k \in 1..((i + 1) - 1) : ~IsLong(queue[k], b)
      <4> TAKE k \in 1..((i + 1) - 1)
      <4>1. k = 1 \/ k \in 2..((i + 1) - 1) BY <2>2
      <4> QED BY <2>3, <2>5, <4>1
    <3>2. FirstLong(queue, i + 1, b) BY <2>1, <2>2, <3>1 DEF FirstLong
    <3> QED BY <2>1, <2>2, <2>5, <3>2 DEF OpenBar
  <2> QED BY <2>4, <2>5
<1>3. CASE /\ NoLong(queue', b)
           /\ \E w \in Worker : wpc'[w] = "verify" /\ wbucket'[w] = b /\ wlong'[w] = p
  <2>1. PICK w \in Worker : wpc[w] = "verify" /\ wbucket[w] = b /\ wlong[w] = p BY <1>3
  <2>2. \A k \in 2..Len(queue) : ~IsLong(queue[k], b)
    <3> TAKE k \in 2..Len(queue)
    <3>1. k - 1 \in 1..(Len(queue) - 1) /\ (k - 1) + 1 = k BY <1>1
    <3>2. queue'[k - 1] = queue[k] BY <1>1, <3>1
    <3> QED BY <1>1, <1>3, <3>1, <3>2 DEF NoLong
  <2>3. CASE IsLong(queue[1], b)
    <3>1. 1 \in DOMAIN queue /\ LastLong(queue, 1, b) BY <1>1, <2>2, <2>3 DEF LastLong
    <3>2. wlong[w] = IF queue[1].type = "ReportLongRunning" THEN queue[1].pid ELSE NoPid
      BY <2>1, <3>1 DEF LongsPaired
    <3> QED BY <2>1, <2>3, <3>2, PidAssumption
  <2>4. CASE ~IsLong(queue[1], b)
    <3>1. NoLong(queue, b)
      <4> SUFFICES ASSUME NEW k \in DOMAIN queue PROVE ~IsLong(queue[k], b) BY DEF NoLong
      <4>1. k = 1 \/ k \in 2..Len(queue) BY <1>1
      <4> QED BY <2>2, <2>4, <4>1
    <3> QED BY <2>1, <2>4, <3>1 DEF OpenBar
  <2> QED BY <2>3, <2>4
<1> QED BY <1>2, <1>3 DEF OpenBar

LEMMA TailPaired ==
    ASSUME TypeOK, LongsPaired, queue # <<>>, queue' = Tail(queue), UNCHANGED <<wpc, wbucket, wlong>>
    PROVE  LongsPaired'
<1>1. /\ queue \in Seq(ReporterMessage) /\ Len(queue) \in Nat /\ Len(queue) >= 1
      /\ DOMAIN queue = 1..Len(queue) /\ DOMAIN queue' = 1..(Len(queue) - 1)
      /\ queue' \in Seq(ReporterMessage) /\ Len(queue') = Len(queue) - 1
      /\ \A i \in 1..(Len(queue) - 1) : queue'[i] = queue[i + 1]
  BY DEF TypeOK
<1>2. \A i \in DOMAIN queue' : i \in Nat /\ i + 1 \in DOMAIN queue /\ queue'[i] = queue[i + 1] BY <1>1
<1>3. \A i \in DOMAIN queue' : queue'[i].type \in LongType => queue'[i].pid \in Pid
  BY <1>2 DEF LongsPaired
<1>4. ASSUME NEW b \in Bucket, NEW i \in DOMAIN queue', NEW j \in DOMAIN queue', NextLong(queue', i, j, b)
      PROVE  Alternates(queue'[i], queue'[j])
  <2>1. \A k \in ((i + 1) + 1)..((j + 1) - 1) : ~IsLong(queue[k], b)
    <3> TAKE k \in ((i + 1) + 1)..((j + 1) - 1)
    <3>1. k - 1 \in (i + 1)..(j - 1) /\ k - 1 \in DOMAIN queue' /\ (k - 1) + 1 = k BY <1>1, <1>2
    <3> QED BY <1>2, <1>4, <3>1 DEF NextLong
  <2>2. NextLong(queue, i + 1, j + 1, b) BY <1>2, <1>4, <2>1 DEF NextLong
  <2> QED BY <1>2, <2>2 DEF LongsPaired
<1>5. ASSUME NEW w \in Worker, NEW i \in DOMAIN queue', wpc[w] = "verify", LastLong(queue', i, wbucket[w])
      PROVE  wlong[w] = IF queue'[i].type = "ReportLongRunning" THEN queue'[i].pid ELSE NoPid
  <2>1. \A k \in ((i + 1) + 1)..Len(queue) : ~IsLong(queue[k], wbucket[w])
    <3> TAKE k \in ((i + 1) + 1)..Len(queue)
    <3>1. k - 1 \in (i + 1)..Len(queue') /\ k - 1 \in DOMAIN queue' /\ (k - 1) + 1 = k BY <1>1, <1>2
    <3> QED BY <1>2, <1>5, <3>1 DEF LastLong
  <2>2. LastLong(queue, i + 1, wbucket[w]) BY <1>2, <1>5, <2>1 DEF LastLong
  <2> QED BY <1>2, <1>5, <2>2 DEF LongsPaired
<1> QED BY <1>3, <1>4, <1>5 DEF LongsPaired

(* A step of the main thread that leaves channel and bars alone. *)
LEMMA CalmKept ==
    ASSUME CalmInv, mpc' # "panicked", UNCHANGED <<workerVars, queue, bars>>
    PROVE  CalmInv'
BY DEF CalmInv, LongsPaired, BarsMatch, OpenBar, workerVars

(* A message that is not about bars is taken from the channel. *)
LEMMA CalmTail ==
    ASSUME TypeOK, CalmInv, mpc' # "panicked", queue # <<>>, queue' = Tail(queue),
           queue[1].type \notin LongType, UNCHANGED <<workerVars, bars>>
    PROVE  CalmInv'
<1>1. UNCHANGED <<wpc, wbucket, wlong>> BY DEF workerVars
<1>2. LongsPaired' BY <1>1, TailPaired DEF CalmInv
<1>3. \A b \in Bucket, p \in Pid : OpenBar(b, p)' => OpenBar(b, p)
  BY <1>1, TailOpens DEF CalmInv, IsLong
<1>4. BarsMatch' BY <1>3 DEF BarsMatch, CalmInv
<1>5. \A i \in DOMAIN queue' : i + 1 \in DOMAIN queue /\ queue'[i] = queue[i + 1] BY DEF TypeOK
<1> QED BY <1>2, <1>4, <1>5 DEF CalmInv

(* A bar is reported: the first of its kind, or beside the one there is.   *)
LEMMA CalmReportLong ==
    ASSUME PoolInv, CalmInv, NEW m, HandleReportLong(m)
    PROVE  CalmInv'
<1>1. Receive(m) /\ m.type = "ReportLongRunning" /\ mpc' # "panicked" /\ UNCHANGED workerVars
  BY DEF HandleReportLong, AfterMessage
<1>2. TypeOK /\ local = <<>> BY <1>1 DEF PoolInv, DoneIsLast, Receive, TypeOK, MainTypeOK
<1>3. queue # <<>> /\ queue' = Tail(queue) /\ m = queue[1] /\ 1 \in DOMAIN queue
  BY <1>1, <1>2 DEF Receive, TypeOK
<1>4. UNCHANGED <<wpc, wbucket, wlong>> BY <1>1 DEF workerVars
<1>5. LongsPaired' BY <1>2, <1>3, <1>4, TailPaired DEF CalmInv
<1>6. m.pid \in Pid /\ bars \in [Pid -> Bar]
  BY <1>1, <1>2, <1>3 DEF CalmInv, LongsPaired, LongType, TypeOK, MainTypeOK
<1>7. \A b \in Bucket, p \in Pid : OpenBar(b, p)' => OpenBar(b, p) \/ (b = m.bucket /\ p = m.pid)
  BY <1>2, <1>3, <1>4, TailOpens DEF CalmInv, IsLong
<1>8. BarsMatch'
  <2> SUFFICES ASSUME NEW p \in Pid
               PROVE  /\ bars'[p].pb = "none" => bars'[p].aux = "none"
                      /\ bars'[p].pb # "running" /\ bars'[p].aux = "none" => \A b \in Bucket : ~OpenBar(b, p)'
                      /\ bars'[p].pb = "running" /\ bars'[p].aux = "none" =>
                            \A b, c \in Bucket : OpenBar(b, p)' /\ OpenBar(c, p)' => b = c
    BY DEF BarsMatch
  <2>1. /\ bars[p].pb = "none" => bars[p].aux = "none"
        /\ bars[p].pb # "running" /\ bars[p].aux = "none" => \A b \in Bucket : ~OpenBar(b, p)
        /\ bars[p].pb = "running" /\ bars[p].aux = "none" =>
               \A b, c \in Bucket : OpenBar(b, p) /\ OpenBar(c, p) => b = c
    BY DEF CalmInv, BarsMatch
  <2>2. CASE p # m.pid
    <3>1. bars'[p] = bars[p] BY <1>6, <2>2 DEF HandleReportLong
    <3> QED BY <1>7, <2>1, <2>2, <3>1
  <2>3. CASE p = m.pid /\ bars[p].pb = "none"
    <3>1. bars'[p].pb = "running" /\ bars'[p].aux = bars[p].aux
      BY <1>6, <2>3 DEF HandleReportLong, Bar
    <3> QED BY <1>7, <2>1, <2>3, <3>1
  <2>4. CASE p = m.pid /\ bars[p].pb # "none"
    <3>1. bars'[p].aux = "running" /\ bars'[p].pb = bars[p].pb
      BY <1>6, <2>4 DEF HandleReportLong, Bar
    <3> QED BY <2>4, <3>1
  <2> QED BY <2>2, <2>3, <2>4
<1>9. \A i \in DOMAIN queue' : i + 1 \in DOMAIN queue /\ queue'[i] = queue[i + 1] BY <1>2, <1>3 DEF TypeOK
<1> QED BY <1>1, <1>5, <1>8, <1>9 DEF CalmInv

(* The unwraps of the bars do not fail.                                    *)
LEMMA CalmFinishLong ==
    ASSUME PoolInv, CalmInv, NEW m, HandleFinishLong(m)
    PROVE  CalmInv'
<1>1. Receive(m) /\ m.type = "FinishLongRunning" /\ UNCHANGED workerVars BY DEF HandleFinishLong
<1>2. TypeOK /\ local = <<>> BY <1>1 DEF PoolInv, DoneIsLast, Receive, TypeOK, MainTypeOK
<1>3. queue # <<>> /\ queue' = Tail(queue) /\ m = queue[1] /\ 1 \in DOMAIN queue
  BY <1>1, <1>2 DEF Receive, TypeOK
<1>4. UNCHANGED <<wpc, wbucket, wlong>> BY <1>1 DEF workerVars
<1>5. LongsPaired' BY <1>2, <1>3, <1>4, TailPaired DEF CalmInv
<1>6. /\ m.pid \in Pid /\ bars \in [Pid -> Bar] /\ m.bucket \in Bucket
      /\ bars[m.pid].pb \in BarState /\ bars[m.pid].aux \in BarState
  <2>1. m.pid \in Pid BY <1>1, <1>3 DEF CalmInv, LongsPaired, LongType
  <2>2. bars \in [Pid -> Bar] BY <1>2 DEF TypeOK, MainTypeOK
  <2>3. m.bucket \in Bucket BY <1>1, ReceivedNotDone DEF PoolInv
  <2>4. bars[m.pid] \in Bar BY <2>1, <2>2
  <2> QED BY <2>1, <2>2, <2>3, <2>4 DEF Bar
<1>7. OpenBar(m.bucket, m.pid)
  <2>1. FirstLong(queue, 1, m.bucket) BY <1>1, <1>3 DEF FirstLong, IsLong, LongType
  <2> QED BY <1>1, <1>3, <2>1 DEF OpenBar
<1>8. \A b \in Bucket, p \in Pid : OpenBar(b, p)' => b # m.bucket /\ OpenBar(b, p)
  BY <1>1, <1>2, <1>3, <1>4, TailOpens DEF CalmInv, IsLong, LongType
<1>9. /\ bars[m.pid].pb = "none" => bars[m.pid].aux = "none"
      /\ bars[m.pid].pb # "running" => bars[m.pid].aux # "none"
      /\ bars[m.pid].pb # "none"
      /\ bars[m.pid].pb = "running" /\ bars[m.pid].aux = "none" =>
             \A b \in Bucket : OpenBar(b, m.pid) => b = m.bucket
  BY <1>6, <1>7 DEF CalmInv, BarsMatch
<1>10. /\ mpc' # "panicked"
       /\ bars' = IF bars[m.pid].pb = "running"
                  THEN [bars EXCEPT ![m.pid].pb = "finished"]
                  ELSE [bars EXCEPT ![m.pid].aux = "finished"]
  BY <1>6, <1>9 DEF HandleFinishLong, AfterMessage, BarState
<1>11. BarsMatch'
  <2> SUFFICES ASSUME NEW p \in Pid
               PROVE  /\ bars'[p].pb = "none" => bars'[p].aux = "none"
                      /\ bars'[p].pb # "running" /\ bars'[p].aux = "none" => \A b \in Bucket : ~OpenBar(b, p)'
                      /\ bars'[p].pb = "running" /\ bars'[p].aux = "none" =>
                            \A b, c \in Bucket : OpenBar(b, p)' /\ OpenBar(c, p)' => b = c
    BY DEF BarsMatch
  <2>1. CASE p # m.pid
    <3>1. bars'[p] = bars[p] BY <1>6, <1>10, <2>1
    <3> QED BY <1>8, <3>1 DEF CalmInv, BarsMatch
  <2>2. CASE p = m.pid /\ bars[p].pb = "running"
    <3>1. bars'[p].pb = "finished" /\ bars'[p].aux = bars[p].aux BY <1>6, <1>10, <2>2 DEF Bar
    <3> QED BY <1>8, <1>9, <2>2, <3>1
  <2>3. CASE p = m.pid /\ bars[p].pb # "running"
    <3>1. bars'[p].aux = "finished" /\ bars'[p].pb = bars[p].pb BY <1>6, <1>10, <2>3 DEF Bar
    <3> QED BY <1>9, <2>3, <3>1
  <2> QED BY <2>1, <2>2, <2>3
<1>12. \A i \in DOMAIN queue' : i + 1 \in DOMAIN queue /\ queue'[i] = queue[i + 1] BY <1>2, <1>3 DEF TypeOK
<1> QED BY <1>5, <1>10, <1>11, <1>12 DEF CalmInv

(* A message that is not about bars and changes none. *)
LEMMA CalmAside ==
    ASSUME PoolInv, CalmInv, NEW m, Receive(m), m.type \notin LongType,
           mpc' # "panicked", UNCHANGED <<workerVars, bars>>
    PROVE  CalmInv'
<1>1. TypeOK BY DEF PoolInv
<1>2. CASE local # <<>>
  <2>1. UNCHANGED queue BY <1>2 DEF Receive
  <2> QED BY <2>1, CalmKept
<1>3. CASE local = <<>>
  <2>1. queue # <<>> /\ queue' = Tail(queue) /\ m = queue[1] BY <1>1, <1>3 DEF Receive, TypeOK
  <2> QED BY <1>1, <2>1, CalmTail
<1> QED BY <1>2, <1>3

(* The main thread does not panic by itself. *)
LEMMA MainStepCalm ==
    ASSUME PoolInv, CalmInv, MainStep
    PROVE  SomePanic \/ CalmInv'
<1>1. ASSUME HandleIncoming PROVE CalmInv'
  <2> DEFINE m == Incoming
  <2> HIDE DEF m
  <2>1. CASE HandleNow(m)
    <3>1. Receive(m) /\ m.type \notin LongType /\ mpc' # "panicked" /\ UNCHANGED <<workerVars, bars>>
      BY <2>1 DEF HandleNow, LongType, Receive, CalmInv
    <3> QED BY <3>1, CalmAside
  <2>2. CASE HandleMessage(m)
    <3>1. Receive(m) /\ m.type \notin LongType /\ mpc' # "panicked" /\ UNCHANGED <<workerVars, bars>>
      BY <2>2 DEF HandleMessage, LongType, AfterMessage
    <3> QED BY <3>1, CalmAside
  <2>3. CASE HandleDone(m)
    <3>1. Receive(m) /\ m.type \notin LongType /\ mpc' # "panicked" /\ UNCHANGED <<workerVars, bars>>
      BY <2>3 DEF HandleDone, LongType, AfterMessage, CountDone
    <3> QED BY <3>1, CalmAside
  <2>4. CASE HandleReportLong(m) BY <2>4, CalmReportLong
  <2>5. CASE HandleFinishLong(m) BY <2>5, CalmFinishLong
  <2>6. CASE HandlePanicked(m)
    <3>1. Receive(m) /\ m.type = "WorkerPanicked" /\ TypeOK BY <2>6 DEF HandlePanicked, PoolInv
    <3>2. (1 \in DOMAIN local /\ m = local[1]) \/ (1 \in DOMAIN queue /\ m = queue[1])
      BY <3>1, ReceiveFacts
    <3> QED BY <3>1, <3>2 DEF CalmInv, PoolInv, DoneIsLast
  <2> QED BY <1>1, <2>1, <2>2, <2>3, <2>4, <2>5, <2>6 DEF HandleIncoming, m
<1>2. ASSUME HandleMessages PROVE CalmInv'
  <2>1. /\ queue # <<>> /\ queue' = Tail(queue) /\ Head(queue).type = "Messages" /\ mpc' # "panicked"
        /\ UNCHANGED <<workerVars, bars>>
    BY <1>2 DEF HandleMessages, AfterMessage
  <2>2. TypeOK /\ queue[1].type \notin LongType BY <2>1 DEF PoolInv, TypeOK, LongType
  <2> QED BY <2>1, <2>2, CalmTail
<1>3. ASSUME Drain PROVE CalmInv'
  <2>1. mpc' # "panicked" /\ UNCHANGED <<workerVars, queue, bars>>
    BY <1>3 DEF Drain, CountDone, AfterMessage, CalmInv
  <2> QED BY <2>1, CalmKept
<1>4. ASSUME Reap PROVE SomePanic \/ CalmInv'
  <2>1. UNCHANGED <<workerVars, queue, bars>> /\ (mpc' # "panicked" \/ SomePanic)
    BY <1>4 DEF Reap, SomePanic
  <2> QED BY <2>1, CalmKept
<1>5. ASSUME Join PROVE SomePanic \/ CalmInv'
  <2>1. UNCHANGED <<workerVars, queue, bars>> /\ (mpc' # "panicked" \/ SomePanic)
    BY <1>5 DEF Join, SomePanic
  <2> QED BY <2>1, CalmKept
<1>6. ASSUME PrintRest PROVE CalmInv'
  <2>1. mpc' # "panicked" /\ UNCHANGED <<workerVars, queue, bars>>
    BY <1>6 DEF PrintRest, CalmInv
  <2> QED BY <2>1, CalmKept
<1> QED BY <1>1, <1>2, <1>3, <1>4, <1>5, <1>6 DEF MainStep

\* What a step of a worker leaves of the buckets being verified.
VerifyingKept ==
    /\ \A v \in Worker : wpc'[v] = "verify" => wpc[v] = "verify" /\ wbucket'[v] = wbucket[v]
    /\ \A v \in Worker : wpc'[v] # "verify" => wlong[v] = NoPid
    /\ wlong' = wlong /\ mpc' = mpc /\ bars' = bars

(* A worker's step that sends nothing about bars. *)
LEMMA CalmQuiet ==
    ASSUME CalmInv, VerifyingKept, queue' = queue
    PROVE  CalmInv'
<1>1. LongsPaired' BY DEF CalmInv, LongsPaired, VerifyingKept
<1>2. \A b \in Bucket, p \in Pid : OpenBar(b, p)' => OpenBar(b, p) BY DEF OpenBar, VerifyingKept
<1>3. BarsMatch' BY <1>2 DEF CalmInv, BarsMatch, VerifyingKept
<1> QED BY <1>1, <1>3 DEF CalmInv, VerifyingKept

LEMMA CalmSend ==
    ASSUME TypeOK, CalmInv, VerifyingKept, NEW m \in ReporterMessage, Send(m),
           m.type \notin LongType, m.type # "WorkerPanicked"
    PROVE  CalmInv'
<1>1. /\ DOMAIN queue' = 1..(Len(queue) + 1) /\ DOMAIN queue = 1..Len(queue) /\ Len(queue) \in Nat
      /\ Len(queue') = Len(queue) + 1
      /\ \A i \in 1..Len(queue) : queue'[i] = queue[i]
      /\ queue'[Len(queue) + 1] = m
  BY SendFacts DEF TypeOK
<1>2. \A i \in DOMAIN queue', b \in Bucket \cup {NoBucket} :
          IsLong(queue'[i], b) => i \in DOMAIN queue /\ IsLong(queue[i], b)
  <2> SUFFICES ASSUME NEW i \in DOMAIN queue', NEW b \in Bucket \cup {NoBucket}, IsLong(queue'[i], b)
               PROVE  i \in DOMAIN queue /\ IsLong(queue[i], b)
    OBVIOUS
  <2>1. i # Len(queue) + 1 BY <1>1 DEF IsLong
  <2> QED BY <1>1, <2>1
<1>3. ASSUME NEW b \in Bucket, NEW i \in DOMAIN queue', NEW j \in DOMAIN queue', NextLong(queue', i, j, b)
      PROVE  Alternates(queue'[i], queue'[j])
  <2>1. i \in DOMAIN queue /\ j \in DOMAIN queue BY <1>2, <1>3 DEF NextLong
  <2>2. \A k \in (i + 1)..(j - 1) : queue'[k] = queue[k] BY <1>1, <2>1
  <2>3. NextLong(queue, i, j, b) BY <1>1, <1>3, <2>1, <2>2 DEF NextLong
  <2> QED BY <1>1, <2>1, <2>3 DEF CalmInv, LongsPaired
<1>4. ASSUME NEW w \in Worker, NEW i \in DOMAIN queue', wpc'[w] = "verify", LastLong(queue', i, wbucket'[w])
      PROVE  wlong'[w] = IF queue'[i].type = "ReportLongRunning" THEN queue'[i].pid ELSE NoPid
  <2>1. wpc[w] = "verify" /\ wbucket'[w] = wbucket[w] /\ wlong'[w] = wlong[w]
    BY <1>4 DEF VerifyingKept
  <2>2. i \in DOMAIN queue
    <3>1. wbucket[w] \in Bucket \cup {NoBucket} BY DEF TypeOK, WorkerTypeOK
    <3> QED BY <1>2, <1>4, <2>1, <3>1 DEF LastLong
  <2>3. \A k \in (i + 1)..Len(queue) : queue'[k] = queue[k] /\ k \in (i + 1)..Len(queue') BY <1>1, <2>2
  <2>4. LastLong(queue, i, wbucket[w]) BY <1>1, <1>4, <2>1, <2>2, <2>3 DEF LastLong
  <2> QED BY <1>1, <2>1, <2>2, <2>4 DEF CalmInv, LongsPaired
<1>5. \A i \in DOMAIN queue' : queue'[i].type \in LongType => queue'[i].pid \in Pid
  BY <1>1 DEF CalmInv, LongsPaired
<1>6. LongsPaired' BY <1>3, <1>4, <1>5 DEF LongsPaired, VerifyingKept
<1>7. ASSUME NEW b \in Bucket, NEW p \in Pid, OpenBar(b, p)'
      PROVE  OpenBar(b, p)
  <2>1. ASSUME NEW i \in DOMAIN queue', FirstLong(queue', i, b) PROVE i \in DOMAIN queue /\ FirstLong(queue, i, b)
    <3>1. i \in DOMAIN queue BY <1>2, <2>1 DEF FirstLong
    <3>2. \A k \in 1..(i - 1) : queue'[k] = queue[k] BY <1>1, <3>1
    <3> QED BY <1>1, <2>1, <3>1, <3>2 DEF FirstLong
  <2>2. NoLong(queue', b) => NoLong(queue, b) BY <1>1 DEF NoLong
  <2> QED BY <1>1, <1>7, <2>1, <2>2 DEF OpenBar, VerifyingKept
<1>8. BarsMatch' BY <1>7 DEF CalmInv, BarsMatch, VerifyingKept
<1> QED BY <1>1, <1>6, <1>8 DEF CalmInv, VerifyingKept

(* A bucket nobody has verified yet has no bars. *)
LEMMA CalmPop ==
    ASSUME PoolInv, CalmInv, NEW w \in Worker, Pop(w)
    PROVE  CalmInv'
<1>1. UNCHANGED <<wlong, queue, bars, mpc>> /\ wlong[w] = NoPid
  BY DEF Pop, mainVars, CalmInv, LongsPaired
<1>2. wpc \in [Worker -> PC] /\ wbucket \in [Worker -> Bucket \cup {NoBucket}] BY DEF PoolInv, TypeOK, WorkerTypeOK
<1>3. CASE taskq = <<>>
  <2>1. VerifyingKept BY <1>1, <1>2, <1>3 DEF Pop, VerifyingKept, CalmInv, LongsPaired
  <2> QED BY <1>1, <2>1, CalmQuiet
<1>4. CASE taskq # <<>>
  <2>1. /\ wpc'[w] = "verify" /\ wbucket'[w] = taskq[1] /\ 1 \in DOMAIN taskq
        /\ \A v \in Worker : v # w => wpc'[v] = wpc[v] /\ wbucket'[v] = wbucket[v]
    BY <1>2, <1>4 DEF Pop, PoolInv, TypeOK, WorkerTypeOK
  <2>2. \A k \in DOMAIN queue : ~IsLong(queue[k], wbucket'[w])
    BY <2>1 DEF PoolInv, OneOwner, IsLong
  <2>3. LongsPaired'
    <3>1. ASSUME NEW v \in Worker, NEW i \in DOMAIN queue, wpc'[v] = "verify",
                 LastLong(queue, i, wbucket'[v])
          PROVE  wlong[v] = IF queue[i].type = "ReportLongRunning" THEN queue[i].pid ELSE NoPid
      <4>1. v # w BY <2>2, <3>1 DEF LastLong
      <4> QED BY <2>1, <3>1, <4>1 DEF CalmInv, LongsPaired
    <3>2. \A v \in Worker : wpc'[v] # "verify" => wlong[v] = NoPid
      BY <2>1 DEF CalmInv, LongsPaired
    <3> QED BY <1>1, <3>1, <3>2 DEF CalmInv, LongsPaired
  <2>4. \A b \in Bucket, p \in Pid : OpenBar(b, p)' => OpenBar(b, p)
    BY <1>1, <2>1, PidAssumption DEF OpenBar
  <2>5. BarsMatch' BY <1>1, <2>4 DEF CalmInv, BarsMatch
  <2> QED BY <1>1, <2>3, <2>5 DEF CalmInv
<1> QED BY <1>3, <1>4

(* The worker's own messages about bars: a report when it has none, and    *)
(* the end of the one it has.                                              *)
LEMMA CalmLong ==
    ASSUME PoolInv, CalmInv, NEW w \in Worker, wpc[w] = "verify",
           NEW m \in ReporterMessage, Send(m), m.bucket = wbucket[w], m.pid \in Pid,
           UNCHANGED <<wpc, wbucket, bars, mpc>>,
           wlong' \in [Worker -> Pid \cup {NoPid}],
           \A v \in Worker : v # w => wlong'[v] = wlong[v],
           \/ m.type = "ReportLongRunning" /\ wlong[w] = NoPid /\ wlong'[w] = m.pid
           \/ m.type = "FinishLongRunning" /\ wlong[w] = m.pid /\ wlong'[w] = NoPid
    PROVE  CalmInv'
<1> DEFINE N == Len(queue)
           c == wbucket[w]
<1>1. /\ DOMAIN queue' = 1..(N + 1) /\ DOMAIN queue = 1..N /\ N \in Nat
      /\ Len(queue') = N + 1
      /\ \A i \in 1..N : queue'[i] = queue[i]
      /\ queue'[N + 1] = m
  BY SendFacts DEF PoolInv, TypeOK
<1> HIDE DEF N
<1>2. IsLong(m, c) /\ \A b \in Bucket : IsLong(m, b) => b = c BY DEF IsLong, LongType
<1>3. c \in Bucket /\ \A v \in Worker : wpc[v] = "verify" /\ wbucket[v] = c => v = w
  BY DEF PoolInv, OneOwner, Holds
<1> HIDE DEF c
<1>4. ASSUME NEW i \in DOMAIN queue, LastLong(queue, i, c) PROVE Alternates(queue[i], m)
  <2>1. wlong[w] = IF queue[i].type = "ReportLongRunning" THEN queue[i].pid ELSE NoPid
    BY <1>4 DEF CalmInv, LongsPaired, c
  <2>2. queue[i].type \in LongType /\ queue[i].pid \in Pid BY <1>4 DEF CalmInv, LongsPaired, LastLong, IsLong
  <2> QED BY <2>1, <2>2, PidAssumption DEF Alternates, LongType
<1>5. ASSUME NEW b \in Bucket, NEW i \in DOMAIN queue', NEW j \in DOMAIN queue', NextLong(queue', i, j, b)
      PROVE  Alternates(queue'[i], queue'[j])
  <2>1. i \in 1..N BY <1>1, <1>5 DEF NextLong
  <2>2. CASE j = N + 1
    <3>1. b = c BY <1>1, <1>2, <1>5, <2>2 DEF NextLong
    <3>2. LastLong(queue, i, c)
      <4>1. \A k \in (i + 1)..N : k \in (i + 1)..(j - 1) /\ queue'[k] = queue[k] BY <1>1, <2>1, <2>2
      <4> QED BY <1>1, <1>5, <2>1, <3>1, <4>1 DEF NextLong, LastLong, N
    <3> QED BY <1>1, <1>4, <2>1, <2>2, <3>2
  <2>3. CASE j # N + 1
    <3>1. j \in 1..N BY <1>1, <2>3
    <3>2. \A k \in (i + 1)..(j - 1) : queue'[k] = queue[k] BY <1>1, <2>1, <3>1
    <3>3. NextLong(queue, i, j, b) BY <1>1, <1>5, <2>1, <3>1, <3>2 DEF NextLong
    <3> QED BY <1>1, <2>1, <3>1, <3>3 DEF CalmInv, LongsPaired
  <2> QED BY <2>2, <2>3
<1>6. ASSUME NEW v \in Worker, NEW i \in DOMAIN queue', wpc[v] = "verify", LastLong(queue', i, wbucket[v])
      PROVE  wlong'[v] = IF queue'[i].type = "ReportLongRunning" THEN queue'[i].pid ELSE NoPid
  <2>1. CASE i = N + 1
    <3>1. wbucket[v] = c BY <1>1, <1>6, <2>1 DEF LastLong, IsLong, c
    <3>2. v = w BY <1>3, <1>6, <3>1
    <3> QED BY <1>1, <2>1, <3>2
  <2>2. CASE i # N + 1
    <3>1. i \in 1..N /\ N + 1 \in (i + 1)..Len(queue') BY <1>1, <2>2
    <3>2. ~IsLong(m, wbucket[v]) BY <1>1, <1>6, <3>1 DEF LastLong
    <3>3. v # w BY <1>2, <3>2 DEF c
    <3>4. \A k \in (i + 1)..N : queue'[k] = queue[k] /\ k \in (i + 1)..Len(queue') BY <1>1, <3>1
    <3>5. LastLong(queue, i, wbucket[v]) BY <1>1, <1>6, <3>1, <3>4 DEF LastLong, N
    <3> QED BY <1>1, <1>6, <3>1, <3>3, <3>5 DEF CalmInv, LongsPaired
  <2> QED BY <2>1, <2>2
<1>7. LongsPaired'
  <2>1. \A i \in DOMAIN queue' : queue'[i].type \in LongType => queue'[i].pid \in Pid
    BY <1>1 DEF CalmInv, LongsPaired
  <2>2. \A v \in Worker : wpc'[v] # "verify" => wlong'[v] = NoPid BY DEF CalmInv, LongsPaired
  <2> QED BY <1>5, <1>6, <2>1, <2>2 DEF LongsPaired
<1>8. ASSUME NEW b \in Bucket, NEW p \in Pid, OpenBar(b, p)'
      PROVE  OpenBar(b, p)
  <2>1. CASE \E i \in DOMAIN queue' : FirstLong(queue', i, b) /\ queue'[i].type = "FinishLongRunning"
                                      /\ queue'[i].pid = p
    <3>1. PICK i \in DOMAIN queue' : FirstLong(queue', i, b) /\ queue'[i].type = "FinishLongRunning"
                                     /\ queue'[i].pid = p
      BY <2>1
    <3>2. \A k \in 1..(i - 1) : k \in 1..N /\ queue'[k] = queue[k] BY <1>1
    <3>3. CASE i = N + 1
      <4>1. b = c BY <1>1, <1>2, <3>1, <3>3 DEF FirstLong
      <4>2. NoLong(queue, b) BY <1>1, <3>1, <3>2, <3>3 DEF FirstLong, NoLong
      <4>3. wlong[w] = p BY <1>1, <3>1, <3>3
      <4> QED BY <4>1, <4>2, <4>3 DEF OpenBar, c
    <3>4. CASE i # N + 1
      <4>1. i \in 1..N BY <1>1, <3>4
      <4>2. FirstLong(queue, i, b) BY <1>1, <3>1, <3>2, <4>1 DEF FirstLong
      <4> QED BY <1>1, <3>1, <4>1, <4>2 DEF OpenBar
    <3> QED BY <3>3, <3>4
  <2>2. CASE /\ NoLong(queue', b)
             /\ \E v \in Worker : wpc'[v] = "verify" /\ wbucket'[v] = b /\ wlong'[v] = p
    <3>1. NoLong(queue, b) BY <1>1, <2>2 DEF NoLong
    <3>2. b # c
      <4>1. N + 1 \in DOMAIN queue' BY <1>1
      <4> QED BY <1>1, <1>2, <2>2, <4>1 DEF NoLong
    <3>3. PICK v \in Worker : wpc[v] = "verify" /\ wbucket[v] = b /\ wlong'[v] = p BY <2>2
    <3>4. v # w BY <3>2, <3>3 DEF c
    <3> QED BY <3>1, <3>3, <3>4 DEF OpenBar
  <2> QED BY <1>8, <2>1, <2>2 DEF OpenBar
<1>9. BarsMatch' BY <1>8 DEF CalmInv, BarsMatch
<1>10. \A i \in DOMAIN queue' : queue'[i].type # "WorkerPanicked"
  BY <1>1 DEF CalmInv
<1> QED BY <1>7, <1>9, <1>10 DEF CalmInv

\* Worker w sends the next k diagnostics of its bucket in m.
SendsMsgs(w, k, m) ==
    /\ k \in 0..MaxMsgs
    /\ Holds(w) /\ wbucket[w] \in Bucket
    /\ m \in ReporterMessage /\ m.bucket = wbucket[w] /\ m.type \in {"Message", "Messages"}
    /\ m.msgs = NextMsgs(wbucket[w], k)
    /\ CountSend(wbucket[w], k) /\ Send(m)
    /\ UNCHANGED <<taskq, wbucket, wlong, completed, longs, mainVars>>

(* The three ways to report diagnostics. *)
LEMMA ReportSends ==
    ASSUME PoolInv, NEW w \in Worker,
           \/ \E now \in BOOLEAN : Report(w, now)
           \/ \E k \in 0..MaxMsgs : ReportMulti(w, k)
           \/ BucketErr(w)
    PROVE  /\ \E k \in 0..MaxMsgs, m \in ReporterMessage : SendsMsgs(w, k, m)
           /\ VerifyingKept \/ ~CalmInv
           /\ \A v \in Worker : Holds(v)' => Holds(v)
<1>0. WorkerTypeOK /\ wpc \in [Worker -> PC] BY DEF PoolInv, TypeOK, WorkerTypeOK
<1>1. Holds(w) => wbucket[w] \in Bucket BY DEF PoolInv, OneOwner
<1>2. ASSUME NEW now \in BOOLEAN, wpc[w] = "verify", CountSend(wbucket[w], 1),
             Send(Message(wbucket[w], NextMsgs(wbucket[w], 1)[1], now)),
             UNCHANGED <<taskq, wbucket, wlong, completed, longs, mainVars>>
      PROVE  \E k \in 0..MaxMsgs, m \in ReporterMessage : SendsMsgs(w, k, m)
  <2> DEFINE m == Message(wbucket[w], NextMsgs(wbucket[w], 1)[1], now)
  <2>1. Holds(w) /\ wbucket[w] \in Bucket /\ 1 \in 0..MaxMsgs
    BY <1>0, <1>1, <1>2, Bounds DEF Holds, CountSend, WorkerTypeOK
  <2>2. NextMsgs(wbucket[w], 1)[1] \in Msg BY <1>0, <1>2, <2>1, NextMsgsType DEF CountSend
  <2>3. m \in ReporterMessage BY <2>1, <2>2 DEF Message, ReporterMessage
  <2>4. m.bucket = wbucket[w] /\ m.type \in {"Message", "Messages"} /\ m.msgs = <<NextMsgs(wbucket[w], 1)[1]>>
    BY DEF Message
  <2>5. <<NextMsgs(wbucket[w], 1)[1]>> = NextMsgs(wbucket[w], 1) BY DEF NextMsgs
  <2>6. Send(m) BY <1>2
  <2> HIDE DEF m
  <2>7. SendsMsgs(w, 1, m) BY <1>2, <2>1, <2>3, <2>4, <2>5, <2>6 DEF SendsMsgs
  <2> QED BY <2>1, <2>3, <2>7
<1>3. ASSUME NEW now \in BOOLEAN, Report(w, now)
      PROVE  /\ \E k \in 0..MaxMsgs, m \in ReporterMessage : SendsMsgs(w, k, m)
             /\ VerifyingKept \/ ~CalmInv
             /\ \A v \in Worker : Holds(v)' => Holds(v)
  BY <1>2, <1>3 DEF Report, VerifyingKept, mainVars, CalmInv, LongsPaired, Holds
<1>4. ASSUME NEW k \in 0..MaxMsgs, ReportMulti(w, k)
      PROVE  /\ \E l \in 0..MaxMsgs, m \in ReporterMessage : SendsMsgs(w, l, m)
             /\ VerifyingKept \/ ~CalmInv
             /\ \A v \in Worker : Holds(v)' => Holds(v)
  <2> DEFINE m == Messages(wbucket[w], NextMsgs(wbucket[w], k))
  <2>1. Holds(w) /\ wbucket[w] \in Bucket BY <1>1, <1>4 DEF Holds, ReportMulti
  <2>2. NextMsgs(wbucket[w], k) \in Seq(Msg) BY <1>0, <1>4, <2>1, NextMsgsType DEF CountSend, ReportMulti
  <2>3. m \in ReporterMessage BY <2>1, <2>2 DEF Messages, ReporterMessage
  <2>4. m.bucket = wbucket[w] /\ m.type \in {"Message", "Messages"} /\ m.msgs = NextMsgs(wbucket[w], k)
    BY DEF Messages
  <2>5. Send(m) /\ CountSend(wbucket[w], k) /\ UNCHANGED <<taskq, wbucket, wlong, completed, longs, mainVars>>
    BY <1>4 DEF ReportMulti
  <2> HIDE DEF m
  <2>6. SendsMsgs(w, k, m) BY <2>1, <2>3, <2>4, <2>5 DEF SendsMsgs
  <2> QED BY <1>4, <2>3, <2>6 DEF ReportMulti, VerifyingKept, mainVars, CalmInv, LongsPaired, Holds
<1>5. ASSUME BucketErr(w)
      PROVE  /\ \E k \in 0..MaxMsgs, m \in ReporterMessage : SendsMsgs(w, k, m)
             /\ VerifyingKept \/ ~CalmInv
             /\ \A v \in Worker : Holds(v)' => Holds(v)
  <2>1. \E k \in 0..MaxMsgs, m \in ReporterMessage : SendsMsgs(w, k, m) BY <1>2, <1>5 DEF BucketErr
  <2>2. /\ wpc'[w] = "err" /\ wlong[w] = NoPid /\ wpc[w] = "verify"
        /\ \A v \in Worker : v # w => wpc'[v] = wpc[v]
        /\ UNCHANGED <<wbucket, wlong, mainVars>>
    BY <1>0, <1>5 DEF BucketErr
  <2>3. VerifyingKept \/ ~CalmInv BY <2>2 DEF VerifyingKept, mainVars, CalmInv, LongsPaired
  <2>4. \A v \in Worker : Holds(v)' => Holds(v) BY <2>2 DEF Holds
  <2> QED BY <2>1, <2>3, <2>4
<1> QED BY <1>3, <1>4, <1>5

(* A step of a worker either is, or brings about, a panic of a worker, or  *)
(* keeps the bars in order.                                                *)
LEMMA WorkerStepCalm ==
    ASSUME PoolInv, CalmInv, NEW w \in Worker, WorkerStep(w)
    PROVE  BarsInv'
<1>0. TypeOK /\ wpc \in [Worker -> PC] /\ wlong \in [Worker -> Pid \cup {NoPid}]
      /\ wbucket \in [Worker -> Bucket \cup {NoBucket}]
  BY DEF PoolInv, TypeOK, WorkerTypeOK
<1>1. CASE Pop(w) BY <1>1, CalmPop DEF BarsInv
<1>2. CASE \/ \E now \in BOOLEAN : Report(w, now)
           \/ \E k \in 0..MaxMsgs : ReportMulti(w, k)
           \/ BucketErr(w)
  <2>1. VerifyingKept /\ \E k \in 0..MaxMsgs, m \in ReporterMessage : SendsMsgs(w, k, m)
    BY <1>2, ReportSends
  <2>2. PICK m \in ReporterMessage : Send(m) /\ m.type \in {"Message", "Messages"}
    BY <2>1 DEF SendsMsgs
  <2> QED BY <1>0, <2>1, <2>2, CalmSend DEF BarsInv, LongType
<1>3. ASSUME NEW p \in Pid, StartLong(w, p) PROVE BarsInv'
  <2> DEFINE m == ReportLongRunning(wbucket[w], p)
  <2>1. wpc[w] = "verify" /\ wlong[w] = NoPid /\ Send(m) /\ UNCHANGED <<wpc, wbucket, bars, mpc>>
    BY <1>3 DEF StartLong, mainVars
  <2>2. wbucket[w] \in Bucket BY <2>1 DEF PoolInv, OneOwner, Holds
  <2>3. m \in ReporterMessage BY <2>2, MessageTypes
  <2>4. m.type = "ReportLongRunning" /\ m.bucket = wbucket[w] /\ m.pid = p BY DEF ReportLongRunning
  <2>5. /\ wlong' \in [Worker -> Pid \cup {NoPid}] /\ wlong'[w] = p
        /\ \A v \in Worker : v # w => wlong'[v] = wlong[v]
    BY <1>0, <1>3 DEF StartLong
  <2> HIDE DEF m
  <2> QED BY <2>1, <2>3, <2>4, <2>5, CalmLong DEF BarsInv
<1>4. CASE FinishLong(w)
  <2> DEFINE m == FinishLongRunning(wbucket[w], wlong[w])
  <2>1. wpc[w] = "verify" /\ wlong[w] # NoPid /\ Send(m) /\ UNCHANGED <<wpc, wbucket, bars, mpc>>
    BY <1>4 DEF FinishLong, mainVars
  <2>2. wbucket[w] \in Bucket /\ wlong[w] \in Pid BY <1>0, <2>1 DEF PoolInv, OneOwner, Holds
  <2>3. m \in ReporterMessage BY <2>2, MessageTypes
  <2>4. m.type = "FinishLongRunning" /\ m.bucket = wbucket[w] /\ m.pid = wlong[w] BY DEF FinishLongRunning
  <2>5. /\ wlong' \in [Worker -> Pid \cup {NoPid}] /\ wlong'[w] = NoPid
        /\ \A v \in Worker : v # w => wlong'[v] = wlong[v]
    BY <1>0, <1>4 DEF FinishLong
  <2> HIDE DEF m
  <2> QED BY <2>1, <2>2, <2>3, <2>4, <2>5, CalmLong DEF BarsInv
<1>5. CASE BucketOk(w)
  <2>1. VerifyingKept /\ queue' = queue
    BY <1>0, <1>5 DEF BucketOk, VerifyingKept, mainVars, CalmInv, LongsPaired
  <2> QED BY <2>1, CalmQuiet DEF BarsInv
<1>6. CASE SendDone(w)
  <2>1. wbucket[w] \in Bucket BY <1>6 DEF SendDone, PoolInv, OneOwner, Holds
  <2>2. /\ wpc[w] # "verify" /\ wpc'[w] = "pop" /\ UNCHANGED <<wlong, mpc, bars>>
        /\ \A v \in Worker : v # w => wpc'[v] = wpc[v] /\ wbucket'[v] = wbucket[v]
    BY <1>0, <1>6 DEF SendDone, mainVars
  <2>3. VerifyingKept BY <2>2 DEF VerifyingKept, CalmInv, LongsPaired
  <2>4. Done(wbucket[w]) \in ReporterMessage /\ Done(wbucket[w]).type = "Done" /\ Send(Done(wbucket[w]))
    BY <1>6, <2>1 DEF Done, ReporterMessage, SendDone
  <2> QED BY <1>0, <2>3, <2>4, CalmSend DEF BarsInv, LongType
<1>7. CASE Panic(w) \/ Die(w) \/ SendToClosed(w)
  <2>1. wpc'[w] \in {"panicking", "dead"} BY <1>0, <1>7 DEF Panic, Die, SendToClosed
  <2> QED BY <2>1 DEF BarsInv, SomePanic
<1> QED BY <1>1, <1>2, <1>3, <1>4, <1>5, <1>6, <1>7 DEF WorkerStep

(* A worker that has panicked stays so. *)
LEMMA SomePanicKept ==
    ASSUME PoolInv, SomePanic, [Next]_vars
    PROVE  SomePanic'
<1>0. wpc \in [Worker -> PC] BY DEF PoolInv, TypeOK, WorkerTypeOK
<1>1. PICK v \in Worker : wpc[v] \in {"panicking", "dead"} BY DEF SomePanic
<1>2. ASSUME NEW w \in Worker, WorkerStep(w) PROVE wpc'[v] \in {"panicking", "dead"}
  BY <1>0, <1>1, <1>2 DEF WorkerStep, Pop, Report, ReportMulti, StartLong, FinishLong, BucketOk,
         BucketErr, SendDone, Panic, Die, SendToClosed
<1>3. ASSUME MainStep \/ Stopped \/ UNCHANGED vars PROVE wpc' = wpc
  BY <1>3 DEF MainStep, HandleMessages, HandleIncoming, HandleNow, HandleMessage, HandleDone,
         HandleReportLong, HandleFinishLong, HandlePanicked, Drain, Reap, Join, PrintRest, Stopped,
         vars, workerVars
<1> QED BY <1>1, <1>2, <1>3 DEF Next, SomePanic

LEMMA InitBars == Init => BarsInv
<1> SUFFICES ASSUME Init PROVE CalmInv BY DEF BarsInv
<1>1. DOMAIN queue = {} /\ mpc = "handle" BY DEF Init
<1>2. LongsPaired BY <1>1 DEF Init, LongsPaired
<1>3. \A p \in Pid : bars[p].pb = "none" /\ bars[p].aux = "none" BY DEF Init
<1>4. \A b \in Bucket, p \in Pid : ~OpenBar(b, p) BY <1>1 DEF Init, OpenBar
<1>5. BarsMatch BY <1>3, <1>4 DEF BarsMatch
<1> QED BY <1>1, <1>2, <1>5 DEF CalmInv

(* The bars the main thread keeps match the messages that are still to     *)
(* come, unless a worker has panicked.                                     *)
LEMMA BarsInvariant == Spec => []BarsInv
<1>1. PoolInv /\ BarsInv /\ [Next]_vars => BarsInv'
  <2> SUFFICES ASSUME PoolInv, BarsInv, [Next]_vars PROVE BarsInv' OBVIOUS
  <2>1. CASE SomePanic BY <2>1, SomePanicKept DEF BarsInv
  <2>2. CASE CalmInv
    <3>1. CASE \E w \in Worker : WorkerStep(w) BY <2>2, <3>1, WorkerStepCalm
    <3>2. CASE MainStep
      <4>1. CASE CalmInv' BY <4>1 DEF BarsInv
      <4>2. CASE SomePanic BY <4>2, SomePanicKept DEF BarsInv
      <4> QED BY <2>2, <3>2, <4>1, <4>2, MainStepCalm
    <3>3. CASE Stopped \/ UNCHANGED vars
      <4>1. UNCHANGED <<mpc, workerVars, queue, bars>> BY <3>3 DEF Stopped, vars
      <4>2. mpc' # "panicked" BY <2>2, <4>1 DEF CalmInv
      <4> QED BY <2>2, <4>1, <4>2, CalmKept DEF BarsInv
    <3> QED BY <3>1, <3>2, <3>3 DEF Next
  <2> QED BY <2>1, <2>2 DEF BarsInv
<1> QED BY <1>1, InitBars, PoolInvariant, PTL DEF Spec

(* The main thread panics only because a worker did: the unwraps of the    *)
(* progress bars never fail, whatever the buckets share and however their  *)
(* messages interleave.                                                    *)
THEOREM NoPanicByItself == Spec => []PanicHasCause
<1>1. BarsInv => PanicHasCause BY DEF BarsInv, CalmInv, SomePanic, PanicHasCause
<1> QED BY <1>1, BarsInvariant, PTL

-----------------------------------------------------------------------------
(* The way of the diagnostics: what sequences hold.                        *)

LEMMA RangeAppend ==
    ASSUME NEW S, NEW q \in Seq(S), NEW x \in S
    PROVE  Range(Append(q, x)) = Range(q) \cup {x}
<1>1. Len(q) \in Nat /\ DOMAIN q = 1..Len(q) /\ DOMAIN Append(q, x) = 1..(Len(q) + 1)
  OBVIOUS
<1>2. Append(q, x)[Len(q) + 1] = x /\ \A i \in 1..Len(q) : Append(q, x)[i] = q[i] OBVIOUS
<1>3. \A y \in Range(Append(q, x)) : y \in Range(q) \cup {x} BY <1>1, <1>2 DEF Range
<1>4. \A y \in Range(q) : y \in Range(Append(q, x)) BY <1>1, <1>2 DEF Range
<1>5. x \in Range(Append(q, x)) BY <1>1, <1>2 DEF Range
<1> QED BY <1>3, <1>4, <1>5

LEMMA RangeConcat ==
    ASSUME NEW S, NEW q \in Seq(S), NEW r \in Seq(S)
    PROVE  Range(q \o r) = Range(q) \cup Range(r)
<1>1. /\ Len(q) \in Nat /\ Len(r) \in Nat /\ DOMAIN q = 1..Len(q) /\ DOMAIN r = 1..Len(r)
      /\ DOMAIN (q \o r) = 1..(Len(q) + Len(r))
  OBVIOUS
<1>2. \A i \in 1..Len(q) : (q \o r)[i] = q[i] OBVIOUS
<1>3. \A i \in 1..Len(r) : (q \o r)[Len(q) + i] = r[i] OBVIOUS
<1>4. \A i \in DOMAIN (q \o r) : i \in 1..Len(q) \/ (i - Len(q) \in 1..Len(r) /\ Len(q) + (i - Len(q)) = i)
  BY <1>1
<1>5. ASSUME NEW i \in DOMAIN (q \o r) PROVE (q \o r)[i] \in Range(q) \cup Range(r)
  <2>1. CASE i \in 1..Len(q) BY <1>1, <1>2, <2>1 DEF Range
  <2>2. CASE i - Len(q) \in 1..Len(r) /\ Len(q) + (i - Len(q)) = i
    <3>1. (q \o r)[i] = r[i - Len(q)] BY <1>3, <2>2
    <3> QED BY <1>1, <2>2, <3>1 DEF Range
  <2> QED BY <1>4, <2>1, <2>2
<1>6. ASSUME NEW i \in DOMAIN q PROVE q[i] \in Range(q \o r)
  <2>1. i \in DOMAIN (q \o r) BY <1>1
  <2> QED BY <1>1, <1>2, <2>1 DEF Range
<1>7. ASSUME NEW i \in DOMAIN r PROVE r[i] \in Range(q \o r)
  <2>1. Len(q) + i \in DOMAIN (q \o r) BY <1>1
  <2> QED BY <1>1, <1>3, <2>1 DEF Range
<1> QED BY <1>5, <1>6, <1>7 DEF Range

-----------------------------------------------------------------------------
(* Order along the way.                                                    *)

(* What a position of the order says. *)
LEMMA BeforeFacts ==
    ASSUME NEW x \in Msg, NEW y \in Msg
    PROVE  /\ SentBefore(x, y) => Before(x, y)
           /\ Before(x, y) => x.n # y.n
           /\ Before(x, y) => \/ x.send < y.send
                              \/ x.send = y.send /\ Span[x.n] <= Span[y.n]
<1>1. x.n \in 1..MaxMsgs /\ y.n \in 1..MaxMsgs /\ x.send \in Int /\ y.send \in Int
  BY Bounds DEF Msg
<1>2. Span[x.n] \in Int /\ Span[y.n] \in Int /\ x.n \in Int /\ y.n \in Int BY <1>1, SpanAssumption, Bounds
<1> QED BY <1>1, <1>2 DEF Before, SentBefore

(* A diagnostic moves from the line or from the channel to what is out. *)
LEMMA WayMove ==
    ASSUME NEW O, NEW L, NEW C, NEW s, NEW n, NEW L1, NEW C1, NEW x,
           OnTheWay(O, L, C, s, n), x \in L \cup C, L1 \subseteq L, C1 \subseteq C,
           L \cup C \subseteq L1 \cup C1 \cup {x},
           \A y \in L1 : Before(x, y), \A y \in C1 : SentBefore(x, y)
    PROVE  OnTheWay(O \cup {x}, L1, C1, s, n)
BY DEF OnTheWay

(* A batch moves from the channel to the line. *)
LEMMA WaySplit ==
    ASSUME NEW O \in SUBSET Msg, NEW C \in SUBSET Msg, NEW s, NEW n, NEW L1 \in SUBSET Msg, NEW C1 \in SUBSET Msg,
           OnTheWay(O, {}, C, s, n), C = L1 \cup C1, \A x \in L1, y \in C1 : SentBefore(x, y)
    PROVE  OnTheWay(O, L1, C1, s, n)
<1>1. \A x \in O, y \in L1 : Before(x, y) BY BeforeFacts DEF OnTheWay
<1> QED BY <1>1 DEF OnTheWay

(* New diagnostics come behind all others. *)
LEMMA WayExtend ==
    ASSUME NEW O \in SUBSET Msg, NEW L \in SUBSET Msg, NEW C \in SUBSET Msg, NEW s \in Nat, NEW n \in Nat,
           NEW k \in Nat, NEW N \in SUBSET Msg,
           OnTheWay(O, L, C, s, n),
           \A x \in N : x.send = s + 1 /\ x.n \in (n + 1)..(n + k),
           \A i \in (n + 1)..(n + k) : \E x \in N : x.n = i
    PROVE  OnTheWay(O, L, C \cup N, s + 1, n + k)
<1>1. \A x \in Msg : x.n \in Int /\ x.send \in Int BY Bounds DEF Msg
<1>2. \A x \in O \cup L \cup C : x.send <= s /\ x.n <= n BY DEF OnTheWay
<1>3. ASSUME NEW x \in O \cup L, NEW y \in C \cup N PROVE SentBefore(x, y)
  <2>1. CASE y \in C BY <2>1 DEF OnTheWay
  <2>2. CASE y \in N
    <3>1. x.send <= s /\ x.n <= n /\ x.n \in Int /\ x.send \in Int BY <1>1, <1>2
    <3>2. y.send = s + 1 /\ y.n >= n + 1 /\ y.n \in Int BY <2>2
    <3> QED BY <3>1, <3>2 DEF SentBefore
  <2> QED BY <2>1, <2>2
<1>4. \A x \in O \cup L \cup (C \cup N) : x.send <= s + 1 /\ x.n <= n + k
  BY <1>1, <1>2
<1>5. ASSUME NEW i \in 1..(n + k) PROVE \E x \in O \cup L \cup (C \cup N) : x.n = i
  <2>1. CASE i \in 1..n BY <2>1 DEF OnTheWay
  <2>2. CASE i \notin 1..n
    <3>1. i \in (n + 1)..(n + k) BY <2>2
    <3> QED BY <3>1
  <2> QED BY <2>1, <2>2
<1>6. \A x \in O, y \in L : Before(x, y) BY DEF OnTheWay
<1> QED BY <1>3, <1>4, <1>5, <1>6 DEF OnTheWay

(* Whatever is on its way is a diagnostic. *)
LEMMA WayMsgs ==
    ASSUME TypeOK, OwnMessages, NEW b \in Bucket
    PROVE  /\ Out(b) \subseteq Msg /\ InLine(b) \subseteq Msg /\ InChannel(b) \subseteq Msg
           /\ \A i \in DOMAIN local : local[i].msgs[1] \in Msg
           /\ \A i \in DOMAIN queue : queue[i].msgs \in Seq(Msg) /\ queue[i].bucket \in Bucket
<1>1. \A i \in DOMAIN queue : queue[i].msgs \in Seq(Msg) /\ queue[i].bucket \in Bucket
  <2>1. \A i \in DOMAIN queue : queue[i] \in ReporterMessage BY DEF TypeOK
  <2> QED BY <2>1 DEF ReporterMessage
<1>2. \A i \in DOMAIN local : local[i].msgs[1] \in Msg
  <2> TAKE i \in DOMAIN local
  <2>1. local[i] \in ReporterMessage BY DEF TypeOK, MainTypeOK
  <2>2. local[i].msgs \in Seq(Msg) /\ Len(local[i].msgs) = 1 BY <2>1 DEF ReporterMessage, OwnMessages
  <2> QED BY <2>2
<1>3. printed \in Seq(Msg) /\ buffered[b] \in Seq(Msg) /\ printedNow \subseteq Msg
  BY DEF TypeOK, MainTypeOK
<1>4. Range(printed) \subseteq Msg /\ Range(buffered[b]) \subseteq Msg BY <1>3 DEF Range
<1>5. Out(b) \subseteq Msg BY <1>3, <1>4 DEF Out, OfBucket
<1>6. InLine(b) \subseteq Msg BY <1>2 DEF InLine, OfBucket
<1>7. \A i \in DOMAIN queue : Range(queue[i].msgs) \subseteq Msg BY <1>1 DEF Range
<1>8. InChannel(b) \subseteq Msg BY <1>7 DEF InChannel, OfBucket
<1> QED BY <1>1, <1>2, <1>5, <1>6, <1>8

-----------------------------------------------------------------------------
(* A worker sends.                                                         *)

\* What is out, and what is in local_msgs, stay as they are.
RestKept == UNCHANGED <<printed, buffered, printedNow, local>>

LEMMA RestKeptWay ==
    ASSUME WayInv, RestKept
    PROVE  /\ OutInOrder' /\ LocalInOrder'
           /\ \A b \in Bucket : Out(b)' = Out(b) /\ InLine(b)' = InLine(b)
BY DEF RestKept, WayInv, OutInOrder, LocalInOrder, Out, InLine

(* The channel holds what the new message carries, too. *)
LEMMA ChannelAppend ==
    ASSUME TypeOK, NEW m \in ReporterMessage, Send(m), NEW b \in Bucket
    PROVE  InChannel(b)' = InChannel(b) \cup OfBucket(Range(m.msgs), b)
<1>1. /\ DOMAIN queue' = 1..(Len(queue) + 1) /\ DOMAIN queue = 1..Len(queue) /\ Len(queue) \in Nat
      /\ \A i \in 1..Len(queue) : queue'[i] = queue[i]
      /\ queue'[Len(queue) + 1] = m
  BY SendFacts DEF TypeOK
<1>2. \A x \in InChannel(b)' : x \in InChannel(b) \cup OfBucket(Range(m.msgs), b)
  <2> SUFFICES ASSUME NEW i \in DOMAIN queue', NEW x \in Range(queue'[i].msgs), x.bucket = b
               PROVE  x \in InChannel(b) \cup OfBucket(Range(m.msgs), b)
    BY DEF InChannel, OfBucket
  <2>1. CASE i = Len(queue) + 1 BY <1>1, <2>1 DEF OfBucket
  <2>2. CASE i # Len(queue) + 1
    <3>1. i \in DOMAIN queue /\ queue'[i] = queue[i] BY <1>1, <2>2
    <3> QED BY <3>1 DEF InChannel, OfBucket
  <2> QED BY <2>1, <2>2
<1>3. \A x \in InChannel(b) : x \in InChannel(b)'
  <2> SUFFICES ASSUME NEW i \in DOMAIN queue, NEW x \in Range(queue[i].msgs), x.bucket = b
               PROVE  x \in InChannel(b)'
    BY DEF InChannel, OfBucket
  <2>1. i \in DOMAIN queue' /\ queue'[i] = queue[i] BY <1>1
  <2> QED BY <2>1 DEF InChannel, OfBucket
<1>4. \A x \in OfBucket(Range(m.msgs), b) : x \in InChannel(b)'
  <2>1. Len(queue) + 1 \in DOMAIN queue' BY <1>1
  <2> QED BY <1>1, <2>1 DEF InChannel, OfBucket
<1> QED BY <1>2, <1>3, <1>4

(* A send without diagnostics. *)
LEMMA WaySendNone ==
    ASSUME PoolInv, WayInv, NEW m \in ReporterMessage, Send(m), m.msgs = <<>>,
           RestKept, UNCHANGED <<sent, sends>>
    PROVE  WayInv'
<1>0. TypeOK BY DEF PoolInv
<1>1. /\ DOMAIN queue' = 1..(Len(queue) + 1) /\ DOMAIN queue = 1..Len(queue) /\ Len(queue) \in Nat
      /\ \A i \in 1..Len(queue) : queue'[i] = queue[i]
      /\ queue'[Len(queue) + 1] = m
  BY <1>0, SendFacts DEF TypeOK
<1>2. \A b \in Bucket : InChannel(b)' = InChannel(b)
  <2>1. Range(m.msgs) = {} BY DEF Range
  <2> QED BY <1>0, <2>1, ChannelAppend DEF OfBucket
<1>3. ChannelInOrder'
  <2>1. DOMAIN m.msgs = {} OBVIOUS
  <2>2. \A i \in DOMAIN queue' : (i \in DOMAIN queue /\ queue'[i] = queue[i]) \/ queue'[i] = m BY <1>1
  <2> QED BY <2>1, <2>2 DEF WayInv, ChannelInOrder
<1> QED BY <1>2, <1>3, RestKeptWay DEF WayInv

(* A send of the next diagnostics. *)
LEMMA WaySendMsgs ==
    ASSUME PoolInv, WayInv, NEW w \in Worker, NEW k \in 0..MaxMsgs, NEW m \in ReporterMessage,
           SendsMsgs(w, k, m)
    PROVE  WayInv'
<1>c. PICK c \in Bucket : c = wbucket[w] BY DEF SendsMsgs
<1>0. TypeOK /\ OwnMessages /\ WorkerTypeOK BY DEF PoolInv, TypeOK
<1>1. /\ c \in Bucket /\ m.bucket = c /\ m.type \in {"Message", "Messages"} /\ m.msgs = NextMsgs(c, k)
      /\ Send(m) /\ RestKept /\ sent[c] + k <= MaxMsgs /\ sends[c] < MaxSends
      /\ sent' = [sent EXCEPT ![c] = @ + k] /\ sends' = [sends EXCEPT ![c] = @ + 1]
  BY <1>c DEF SendsMsgs, CountSend, RestKept, mainVars, reportVars
<1>2. /\ sent[c] \in Nat /\ sends[c] \in Nat /\ k \in Nat
      /\ sent'[c] = sent[c] + k /\ sends'[c] = sends[c] + 1
      /\ \A b \in Bucket : b # c => sent'[b] = sent[b] /\ sends'[b] = sends[b]
  BY <1>0, <1>1, Bounds DEF WorkerTypeOK
<1>3. /\ m.msgs \in Seq(Msg) /\ DOMAIN m.msgs = 1..k
      /\ \A i \in 1..k : m.msgs[i] \in Msg /\ m.msgs[i].bucket = c
  BY <1>0, <1>1, NextMsgsType
<1>4. \A i \in 1..k : m.msgs[i].send = sends[c] + 1 /\ m.msgs[i].n = sent[c] + i
  BY <1>1 DEF NextMsgs
<1>5. OfBucket(Range(m.msgs), c) = Range(m.msgs) /\ \A b \in Bucket : b # c => OfBucket(Range(m.msgs), b) = {}
  BY <1>3 DEF OfBucket, Range
<1>6. OnTheWay(Out(c)', InLine(c)', InChannel(c)', sends'[c], sent'[c])
  <2> DEFINE N == Range(m.msgs)
  <2>1. N \in SUBSET Msg BY <1>3 DEF Range
  <2>2. \A x \in N : x.send = sends[c] + 1 /\ x.n \in (sent[c] + 1)..(sent[c] + k)
    <3> SUFFICES ASSUME NEW i \in 1..k
                 PROVE  m.msgs[i].send = sends[c] + 1 /\ m.msgs[i].n \in (sent[c] + 1)..(sent[c] + k)
      BY <1>3 DEF Range
    <3> QED BY <1>2, <1>4
  <2>3. \A i \in (sent[c] + 1)..(sent[c] + k) : \E x \in N : x.n = i
    <3> TAKE i \in (sent[c] + 1)..(sent[c] + k)
    <3>1. i - sent[c] \in 1..k /\ sent[c] + (i - sent[c]) = i BY <1>2
    <3>2. m.msgs[i - sent[c]].n = i BY <1>4, <3>1
    <3> QED BY <1>3, <3>1, <3>2 DEF Range
  <2>4. OnTheWay(Out(c), InLine(c), InChannel(c), sends[c], sent[c]) BY <1>1 DEF WayInv
  <2>5. Out(c) \in SUBSET Msg /\ InLine(c) \in SUBSET Msg /\ InChannel(c) \in SUBSET Msg
    BY <1>0, <1>1, WayMsgs
  <2>6. InChannel(c)' = InChannel(c) \cup N BY <1>0, <1>1, <1>5, ChannelAppend
  <2>7. Out(c)' = Out(c) /\ InLine(c)' = InLine(c) BY <1>1, RestKeptWay
  <2> HIDE DEF N
  <2> QED BY <1>2, <2>1, <2>2, <2>3, <2>4, <2>5, <2>6, <2>7, WayExtend
<1>7. ASSUME NEW b \in Bucket, b # c
      PROVE  OnTheWay(Out(b)', InLine(b)', InChannel(b)', sends'[b], sent'[b])
  <2>1. InChannel(b)' = InChannel(b) BY <1>0, <1>1, <1>5, <1>7, ChannelAppend
  <2> QED BY <1>1, <1>2, <1>7, <2>1, RestKeptWay DEF WayInv
<1>8. ChannelInOrder'
  <2>1. /\ DOMAIN queue' = 1..(Len(queue) + 1) /\ DOMAIN queue = 1..Len(queue) /\ Len(queue) \in Nat
        /\ \A i \in 1..Len(queue) : queue'[i] = queue[i]
        /\ queue'[Len(queue) + 1] = m
    BY <1>0, <1>1, SendFacts DEF TypeOK
  <2>2. \A i \in DOMAIN queue' : (i \in DOMAIN queue /\ queue'[i] = queue[i]) \/ (i = Len(queue) + 1 /\ queue'[i] = m)
    BY <2>1
  <2>3. ASSUME NEW i \in DOMAIN queue, NEW l \in DOMAIN queue[i].msgs, NEW j \in 1..k, queue[i].bucket = c
        PROVE  SentBefore(queue[i].msgs[l], m.msgs[j])
    <3> DEFINE x == queue[i].msgs[l]
    <3>1. x.bucket = c BY <1>0, <2>3 DEF OwnMessages
    <3>2. x \in InChannel(c) BY <3>1 DEF InChannel, OfBucket, Range
    <3>3. x.send <= sends[c] /\ x.n <= sent[c] BY <1>1, <3>2 DEF WayInv, OnTheWay
    <3>4. x \in Msg BY <1>0, <1>1, <3>2, WayMsgs
    <3>5. x.n \in Int /\ x.send \in Int BY <3>4, Bounds DEF Msg
    <3> HIDE DEF x
    <3>6. m.msgs[j].send = sends[c] + 1 /\ m.msgs[j].n = sent[c] + j BY <1>4
    <3>7. SentBefore(x, m.msgs[j]) BY <1>2, <3>3, <3>5, <3>6 DEF SentBefore
    <3> QED BY <3>7 DEF x
  <2>4. ASSUME NEW i \in DOMAIN queue', NEW j \in DOMAIN queue', i < j, queue'[i].bucket = queue'[j].bucket,
               NEW a \in DOMAIN queue'[i].msgs, NEW l \in DOMAIN queue'[j].msgs
        PROVE  SentBefore(queue'[i].msgs[a], queue'[j].msgs[l])
    <3>1. i \in DOMAIN queue /\ queue'[i] = queue[i] BY <2>1, <2>4
    <3>2. CASE j = Len(queue) + 1
      <4>1. queue'[j] = m /\ l \in 1..k /\ queue[i].bucket = c BY <1>1, <1>3, <2>1, <2>4, <3>1, <3>2
      <4> QED BY <2>3, <2>4, <3>1, <4>1
    <3>3. CASE j # Len(queue) + 1
      <4>1. j \in DOMAIN queue /\ queue'[j] = queue[j] BY <2>1, <3>3
      <4> QED BY <2>4, <3>1, <4>1 DEF WayInv, ChannelInOrder
    <3> QED BY <3>2, <3>3
  <2>5. \A i \in DOMAIN queue' : \A a, l \in DOMAIN queue'[i].msgs :
            queue'[i].msgs[a].send = queue'[i].msgs[l].send
    BY <1>3, <1>4, <2>2 DEF WayInv, ChannelInOrder
  <2>6. \A i \in DOMAIN queue' : queue'[i].type \notin {"Message", "Messages"} => queue'[i].msgs = <<>>
    BY <1>1, <2>2 DEF WayInv, ChannelInOrder
  <2> QED BY <2>4, <2>5, <2>6 DEF ChannelInOrder
<1> QED BY <1>1, <1>6, <1>7, <1>8, RestKeptWay DEF WayInv

(* The channel and the counters are left alone. *)
LEMMA WayKept ==
    ASSUME WayInv, RestKept, UNCHANGED <<queue, sent, sends>>
    PROVE  WayInv'
<1>1. ChannelInOrder' /\ \A b \in Bucket : InChannel(b)' = InChannel(b)
  BY DEF WayInv, ChannelInOrder, InChannel
<1> QED BY <1>1, RestKeptWay DEF WayInv

LEMMA WorkerStepWay ==
    ASSUME PoolInv, WayInv, NEW w \in Worker, WorkerStep(w)
    PROVE  WayInv'
<1>0. UNCHANGED mainVars
  BY DEF WorkerStep, Pop, Report, ReportMulti, StartLong, FinishLong, BucketOk,
         BucketErr, SendDone, Panic, Die, SendToClosed
<1>1. RestKept BY <1>0 DEF RestKept, mainVars, reportVars
<1>2. Holds(w) => wbucket[w] \in Bucket BY DEF PoolInv, OneOwner
<1>3. wlong[w] \in Pid \cup {NoPid} BY DEF PoolInv, TypeOK, WorkerTypeOK
<1>4. CASE Pop(w) \/ BucketOk(w) \/ Die(w) \/ SendToClosed(w)
  BY <1>1, <1>4, WayKept DEF Pop, BucketOk, Die, SendToClosed
<1>5. CASE \/ \E now \in BOOLEAN : Report(w, now)
           \/ \E k \in 0..MaxMsgs : ReportMulti(w, k)
           \/ BucketErr(w)
  BY <1>5, ReportSends, WaySendMsgs
<1>6. ASSUME NEW p \in Pid, StartLong(w, p) PROVE WayInv'
  <2>1. wbucket[w] \in Bucket BY <1>2, <1>6 DEF StartLong, Holds
  <2>2. ReportLongRunning(wbucket[w], p) \in ReporterMessage BY <2>1, MessageTypes
  <2>3. ReportLongRunning(wbucket[w], p).msgs = <<>> BY DEF ReportLongRunning
  <2> QED BY <1>1, <1>6, <2>2, <2>3, WaySendNone DEF StartLong
<1>7. CASE FinishLong(w)
  <2>1. wbucket[w] \in Bucket /\ wlong[w] \in Pid BY <1>2, <1>3, <1>7 DEF FinishLong, Holds
  <2>2. FinishLongRunning(wbucket[w], wlong[w]) \in ReporterMessage BY <2>1, MessageTypes
  <2>3. FinishLongRunning(wbucket[w], wlong[w]).msgs = <<>> BY DEF FinishLongRunning
  <2> QED BY <1>1, <1>7, <2>2, <2>3, WaySendNone DEF FinishLong
<1>8. CASE SendDone(w)
  <2>1. wbucket[w] \in Bucket BY <1>2, <1>8 DEF SendDone, Holds
  <2>2. Done(wbucket[w]) \in ReporterMessage /\ Done(wbucket[w]).msgs = <<>>
    BY <2>1 DEF Done, ReporterMessage
  <2> QED BY <1>1, <1>8, <2>2, WaySendNone DEF SendDone
<1>9. CASE Panic(w)
  <2>1. wbucket[w] \in Bucket BY <1>2, <1>9 DEF Panic, Holds
  <2>2. WorkerPanicked(wbucket[w]) \in ReporterMessage /\ WorkerPanicked(wbucket[w]).msgs = <<>>
    BY <2>1 DEF WorkerPanicked, ReporterMessage
  <2> QED BY <1>1, <1>9, <2>2, WaySendNone DEF Panic
<1> QED BY <1>4, <1>5, <1>6, <1>7, <1>8, <1>9 DEF WorkerStep

-----------------------------------------------------------------------------
(* The main thread receives.                                               *)

(* Every element of a sequence but the first is an element of its tail. *)
LEMMA TailFacts ==
    ASSUME NEW S, NEW q \in Seq(S), q # <<>>
    PROVE  /\ 1 \in DOMAIN q /\ Head(q) = q[1] /\ Tail(q) \in Seq(S)
           /\ \A i \in DOMAIN Tail(q) : i \in Nat /\ i + 1 \in DOMAIN q /\ i + 1 > 1 /\ Tail(q)[i] = q[i + 1]
           /\ \A i \in DOMAIN q : i = 1 \/ (i - 1 \in DOMAIN Tail(q) /\ Tail(q)[i - 1] = q[i])
<1>1. /\ Len(q) \in Nat /\ Len(q) >= 1 /\ DOMAIN q = 1..Len(q) /\ Tail(q) \in Seq(S)
      /\ Len(Tail(q)) = Len(q) - 1 /\ DOMAIN Tail(q) = 1..(Len(q) - 1) /\ Head(q) = q[1]
  OBVIOUS
<1>2. \A i \in 1..(Len(q) - 1) : Tail(q)[i] = q[i + 1] OBVIOUS
<1>3. \A i \in 1..Len(q) : i = 1 \/ (i - 1 \in 1..(Len(q) - 1) /\ (i - 1) + 1 = i) BY <1>1
<1> QED BY <1>1, <1>2, <1>3

(* The first message leaves the channel. *)
LEMMA ChannelTail ==
    ASSUME TypeOK, OwnMessages, ChannelInOrder, queue # <<>>, queue' = Tail(queue)
    PROVE  /\ ChannelInOrder'
           /\ \A b \in Bucket : /\ InChannel(b)' \subseteq InChannel(b)
                                /\ InChannel(b) \subseteq InChannel(b)' \cup OfBucket(Range(queue[1].msgs), b)
                                /\ OfBucket(Range(queue[1].msgs), b) \subseteq InChannel(b)
                                /\ \A x \in OfBucket(Range(queue[1].msgs), b), y \in InChannel(b)' : SentBefore(x, y)
<1>1. queue \in Seq(ReporterMessage) BY DEF TypeOK
<1>2. /\ 1 \in DOMAIN queue
      /\ \A i \in DOMAIN queue' : i \in Nat /\ i + 1 \in DOMAIN queue /\ i + 1 > 1 /\ queue'[i] = queue[i + 1]
      /\ \A i \in DOMAIN queue : i = 1 \/ (i - 1 \in DOMAIN queue' /\ queue'[i - 1] = queue[i])
  BY <1>1, TailFacts
<1>3. ChannelInOrder'
  <2>1. \A i, j \in DOMAIN queue' : i < j => i + 1 < j + 1 BY <1>2
  <2>2. ASSUME NEW i \in DOMAIN queue', NEW j \in DOMAIN queue', i < j, queue'[i].bucket = queue'[j].bucket,
               NEW k \in DOMAIN queue'[i].msgs, NEW l \in DOMAIN queue'[j].msgs
        PROVE  SentBefore(queue'[i].msgs[k], queue'[j].msgs[l])
    <3>1. /\ i + 1 \in DOMAIN queue /\ j + 1 \in DOMAIN queue /\ i + 1 < j + 1
          /\ queue'[i] = queue[i + 1] /\ queue'[j] = queue[j + 1]
      BY <1>2, <2>1, <2>2
    <3> QED BY <2>2, <3>1 DEF ChannelInOrder
  <2>3. \A i \in DOMAIN queue' : \A k, l \in DOMAIN queue'[i].msgs :
            queue'[i].msgs[k].send = queue'[i].msgs[l].send
    BY <1>2 DEF ChannelInOrder
  <2>4. \A i \in DOMAIN queue' : queue'[i].type \notin {"Message", "Messages"} => queue'[i].msgs = <<>>
    BY <1>2 DEF ChannelInOrder
  <2> QED BY <2>2, <2>3, <2>4 DEF ChannelInOrder
<1>4. ASSUME NEW b \in Bucket
      PROVE  /\ InChannel(b)' \subseteq InChannel(b)
             /\ InChannel(b) \subseteq InChannel(b)' \cup OfBucket(Range(queue[1].msgs), b)
             /\ OfBucket(Range(queue[1].msgs), b) \subseteq InChannel(b)
             /\ \A x \in OfBucket(Range(queue[1].msgs), b), y \in InChannel(b)' : SentBefore(x, y)
  <2>1. ASSUME NEW i \in DOMAIN queue', NEW y \in Range(queue'[i].msgs), y.bucket = b PROVE y \in InChannel(b)
    <3>1. i + 1 \in DOMAIN queue /\ y \in Range(queue[i + 1].msgs) BY <1>2
    <3> QED BY <2>1, <3>1 DEF InChannel, OfBucket
  <2>2. ASSUME NEW i \in DOMAIN queue, NEW y \in Range(queue[i].msgs), y.bucket = b
        PROVE  y \in InChannel(b)' \cup OfBucket(Range(queue[1].msgs), b)
    <3>1. CASE i = 1 BY <2>2, <3>1 DEF OfBucket
    <3>2. CASE i # 1
      <4>1. i - 1 \in DOMAIN queue' /\ y \in Range(queue'[i - 1].msgs) BY <1>2, <3>2
      <4> QED BY <2>2, <4>1 DEF InChannel, OfBucket
    <3> QED BY <3>1, <3>2
  <2>3. OfBucket(Range(queue[1].msgs), b) \subseteq InChannel(b) BY <1>2 DEF InChannel, OfBucket
  <2>4. ASSUME NEW k \in DOMAIN queue[1].msgs, queue[1].msgs[k].bucket = b,
               NEW i \in DOMAIN queue', NEW l \in DOMAIN queue'[i].msgs, queue'[i].msgs[l].bucket = b
        PROVE  SentBefore(queue[1].msgs[k], queue'[i].msgs[l])
    <3>1. i + 1 \in DOMAIN queue /\ 1 < i + 1 /\ queue'[i] = queue[i + 1] BY <1>2
    <3>2. queue[1].bucket = b /\ queue[i + 1].bucket = b BY <1>2, <2>4, <3>1 DEF OwnMessages
    <3> QED BY <1>2, <3>1, <3>2 DEF ChannelInOrder
  <2>5. \A y \in InChannel(b)' : y \in InChannel(b) BY <2>1 DEF InChannel, OfBucket
  <2>6. \A y \in InChannel(b) : y \in InChannel(b)' \cup OfBucket(Range(queue[1].msgs), b)
    BY <2>2 DEF InChannel, OfBucket
  <2>7. \A x \in OfBucket(Range(queue[1].msgs), b), y \in InChannel(b)' : SentBefore(x, y)
    BY <2>4 DEF InChannel, OfBucket, Range
  <2> QED BY <2>3, <2>5, <2>6, <2>7
<1> QED BY <1>3, <1>4

(* A message about no diagnostic leaves the channel. *)
LEMMA WayReceiveNone ==
    ASSUME PoolInv, WayInv, NEW m, Receive(m), m.type \notin {"Message", "Messages"},
           UNCHANGED <<printed, buffered, printedNow, sent, sends>>
    PROVE  WayInv'
<1>0. TypeOK /\ OwnMessages BY DEF PoolInv
<1>1. local = <<>> /\ local' = local /\ queue # <<>> /\ m = Head(queue) /\ queue' = Tail(queue)
  <2>1. CASE local # <<>>
    <3>1. local \in Seq(ReporterMessage) BY <1>0 DEF TypeOK, MainTypeOK
    <3>2. 1 \in DOMAIN local /\ m = local[1] BY <2>1, <3>1 DEF Receive
    <3> QED BY <3>2 DEF PoolInv, DoneIsLast
  <2> QED BY <2>1 DEF Receive
<1>2. queue \in Seq(ReporterMessage) /\ m = queue[1] /\ 1 \in DOMAIN queue BY <1>0, <1>1 DEF TypeOK
<1>3. m.msgs = <<>> BY <1>2 DEF WayInv, ChannelInOrder
<1>4. \A b \in Bucket : OfBucket(Range(queue[1].msgs), b) = {} BY <1>2, <1>3 DEF OfBucket, Range
<1>5. ChannelInOrder' /\ \A b \in Bucket : InChannel(b)' = InChannel(b)
  BY <1>0, <1>1, <1>4, ChannelTail DEF WayInv
<1>6. RestKept BY <1>1 DEF RestKept
<1> QED BY <1>5, <1>6, RestKeptWay DEF WayInv

\* What the receipt of diagnostic x of bucket b does to the way.
Received(x, b) ==
    /\ x \in Msg /\ x.bucket = b
    /\ LocalInOrder' /\ ChannelInOrder'
    /\ x \in InLine(b) \cup InChannel(b)
    /\ InLine(b)' \subseteq InLine(b) /\ InChannel(b)' \subseteq InChannel(b)
    /\ InLine(b) \cup InChannel(b) \subseteq InLine(b)' \cup InChannel(b)' \cup {x}
    /\ \A y \in InLine(b)' : Before(x, y)
    /\ \A y \in InChannel(b)' : SentBefore(x, y)
    /\ \A y \in Out(b) : Before(y, x)
    /\ \A c \in Bucket : c # b => InLine(c)' = InLine(c) /\ InChannel(c)' = InChannel(c)

(* A diagnostic of local_msgs is received. *)
LEMMA ReceiveLocal ==
    ASSUME PoolInv, WayInv, NEW m, m = local[1], local # <<>>, local' = Tail(local), queue' = queue
    PROVE  Received(m.msgs[1], m.bucket)
<1> DEFINE x == m.msgs[1]
           b == m.bucket
<1>0. TypeOK /\ OwnMessages /\ local \in Seq(ReporterMessage) BY DEF PoolInv, TypeOK, MainTypeOK
<1>1. /\ 1 \in DOMAIN local
      /\ \A i \in DOMAIN local' : i \in Nat /\ i + 1 \in DOMAIN local /\ i + 1 > 1 /\ local'[i] = local[i + 1]
      /\ \A i \in DOMAIN local : i = 1 \/ (i - 1 \in DOMAIN local' /\ local'[i - 1] = local[i])
  BY <1>0, TailFacts
<1>2. b \in Bucket /\ x.bucket = b
  <2>1. m \in ReporterMessage BY <1>0, <1>1
  <2> QED BY <1>0, <1>1, <2>1 DEF ReporterMessage, OwnMessages
<1> HIDE DEF b
<1>3. x \in Msg BY <1>0, <1>1, <1>2, WayMsgs
<1> HIDE DEF x
<1>4. m.msgs[1] = x BY DEF x
<1>5. x \in InLine(b) BY <1>1, <1>2, <1>4 DEF InLine, OfBucket
<1>6. LocalInOrder'
  <2> SUFFICES ASSUME NEW i \in DOMAIN local', NEW j \in DOMAIN local', i < j
               PROVE  Before(local'[i].msgs[1], local'[j].msgs[1])
    BY DEF LocalInOrder
  <2>1. i + 1 \in DOMAIN local /\ j + 1 \in DOMAIN local /\ i + 1 < j + 1 BY <1>1
  <2> QED BY <1>1, <2>1 DEF WayInv, LocalInOrder
<1>7. ChannelInOrder' /\ \A c \in Bucket : InChannel(c)' = InChannel(c)
  BY DEF WayInv, ChannelInOrder, InChannel
<1>8. \A c \in Bucket : InLine(c)' \subseteq InLine(c)
  <2> TAKE c \in Bucket
  <2>1. ASSUME NEW i \in DOMAIN local', local'[i].msgs[1].bucket = c PROVE local'[i].msgs[1] \in InLine(c)
    <3>1. i + 1 \in DOMAIN local /\ local'[i] = local[i + 1] BY <1>1
    <3> QED BY <2>1, <3>1 DEF InLine, OfBucket
  <2> QED BY <2>1 DEF InLine, OfBucket
<1>9. \A c \in Bucket : InLine(c) \subseteq InLine(c)' \cup {x}
  <2> TAKE c \in Bucket
  <2>1. ASSUME NEW i \in DOMAIN local, local[i].msgs[1].bucket = c PROVE local[i].msgs[1] \in InLine(c)' \cup {x}
    <3>1. CASE i = 1 BY <1>4, <3>1
    <3>2. CASE i # 1
      <4>1. i - 1 \in DOMAIN local' /\ local'[i - 1] = local[i] BY <1>1, <3>2
      <4> QED BY <2>1, <4>1 DEF InLine, OfBucket
    <3> QED BY <3>1, <3>2
  <2> QED BY <2>1 DEF InLine, OfBucket
<1>10. \A c \in Bucket : c # b => InLine(c)' = InLine(c)
  <2>1. \A c \in Bucket : c # b => x \notin InLine(c) BY <1>2 DEF InLine, OfBucket
  <2> QED BY <1>8, <1>9, <2>1
<1>11. \A y \in InLine(b)' : Before(x, y)
  <2> SUFFICES ASSUME NEW i \in DOMAIN local' PROVE Before(x, local'[i].msgs[1])
    BY DEF InLine, OfBucket
  <2>1. i + 1 \in DOMAIN local /\ 1 < i + 1 /\ local'[i] = local[i + 1] BY <1>1
  <2> QED BY <1>1, <1>4, <2>1 DEF WayInv, LocalInOrder
<1>12. OnTheWay(Out(b), InLine(b), InChannel(b), sends[b], sent[b]) BY <1>2 DEF WayInv
<1>13. \A y \in InChannel(b)' : SentBefore(x, y) BY <1>2, <1>5, <1>7, <1>12 DEF OnTheWay
<1>14. \A y \in Out(b) : Before(y, x) BY <1>5, <1>12 DEF OnTheWay
<1>15. Received(x, b)
  BY <1>2, <1>3, <1>5, <1>6, <1>7, <1>8, <1>9, <1>10, <1>11, <1>13, <1>14 DEF Received
<1> QED BY <1>15 DEF x, b

(* A diagnostic of the channel is received. *)
LEMMA ReceiveQueue ==
    ASSUME PoolInv, WayInv, NEW m, m = queue[1], m.type = "Message",
           local = <<>>, local' = local, queue # <<>>, queue' = Tail(queue)
    PROVE  Received(m.msgs[1], m.bucket)
<1> DEFINE x == m.msgs[1]
           b == m.bucket
<1>0. TypeOK /\ OwnMessages /\ queue \in Seq(ReporterMessage) BY DEF PoolInv, TypeOK
<1>1. 1 \in DOMAIN queue /\ m \in ReporterMessage BY <1>0, TailFacts
<1>2. b \in Bucket /\ m.msgs \in Seq(Msg) /\ Len(m.msgs) = 1 BY <1>0, <1>1 DEF ReporterMessage, OwnMessages
<1>3. DOMAIN m.msgs = {1} /\ Range(m.msgs) = {x} /\ x \in Msg BY <1>2 DEF Range
<1>4. x.bucket = b BY <1>0, <1>1, <1>3 DEF OwnMessages
<1>5. OfBucket(Range(m.msgs), b) = {x} /\ \A c \in Bucket : c # b => OfBucket(Range(m.msgs), c) = {}
  BY <1>3, <1>4 DEF OfBucket
<1> HIDE DEF x, b
<1>6. /\ ChannelInOrder'
      /\ \A c \in Bucket : /\ InChannel(c)' \subseteq InChannel(c)
                           /\ InChannel(c) \subseteq InChannel(c)' \cup OfBucket(Range(m.msgs), c)
                           /\ OfBucket(Range(m.msgs), c) \subseteq InChannel(c)
                           /\ \A z \in OfBucket(Range(m.msgs), c), y \in InChannel(c)' : SentBefore(z, y)
  BY <1>0, ChannelTail DEF WayInv
<1>7. LocalInOrder' /\ \A c \in Bucket : InLine(c) = {} /\ InLine(c)' = {}
  BY DEF WayInv, LocalInOrder, InLine, OfBucket
<1>8. x \in InChannel(b) /\ InChannel(b) \subseteq InChannel(b)' \cup {x} /\ \A y \in InChannel(b)' : SentBefore(x, y)
  BY <1>2, <1>5, <1>6
<1>9. \A c \in Bucket : c # b => InChannel(c)' = InChannel(c) BY <1>5, <1>6
<1>10. \A y \in Out(b) : Before(y, x)
  <2>1. OnTheWay(Out(b), InLine(b), InChannel(b), sends[b], sent[b]) BY <1>2 DEF WayInv
  <2>2. \A y \in Out(b) : y \in Msg /\ SentBefore(y, x) BY <1>0, <1>2, <1>8, <2>1, WayMsgs DEF OnTheWay
  <2> QED BY <1>3, <2>2, BeforeFacts
<1>11. Received(x, b)
  BY <1>2, <1>3, <1>4, <1>6, <1>7, <1>8, <1>9, <1>10 DEF Received
<1> QED BY <1>11 DEF x, b

LEMMA ReceiveMoves ==
    ASSUME PoolInv, WayInv, NEW m, Receive(m), m.type = "Message"
    PROVE  Received(m.msgs[1], m.bucket) /\ m.bucket \in Bucket
<1>0. TypeOK /\ local \in Seq(ReporterMessage) /\ queue \in Seq(ReporterMessage)
  BY DEF PoolInv, TypeOK, MainTypeOK
<1>1. m.bucket \in Bucket BY ReceivedNotDone DEF PoolInv
<1>2. CASE local # <<>>
  <2>1. m = Head(local) /\ local' = Tail(local) /\ queue' = queue BY <1>2 DEF Receive
  <2>2. m = local[1] BY <1>0, <1>2, <2>1, TailFacts
  <2> QED BY <1>1, <1>2, <2>1, <2>2, ReceiveLocal
<1>3. CASE local = <<>>
  <2>1. queue # <<>> /\ m = Head(queue) /\ queue' = Tail(queue) /\ local' = local BY <1>3 DEF Receive
  <2>2. m = queue[1] BY <1>0, <2>1, TailFacts
  <2> QED BY <1>1, <1>3, <2>1, <2>2, ReceiveQueue
<1> QED BY <1>2, <1>3

(* A received diagnostic comes out, or into its bucket's buffer. *)
LEMMA WayOut ==
    ASSUME PoolInv, WayInv, NEW x, NEW b \in Bucket, Received(x, b),
           UNCHANGED <<sent, sends>>, OutInOrder', Out(b)' = Out(b) \cup {x},
           \A c \in Bucket : c # b => Out(c)' = Out(c)
    PROVE  WayInv'
<1>1. OnTheWay(Out(b), InLine(b), InChannel(b), sends[b], sent[b]) BY DEF WayInv
<1>2. OnTheWay(Out(b)', InLine(b)', InChannel(b)', sends[b], sent[b])
  BY <1>1, WayMove DEF Received
<1>3. \A c \in Bucket : c # b => OnTheWay(Out(c)', InLine(c)', InChannel(c)', sends[c], sent[c])
  BY DEF WayInv, Received
<1> QED BY <1>2, <1>3 DEF WayInv, Received

(* What is printed or buffered is a diagnostic of its bucket. *)
LEMMA OutMembers ==
    ASSUME TypeOK, BufferedOwn, NEW b \in Bucket
    PROVE  /\ \A i \in DOMAIN printed : printed[i] \in Msg /\ (printed[i].bucket = b => printed[i] \in Out(b))
           /\ \A i \in DOMAIN buffered[b] : /\ buffered[b][i] \in Msg /\ buffered[b][i].bucket = b
                                            /\ buffered[b][i] \in Out(b)
           /\ \A m \in printedNow : m \in Msg /\ m.bucket \in Bucket /\ (m.bucket = b => m \in Out(b))
<1>1. printed \in Seq(Msg) /\ buffered[b] \in Seq(Msg) /\ printedNow \subseteq Msg BY DEF TypeOK, MainTypeOK
<1>2. \A i \in DOMAIN printed : printed[i] \in Msg /\ printed[i] \in Range(printed) BY <1>1 DEF Range
<1>3. \A i \in DOMAIN buffered[b] : buffered[b][i] \in Msg /\ buffered[b][i] \in Range(buffered[b]) BY <1>1 DEF Range
<1>4. \A m \in Msg : m.bucket \in Bucket BY DEF Msg
<1> QED BY <1>1, <1>2, <1>3, <1>4 DEF Out, OfBucket, BufferedOwn

LEMMA HandleNowWay == ASSUME PoolInv, WayInv, NEW m, HandleNow(m) PROVE WayInv'
<1> DEFINE x == m.msgs[1]
           b == m.bucket
<1>0. TypeOK /\ BufferedOwn BY DEF PoolInv
<1>1. Received(x, b) /\ b \in Bucket BY ReceiveMoves DEF HandleNow
<1>2. UNCHANGED <<printed, buffered, sent, sends>> /\ printedNow' = printedNow \cup {x}
  BY DEF HandleNow, workerVars
<1> HIDE DEF x, b
<1>3. x \in Msg /\ x.bucket = b /\ \A y \in Out(b) : Before(y, x) BY <1>1 DEF Received
<1>4. \A y \in Out(b) : y \in Msg /\ y.n # x.n
  <2>1. Out(b) \subseteq Msg BY <1>1, WayMsgs DEF PoolInv
  <2> QED BY <1>3, <2>1, BeforeFacts
<1>5. Out(b)' = Out(b) \cup {x} /\ \A c \in Bucket : c # b => Out(c)' = Out(c)
  BY <1>2, <1>3 DEF Out, OfBucket
<1>6. /\ \A i \in DOMAIN printed : printed[i].bucket = b => printed[i].n # x.n
      /\ \A i \in DOMAIN buffered[b] : buffered[b][i].n # x.n
      /\ \A o \in printedNow : o.bucket = b => o.n # x.n
  BY <1>0, <1>1, <1>4, OutMembers
<1>7. OutInOrder' BY <1>2, <1>3, <1>6 DEF WayInv, OutInOrder
<1> QED BY <1>1, <1>2, <1>5, <1>7, WayOut

LEMMA HandleMessageWay == ASSUME PoolInv, WayInv, NEW m, HandleMessage(m) PROVE WayInv'
<1> DEFINE x == m.msgs[1]
           b == m.bucket
<1>0. /\ TypeOK /\ BufferedOwn /\ printed \in Seq(Msg) /\ buffered \in [Bucket -> Seq(Msg)]
  BY DEF PoolInv, TypeOK, MainTypeOK
<1>1. Received(x, b) /\ b \in Bucket /\ mpc = "handle" BY ReceiveMoves DEF HandleMessage, Receive
<1>2. /\ UNCHANGED <<printedNow, sent, sends>>
      /\ IF MayPrint(b) THEN printed' = Append(printed, x) /\ buffered' = buffered
                        ELSE buffered' = [buffered EXCEPT ![b] = Append(@, x)] /\ printed' = printed
  BY DEF HandleMessage, workerVars
<1> HIDE DEF x, b
<1>3. x \in Msg /\ x.bucket = b /\ \A y \in Out(b) : Before(y, x) BY <1>1 DEF Received
<1>4. \A y \in Out(b) : y \in Msg /\ y.n # x.n
  <2>1. Out(b) \subseteq Msg BY <1>1, WayMsgs DEF PoolInv
  <2> QED BY <1>3, <2>1, BeforeFacts
<1>5. /\ \A i \in DOMAIN printed : printed[i].bucket = b => Before(printed[i], x)
      /\ \A i \in DOMAIN buffered[b] : Before(buffered[b][i], x)
      /\ \A o \in printedNow : o.bucket = b => o.n # x.n
  BY <1>0, <1>1, <1>3, <1>4, OutMembers
<1>6. CASE MayPrint(b)
  <2>1. printed' = Append(printed, x) /\ buffered' = buffered BY <1>2, <1>6
  <2>2. buffered[b] = <<>>
    BY <1>1, <1>6 DEF MayPrint, PoolInv, NothingStranded, NothingBuffered, NoBucket, Bucket
  <2>3. Range(printed') = Range(printed) \cup {x} BY <1>0, <1>3, <2>1, RangeAppend
  <2>4. Out(b)' = Out(b) \cup {x} /\ \A c \in Bucket : c # b => Out(c)' = Out(c)
    BY <1>2, <1>3, <2>1, <2>3 DEF Out, OfBucket
  <2>5. /\ Len(printed) \in Nat /\ DOMAIN printed = 1..Len(printed) /\ DOMAIN printed' = 1..(Len(printed) + 1)
        /\ \A i \in 1..Len(printed) : printed'[i] = printed[i]
        /\ printed'[Len(printed) + 1] = x
    BY <1>0, <1>3, <2>1
  <2>6. \A i \in DOMAIN printed' : (i \in DOMAIN printed /\ printed'[i] = printed[i]) \/ (i = Len(printed) + 1 /\ printed'[i] = x)
    BY <2>5
  <2>7. ASSUME NEW i \in DOMAIN printed', NEW j \in DOMAIN printed', i < j, printed'[i].bucket = printed'[j].bucket
        PROVE  Before(printed'[i], printed'[j])
    <3>1. i \in DOMAIN printed /\ printed'[i] = printed[i] BY <2>5, <2>7
    <3>2. CASE j \in DOMAIN printed BY <2>5, <2>7, <3>1, <3>2 DEF WayInv, OutInOrder
    <3>3. CASE j = Len(printed) + 1
      <4>1. printed'[j] = x /\ printed[i].bucket = b BY <1>3, <2>5, <2>7, <3>1, <3>3
      <4> QED BY <1>5, <3>1, <4>1
    <3> QED BY <2>6, <3>2, <3>3
  <2>8. \A c \in Bucket : \A i, j \in DOMAIN buffered[c] : i < j => Before(buffered[c][i], buffered[c][j])
    BY DEF WayInv, OutInOrder
  <2>9. \A c \in Bucket : \A i \in DOMAIN printed', j \in DOMAIN buffered[c] :
            printed'[i].bucket = c => Before(printed'[i], buffered[c][j])
    BY <1>3, <2>2, <2>6 DEF WayInv, OutInOrder
  <2>10. \A o \in printedNow :
            /\ \A i \in DOMAIN printed' : printed'[i].bucket = o.bucket => printed'[i].n # o.n
            /\ \A i \in DOMAIN buffered[o.bucket] : buffered[o.bucket][i].n # o.n
            /\ \A p \in printedNow : p.bucket = o.bucket /\ p.n = o.n => p = o
    BY <1>3, <1>5, <2>6 DEF WayInv, OutInOrder
  <2>11. OutInOrder' BY <1>2, <2>1, <2>7, <2>8, <2>9, <2>10 DEF OutInOrder
  <2> QED BY <1>1, <1>2, <2>4, <2>11, WayOut
<1>7. CASE ~MayPrint(b)
  <2>1. /\ printed' = printed /\ buffered'[b] = Append(buffered[b], x)
        /\ \A c \in Bucket : c # b => buffered'[c] = buffered[c]
    BY <1>0, <1>1, <1>2, <1>7
  <2>2. buffered[b] \in Seq(Msg) BY <1>0, <1>1
  <2>3. Range(buffered'[b]) = Range(buffered[b]) \cup {x} BY <1>3, <2>1, <2>2, RangeAppend
  <2>4. Out(b)' = Out(b) \cup {x} /\ \A c \in Bucket : c # b => Out(c)' = Out(c)
    BY <1>2, <1>3, <2>1, <2>3 DEF Out, OfBucket
  <2>5. /\ Len(buffered[b]) \in Nat /\ DOMAIN buffered[b] = 1..Len(buffered[b])
        /\ DOMAIN buffered'[b] = 1..(Len(buffered[b]) + 1)
        /\ \A i \in 1..Len(buffered[b]) : buffered'[b][i] = buffered[b][i]
        /\ buffered'[b][Len(buffered[b]) + 1] = x
    BY <1>3, <2>1, <2>2
  <2>6. \A i \in DOMAIN buffered'[b] : \/ i \in DOMAIN buffered[b] /\ buffered'[b][i] = buffered[b][i]
                                       \/ i = Len(buffered[b]) + 1 /\ buffered'[b][i] = x
    BY <2>5
  <2>7. ASSUME NEW i \in DOMAIN buffered'[b], NEW j \in DOMAIN buffered'[b], i < j
        PROVE  Before(buffered'[b][i], buffered'[b][j])
    <3>1. i \in DOMAIN buffered[b] /\ buffered'[b][i] = buffered[b][i] BY <2>5, <2>7
    <3>2. CASE j \in DOMAIN buffered[b] BY <1>1, <2>5, <2>7, <3>1, <3>2 DEF WayInv, OutInOrder
    <3>3. CASE j = Len(buffered[b]) + 1 BY <1>5, <2>5, <3>1, <3>3
    <3> QED BY <2>6, <3>2, <3>3
  <2>8. \A c \in Bucket : \A i, j \in DOMAIN buffered'[c] : i < j => Before(buffered'[c][i], buffered'[c][j])
    BY <2>1, <2>7 DEF WayInv, OutInOrder
  <2>9. \A c \in Bucket : \A i \in DOMAIN printed, j \in DOMAIN buffered'[c] :
            printed[i].bucket = c => Before(printed[i], buffered'[c][j])
    BY <1>5, <2>1, <2>6 DEF WayInv, OutInOrder
  <2>10. \A o \in printedNow : \A i \in DOMAIN buffered'[o.bucket] : buffered'[o.bucket][i].n # o.n
    <3> TAKE o \in printedNow
    <3>1. o.bucket \in Bucket BY <1>0, <1>1, OutMembers
    <3>2. CASE o.bucket = b BY <1>5, <2>6, <3>2 DEF WayInv, OutInOrder
    <3>3. CASE o.bucket # b BY <2>1, <3>1, <3>3 DEF WayInv, OutInOrder
    <3> QED BY <3>2, <3>3
  <2>11. OutInOrder' BY <1>2, <2>1, <2>8, <2>9, <2>10 DEF WayInv, OutInOrder
  <2> QED BY <1>1, <1>2, <2>4, <2>11, WayOut
<1> QED BY <1>6, <1>7

(* The buffered diagnostics of a bucket are printed: none is new, none is lost. *)
LEMMA PrintBufferedWay ==
    ASSUME PoolInv, WayInv, NEW b \in Bucket, PrintBuffered(b),
           UNCHANGED <<queue, local, printedNow, sent, sends>>
    PROVE  WayInv'
<1>0. /\ TypeOK /\ BufferedOwn /\ printed \in Seq(Msg) /\ buffered \in [Bucket -> Seq(Msg)] /\ buffered[b] \in Seq(Msg)
  BY DEF PoolInv, TypeOK, MainTypeOK
<1>1. /\ printed' = printed \o buffered[b] /\ buffered'[b] = <<>>
      /\ \A c \in Bucket : c # b => buffered'[c] = buffered[c]
  BY <1>0 DEF PrintBuffered
<1>2. Range(printed') = Range(printed) \cup Range(buffered[b]) BY <1>0, <1>1, RangeConcat
<1>3. \A y \in Range(buffered[b]) : y.bucket = b BY <1>0 DEF Range, BufferedOwn
<1>4. \A c \in Bucket : Out(c)' = Out(c)
  <2>1. Out(b)' = Out(b)
    <3>1. Range(buffered'[b]) = {} BY <1>1 DEF Range
    <3> QED BY <1>2, <3>1 DEF Out
  <2>2. \A c \in Bucket : c # b => Out(c)' = Out(c) BY <1>1, <1>2, <1>3 DEF Out, OfBucket
  <2> QED BY <2>1, <2>2
<1> DEFINE p == Len(printed)
           q == buffered[b]
<1>5. /\ p \in Nat /\ Len(q) \in Nat /\ DOMAIN printed = 1..p /\ DOMAIN q = 1..Len(q)
      /\ DOMAIN printed' = 1..(p + Len(q))
      /\ \A i \in 1..p : printed'[i] = printed[i]
      /\ \A i \in 1..Len(q) : printed'[p + i] = q[i]
  BY <1>0, <1>1
<1>6. \A i \in DOMAIN printed' : \/ i \in DOMAIN printed /\ i <= p /\ printed'[i] = printed[i]
                                 \/ i > p /\ i - p \in DOMAIN q /\ printed'[i] = q[i - p]
  <2> TAKE i \in DOMAIN printed'
  <2>1. CASE i <= p BY <1>5, <2>1
  <2>2. CASE i > p
    <3>1. i - p \in 1..Len(q) /\ p + (i - p) = i BY <1>5, <2>2
    <3> QED BY <1>5, <2>2, <3>1
  <2> QED BY <1>5, <2>1, <2>2
<1>7. /\ \A i, j \in DOMAIN printed :
            i < j /\ printed[i].bucket = printed[j].bucket => Before(printed[i], printed[j])
      /\ \A i, j \in DOMAIN q : i < j => Before(q[i], q[j])
      /\ \A i \in DOMAIN printed, j \in DOMAIN q : printed[i].bucket = b => Before(printed[i], q[j])
      /\ \A j \in DOMAIN q : q[j].bucket = b
      /\ \A o \in printedNow : o.bucket = b => \A j \in DOMAIN q : q[j].n # o.n
  BY <1>0 DEF WayInv, OutInOrder, BufferedOwn
<1>8. ASSUME NEW i \in DOMAIN printed', NEW j \in DOMAIN printed', i < j, printed'[i].bucket = printed'[j].bucket
      PROVE  Before(printed'[i], printed'[j])
  <2> HIDE DEF p, q
  <2>1. CASE j <= p
    <3>1. /\ i \in DOMAIN printed /\ printed'[i] = printed[i] /\ j \in DOMAIN printed /\ printed'[j] = printed[j]
      BY <1>5, <1>8, <2>1
    <3> QED BY <1>7, <1>8, <3>1
  <2>2. CASE j > p
    <3>1. j - p \in DOMAIN q /\ printed'[j] = q[j - p] BY <1>5, <1>6, <2>2
    <3>2. CASE i <= p
      <4>1. i \in DOMAIN printed /\ printed'[i] = printed[i] BY <1>5, <3>2
      <4> QED BY <1>7, <1>8, <3>1, <4>1
    <3>3. CASE i > p
      <4>1. i - p \in DOMAIN q /\ printed'[i] = q[i - p] /\ i - p < j - p BY <1>5, <1>6, <1>8, <3>3
      <4> QED BY <1>7, <3>1, <4>1
    <3> QED BY <1>5, <3>2, <3>3
  <2> QED BY <1>5, <2>1, <2>2
<1>9. \A c \in Bucket : \A i, j \in DOMAIN buffered'[c] : i < j => Before(buffered'[c][i], buffered'[c][j])
  BY <1>1 DEF WayInv, OutInOrder
<1>10. ASSUME NEW c \in Bucket, NEW i \in DOMAIN printed', NEW j \in DOMAIN buffered'[c], printed'[i].bucket = c
       PROVE  Before(printed'[i], buffered'[c][j])
  <2>1. c # b /\ buffered'[c] = buffered[c] BY <1>1, <1>10
  <2>2. i \in DOMAIN printed /\ printed'[i] = printed[i] BY <1>6, <1>7, <1>10, <2>1
  <2> QED BY <1>10, <2>1, <2>2 DEF WayInv, OutInOrder
<1>11. ASSUME NEW o \in printedNow
       PROVE  /\ \A i \in DOMAIN printed' : printed'[i].bucket = o.bucket => printed'[i].n # o.n
              /\ \A i \in DOMAIN buffered'[o.bucket] : buffered'[o.bucket][i].n # o.n
              /\ \A r \in printedNow : r.bucket = o.bucket /\ r.n = o.n => r = o
  <2>1. o.bucket \in Bucket BY <1>0, OutMembers
  <2>2. \A i \in DOMAIN printed' : printed'[i].bucket = o.bucket => printed'[i].n # o.n
    <3> HIDE DEF q, p
    <3> SUFFICES ASSUME NEW i \in DOMAIN printed', printed'[i].bucket = o.bucket PROVE printed'[i].n # o.n
      OBVIOUS
    <3>1. CASE i \in DOMAIN printed /\ printed'[i] = printed[i] BY <3>1 DEF WayInv, OutInOrder
    <3>2. CASE i - p \in DOMAIN q /\ printed'[i] = q[i - p] BY <1>7, <3>2
    <3> QED BY <1>6, <3>1, <3>2
  <2>3. \A i \in DOMAIN buffered'[o.bucket] : buffered'[o.bucket][i].n # o.n
    <3>1. CASE o.bucket = b BY <1>1, <3>1
    <3>2. CASE o.bucket # b
      <4>1. buffered'[o.bucket] = buffered[o.bucket] BY <1>1, <2>1, <3>2
      <4> QED BY <4>1 DEF WayInv, OutInOrder
    <3> QED BY <3>1, <3>2
  <2> QED BY <2>2, <2>3 DEF WayInv, OutInOrder
<1>12. OutInOrder' BY <1>8, <1>9, <1>10, <1>11 DEF OutInOrder
<1>13. LocalInOrder' /\ ChannelInOrder' BY DEF WayInv, LocalInOrder, ChannelInOrder
<1>14. \A c \in Bucket : InLine(c)' = InLine(c) /\ InChannel(c)' = InChannel(c) BY DEF InLine, InChannel
<1> QED BY <1>4, <1>12, <1>13, <1>14 DEF WayInv

LEMMA DrainWay == ASSUME PoolInv, WayInv, Drain PROVE WayInv'
<1>1. UNCHANGED <<queue, printedNow, local, sent, sends>> BY DEF Drain, workerVars
<1>2. CASE NothingBuffered
  <2>1. UNCHANGED <<printed, buffered>> BY <1>2 DEF Drain
  <2> QED BY <1>1, <2>1, WayKept DEF RestKept
<1>3. CASE ~NothingBuffered
  <2>1. FirstBuffered \in Bucket /\ PrintBuffered(FirstBuffered) BY <1>3, FirstBufferedFacts DEF Drain
  <2>2. PICK b \in Bucket : PrintBuffered(b) BY <2>1
  <2> QED BY <1>1, <2>2, PrintBufferedWay
<1> QED BY <1>2, <1>3

LEMMA PrintRestWay == ASSUME PoolInv, WayInv, PrintRest PROVE WayInv'
<1>1. UNCHANGED <<queue, printedNow, local, sent, sends>> BY DEF PrintRest, workerVars
<1>2. CASE NothingBuffered
  <2>1. UNCHANGED <<printed, buffered>> BY <1>2 DEF PrintRest
  <2> QED BY <1>1, <2>1, WayKept DEF RestKept
<1>3. CASE ~NothingBuffered
  <2>1. FirstBuffered \in Bucket /\ PrintBuffered(FirstBuffered) BY <1>3, FirstBufferedFacts DEF PrintRest
  <2>2. PICK b \in Bucket : PrintBuffered(b) BY <2>1
  <2> QED BY <1>1, <2>2, PrintBufferedWay
<1> QED BY <1>2, <1>3

(* A batch sorted by span is a permutation of it: an injection of as many *)
(* positions as the batch has diagnostics.                                 *)
LEMMA SortedKeepsAll ==
    ASSUME NEW ms \in Seq(Msg), NEW t \in SortedBySpan(ms)
    PROVE  /\ DOMAIN t = DOMAIN ms /\ Range(t) = Range(ms) /\ Range(ms) \subseteq Msg
           /\ \A i \in DOMAIN ms : t[i] \in Range(ms)
           /\ \A i, j \in DOMAIN ms : i < j =>
                  (Span[t[i].n] < Span[t[j].n] \/ (Span[t[i].n] = Span[t[j].n] /\ t[i].n < t[j].n))
<1> DEFINE D == DOMAIN ms
           R == Range(ms)
<1>1. Len(ms) \in Nat /\ D = 1..Len(ms) OBVIOUS
<1>2. R \subseteq Msg BY DEF Range
<1>3. t \in [D -> R] BY DEF SortedBySpan, Range
<1>4. \A i, j \in D : i < j =>
          (Span[t[i].n] < Span[t[j].n] \/ (Span[t[i].n] = Span[t[j].n] /\ t[i].n < t[j].n))
  BY DEF SortedBySpan
<1>5. ms \in Surjection(D, R)
  <2>1. ms \in [D -> R] BY DEF Range
  <2>2. \A y \in R : \E k \in D : ms[k] = y BY DEF Range
  <2> HIDE DEF D, R
  <2> QED BY <2>1, <2>2 DEF Surjection
<1>6. IsFiniteSet(D) BY <1>1, FS_Interval
<1> HIDE DEF D, R
<1>7. IsFiniteSet(R) /\ Cardinality(R) <= Cardinality(D) BY <1>5, <1>6, FS_Surjection
<1>8. \A i, j \in D : t[i] = t[j] => i = j
  <2>1. \A i \in D : t[i] \in Msg /\ i \in Int BY <1>1, <1>2, <1>3
  <2>2. \A x \in Msg : x.n \in 1..MaxMsgs /\ Span[x.n] \in Int /\ x.n \in Int BY Bounds, SpanAssumption DEF Msg
  <2> SUFFICES ASSUME NEW i \in D, NEW j \in D, t[i] = t[j], i < j PROVE FALSE
    BY <2>1
  <2> QED BY <1>4, <2>1, <2>2
<1>10. Range(t) = R
  <2> DEFINE T == Range(t)
  <2>1. T \in SUBSET R /\ t \in [D -> T] BY <1>3 DEF Range
  <2>2. \A y \in T : \E k \in D : t[k] = y BY <1>3 DEF Range
  <2> HIDE DEF T
  <2>3. t \in Bijection(D, T) BY <1>8, <2>1, <2>2 DEF Bijection, Injection, Surjection, IsInjective
  <2>4. Cardinality(T) = Cardinality(D) BY <1>6, <2>3, FS_Bijection DEF ExistsBijection
  <2>5. T = R
    <3>1. Cardinality(T) <= Cardinality(R) /\ Cardinality(T) \in Nat /\ Cardinality(R) \in Nat
      BY <1>7, <2>1, FS_Subset, FS_CardinalityType
    <3>2. Cardinality(T) = Cardinality(R) BY <1>7, <2>4, <3>1
    <3> QED BY <1>7, <2>1, <3>2, FS_Subset
  <2> QED BY <2>5 DEF T
<1>11. DOMAIN t = D BY <1>3
<1>12. \A i \in D : t[i] \in R BY <1>3
<1> QED BY <1>2, <1>4, <1>10, <1>11, <1>12 DEF D, R

(* A batch is taken from the channel and split into local_msgs. *)
LEMMA HandleMessagesWay == ASSUME PoolInv, WayInv, HandleMessages PROVE WayInv'
<1>0. TypeOK /\ OwnMessages /\ queue \in Seq(ReporterMessage) BY DEF PoolInv, TypeOK
<1>1. /\ local = <<>> /\ queue # <<>> /\ queue' = Tail(queue)
      /\ UNCHANGED <<printed, buffered, printedNow, sent, sends>>
  BY DEF HandleMessages, workerVars, reportVars
<1>m. PICK m \in ReporterMessage : m = queue[1] /\ m = Head(queue) /\ 1 \in DOMAIN queue
  BY <1>0, <1>1, TailFacts
<1>2. m.msgs \in Seq(Msg) /\ m.bucket \in Bucket BY <1>m DEF ReporterMessage
<1>3. PICK t \in SortedBySpan(m.msgs) : local' = [i \in DOMAIN t |-> Message(m.bucket, t[i], m.now)]
  BY <1>m DEF HandleMessages
<1>4. /\ DOMAIN t = DOMAIN m.msgs /\ Range(t) = Range(m.msgs) /\ Range(m.msgs) \subseteq Msg
      /\ \A i \in DOMAIN m.msgs : t[i] \in Range(m.msgs)
      /\ \A i, j \in DOMAIN m.msgs : i < j =>
            (Span[t[i].n] < Span[t[j].n] \/ (Span[t[i].n] = Span[t[j].n] /\ t[i].n < t[j].n))
  BY <1>2, <1>3, SortedKeepsAll
<1>5. DOMAIN local' = DOMAIN m.msgs /\ \A i \in DOMAIN m.msgs : local'[i].msgs[1] = t[i]
  BY <1>3, <1>4 DEF Message
<1>6. LocalInOrder'
  <2> SUFFICES ASSUME NEW i \in DOMAIN m.msgs, NEW j \in DOMAIN m.msgs, i < j PROVE Before(t[i], t[j])
    BY <1>5 DEF LocalInOrder
  <2>1. \A y, z \in Range(m.msgs) : y.send = z.send BY <1>m DEF WayInv, ChannelInOrder, Range
  <2>2. t[i].send = t[j].send BY <1>4, <2>1
  <2> QED BY <1>4, <2>2 DEF Before
<1>7. \A c \in Bucket : InLine(c)' = OfBucket(Range(m.msgs), c) /\ InLine(c) = {}
  <2>1. {local'[i].msgs[1] : i \in DOMAIN local'} = Range(t) BY <1>4, <1>5 DEF Range
  <2>2. \A c \in Bucket : InLine(c) = {} BY <1>1 DEF InLine, OfBucket
  <2> QED BY <1>4, <2>1, <2>2 DEF InLine
<1>8. /\ ChannelInOrder'
      /\ \A c \in Bucket : /\ InChannel(c)' \subseteq InChannel(c)
                           /\ InChannel(c) \subseteq InChannel(c)' \cup OfBucket(Range(m.msgs), c)
                           /\ OfBucket(Range(m.msgs), c) \subseteq InChannel(c)
                           /\ \A z \in OfBucket(Range(m.msgs), c), y \in InChannel(c)' : SentBefore(z, y)
  BY <1>0, <1>1, <1>m, ChannelTail DEF WayInv
<1>9. OutInOrder' /\ \A c \in Bucket : Out(c)' = Out(c) BY <1>1 DEF WayInv, OutInOrder, Out
<1>10. ASSUME NEW c \in Bucket PROVE OnTheWay(Out(c)', InLine(c)', InChannel(c)', sends'[c], sent'[c])
  <2> DEFINE L == OfBucket(Range(m.msgs), c)
  <2>1. L \in SUBSET Msg BY <1>4 DEF OfBucket
  <2>2. InLine(c) = {} /\ InLine(c)' = L BY <1>7
  <2>3. /\ InChannel(c) = L \cup InChannel(c)' /\ \A x \in L, y \in InChannel(c)' : SentBefore(x, y)
        /\ InChannel(c)' \subseteq InChannel(c)
    BY <1>8
  <2> HIDE DEF L
  <2>4. Out(c) \in SUBSET Msg /\ InChannel(c) \in SUBSET Msg /\ InChannel(c)' \in SUBSET Msg
    BY <1>0, <2>3, WayMsgs
  <2>5. OnTheWay(Out(c), {}, InChannel(c), sends[c], sent[c]) BY <2>2 DEF WayInv
  <2>6. OnTheWay(Out(c), L, InChannel(c)', sends[c], sent[c]) BY <2>1, <2>3, <2>4, <2>5, WaySplit
  <2> QED BY <1>1, <1>9, <2>2, <2>6
<1> QED BY <1>6, <1>8, <1>9, <1>10 DEF WayInv

LEMMA HandleIncomingWay == ASSUME PoolInv, WayInv, HandleIncoming PROVE WayInv'
<1>1. PICK m : \/ HandleNow(m) \/ HandleMessage(m) \/ HandleDone(m)
               \/ HandleReportLong(m) \/ HandleFinishLong(m) \/ HandlePanicked(m)
  BY DEF HandleIncoming
<1>2. CASE HandleNow(m) BY <1>2, HandleNowWay
<1>3. CASE HandleMessage(m) BY <1>3, HandleMessageWay
<1>4. CASE HandleDone(m) \/ HandleReportLong(m) \/ HandleFinishLong(m) \/ HandlePanicked(m)
  <2>1. /\ Receive(m) /\ m.type \notin {"Message", "Messages"}
        /\ UNCHANGED <<printed, buffered, printedNow, sent, sends>>
    BY <1>4 DEF HandleDone, HandleReportLong, HandleFinishLong, HandlePanicked, workerVars, reportVars
  <2> QED BY <2>1, WayReceiveNone
<1> QED BY <1>1, <1>2, <1>3, <1>4

LEMMA NextWay == ASSUME PoolInv, WayInv, [Next]_vars PROVE WayInv'
<1>1. CASE HandleIncoming BY <1>1, HandleIncomingWay
<1>2. CASE HandleMessages BY <1>2, HandleMessagesWay
<1>3. CASE Drain BY <1>3, DrainWay
<1>4. CASE Reap \/ Join \/ Stopped \/ UNCHANGED vars
  <2>1. RestKept /\ UNCHANGED <<queue, sent, sends>>
    BY <1>4 DEF Reap, Join, Stopped, vars, workerVars, reportVars, RestKept
  <2> QED BY <2>1, WayKept
<1>5. CASE PrintRest BY <1>5, PrintRestWay
<1>6. CASE \E w \in Worker : WorkerStep(w) BY <1>6, WorkerStepWay
<1> QED BY <1>1, <1>2, <1>3, <1>4, <1>5, <1>6 DEF Next, MainStep

LEMMA InitWay == Init => WayInv
<1> SUFFICES ASSUME Init PROVE WayInv OBVIOUS
<1>1. /\ DOMAIN printed = {} /\ DOMAIN queue = {} /\ DOMAIN local = {} /\ printedNow = {}
      /\ \A b \in Bucket : DOMAIN buffered[b] = {} /\ sent[b] = 0 /\ sends[b] = 0
  BY DEF Init
<1>2. OutInOrder /\ LocalInOrder /\ ChannelInOrder BY <1>1 DEF OutInOrder, LocalInOrder, ChannelInOrder
<1>3. \A b \in Bucket : Out(b) = {} /\ InLine(b) = {} /\ InChannel(b) = {}
  BY <1>1 DEF Out, InLine, InChannel, OfBucket, Range
<1>4. \A b \in Bucket : OnTheWay(Out(b), InLine(b), InChannel(b), sends[b], sent[b])
  BY <1>1, <1>3 DEF OnTheWay
<1> QED BY <1>2, <1>4 DEF WayInv

LEMMA WayInvariant == Spec => []WayInv
BY InitWay, NextWay, PoolInvariant, PTL DEF Spec

(* Each bucket's diagnostics are printed in the order of the sends that    *)
(* carried them, those of a batch by source position, whatever the workers *)
(* interleave: along the channel, local_msgs and the buffers none can      *)
(* overtake another.                                                       *)
THEOREM DiagnosticsInOrder == Spec => []PrintedInOrder
<1>1. PoolInv /\ WayInv => PrintedInOrder
  <2> SUFFICES ASSUME PoolInv, WayInv, NEW i \in DOMAIN printed, NEW j \in DOMAIN printed,
                      i < j, printed[i].bucket = printed[j].bucket
               PROVE  \/ printed[i].send < printed[j].send
                      \/ printed[i].send = printed[j].send /\ Span[printed[i].n] <= Span[printed[j].n]
    BY DEF PrintedInOrder
  <2>1. printed[i] \in Msg /\ printed[j] \in Msg BY DEF PoolInv, TypeOK, MainTypeOK
  <2>2. Before(printed[i], printed[j]) BY DEF WayInv, OutInOrder
  <2> QED BY <2>1, <2>2, BeforeFacts
<1> QED BY <1>1, PoolInvariant, WayInvariant, PTL

-----------------------------------------------------------------------------
(* Results.                                                                *)

\* Bucket b has been announced as done: the announcement waits in the channel or was received.
Announced(b) == done[b] \/ \E i \in DOMAIN queue : queue[i].bucket = b /\ queue[i].type = "Done"
\* How often results have been merged.
MergedOK ==
    /\ mpc \in {"handle", "drain", "reap", "join"} => \A b \in Bucket : merged[b] = 0
    /\ mpc \in {"rest", "returned", "emitted"} => \A b \in Bucket : merged[b] = 1

(* A step that adds no result. *)
LEMMA ResultsKept ==
    ASSUME ResultsOK, completed' = completed, taskq' = taskq, MergedOK',
           \A v \in Worker : Holds(v)' => Holds(v) /\ wbucket'[v] = wbucket[v],
           \A b \in Bucket : Announced(b)' => HasResult(b)
    PROVE  ResultsOK'
<1>1. \A b : HasResult(b)' <=> HasResult(b) BY DEF HasResult
<1>2. \A b \in Bucket : Announced(b)' => HasResult(b)' BY <1>1
<1>3. \A i \in DOMAIN taskq' : ~HasResult(taskq[i])
  BY DEF ResultsOK
<1>4. \A i \in DOMAIN taskq' : ~(\E w \in Worker : \E j \in DOMAIN completed'[w] : completed'[w][j][1] = taskq'[i])
  BY <1>3 DEF HasResult
<1>5. \A v \in Worker : Holds(v)' => ~(\E w \in Worker : \E j \in DOMAIN completed'[w] : completed'[w][j][1] = wbucket'[v])
  BY DEF ResultsOK, HasResult
<1> QED BY <1>2, <1>4, <1>5 DEF ResultsOK, HasResult, Announced, MergedOK

(* A worker's step other than Pop and SendDone. *)
LEMMA WorkerResultsKept ==
    ASSUME PoolInv, ResultsOK, UNCHANGED <<taskq, wbucket, completed, mainVars>>,
           \A v \in Worker : Holds(v)' => Holds(v),
           \/ UNCHANGED queue
           \/ \E m \in ReporterMessage : Send(m) /\ m.type # "Done"
    PROVE  ResultsOK'
<1>1. MergedOK' BY DEF ResultsOK, MergedOK, mainVars
<1>2. \A i \in DOMAIN queue' : \/ i \in DOMAIN queue /\ queue'[i] = queue[i]
                               \/ queue'[i].type # "Done"
  <2>1. CASE UNCHANGED queue BY <2>1
  <2>2. ASSUME NEW m \in ReporterMessage, Send(m), m.type # "Done"
        PROVE  \A i \in DOMAIN queue' : (i \in DOMAIN queue /\ queue'[i] = queue[i]) \/ queue'[i].type # "Done"
    <3>1. /\ DOMAIN queue' = 1..(Len(queue) + 1) /\ DOMAIN queue = 1..Len(queue) /\ Len(queue) \in Nat
          /\ \A i \in 1..Len(queue) : queue'[i] = queue[i]
          /\ queue'[Len(queue) + 1] = m
      BY <2>2, SendFacts DEF PoolInv, TypeOK
    <3> QED BY <2>2, <3>1
  <2> QED BY <2>1, <2>2
<1>3. \A b \in Bucket : Announced(b)' => HasResult(b)
  BY <1>2 DEF ResultsOK, Announced, mainVars, reportVars
<1> QED BY <1>1, <1>3, ResultsKept

LEMMA PopResults == ASSUME PoolInv, ResultsOK, NEW w \in Worker, Pop(w) PROVE ResultsOK'
<1>0. taskq \in Seq(Bucket) /\ wpc \in [Worker -> PC] /\ wbucket \in [Worker -> Bucket \cup {NoBucket}]
  BY DEF PoolInv, TypeOK, WorkerTypeOK
<1>1. UNCHANGED <<completed, queue, done, mpc, merged>> BY DEF Pop, mainVars, reportVars
<1>2. MergedOK' /\ \A b \in Bucket : Announced(b)' => HasResult(b)
  BY <1>1 DEF ResultsOK, MergedOK, Announced
<1>3. CASE taskq = <<>>
  <2>1. taskq' = taskq /\ wbucket' = wbucket /\ wpc' = [wpc EXCEPT ![w] = "exited"] BY <1>3 DEF Pop
  <2>2. \A v \in Worker : Holds(v)' => Holds(v) BY <1>0, <2>1 DEF Holds
  <2> QED BY <1>1, <1>2, <2>1, <2>2, ResultsKept
<1>4. CASE taskq # <<>>
  <2>1. /\ taskq' = Tail(taskq) /\ wpc' = [wpc EXCEPT ![w] = "verify"]
        /\ wbucket' = [wbucket EXCEPT ![w] = Head(taskq)]
    BY <1>4 DEF Pop
  <2>2. /\ wbucket'[w] = taskq[1] /\ 1 \in DOMAIN taskq
        /\ \A v \in Worker : v # w => wbucket'[v] = wbucket[v] /\ wpc'[v] = wpc[v]
    BY <1>0, <1>4, <2>1
  <2>3. \A i \in DOMAIN taskq' : i + 1 \in DOMAIN taskq /\ taskq'[i] = taskq[i + 1] BY <1>0, <1>4, <2>1
  <2>4. \A b : HasResult(b)' <=> HasResult(b) BY <1>1 DEF HasResult
  <2>5. \A i \in DOMAIN taskq' : ~(\E v \in Worker : \E j \in DOMAIN completed'[v] : completed'[v][j][1] = taskq'[i])
    BY <1>1, <2>3 DEF ResultsOK, HasResult
  <2>6. \A v \in Worker : Holds(v)' => ~(\E u \in Worker : \E j \in DOMAIN completed'[u] : completed'[u][j][1] = wbucket'[v])
    <3> SUFFICES ASSUME NEW v \in Worker, Holds(v)'
                 PROVE  ~(\E u \in Worker : \E j \in DOMAIN completed[u] : completed[u][j][1] = wbucket'[v])
      BY <1>1
    <3>1. CASE v = w BY <2>2, <3>1 DEF ResultsOK, HasResult
    <3>2. CASE v # w
      <4>1. Holds(v) /\ wbucket'[v] = wbucket[v] BY <2>2, <3>2 DEF Holds
      <4> QED BY <4>1 DEF ResultsOK, HasResult
    <3> QED BY <3>1, <3>2
  <2>7. \A b \in Bucket : Announced(b)' => HasResult(b)' BY <1>2, <2>4
  <2> QED BY <1>1, <1>2, <2>5, <2>6, <2>7 DEF ResultsOK, HasResult, Announced, MergedOK
<1> QED BY <1>3, <1>4

(* The result of a bucket joins the others when it is announced as done. *)
LEMMA SendDoneResults == ASSUME PoolInv, ResultsOK, NEW w \in Worker, SendDone(w) PROVE ResultsOK'
<1>0. /\ completed \in [Worker -> Seq(Bucket \X BOOLEAN)] /\ wpc \in [Worker -> PC]
      /\ wbucket \in [Worker -> Bucket \cup {NoBucket}] /\ queue \in Seq(ReporterMessage)
  BY DEF PoolInv, TypeOK, WorkerTypeOK
<1>1. Holds(w) BY DEF SendDone, Holds
<1>c. PICK c \in Bucket : c = wbucket[w] BY <1>1 DEF PoolInv, OneOwner
<1>2. /\ completed' = [completed EXCEPT ![w] = Append(@, <<c, wpc[w] = "ok">>)]
      /\ wpc' = [wpc EXCEPT ![w] = "pop"] /\ wbucket' = [wbucket EXCEPT ![w] = NoBucket]
      /\ Send(Done(c)) /\ UNCHANGED <<taskq, mpc, done, merged>>
  BY <1>c DEF SendDone, mainVars, reportVars
<1>3. /\ \A v \in Worker : v # w => completed'[v] = completed[v] /\ wbucket'[v] = wbucket[v] /\ wpc'[v] = wpc[v]
      /\ ~Holds(w)'
  BY <1>0, <1>2 DEF Holds
<1> DEFINE n == Len(completed[w])
<1>4. /\ n \in Nat /\ DOMAIN completed[w] = 1..n /\ DOMAIN completed'[w] = 1..(n + 1)
      /\ \A i \in 1..n : completed'[w][i] = completed[w][i]
      /\ completed'[w][n + 1][1] = c
  <2>1. completed[w] \in Seq(Bucket \X BOOLEAN) /\ completed'[w] = Append(completed[w], <<c, wpc[w] = "ok">>)
    BY <1>0, <1>2
  <2>2. \A r : Append(completed[w], r)[n + 1] = r /\ DOMAIN Append(completed[w], r) = 1..(n + 1)
               /\ \A i \in 1..n : Append(completed[w], r)[i] = completed[w][i]
    BY <2>1
  <2> QED BY <2>1, <2>2
<1> HIDE DEF n
<1>5. \A v \in Worker : \A i \in DOMAIN completed'[v] :
          \/ i \in DOMAIN completed[v] /\ completed'[v][i] = completed[v][i]
          \/ v = w /\ i = n + 1 /\ completed'[v][i][1] = c
  <2> TAKE v \in Worker
  <2>1. CASE v = w BY <1>4, <2>1
  <2>2. CASE v # w BY <1>3, <2>2
  <2> QED BY <2>1, <2>2
<1>6. \A v \in Worker : \A i \in DOMAIN completed[v] : completed[v][i][1] # c
  BY <1>1, <1>c DEF ResultsOK, HasResult
<1>7. ASSUME NEW u \in Worker, NEW v \in Worker, NEW i \in DOMAIN completed'[u], NEW j \in DOMAIN completed'[v],
             completed'[u][i][1] = completed'[v][j][1]
      PROVE  u = v /\ i = j
  <2>1. CASE i \in DOMAIN completed[u] /\ completed'[u][i] = completed[u][i]
    <3>1. j \in DOMAIN completed[v] /\ completed'[v][j] = completed[v][j] BY <1>5, <1>6, <1>7, <2>1
    <3> QED BY <1>7, <2>1, <3>1 DEF ResultsOK
  <2>2. CASE u = w /\ i = n + 1 /\ completed'[u][i][1] = c BY <1>5, <1>6, <1>7, <2>2
  <2> QED BY <1>5, <2>1, <2>2
<1>8. \A b : (\E v \in Worker : \E i \in DOMAIN completed'[v] : completed'[v][i][1] = b) <=> (HasResult(b) \/ b = c)
  <2> TAKE b
  <2>1. n + 1 \in DOMAIN completed'[w] /\ completed'[w][n + 1][1] = c BY <1>4
  <2>2. \A v \in Worker : \A i \in DOMAIN completed[v] : i \in DOMAIN completed'[v] /\ completed'[v][i] = completed[v][i]
    <3> TAKE v \in Worker
    <3>1. CASE v = w BY <1>4, <3>1
    <3>2. CASE v # w BY <1>3, <3>2
    <3> QED BY <3>1, <3>2
  <2> QED BY <1>5, <2>1, <2>2 DEF HasResult
<1>9. ASSUME NEW b \in Bucket, Announced(b)' PROVE HasResult(b) \/ b = c
  <2>1. Done(c) \in ReporterMessage /\ Done(c).bucket = c BY DEF Done, ReporterMessage
  <2>2. \A i \in DOMAIN queue' : (i \in DOMAIN queue /\ queue'[i] = queue[i]) \/ queue'[i].bucket = c
    <3>1. /\ DOMAIN queue' = 1..(Len(queue) + 1) /\ DOMAIN queue = 1..Len(queue) /\ Len(queue) \in Nat
          /\ \A i \in 1..Len(queue) : queue'[i] = queue[i]
          /\ queue'[Len(queue) + 1] = Done(c)
      BY <1>0, <1>2, <2>1, SendFacts
    <3> QED BY <2>1, <3>1
  <2> QED BY <1>2, <1>9, <2>2 DEF Announced, ResultsOK
<1>10. \A i \in DOMAIN taskq : ~HasResult(taskq[i]) /\ taskq[i] # c
  BY <1>1, <1>c DEF ResultsOK, PoolInv, OneOwner
<1>11. \A v \in Worker : Holds(v)' => ~HasResult(wbucket'[v]) /\ wbucket'[v] # c
  <2> SUFFICES ASSUME NEW v \in Worker, Holds(v)' PROVE ~HasResult(wbucket'[v]) /\ wbucket'[v] # c
    OBVIOUS
  <2>1. v # w /\ Holds(v) /\ wbucket'[v] = wbucket[v] BY <1>3 DEF Holds
  <2> QED BY <1>1, <1>c, <2>1 DEF ResultsOK, PoolInv, OneOwner
<1>12. \A b \in Bucket : done'[b] \/ (\E i \in DOMAIN queue' : queue'[i].bucket = b /\ queue'[i].type = "Done")
          => \E v \in Worker : \E i \in DOMAIN completed'[v] : completed'[v][i][1] = b
  BY <1>8, <1>9 DEF Announced
<1>13. \A i \in DOMAIN taskq' : ~(\E v \in Worker : \E j \in DOMAIN completed'[v] : completed'[v][j][1] = taskq'[i])
  BY <1>2, <1>8, <1>10
<1>14. \A u \in Worker : Holds(u)' => ~(\E v \in Worker : \E j \in DOMAIN completed'[v] : completed'[v][j][1] = wbucket'[u])
  BY <1>8, <1>11
<1>15. MergedOK' BY <1>2 DEF ResultsOK, MergedOK
<1> QED BY <1>7, <1>12, <1>13, <1>14, <1>15 DEF ResultsOK, HasResult, MergedOK

LEMMA WorkerStepResults ==
    ASSUME PoolInv, ResultsOK, NEW w \in Worker, WorkerStep(w)
    PROVE  ResultsOK'
<1>0. UNCHANGED mainVars /\ wpc \in [Worker -> PC]
  BY DEF WorkerStep, Pop, Report, ReportMulti, StartLong, FinishLong, BucketOk,
         BucketErr, SendDone, Panic, Die, SendToClosed, PoolInv, TypeOK, WorkerTypeOK
<1>1. Holds(w) => wbucket[w] \in Bucket BY DEF PoolInv, OneOwner
<1>2. CASE Pop(w) BY <1>2, PopResults
<1>3. CASE SendDone(w) BY <1>3, SendDoneResults
<1>4. CASE BucketOk(w) \/ Die(w) \/ SendToClosed(w)
  <2>1. UNCHANGED <<taskq, wbucket, completed, queue>> BY <1>4 DEF BucketOk, Die, SendToClosed
  <2>2. \A v \in Worker : Holds(v)' => Holds(v)
    BY <1>0, <1>4 DEF BucketOk, Die, SendToClosed, Holds
  <2> QED BY <1>0, <2>1, <2>2, WorkerResultsKept
<1>5. CASE \/ \E now \in BOOLEAN : Report(w, now)
           \/ \E k \in 0..MaxMsgs : ReportMulti(w, k)
           \/ BucketErr(w)
  <2>1. PICK k \in 0..MaxMsgs, m \in ReporterMessage : SendsMsgs(w, k, m) BY <1>5, ReportSends
  <2>2. \A v \in Worker : Holds(v)' => Holds(v) BY <1>5, ReportSends
  <2>3. Send(m) /\ m.type # "Done" /\ UNCHANGED <<taskq, wbucket, completed>> BY <2>1 DEF SendsMsgs
  <2> QED BY <1>0, <2>2, <2>3, WorkerResultsKept
<1>6. ASSUME NEW p \in Pid, StartLong(w, p) PROVE ResultsOK'
  <2>1. wbucket[w] \in Bucket BY <1>1, <1>6 DEF StartLong, Holds
  <2>2. ReportLongRunning(wbucket[w], p) \in ReporterMessage BY <2>1, MessageTypes
  <2>3. ReportLongRunning(wbucket[w], p).type # "Done" BY DEF ReportLongRunning
  <2>4. UNCHANGED <<taskq, wbucket, wpc, completed>> /\ Send(ReportLongRunning(wbucket[w], p))
    BY <1>6 DEF StartLong
  <2>5. \A v \in Worker : Holds(v)' => Holds(v) BY <2>4 DEF Holds
  <2> QED BY <1>0, <2>2, <2>3, <2>4, <2>5, WorkerResultsKept
<1>7. CASE FinishLong(w)
  <2>1. wbucket[w] \in Bucket /\ wlong[w] \in Pid
    BY <1>1, <1>7 DEF FinishLong, Holds, PoolInv, TypeOK, WorkerTypeOK
  <2>2. FinishLongRunning(wbucket[w], wlong[w]) \in ReporterMessage BY <2>1, MessageTypes
  <2>3. FinishLongRunning(wbucket[w], wlong[w]).type # "Done" BY DEF FinishLongRunning
  <2>4. UNCHANGED <<taskq, wbucket, wpc, completed>> /\ Send(FinishLongRunning(wbucket[w], wlong[w]))
    BY <1>7 DEF FinishLong
  <2>5. \A v \in Worker : Holds(v)' => Holds(v) BY <2>4 DEF Holds
  <2> QED BY <1>0, <2>2, <2>3, <2>4, <2>5, WorkerResultsKept
<1>8. CASE Panic(w)
  <2>1. wbucket[w] \in Bucket BY <1>1, <1>8 DEF Panic, Holds
  <2>2. WorkerPanicked(wbucket[w]) \in ReporterMessage /\ WorkerPanicked(wbucket[w]).type # "Done"
    BY <2>1 DEF WorkerPanicked, ReporterMessage
  <2>3. UNCHANGED <<taskq, wbucket, completed>> /\ Send(WorkerPanicked(wbucket[w]))
    BY <1>8 DEF Panic
  <2>4. \A v \in Worker : Holds(v)' => Holds(v) BY <1>0, <1>8 DEF Panic, Holds
  <2> QED BY <1>0, <2>2, <2>3, <2>4, WorkerResultsKept
<1> QED BY <1>2, <1>3, <1>4, <1>5, <1>6, <1>7, <1>8 DEF WorkerStep

(* A step of the main thread before the join: what it has received as done *)
(* was announced.                                                          *)
LEMMA MainResultsKept ==
    ASSUME ResultsOK, UNCHANGED workerVars, MergedOK',
           \A b \in Bucket : Announced(b)' => Announced(b)
    PROVE  ResultsOK'
<1>1. UNCHANGED <<taskq, wpc, wbucket, completed>> BY DEF workerVars
<1>2. \A v \in Worker : Holds(v)' => Holds(v) /\ wbucket'[v] = wbucket[v] BY <1>1 DEF Holds
<1>3. \A b \in Bucket : Announced(b) => HasResult(b) BY DEF ResultsOK, Announced
<1> QED BY <1>1, <1>2, <1>3, ResultsKept

(* The received message was the announcement, or is none. *)
LEMMA ReceiveAnnounced ==
    ASSUME PoolInv, NEW m, Receive(m),
           \A b \in Bucket : done'[b] => done[b] \/ (m.type = "Done" /\ m.bucket = b)
    PROVE  \A b \in Bucket : Announced(b)' => Announced(b)
<1>0. TypeOK BY DEF PoolInv
<1>1. \A i \in DOMAIN queue' : \E j \in DOMAIN queue : queue'[i] = queue[j] BY <1>0, ReceiveFacts
<1>2. m.type = "Done" => \E j \in DOMAIN queue : m = queue[j]
  <2>1. \/ 1 \in DOMAIN local /\ m = local[1]
        \/ 1 \in DOMAIN queue /\ m = queue[1]
    BY <1>0, ReceiveFacts
  <2> QED BY <2>1 DEF PoolInv, DoneIsLast
<1> SUFFICES ASSUME NEW b \in Bucket, Announced(b)' PROVE Announced(b) OBVIOUS
<1>3. CASE done'[b] BY <1>2, <1>3 DEF Announced
<1>4. ASSUME NEW i \in DOMAIN queue', queue'[i].bucket = b /\ queue'[i].type = "Done" PROVE Announced(b)
  BY <1>1, <1>4 DEF Announced
<1> QED BY <1>3, <1>4 DEF Announced

LEMMA HandleIncomingResults == ASSUME PoolInv, ResultsOK, HandleIncoming PROVE ResultsOK'
<1>1. PICK m : \/ HandleNow(m) \/ HandleMessage(m) \/ HandleDone(m)
               \/ HandleReportLong(m) \/ HandleFinishLong(m) \/ HandlePanicked(m)
  BY DEF HandleIncoming
<1>2. Receive(m) /\ UNCHANGED <<workerVars, merged>> /\ mpc' \in {"handle", "drain", "reap", "panicked"}
  BY <1>1 DEF HandleNow, HandleMessage, HandleDone, HandleReportLong, HandleFinishLong, HandlePanicked,
              AfterMessage, CountDone, Receive
<1>3. MergedOK' BY <1>2 DEF MergedOK, ResultsOK, Receive
<1>4. \A b \in Bucket : done'[b] => done[b] \/ (m.type = "Done" /\ m.bucket = b)
  <2>1. CASE HandleDone(m)
    <3>1. /\ m.type = "Done" /\ done' = [done EXCEPT ![m.bucket] = TRUE] /\ done \in [Bucket -> BOOLEAN]
      BY <2>1 DEF HandleDone, PoolInv, TypeOK, MainTypeOK
    <3> QED BY <3>1
  <2>2. CASE ~HandleDone(m)
    <3>1. done' = done
      BY <1>1, <2>2 DEF HandleNow, HandleMessage, HandleReportLong, HandleFinishLong, HandlePanicked, reportVars
    <3> QED BY <3>1
  <2> QED BY <2>1, <2>2
<1>5. \A b \in Bucket : Announced(b)' => Announced(b) BY <1>2, <1>4, ReceiveAnnounced
<1> QED BY <1>2, <1>3, <1>5, MainResultsKept

(* When the loop has ended, every bucket is done. *)
LEMMA AllDone ==
    ASSUME PoolInv, mpc \in {"join", "rest", "returned", "emitted"}
    PROVE  \A b \in Bucket : done[b]
<1> DEFINE S == {c \in Bucket : done[c]}
<1>1. Cardinality(S) = NumBuckets BY NumBucketsAssumption DEF PoolInv, CountsDone
<1>2. S \in SUBSET Bucket OBVIOUS
<1> HIDE DEF S
<1>3. S = Bucket BY <1>1, <1>2, BucketFacts, FS_Subset
<1> QED BY <1>3 DEF S

(* Each bucket's result is merged, and once. *)
LEMMA JoinResults == ASSUME PoolInv, ResultsOK, Join PROVE ResultsOK'
<1>1. mpc = "join" /\ UNCHANGED <<workerVars, queue, done>> BY DEF Join, reportVars
<1>2. \A b \in Bucket : Announced(b)' => Announced(b) BY <1>1 DEF Announced
<1>3. MergedOK'
  <2>1. CASE mpc' = "panicked" BY <2>1 DEF MergedOK
  <2>2. CASE mpc' # "panicked"
    <3>1. mpc' \in {"rest", "emitted"} /\ merged' = [b \in Bucket |-> merged[b] + Cardinality(ResultsFor(b, Worker))]
      BY <2>2 DEF Join
    <3>2. ASSUME NEW b \in Bucket PROVE Cardinality(ResultsFor(b, Worker)) = 1
      <4>1. HasResult(b) BY <1>1, AllDone DEF ResultsOK
      <4>w. PICK w \in Worker : \E i \in DOMAIN completed[w] : completed[w][i][1] = b BY <4>1 DEF HasResult
      <4>2. PICK i \in DOMAIN completed[w] : completed[w][i][1] = b BY <4>w
      <4>3. \A v \in Worker : \A j \in DOMAIN completed[v] : completed[v][j][1] = b => v = w /\ j = i
        BY <4>2 DEF ResultsOK
      <4>4. ResultsFor(b, Worker) = {<<w, i>>}
        <5>1. <<w, i>> \in ResultsFor(b, Worker) BY <4>2 DEF ResultsFor
        <5>2. ASSUME NEW r \in ResultsFor(b, Worker) PROVE r = <<w, i>>
          <6>1. PICK v \in Worker : r \in {v} \X DOMAIN completed[v] BY DEF ResultsFor
          <6>2. r[1] = v /\ r[2] \in DOMAIN completed[v] /\ r = <<v, r[2]>> BY <6>1
          <6>3. completed[v][r[2]][1] = b BY <6>2 DEF ResultsFor
          <6> QED BY <4>3, <6>2, <6>3
        <5> QED BY <5>1, <5>2
      <4> QED BY <4>4, FS_Singleton
    <3>3. \A b \in Bucket : merged[b] = 0 BY <1>1 DEF ResultsOK
    <3>4. \A b \in Bucket : merged'[b] = 1 BY <3>1, <3>2, <3>3
    <3> QED BY <3>1, <3>4 DEF MergedOK
  <2> QED BY <2>1, <2>2
<1> QED BY <1>1, <1>2, <1>3, MainResultsKept

LEMMA NextResults == ASSUME PoolInv, ResultsOK, [Next]_vars PROVE ResultsOK'
<1>1. CASE HandleIncoming BY <1>1, HandleIncomingResults
<1>2. CASE HandleMessages
  <2>1. /\ queue # <<>> /\ queue' = Tail(queue) /\ mpc = "handle" /\ mpc' \in {"handle", "reap"}
        /\ UNCHANGED <<workerVars, done, merged>> /\ queue \in Seq(ReporterMessage)
    BY <1>2 DEF HandleMessages, AfterMessage, reportVars, PoolInv, TypeOK
  <2>2. \A i \in DOMAIN queue' : \E j \in DOMAIN queue : queue'[i] = queue[j] BY <2>1
  <2>3. \A b \in Bucket : Announced(b)' => Announced(b) BY <2>1, <2>2 DEF Announced
  <2>4. MergedOK' BY <2>1 DEF MergedOK, ResultsOK
  <2> QED BY <2>1, <2>3, <2>4, MainResultsKept
<1>3. CASE Drain \/ Reap \/ PrintRest \/ Stopped \/ UNCHANGED vars
  <2>1. UNCHANGED <<workerVars, queue, done, merged>>
    BY <1>3 DEF Drain, Reap, PrintRest, Stopped, vars, reportVars
  <2>2. MergedOK'
    <3>1. \/ mpc \in {"drain", "reap"} /\ mpc' \in {"handle", "drain", "reap", "join", "panicked"}
          \/ mpc = "rest" /\ mpc' \in {"rest", "returned"}
          \/ mpc' = mpc
      BY <1>3 DEF Drain, CountDone, AfterMessage, Reap, PrintRest, Stopped, vars
    <3> QED BY <2>1, <3>1 DEF MergedOK, ResultsOK
  <2>3. \A b \in Bucket : Announced(b)' => Announced(b) BY <2>1 DEF Announced
  <2> QED BY <2>1, <2>2, <2>3, MainResultsKept
<1>4. CASE Join BY <1>4, JoinResults
<1>5. CASE \E w \in Worker : WorkerStep(w) BY <1>5, WorkerStepResults
<1> QED BY <1>1, <1>2, <1>3, <1>4, <1>5 DEF Next, MainStep

LEMMA ResultsInvariant == Spec => []ResultsOK
<1>1. Init => ResultsOK
  <2> SUFFICES ASSUME Init PROVE ResultsOK OBVIOUS
  <2>1. /\ \A w \in Worker : DOMAIN completed[w] = {} /\ ~Holds(w)
        /\ \A b \in Bucket : ~done[b] /\ merged[b] = 0
        /\ DOMAIN queue = {} /\ mpc = "handle"
    BY DEF Init, Holds
  <2>2. \A b : ~HasResult(b) BY <2>1 DEF HasResult
  <2> QED BY <2>1, <2>2 DEF ResultsOK
<1> QED BY <1>1, NextResults, PoolInvariant, PTL DEF Spec

(* At the end the way is empty but for what is printed. *)
LEMMA AllOutAtEnd ==
    ASSUME PoolInv, mpc \in {"returned", "emitted"}, NEW b \in Bucket
    PROVE  InLine(b) = {} /\ InChannel(b) = {} /\ Out(b) = OfBucket(Range(printed) \cup printedNow, b)
<1>1. \A c \in Bucket : done[c] BY AllDone
<1>2. DOMAIN queue = {} /\ DOMAIN local = {}
  <2>1. \A i \in DOMAIN queue : queue[i].bucket \in Bucket
    <3>1. \A i \in DOMAIN queue : queue[i] \in ReporterMessage BY DEF PoolInv, TypeOK
    <3> QED BY <3>1 DEF ReporterMessage
  <2>2. \A i \in DOMAIN local : local[i].bucket \in Bucket
    <3>1. \A i \in DOMAIN local : local[i] \in ReporterMessage BY DEF PoolInv, TypeOK, MainTypeOK
    <3> QED BY <3>1 DEF ReporterMessage
  <2> QED BY <1>1, <2>1, <2>2 DEF PoolInv, DoneIsLast
<1>3. NothingBuffered BY AllDoneNothingBuffered DEF PoolInv, CountsDone
<1>4. Range(buffered[b]) = {} BY <1>3 DEF NothingBuffered, Range
<1> QED BY <1>2, <1>4 DEF InLine, InChannel, Out, OfBucket

(* A diagnostic is printed at one place. *)
LEMMA PrintedOnce ==
    ASSUME PoolInv, WayInv, mpc \in {"returned", "emitted"}, NEW b \in Bucket, NEW n \in 1..sent[b]
    PROVE  Cardinality({i \in DOMAIN printed : printed[i].bucket = b /\ printed[i].n = n})
         + Cardinality({m \in printedNow : m.bucket = b /\ m.n = n}) = 1
<1> DEFINE P == {i \in DOMAIN printed : printed[i].bucket = b /\ printed[i].n = n}
           Q == {m \in printedNow : m.bucket = b /\ m.n = n}
<1>0. printed \in Seq(Msg) /\ TypeOK /\ BufferedOwn BY DEF PoolInv, TypeOK, MainTypeOK
<1>1. PICK x \in Out(b) \cup InLine(b) \cup InChannel(b) : x.n = n BY DEF WayInv, OnTheWay
<1>2. x \in Range(printed) \cup printedNow /\ x.bucket = b BY <1>1, AllOutAtEnd DEF OfBucket
<1>3. CASE x \in printedNow
  <2>1. Q = {x} BY <1>1, <1>2, <1>3 DEF WayInv, OutInOrder
  <2>2. P = {} BY <1>1, <1>2, <1>3 DEF WayInv, OutInOrder
  <2> HIDE DEF P, Q
  <2>3. Cardinality(Q) = 1 /\ Cardinality(P) = 0 BY <2>1, <2>2, FS_Singleton, FS_EmptySet
  <2>4. Cardinality(P) + Cardinality(Q) = 1 BY <2>3
  <2> QED BY <2>4 DEF P, Q
<1>4. CASE x \in Range(printed)
  <2>1. PICK i \in DOMAIN printed : x = printed[i] BY <1>4 DEF Range
  <2>2. ASSUME NEW j \in P PROVE j = i
    <3>1. \A k \in DOMAIN printed : k \in Int /\ printed[k] \in Msg BY <1>0
    <3>2. j \in DOMAIN printed /\ printed[j].bucket = printed[i].bucket /\ printed[j].n = printed[i].n
      BY <1>1, <1>2, <2>1
    <3>3. i < j => printed[i].n # printed[j].n
      <4>1. i < j => Before(printed[i], printed[j]) BY <3>2 DEF WayInv, OutInOrder
      <4> QED BY <3>1, <3>2, <4>1, BeforeFacts
    <3>4. j < i => printed[j].n # printed[i].n
      <4>1. j < i => Before(printed[j], printed[i]) BY <3>2 DEF WayInv, OutInOrder
      <4> QED BY <3>1, <3>2, <4>1, BeforeFacts
    <3> QED BY <3>1, <3>2, <3>3, <3>4
  <2>3. P = {i} BY <1>1, <1>2, <2>1, <2>2
  <2>4. Q = {} BY <1>1, <1>2, <2>1 DEF WayInv, OutInOrder
  <2> HIDE DEF P, Q
  <2>5. Cardinality(P) = 1 /\ Cardinality(Q) = 0 BY <2>3, <2>4, FS_Singleton, FS_EmptySet
  <2>6. Cardinality(P) + Cardinality(Q) = 1 BY <2>5
  <2> QED BY <2>6 DEF P, Q
<1> QED BY <1>2, <1>3, <1>4

(* When the run returns, whether with success or with VerifyErr::Emitted,  *)
(* every diagnostic any worker sent has been printed exactly once, and     *)
(* every bucket's result has been merged exactly once.                     *)
THEOREM NothingLostNothingTwice == Spec => []Complete
<1>1. PoolInv /\ WayInv /\ ResultsOK => Complete
  BY PrintedOnce DEF Complete, ResultsOK
<1> QED BY <1>1, PoolInvariant, WayInvariant, ResultsInvariant, PTL
=============================================================================
