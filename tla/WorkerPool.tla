----------------------------- MODULE WorkerPool -----------------------------
(***************************************************************************)
(* The parallel branch of Verifier::verify_crate_inner: worker threads     *)
(* that take buckets from a shared task queue and verify them, the mpsc    *)
(* channel on which their QueuedReporters send diagnostics, and the main   *)
(* thread, which prints what it receives, one block per bucket, collects   *)
(* the workers and merges their results.                                   *)
(*                                                                         *)
(* What verify_bucket_outer does inside a bucket is abstracted to what the *)
(* main thread can see of it: the messages it sends and how it ends.       *)
(***************************************************************************)
EXTENDS Integers, Sequences, FiniteSets, Functions

CONSTANTS
    NumBuckets,     \* bucket_ids.len()
    Worker,         \* the threads spawned, self.num_threads of them
    Pid,            \* the span strings that identify progress bars
    NoPid,
    MaxMsgs,        \* bound: diagnostics one bucket reports
    MaxSends,       \* bound: sends that carry them
    Busy,           \* bound: the buckets that report more than one diagnostic
    MaxLong,        \* bound: long-running queries in one bucket
    MaxQueue,       \* bound: messages in the channel at a time
    Span            \* Span[n]: source position of a bucket's n-th diagnostic

Bucket == 1..NumBuckets
NoBucket == 0

ASSUME NumBucketsAssumption == NumBuckets \in Nat \ {0}
ASSUME WorkerAssumption == IsFiniteSet(Worker) /\ Worker # {}
ASSUME PidAssumption == NoPid \notin Pid
ASSUME BoundsAssumption == {MaxMsgs, MaxSends, MaxLong, MaxQueue} \subseteq Nat
ASSUME SpanAssumption == Span \in [1..MaxMsgs -> Int]

VARIABLES
    taskq,      \* Mutex<VecDeque<..>>: the buckets nobody has taken yet
    wpc,        \* where each worker thread is
    wbucket,    \* the bucket a worker is verifying, or NoBucket
    wlong,      \* the progress bar of its long-running query, or NoPid
    completed,  \* completed_tasks: a worker's <<bucket, res.is_ok()>> in order
    sent,       \* per bucket, how many diagnostics it has reported
    sends,      \* per bucket, how many sends carried them
    longs,      \* per bucket, how many of its queries ran long
    queue,      \* the mpsc channel
    mpc,        \* where the main thread is
    active,     \* active_bucket
    buffered,   \* messages[id].1
    done,       \* messages[id].0
    local,      \* local_msgs
    numDone,    \* num_done
    bars,       \* progress_bars
    reaped,     \* workers whose result is in workers_finished
    merged,     \* per bucket, how often its result was merged
    printed,    \* what report_as printed, in order, of messages not sent "now"
    printedNow  \* the messages printed on arrival

workerVars == <<taskq, wpc, wbucket, wlong, completed, sent, sends, longs>>
reportVars == <<active, buffered, done, printed, printedNow>>
vars == <<workerVars, queue, mpc, reportVars, local, numDone, bars, reaped, merged>>

-----------------------------------------------------------------------------
(* Messages and channel contents (ReporterMessage).                        *)

Msg == [bucket : Bucket, send : 1..MaxSends, n : 1..MaxMsgs]

Message(b, m, now) == [type |-> "Message", bucket |-> b, msgs |-> <<m>>, now |-> now, pid |-> NoPid]
Messages(b, ms) == [type |-> "Messages", bucket |-> b, msgs |-> ms, now |-> FALSE, pid |-> NoPid]
Done(b) == [type |-> "Done", bucket |-> b, msgs |-> <<>>, now |-> FALSE, pid |-> NoPid]
ReportLongRunning(b, p) == [type |-> "ReportLongRunning", bucket |-> b, msgs |-> <<>>, now |-> FALSE, pid |-> p]
FinishLongRunning(b, p) == [type |-> "FinishLongRunning", bucket |-> b, msgs |-> <<>>, now |-> FALSE, pid |-> p]
WorkerPanicked(b) == [type |-> "WorkerPanicked", bucket |-> b, msgs |-> <<>>, now |-> FALSE, pid |-> NoPid]

ReporterMessage ==
    [type : {"Message", "Messages", "Done", "ReportLongRunning", "FinishLongRunning", "WorkerPanicked"},
     bucket : Bucket, msgs : Seq(Msg), now : BOOLEAN, pid : Pid \cup {NoPid}]

(* A progress bar: absent, or the state of the primary and of the auxiliary one. *)
BarState == {"none", "running", "finished"}
Bar == [pb : BarState, aux : BarState]

Finished(w) == wpc[w] \in {"exited", "dead"}
MainStopped == mpc \in {"returned", "emitted", "panicked"}

Init ==
    /\ taskq = [i \in 1..NumBuckets |-> i]
    /\ wpc = [w \in Worker |-> "pop"]
    /\ wbucket = [w \in Worker |-> NoBucket]
    /\ wlong = [w \in Worker |-> NoPid]
    /\ completed = [w \in Worker |-> <<>>]
    /\ sent = [b \in Bucket |-> 0]
    /\ sends = [b \in Bucket |-> 0]
    /\ longs = [b \in Bucket |-> 0]
    /\ queue = <<>>
    /\ mpc = "handle"
    /\ active = NoBucket
    /\ buffered = [b \in Bucket |-> <<>>]
    /\ done = [b \in Bucket |-> FALSE]
    /\ local = <<>>
    /\ numDone = 0
    /\ bars = [p \in Pid |-> [pb |-> "none", aux |-> "none"]]
    /\ reaped = {}
    /\ merged = [b \in Bucket |-> 0]
    /\ printed = <<>>
    /\ printedNow = {}

-----------------------------------------------------------------------------
(* Worker threads.                                                         *)

mainVars == <<mpc, reportVars, local, numDone, bars, reaped, merged>>

(* A send succeeds while the receiver lives; it dies with the main thread. *)
Send(m) ==
    /\ mpc # "panicked"
    /\ Len(queue) < MaxQueue
    /\ queue' = Append(queue, m)

(* tq.pop_front() under the lock; an empty queue ends the thread. *)
Pop(w) ==
    /\ wpc[w] = "pop"
    /\ IF taskq = <<>>
       THEN /\ wpc' = [wpc EXCEPT ![w] = "exited"]
            /\ UNCHANGED <<taskq, wbucket>>
       ELSE /\ wpc' = [wpc EXCEPT ![w] = "verify"]
            /\ wbucket' = [wbucket EXCEPT ![w] = Head(taskq)]
            /\ taskq' = Tail(taskq)
    /\ UNCHANGED <<wlong, completed, sent, sends, longs, queue, mainVars>>

(* The next k diagnostics of bucket b, as one send carries them. *)
NextMsgs(b, k) == [i \in 1..k |-> [bucket |-> b, send |-> sends[b] + 1, n |-> sent[b] + i]]

CountSend(b, k) ==
    /\ sent[b] + k <= MaxMsgs
    /\ sends[b] < MaxSends
    /\ b \in Busy \/ (sends[b] = 0 /\ k = 1)
    /\ sent' = [sent EXCEPT ![b] = @ + k]
    /\ sends' = [sends EXCEPT ![b] = @ + 1]

(* report, report_as, report_now, report_as_now: one diagnostic. *)
Report(w, now) ==
    LET b == wbucket[w]
    IN  /\ wpc[w] = "verify"
        /\ CountSend(b, 1)
        /\ Send(Message(b, NextMsgs(b, 1)[1], now))
        /\ UNCHANGED <<taskq, wpc, wbucket, wlong, completed, longs, mainVars>>

(* report_as_multi: the errors a function's queries have collected. *)
ReportMulti(w, k) ==
    LET b == wbucket[w]
    IN  /\ wpc[w] = "verify"
        /\ CountSend(b, k)
        /\ Send(Messages(b, NextMsgs(b, k)))
        /\ UNCHANGED <<taskq, wpc, wbucket, wlong, completed, longs, mainVars>>

(* add_progress_bar: the running query has exceeded two seconds. *)
StartLong(w, p) ==
    LET b == wbucket[w]
    IN  /\ wpc[w] = "verify"
        /\ wlong[w] = NoPid
        /\ longs[b] < MaxLong
        /\ longs' = [longs EXCEPT ![b] = @ + 1]
        /\ wlong' = [wlong EXCEPT ![w] = p]
        /\ Send(ReportLongRunning(b, p))
        /\ UNCHANGED <<taskq, wpc, wbucket, completed, sent, sends, mainVars>>

(* complete_progress_bar: that query has come back. *)
FinishLong(w) ==
    /\ wpc[w] = "verify"
    /\ wlong[w] # NoPid
    /\ wlong' = [wlong EXCEPT ![w] = NoPid]
    /\ Send(FinishLongRunning(wbucket[w], wlong[w]))
    /\ UNCHANGED <<taskq, wpc, wbucket, completed, sent, sends, longs, mainVars>>

(* verify_bucket_outer returns Ok. *)
BucketOk(w) ==
    /\ wpc[w] = "verify"
    /\ wlong[w] = NoPid
    /\ wpc' = [wpc EXCEPT ![w] = "ok"]
    /\ UNCHANGED <<taskq, wbucket, wlong, completed, sent, sends, longs, queue, mainVars>>

(* verify_bucket_outer returns Err(e): the worker reports e now. *)
BucketErr(w) ==
    LET b == wbucket[w]
    IN  /\ wpc[w] = "verify"
        /\ wlong[w] = NoPid
        /\ CountSend(b, 1)
        /\ Send(Message(b, NextMsgs(b, 1)[1], TRUE))
        /\ wpc' = [wpc EXCEPT ![w] = "err"]
        /\ UNCHANGED <<taskq, wbucket, wlong, completed, longs, mainVars>>

(* Mutant: a bucket that ended in Err is not announced as done. *)
SendDoneIfOk(w) ==
    LET b == wbucket[w]
    IN  /\ wpc[w] \in {"ok", "err"}
        /\ IF wpc[w] = "ok" THEN Send(Done(b)) ELSE UNCHANGED queue
        /\ completed' = [completed EXCEPT ![w] = Append(@, <<b, wpc[w] = "ok">>)]
        /\ wpc' = [wpc EXCEPT ![w] = "pop"]
        /\ wbucket' = [wbucket EXCEPT ![w] = NoBucket]
        /\ UNCHANGED <<taskq, wlong, sent, sends, longs, mainVars>>

(* reporter.done(), completed_tasks.push(..), and on to the next task. *)
SendDone(w) ==
    LET b == wbucket[w]
    IN  /\ wpc[w] \in {"ok", "err"}
        /\ Send(Done(b))
        /\ completed' = [completed EXCEPT ![w] = Append(@, <<b, wpc[w] = "ok">>)]
        /\ wpc' = [wpc EXCEPT ![w] = "pop"]
        /\ wbucket' = [wbucket EXCEPT ![w] = NoBucket]
        /\ UNCHANGED <<taskq, wlong, sent, sends, longs, mainVars>>

(* A panic inside the bucket is caught and its payload sent to the main thread. *)
Panic(w) ==
    /\ wpc[w] = "verify"
    /\ Send(WorkerPanicked(wbucket[w]))
    /\ wpc' = [wpc EXCEPT ![w] = "panicking"]
    /\ UNCHANGED <<taskq, wbucket, wlong, completed, sent, sends, longs, mainVars>>

(* The second panic!, "worker thread panicked", ends the thread. *)
Die(w) ==
    /\ wpc[w] = "panicking"
    /\ wpc' = [wpc EXCEPT ![w] = "dead"]
    /\ UNCHANGED <<taskq, wbucket, wlong, completed, sent, sends, longs, queue, mainVars>>

(* The main thread has unwound and dropped the receiver: the next send's   *)
(* expect panics, and so does the send of that panic.                      *)
SendToClosed(w) ==
    /\ mpc = "panicked"
    /\ wpc[w] \in {"verify", "ok", "err"}
    /\ wpc' = [wpc EXCEPT ![w] = "dead"]
    /\ UNCHANGED <<taskq, wbucket, wlong, completed, sent, sends, longs, queue, mainVars>>

WorkerStep(w) ==
    \/ Pop(w)
    \/ \E now \in BOOLEAN : Report(w, now)
    \/ \E k \in 0..MaxMsgs : ReportMulti(w, k)
    \/ \E p \in Pid : StartLong(w, p)
    \/ FinishLong(w)
    \/ BucketOk(w)
    \/ BucketErr(w)
    \/ SendDone(w)
    \/ Panic(w)
    \/ Die(w)
    \/ SendToClosed(w)

-----------------------------------------------------------------------------
(* The main thread.                                                        *)

(* local_msgs.pop_front(), and receiver.recv() when it is empty. *)
Receive(m) ==
    /\ mpc = "handle"
    /\ \/ /\ local # <<>>
          /\ m = Head(local)
          /\ local' = Tail(local)
          /\ UNCHANGED queue
       \/ /\ local = <<>>
          /\ queue # <<>>
          /\ m = Head(queue)
          /\ queue' = Tail(queue)
          /\ UNCHANGED local

(* `if local_msgs.len() > 0 { continue; }` *)
AfterMessage == mpc' = IF local' # <<>> THEN "handle" ELSE "reap"

(* The messages of a batch sorted by span; the sort is stable. *)
Unsorted(ms) == {ms}
SortedBySpan(ms) ==
    {s \in [DOMAIN ms -> {ms[i] : i \in DOMAIN ms}] :
        \A i, j \in DOMAIN ms : i < j =>
            \/ Span[s[i].n] < Span[s[j].n]
            \/ Span[s[i].n] = Span[s[j].n] /\ s[i].n < s[j].n}

(* Messages(id, msgs, now): split a batch into single messages. *)
HandleMessages ==
    /\ mpc = "handle"
    /\ local = <<>>
    /\ queue # <<>>
    /\ LET m == Head(queue)
       IN  /\ m.type = "Messages"
           /\ \E s \in SortedBySpan(m.msgs) :
                local' = [i \in DOMAIN s |-> Message(m.bucket, s[i], m.now)]
    /\ queue' = Tail(queue)
    /\ AfterMessage
    /\ UNCHANGED <<workerVars, reportVars, numDone, bars, reaped, merged>>

(* Message with now set: print it and `continue`, past the check for the end. *)
HandleNow(m) ==
    /\ m.type = "Message" /\ m.now
    /\ Receive(m)
    /\ printedNow' = printedNow \cup {m.msgs[1]}
    /\ UNCHANGED <<workerVars, mpc, active, buffered, done, printed, numDone, bars, reaped, merged>>

(* A bucket may print when it is the active one, or when none is. *)
MayPrintIfEarlier(b) == active = NoBucket \/ b <= active
MayPrint(b) == active \in {NoBucket, b}

(* Message: print it if its bucket is active or can become so, else keep it. *)
HandleMessage(m) ==
    /\ m.type = "Message" /\ ~m.now
    /\ Receive(m)
    /\ IF MayPrint(m.bucket)
       THEN /\ active' = m.bucket
            /\ printed' = Append(printed, m.msgs[1])
            /\ UNCHANGED buffered
       ELSE /\ buffered' = [buffered EXCEPT ![m.bucket] = Append(@, m.msgs[1])]
            /\ UNCHANGED <<active, printed>>
    /\ AfterMessage
    /\ UNCHANGED <<workerVars, done, printedNow, numDone, bars, reaped, merged>>

(* A bucket is done: count it, and on to the next message. *)
CountDone == numDone' = numDone + 1 /\ AfterMessage

(* Done(id): mark the bucket done; if it was active, or none is, look for  *)
(* the next bucket to print.                                               *)
HandleDone(m) ==
    /\ m.type = "Done"
    /\ Receive(m)
    /\ done' = [done EXCEPT ![m.bucket] = TRUE]
    /\ IF MayPrint(m.bucket)
       THEN /\ active' = NoBucket
            /\ mpc' = "drain"
            /\ UNCHANGED numDone
       ELSE /\ CountDone
            /\ UNCHANGED active
    /\ UNCHANGED <<workerVars, buffered, printed, printedNow, bars, reaped, merged>>

(* The first bucket, in the order of `messages`, that has any messages. *)
FirstBuffered ==
    CHOOSE b \in Bucket :
        /\ buffered[b] # <<>>
        /\ \A c \in Bucket : c < b => buffered[c] = <<>>
NothingBuffered == \A b \in Bucket : buffered[b] = <<>>

PrintBuffered(b) ==
    /\ printed' = printed \o buffered[b]
    /\ buffered' = [buffered EXCEPT ![b] = <<>>]

(* `if !msgs.0`: the bucket just printed goes on, and becomes the active one. *)
BecomesActiveIfDone(b) == done[b]
BecomesActive(b) == ~done[b]

Drain ==
    /\ mpc = "drain"
    /\ UNCHANGED <<workerVars, queue, done, printedNow, local, bars, reaped, merged>>
    /\ LET b == FirstBuffered
       IN  IF NothingBuffered
           THEN /\ CountDone
                /\ UNCHANGED <<active, printed, buffered>>
           ELSE /\ PrintBuffered(b)
                /\ IF BecomesActive(b)
                   THEN /\ active' = b
                        /\ CountDone
                   ELSE UNCHANGED <<active, mpc, numDone>>

(* ReportLongRunning: a primary bar, or a (fresh) auxiliary one beside it. *)
HandleReportLong(m) ==
    /\ m.type = "ReportLongRunning"
    /\ Receive(m)
    /\ bars' = IF bars[m.pid].pb = "none"
               THEN [bars EXCEPT ![m.pid].pb = "running"]
               ELSE [bars EXCEPT ![m.pid].aux = "running"]
    /\ AfterMessage
    /\ UNCHANGED <<workerVars, reportVars, numDone, reaped, merged>>

(* Mutant: the bar is taken out of the map when its query has finished. *)
HandleFinishLongRemoves(m) ==
    /\ m.type = "FinishLongRunning"
    /\ Receive(m)
    /\ IF bars[m.pid].pb = "none"
       THEN mpc' = "panicked" /\ UNCHANGED bars
       ELSE bars' = [bars EXCEPT ![m.pid] = [pb |-> "none", aux |-> "none"]] /\ AfterMessage
    /\ UNCHANGED <<workerVars, reportVars, numDone, reaped, merged>>

(* FinishLongRunning: unwraps the bar, and the auxiliary one if the primary is finished. *)
HandleFinishLong(m) ==
    /\ m.type = "FinishLongRunning"
    /\ Receive(m)
    /\ IF bars[m.pid].pb = "none" \/ (bars[m.pid].pb = "finished" /\ bars[m.pid].aux = "none")
       THEN /\ mpc' = "panicked"
            /\ UNCHANGED bars
       ELSE /\ bars' = IF bars[m.pid].pb = "running"
                       THEN [bars EXCEPT ![m.pid].pb = "finished"]
                       ELSE [bars EXCEPT ![m.pid].aux = "finished"]
            /\ AfterMessage
    /\ UNCHANGED <<workerVars, reportVars, numDone, reaped, merged>>

(* Mutant: the panic is left to the join of the worker that died. *)
HandlePanickedIgnored(m) ==
    /\ m.type = "WorkerPanicked"
    /\ Receive(m)
    /\ AfterMessage
    /\ UNCHANGED <<workerVars, reportVars, numDone, bars, reaped, merged>>

(* WorkerPanicked(err): resume_unwind(err). *)
HandlePanicked(m) ==
    /\ m.type = "WorkerPanicked"
    /\ Receive(m)
    /\ mpc' = "panicked"
    /\ UNCHANGED <<workerVars, reportVars, numDone, bars, reaped, merged>>

(* Join the workers seen to have finished, then leave the loop if all is   *)
(* done.  is_finished is read worker by worker while they run, so any set  *)
(* of finished workers may be seen.                                        *)
Reap ==
    /\ mpc = "reap"
    /\ \E seen \in SUBSET {w \in Worker \ reaped : Finished(w)} :
        IF \E w \in seen : wpc[w] = "dead"
        THEN /\ mpc' = "panicked"
             /\ UNCHANGED reaped
        ELSE /\ mpc' = IF numDone = NumBuckets THEN "join" ELSE "handle"
             /\ reaped' = reaped \cup seen
    /\ UNCHANGED <<workerVars, queue, reportVars, local, numDone, bars, merged>>

(* The completed tasks of the given workers that are results of bucket b. *)
ResultsForUnreaped(b, ws) ==
    {r \in UNION {{w} \X DOMAIN completed[w] : w \in ws \ reaped} : completed[r[1]][r[2]][1] = b}
ResultsFor(b, ws) ==
    {r \in UNION {{w} \X DOMAIN completed[w] : w \in ws} : completed[r[1]][r[2]][1] = b}
SomeError == \E w \in Worker : \E i \in DOMAIN completed[w] : ~completed[w][i][2]

(* Join the rest and merge every verifier and context; an Err of some      *)
(* bucket makes the function return VerifyErr::Emitted here.               *)
Join ==
    /\ mpc = "join"
    /\ \A w \in Worker \ reaped : Finished(w)
    /\ IF \E w \in Worker \ reaped : wpc[w] = "dead"
       THEN /\ mpc' = "panicked"
            /\ UNCHANGED merged
       ELSE /\ merged' = [b \in Bucket |-> merged[b] + Cardinality(ResultsFor(b, Worker))]
            /\ mpc' = IF SomeError THEN "emitted" ELSE "rest"
    /\ UNCHANGED <<workerVars, queue, reportVars, local, numDone, bars, reaped>>

(* "print remaining messages". *)
PrintRest ==
    /\ mpc = "rest"
    /\ IF NothingBuffered
       THEN /\ mpc' = "returned"
            /\ UNCHANGED <<printed, buffered>>
       ELSE /\ PrintBuffered(FirstBuffered)
            /\ UNCHANGED mpc
    /\ UNCHANGED <<workerVars, queue, active, done, printedNow, local, numDone, bars, reaped, merged>>

Incoming == IF local # <<>> THEN Head(local) ELSE Head(queue)

HandleIncoming ==
    /\ mpc = "handle"
    /\ local # <<>> \/ queue # <<>>
    /\ LET m == Incoming
       IN  \/ HandleNow(m)
           \/ HandleMessage(m)
           \/ HandleDone(m)
           \/ HandleReportLong(m)
           \/ HandleFinishLong(m)
           \/ HandlePanicked(m)

MainStep == HandleMessages \/ HandleIncoming \/ Drain \/ Reap \/ Join \/ PrintRest

(* The program is over: the main thread has left and no worker runs. *)
Stopped ==
    /\ MainStopped
    /\ \A w \in Worker : Finished(w)
    /\ UNCHANGED vars

Next == (\E w \in Worker : WorkerStep(w)) \/ MainStep \/ Stopped

(* The operating system runs every thread, and a bucket comes to an end:   *)
(* the queries it makes are limited by rlimit.  Reports, errors and panics *)
(* need not happen.                                                        *)
WorkerProgress(w) ==
    Pop(w) \/ FinishLong(w) \/ BucketOk(w) \/ SendDone(w) \/ Die(w) \/ SendToClosed(w)
Fairness == WF_vars(MainStep) /\ \A w \in Worker : WF_vars(WorkerProgress(w))

Spec == Init /\ [][Next]_vars
FairSpec == Spec /\ Fairness

-----------------------------------------------------------------------------
(* Properties.                                                             *)

PC == {"pop", "verify", "ok", "err", "panicking", "dead", "exited"}

(* Every variable of the pool has its type: what the workers own, the      *)
(* channel, and what the main thread owns.                                 *)
WorkerTypeOK ==
    /\ taskq \in Seq(Bucket)
    /\ wpc \in [Worker -> PC]
    /\ wbucket \in [Worker -> Bucket \cup {NoBucket}]
    /\ wlong \in [Worker -> Pid \cup {NoPid}]
    /\ completed \in [Worker -> Seq(Bucket \X BOOLEAN)]
    /\ sent \in [Bucket -> 0..MaxMsgs]
    /\ sends \in [Bucket -> 0..MaxSends]
    /\ longs \in [Bucket -> 0..MaxLong]
MainTypeOK ==
    /\ mpc \in {"handle", "drain", "reap", "join", "rest", "returned", "emitted", "panicked"}
    /\ active \in Bucket \cup {NoBucket}
    /\ buffered \in [Bucket -> Seq(Msg)]
    /\ done \in [Bucket -> BOOLEAN]
    /\ local \in Seq(ReporterMessage)
    /\ numDone \in Nat
    /\ bars \in [Pid -> Bar]
    /\ reaped \subseteq Worker
    /\ merged \in [Bucket -> Nat]
    /\ printed \in Seq(Msg)
    /\ printedNow \subseteq Msg
TypeOK == WorkerTypeOK /\ queue \in Seq(ReporterMessage) /\ MainTypeOK

(* A bucket has one owner at a time: the task queue, or the worker that    *)
(* verifies it; neither owns a bucket that has been announced as done.     *)
Holds(w) == wpc[w] \in {"verify", "ok", "err"}
OneOwner ==
    /\ \A i, j \in DOMAIN taskq : i # j => taskq[i] # taskq[j]
    /\ \A i \in DOMAIN taskq :
            /\ ~done[taskq[i]]
            /\ \A k \in DOMAIN queue : queue[k].bucket # taskq[i]
            /\ \A w \in Worker : Holds(w) => wbucket[w] # taskq[i]
    /\ \A w \in Worker : Holds(w) =>
            /\ wbucket[w] \in Bucket
            /\ ~done[wbucket[w]]
            /\ \A k \in DOMAIN queue : queue[k].type = "Done" => queue[k].bucket # wbucket[w]
    /\ \A w, v \in Worker : Holds(w) /\ Holds(v) /\ w # v => wbucket[w] # wbucket[v]

(* Done is the last message of a bucket: whatever still waits in the       *)
(* channel or in local_msgs belongs to a bucket that is not done, so a     *)
(* late diagnostic can never reopen a block or be kept after the drain.    *)
DoneIsLast ==
    /\ \A i \in DOMAIN queue : ~done[queue[i].bucket]
    /\ \A i, j \in DOMAIN queue :
            i < j /\ queue[i].type = "Done" => queue[j].bucket # queue[i].bucket
    /\ \A i \in DOMAIN local : ~done[local[i].bucket] /\ local[i].type = "Message"

(* Diagnostics stay with the bucket that reported them. *)
OwnMessages ==
    /\ \A i \in DOMAIN queue : \A k \in DOMAIN queue[i].msgs :
            queue[i].msgs[k].bucket = queue[i].bucket
    /\ \A i \in DOMAIN queue : queue[i].type = "Message" => Len(queue[i].msgs) = 1
    /\ \A i \in DOMAIN local : Len(local[i].msgs) = 1 /\ local[i].msgs[1].bucket = local[i].bucket

BufferedOwn ==
    \A b \in Bucket : \A k \in DOMAIN buffered[b] : buffered[b][k].bucket = b

(* num_done counts the buckets marked done, and the loop ends at the last. *)
CountsDone ==
    /\ numDone + (IF mpc = "drain" THEN 1 ELSE 0) = Cardinality({b \in Bucket : done[b]})
    /\ mpc \in {"join", "rest", "returned", "emitted"} => numDone = NumBuckets

(* A diagnostic was printed for the active bucket or for a finished one. *)
PrintedForOpenOrClosed ==
    \A i \in DOMAIN printed :
        \/ printed[i].bucket = active
        \/ done[printed[i].bucket] /\ buffered[printed[i].bucket] = <<>>

DrainIdle == mpc = "drain" => active = NoBucket

(* A diagnostic waits in a buffer only while another bucket is active, and *)
(* the active bucket, which is not done, has none waiting.  The code       *)
(* asserts the second half when it closes the active bucket; the first     *)
(* half, broken only while the buffers are being drained, is why nothing   *)
(* is left to print when the loop ends.                                    *)
NothingStranded ==
    /\ active = NoBucket /\ mpc # "drain" => NothingBuffered
    /\ active # NoBucket => buffered[active] = <<>> /\ ~done[active]

(* When the loop has ended every buffer is empty, so the early return with *)
(* VerifyErr::Emitted, which skips the printing of the remaining messages, *)
(* loses none of them.                                                     *)
NothingLeftAtExit ==
    mpc \in {"join", "rest", "returned", "emitted"} => NothingBuffered

(* The inductive invariant behind the theorems of WorkerPoolProofs. *)
PoolInv ==
    /\ TypeOK
    /\ OneOwner
    /\ DoneIsLast
    /\ OwnMessages
    /\ BufferedOwn
    /\ CountsDone
    /\ PrintedForOpenOrClosed
    /\ DrainIdle
    /\ NothingStranded

(* At the end every diagnostic that was reported has been printed, exactly *)
(* once, and every bucket's result has been merged exactly once.           *)
Complete ==
    mpc \in {"returned", "emitted"} =>
        /\ \A b \in Bucket : merged[b] = 1
        /\ \A b \in Bucket : \A n \in 1..sent[b] :
                Cardinality({i \in DOMAIN printed : printed[i].bucket = b /\ printed[i].n = n})
              + Cardinality({m \in printedNow : m.bucket = b /\ m.n = n}) = 1

(* Diagnostics of a bucket come out in the order they were sent, and those *)
(* of one batch in the order of their source positions.                    *)
PrintedInOrder ==
    \A i, j \in DOMAIN printed :
        i < j /\ printed[i].bucket = printed[j].bucket =>
            \/ printed[i].send < printed[j].send
            \/ printed[i].send = printed[j].send /\ Span[printed[i].n] <= Span[printed[j].n]

(* The inductive invariants behind PrintedInOrder and Complete.  The       *)
(* diagnostics of a bucket are in order along their way: those that are    *)
(* out or buffered, those in local_msgs, those in the channel.  Before is  *)
(* strict, so that none is on its way twice, and none of them is missing.  *)
SentBefore(x, y) == x.send < y.send /\ x.n < y.n
Before(x, y) ==
    \/ SentBefore(x, y)
    \/ x.send = y.send /\ Span[x.n] < Span[y.n]
    \/ x.send = y.send /\ Span[x.n] = Span[y.n] /\ x.n < y.n

OutInOrder ==
    /\ \A i, j \in DOMAIN printed :
            i < j /\ printed[i].bucket = printed[j].bucket => Before(printed[i], printed[j])
    /\ \A b \in Bucket : \A i, j \in DOMAIN buffered[b] : i < j => Before(buffered[b][i], buffered[b][j])
    /\ \A b \in Bucket : \A i \in DOMAIN printed, j \in DOMAIN buffered[b] :
            printed[i].bucket = b => Before(printed[i], buffered[b][j])
    /\ \A m \in printedNow :
            /\ \A i \in DOMAIN printed : printed[i].bucket = m.bucket => printed[i].n # m.n
            /\ \A i \in DOMAIN buffered[m.bucket] : buffered[m.bucket][i].n # m.n
            /\ \A o \in printedNow : o.bucket = m.bucket /\ o.n = m.n => o = m
LocalInOrder ==
    \A i, j \in DOMAIN local : i < j => Before(local[i].msgs[1], local[j].msgs[1])
ChannelInOrder ==
    /\ \A i, j \in DOMAIN queue : i < j /\ queue[i].bucket = queue[j].bucket =>
            \A k \in DOMAIN queue[i].msgs, l \in DOMAIN queue[j].msgs :
                SentBefore(queue[i].msgs[k], queue[j].msgs[l])
    /\ \A i \in DOMAIN queue : \A k, l \in DOMAIN queue[i].msgs :
            queue[i].msgs[k].send = queue[i].msgs[l].send
    /\ \A i \in DOMAIN queue : queue[i].type \notin {"Message", "Messages"} => queue[i].msgs = <<>>

OfBucket(S, b) == {m \in S : m.bucket = b}
Out(b) == OfBucket(Range(printed) \cup Range(buffered[b]) \cup printedNow, b)
InLine(b) == OfBucket({local[i].msgs[1] : i \in DOMAIN local}, b)
InChannel(b) == OfBucket(UNION {Range(queue[i].msgs) : i \in DOMAIN queue}, b)
OnTheWay(out, line, channel, lastSend, lastMsg) ==
    /\ \A x \in out, y \in line : Before(x, y)
    /\ \A x \in out \cup line, y \in channel : SentBefore(x, y)
    /\ \A x \in out \cup line \cup channel : x.send <= lastSend /\ x.n <= lastMsg
    /\ \A n \in 1..lastMsg : \E x \in out \cup line \cup channel : x.n = n
WayInv ==
    /\ OutInOrder /\ LocalInOrder /\ ChannelInOrder
    /\ \A b \in Bucket : OnTheWay(Out(b), InLine(b), InChannel(b), sends[b], sent[b])

(* A bucket's result is in the completed tasks of one worker, once it has  *)
(* been announced as done.                                                 *)
HasResult(b) == \E w \in Worker : \E i \in DOMAIN completed[w] : completed[w][i][1] = b
ResultsOK ==
    /\ \A w, v \in Worker : \A i \in DOMAIN completed[w], j \in DOMAIN completed[v] :
            completed[w][i][1] = completed[v][j][1] => w = v /\ i = j
    /\ \A b \in Bucket :
            done[b] \/ (\E i \in DOMAIN queue : queue[i].bucket = b /\ queue[i].type = "Done") => HasResult(b)
    /\ \A i \in DOMAIN taskq : ~HasResult(taskq[i])
    /\ \A w \in Worker : Holds(w) => ~HasResult(wbucket[w])
    /\ mpc \in {"handle", "drain", "reap", "join"} => \A b \in Bucket : merged[b] = 0
    /\ mpc \in {"rest", "returned", "emitted"} => \A b \in Bucket : merged[b] = 1

(* The main thread panics only because a worker did: neither the unwraps   *)
(* of the progress bars nor those of the joins can fail by themselves.     *)
PanicHasCause ==
    mpc = "panicked" => \E w \in Worker : wpc[w] \in {"panicking", "dead"}

(* The inductive invariant behind PanicHasCause.  In the channel the       *)
(* messages of a bucket about progress bars alternate, each Finish is of   *)
(* the bar reported before it, and the worker is where the last one says.  *)
LongType == {"ReportLongRunning", "FinishLongRunning"}
IsLong(m, b) == m.type \in LongType /\ m.bucket = b
NextLong(q, i, j, b) ==
    i < j /\ IsLong(q[i], b) /\ IsLong(q[j], b) /\ \A k \in (i + 1)..(j - 1) : ~IsLong(q[k], b)
FirstLong(q, i, b) == IsLong(q[i], b) /\ \A k \in 1..(i - 1) : ~IsLong(q[k], b)
LastLong(q, i, b) == IsLong(q[i], b) /\ \A k \in (i + 1)..Len(q) : ~IsLong(q[k], b)
NoLong(q, b) == \A i \in DOMAIN q : ~IsLong(q[i], b)
Alternates(m, n) == m.type # n.type /\ (n.type = "FinishLongRunning" => m.pid = n.pid)
LongsPaired ==
    /\ \A i \in DOMAIN queue : queue[i].type \in LongType => queue[i].pid \in Pid
    /\ \A b \in Bucket : \A i, j \in DOMAIN queue :
            NextLong(queue, i, j, b) => Alternates(queue[i], queue[j])
    /\ \A w \in Worker : wpc[w] # "verify" => wlong[w] = NoPid
    /\ \A w \in Worker : \A i \in DOMAIN queue :
            wpc[w] = "verify" /\ LastLong(queue, i, wbucket[w]) =>
                wlong[w] = IF queue[i].type = "ReportLongRunning" THEN queue[i].pid ELSE NoPid

(* The main thread has received the report of bucket b's bar p, and not    *)
(* yet its end.  Two buckets share a bar only beside an auxiliary one,     *)
(* which is never removed.                                                 *)
OpenBar(b, p) ==
    \/ \E i \in DOMAIN queue :
            FirstLong(queue, i, b) /\ queue[i].type = "FinishLongRunning" /\ queue[i].pid = p
    \/ /\ NoLong(queue, b)
       /\ \E w \in Worker : wpc[w] = "verify" /\ wbucket[w] = b /\ wlong[w] = p
BarsMatch ==
    \A p \in Pid :
        /\ bars[p].pb = "none" => bars[p].aux = "none"
        /\ bars[p].pb # "running" /\ bars[p].aux = "none" => \A b \in Bucket : ~OpenBar(b, p)
        /\ bars[p].pb = "running" /\ bars[p].aux = "none" =>
                \A b, c \in Bucket : OpenBar(b, p) /\ OpenBar(c, p) => b = c

SomePanic == \E w \in Worker : wpc[w] \in {"panicking", "dead"}
CalmInv ==
    /\ mpc # "panicked"
    /\ \A i \in DOMAIN queue : queue[i].type # "WorkerPanicked"
    /\ LongsPaired
    /\ BarsMatch
BarsInv == SomePanic \/ CalmInv

(* Under fair scheduling the main thread leaves its loop, whatever the     *)
(* workers do: no message is waited for that is not going to be sent.      *)
Terminates == <>MainStopped

(* A panic of a worker always ends the main thread's run as a panic.       *)
PanicSurfaces == (\E w \in Worker : wpc[w] = "panicking") ~> mpc = "panicked"

(* The printed diagnostics form one block per bucket: the pool implements  *)
(* the abstract report, a bucket's block being closed once it is done and  *)
(* all its buffered diagnostics are out.                                   *)
ClosedBuckets == {b \in Bucket : done[b] /\ buffered[b] = <<>>}
Reporting == INSTANCE BucketReport WITH out <- printed, open <- active, closed <- ClosedBuckets
OneBlockPerBucket == Reporting!ReportSpec

=============================================================================
