------------------------------ MODULE QueryOps ------------------------------
(***************************************************************************)
(* The operations of one strongly connected component of functions:        *)
(* FunctionOpGenerator in rust_verify/src/commands.rs and the loop over    *)
(* its operations in verify_bucket of rust_verify/src/verifier.rs.         *)
(*                                                                         *)
(* Operations come from a queue.  A query that fails puts a check of the   *)
(* recommends clauses at its front, one that times out under --profile     *)
(* puts a rerun at its back, and under --expand-errors a failing query     *)
(* starts a driver whose queries go before the queue.  Errors with a       *)
(* location are held back in diagnostics_to_report until a flush.          *)
(***************************************************************************)
EXTENDS Integers, Sequences, FiniteSets, SequencesExt

CONSTANTS
    Config,             \* components and options, see below
    MaxCmds,            \* bound: command lists in a query operation
    MaxExpanded         \* bound: queries of one run of the expand-errors driver

ASSUME OpsAssumption ==
    /\ {MaxCmds, MaxExpanded} \subseteq Nat
    /\ Config \subseteq [funs : Nat, profile : {"yes", "no"}, expand : {"yes", "no"}]

VARIABLES
    config,             \* functions in the component, --profile and --expand-errors
    checkRecommends,    \* the functions with the check_recommends attribute
    initial,            \* the operations handle_scc_component made, for reference
    queue,              \* current_queue
    pc,                 \* "loop", "query", "end", "failed" (an Err leaves) or "panic"
    op,                 \* the operation being run
    cmd,                \* the next of its command lists
    anyInvalid, anyTimedOut, idFailed,  \* any_invalid, any_timed_out, an assert id is known
    driver,             \* expand_errors_driver: "none", "active" or "done"
    expanded,           \* queries the driver has asked for since it started
    flushDue,           \* flush_diagnostics_to_report
    sink,               \* diagnostics_to_report: "held" while it is there, then "direct"
    held, out,          \* located errors held back, and reported; numbered as found
    found,              \* located errors found
    files,              \* profile files in the solver log directory
    ran,                \* operations of initial that were run, in order
    tally,              \* command lists counted, as verified or as an error
    panicked            \* which assertion failed, "no" if none

vars == <<config, checkRecommends, initial, queue, pc, op, cmd, anyInvalid, anyTimedOut, idFailed, driver,
          expanded, flushDue, sink, held, out, found, files, ran, tally, panicked>>

Fun == 1..config.funs
ContextKind == {"reqens", "axioms"}
ErrorKind == {"termination", "normal", "api"}
RecommendsKind == {"followup", "checked"}
NoOp == [kind |-> "none", fun |-> 0, cmds |-> 0, rerun |-> "no"]

Operation(kind, f, n) == [kind |-> kind, fun |-> f, cmds |-> n, rerun |-> "no"]

-----------------------------------------------------------------------------
(* handle_scc_component: the declarations of all functions, the queries,   *)
(* and at the end what may be assumed once the queries have been proved.   *)

Declarations == [f \in Fun |-> Operation("reqens", f, 0)]
Terminations(n) == [f \in Fun |-> Operation("termination", f, n[f])]
\* The functions with a body to check, in the order of the component: any of them.
Ascending ==
    {s \in UNION {[1..m -> Fun] : m \in 0..config.funs} : \A i, j \in DOMAIN s : i < j => s[i] < s[j]}
Bodies(exec, n) ==
    [i \in 1..(2 * Len(exec)) |->
        IF i % 2 = 1
        THEN Operation("normal", exec[(i + 1) \div 2], MaxCmds)
        ELSE Operation("api", exec[i \div 2], n[exec[i \div 2]])]
Axioms == [f \in Fun |-> Operation("axioms", f, 0)]

\* Mutant: the axioms come with the declarations.
SccOpsAxiomsFirst(exec, n) == Declarations \o Axioms \o Terminations(n) \o Bodies(exec, n)

SccOps(exec, n) == Declarations \o Terminations(n) \o Bodies(exec, n) \o Axioms

Init ==
    /\ config \in Config
    /\ checkRecommends \in SUBSET Fun
    /\ initial \in {SccOps(exec, n) : exec \in Ascending, n \in [Fun -> 0..1]}
    /\ queue = initial
    /\ pc = "loop"
    /\ op = NoOp
    /\ cmd = 1
    /\ anyInvalid = "no"
    /\ anyTimedOut = "no"
    /\ idFailed = "no"
    /\ driver = "none"
    /\ expanded = 0
    /\ flushDue = "no"
    /\ sink = "held"
    /\ held = <<>>
    /\ out = <<>>
    /\ found = 0
    /\ files = {}
    /\ ran = <<>>
    /\ tally = 0
    /\ panicked = "no"

\* Mutant: a flush reports what is held but leaves it there.
FlushedKeeps(due) ==
    /\ out' = IF due = "yes" THEN out \o held ELSE out
    /\ UNCHANGED <<held, sink>>

\* diagnostics_to_report.take(): from now on errors are reported directly.
Flushed(due) ==
    IF due = "yes"
    THEN out' = out \o held /\ held' = <<>> /\ sink' = "direct"
    ELSE UNCHANGED <<out, held, sink>>

Begin(o) ==
    /\ op' = o
    /\ cmd' = 1
    /\ anyInvalid' = "no"
    /\ anyTimedOut' = "no"
    /\ idFailed' = "no"
    /\ pc' = IF o.kind \in ContextKind THEN "loop" ELSE "query"
    /\ ran' = IF o.kind \in ContextKind \cup ErrorKind /\ o.rerun = "no" THEN Append(ran, o) ELSE ran

\* Mutant: an operation is taken from the queue while the driver has a query.
QueueBehindDriverPopped == IF queue = <<>> THEN queue ELSE Tail(queue)

\* The queue waits while the driver has queries.
QueueBehindDriver == queue

\* expand_errors_next returns a query.
NextExpanded ==
    /\ pc = "loop"
    /\ driver = "active"
    /\ Begin(Operation("expanded", op.fun, 1))
    /\ expanded' = expanded + 1
    /\ queue' = QueueBehindDriver
    /\ Flushed(flushDue)
    /\ UNCHANGED <<config, checkRecommends, initial, driver, flushDue, found, files, tally, panicked>>

\* The next operation of the queue; a driver that is done gives its output first.
\* Context operations are run here and now.
NextQueued ==
    /\ pc = "loop"
    /\ driver # "active"
    /\ queue # <<>>
    /\ Begin(Head(queue))
    /\ queue' = Tail(queue)
    /\ driver' = "none"
    /\ flushDue' = IF driver = "done" THEN "yes" ELSE flushDue
    /\ Flushed(flushDue')
    /\ UNCHANGED <<config, checkRecommends, initial, expanded, found, files, tally, panicked>>

LoopEnd ==
    /\ pc = "loop"
    /\ driver # "active"
    /\ queue = <<>>
    /\ driver' = "none"
    /\ flushDue' = "yes"
    /\ Flushed("yes")
    /\ pc' = "end"
    /\ UNCHANGED <<config, checkRecommends, initial, queue, op, cmd, anyInvalid, anyTimedOut, idFailed,
                   expanded, found, files, ran, tally, panicked>>

-----------------------------------------------------------------------------
(* Running the command lists of a query.                                   *)

\* What check_result_validity can come back with: nothing failed, an error with or
\* without a location, the resource limit, the limit after an error was located.
Outcome == {"pass", "located", "nowhere", "timeout", "locatedTimeout"}
IsLocated(r) == r \in {"located", "locatedTimeout"}
TimesOut(r) == r \in {"timeout", "locatedTimeout"}

\* Only a query at level Error counts, and a profile rerun has no level.
Counts == op.kind \in ErrorKind /\ op.rerun = "no"

Reports == op.kind # "expanded" /\ op.rerun = "no"

\* The name is made from the function, the number of the spinoff and two flags.
ProfileFile ==
    <<op.fun, cmd, op.kind \in RecommendsKind, op.kind = "expanded">>

\* A query without a profile file is rerun for its profile.
Profiles == config.profile = "yes" /\ op.rerun = "no"

\* retry_with_profile: the whole query again, at the back of the queue.
RetryWithProfile == Append(queue, [op EXCEPT !.rerun = "yes"])

\* check_result_validity holds an error back or reports it.
RecordError(r) ==
    IF IsLocated(r) /\ Reports
    THEN /\ found' = found + 1
         /\ held' = IF sink = "held" THEN Append(held, found + 1) ELSE held
         /\ out' = IF sink = "held" THEN out ELSE Append(out, found + 1)
    ELSE UNCHANGED <<found, held, out>>

RunCommands(r) ==
    /\ pc = "query"
    /\ cmd <= op.cmds
    /\ op.rerun = "yes" => ProfileFile \notin files
    /\ tally' = IF Counts THEN tally + 1 ELSE tally
    /\ anyInvalid' = IF r # "pass" /\ (Counts \/ op.kind = "expanded") THEN "yes" ELSE anyInvalid
    /\ anyTimedOut' = IF TimesOut(r) THEN "yes" ELSE anyTimedOut
    /\ idFailed' \in IF IsLocated(r) THEN {"yes", idFailed} ELSE {idFailed}
    /\ RecordError(r)
    /\ cmd' = cmd + 1
    /\ files' = IF op.rerun = "yes" THEN files \cup {ProfileFile} ELSE files
    /\ \/ TimesOut(r) /\ Profiles /\ queue' = RetryWithProfile /\ flushDue' = "yes"
       \/ ~(TimesOut(r) /\ Profiles) /\ UNCHANGED <<queue, flushDue>>
    /\ UNCHANGED <<config, checkRecommends, initial, pc, op, driver, expanded, sink, ran, panicked>>

\* assert!(!profile_file_name.exists())
ProfileFileExists ==
    /\ pc = "query"
    /\ cmd <= op.cmds
    /\ op.rerun = "yes"
    /\ ProfileFile \in files
    /\ pc' = "panic"
    /\ panicked' = "profile file"
    /\ UNCHANGED <<config, checkRecommends, initial, queue, op, cmd, anyInvalid, anyTimedOut, idFailed,
                   driver, expanded, flushDue, sink, held, out, found, files, ran, tally>>

\* Mutant: a check of the recommends clauses is followed by another.
WantsRecommendsAlways ==
    (anyInvalid = "yes" /\ anyTimedOut = "no") \/ op.fun \in checkRecommends

\* Whether the recommends clauses are checked after this query.
WantsRecommends ==
    /\ op.kind \in {"normal", "termination"}
    /\ (anyInvalid = "yes" /\ anyTimedOut = "no") \/ op.fun \in checkRecommends

\* A log file of a spinoff, or the recommends check, cannot be made: verify_bucket
\* returns the error and drops diagnostics_to_report, which panics if it was not taken.
Fails ==
    /\ pc = "query"
    /\ cmd <= op.cmds \/ WantsRecommends
    /\ pc' = IF sink = "held" THEN "panic" ELSE "failed"
    /\ panicked' = IF sink = "held" THEN "dropped" ELSE panicked
    /\ UNCHANGED <<config, checkRecommends, initial, queue, op, cmd, anyInvalid, anyTimedOut, idFailed,
                   driver, expanded, flushDue, sink, held, out, found, files, ran, tally>>

\* The callback of a query that runs for two seconds.
LongRunning ==
    /\ pc = "query"
    /\ cmd <= op.cmds
    /\ sink = "held"
    /\ Flushed("yes")
    /\ UNCHANGED <<config, checkRecommends, initial, queue, pc, op, cmd, anyInvalid, anyTimedOut,
                   idFailed, driver, expanded, flushDue, found, files, ran, tally, panicked>>

-----------------------------------------------------------------------------
(* After the last of the command lists.                                    *)

Recommends(n) == Operation(IF anyInvalid = "yes" THEN "followup" ELSE "checked", op.fun, n)

\* retry_with_recommends: at the front of the queue, if the function has such a check;
\* n leaves out the command lists that skip_recommends skips.
RetryWithRecommends(n) == IF n = 0 THEN queue ELSE <<Recommends(n)>> \o queue

StartsExpand ==
    op.kind = "normal" /\ anyInvalid = "yes" /\ config.expand = "yes" /\ idFailed = "yes"

\* What report leaves the driver with: another query, or its output.
Reported(next) == next = "active" => expanded < MaxExpanded

EndQuery(n, next) ==
    /\ pc = "query"
    /\ cmd > op.cmds
    /\ op.kind # "expanded"
    /\ queue' = IF WantsRecommends THEN RetryWithRecommends(n) ELSE queue
    /\ \/ StartsExpand /\ driver' = next /\ expanded' = 0 /\ flushDue' = "yes"
       \/ ~StartsExpand /\ UNCHANGED <<driver, expanded, flushDue>>
    /\ pc' = "loop"
    /\ UNCHANGED <<config, checkRecommends, initial, op, cmd, anyInvalid, anyTimedOut, idFailed, sink,
                   held, out, found, files, ran, tally, panicked>>

\* report_expand_error_result
EndExpanded(next) ==
    /\ pc = "query"
    /\ cmd > op.cmds
    /\ op.kind = "expanded"
    /\ driver = "active"
    /\ Reported(next)
    /\ driver' = next
    /\ pc' = "loop"
    /\ UNCHANGED <<config, checkRecommends, initial, queue, op, cmd, anyInvalid, anyTimedOut, idFailed,
                   expanded, flushDue, sink, held, out, found, files, ran, tally, panicked>>

\* "report_expand_error_result expected driver"
NoDriver ==
    /\ pc = "query"
    /\ cmd > op.cmds
    /\ op.kind = "expanded"
    /\ driver # "active"
    /\ pc' = "panic"
    /\ panicked' = "no driver"
    /\ UNCHANGED <<config, checkRecommends, initial, queue, op, cmd, anyInvalid, anyTimedOut, idFailed,
                   driver, expanded, flushDue, sink, held, out, found, files, ran, tally>>

Next ==
    \/ NextExpanded \/ NextQueued \/ LoopEnd
    \/ \E r \in Outcome : RunCommands(r)
    \/ ProfileFileExists \/ Fails \/ LongRunning
    \/ \E n \in 0..1, next \in {"active", "done"} : EndQuery(n, next)
    \/ \E next \in {"active", "done"} : EndExpanded(next)
    \/ NoDriver

Spec == Init /\ [][Next]_vars

\* The loop runs in one thread and every query comes back from its solver.
LiveSpec == Spec /\ WF_vars(Next)

-----------------------------------------------------------------------------
(* No query whose verdict counts runs once an axiom of its own component is *)
(* in the context, whatever was put at either end of the queue: the axioms  *)
(* are only sound after the obligations have been satisfied.                *)
AxiomsAfterObligations ==
    pc = "query" /\ op.kind \in ErrorKind /\ op.rerun = "no" =>
        \A i \in 1..Len(ran) : ran[i].kind # "axioms"

\* The operations whose queries are at level Error.
Obligations == {i \in 1..Len(initial) : initial[i].kind \in ErrorKind}

(* The operations of the component are run once each and in their order:    *)
(* retries, reruns and the driver neither drop nor repeat one, and each     *)
(* command list of a query at level Error is counted once.                  *)
NothingLost ==
    /\ IsPrefix(ran, initial)
    /\ pc = "end" => ran = initial
    /\ pc = "end" =>
        tally = Cardinality(UNION {{i} \X (1..initial[i].cmds) : i \in Obligations})

(* Errors come out once each and in the order in which they were found, and *)
(* none is left in diagnostics_to_report, which panics when it is dropped.  *)
NoErrorLost ==
    /\ out \o held = [i \in 1..found |-> i]
    /\ sink = "direct" => held = <<>>
    /\ pc = "end" => sink = "direct"

(* A rerun for a profile runs like its query: it finds neither the profile  *)
(* file of another rerun nor a driver that is gone.                         *)
ProfileRerunRuns == panicked \notin {"profile file", "no driver"}

(* The errors held back are taken before they are dropped, on every way out *)
(* of the loop: an error of the system is reported, not turned into a panic.*)
(* Fails does turn it into one: no run checks this, see the README.         *)
HeldTaken == panicked # "dropped"

(* The retries come to an end.                                              *)
ComponentEnds == <>(pc \in {"end", "failed", "panic"})

-----------------------------------------------------------------------------
(* The inductive invariant behind the theorems of QueryOpsProofs.          *)

Op ==
    [kind : ContextKind \cup ErrorKind \cup RecommendsKind \cup {"expanded", "none"},
     fun : Nat, cmds : Nat, rerun : {"yes", "no"}]

TypeOK ==
    /\ initial \in Seq(Op) /\ queue \in Seq(Op) /\ ran \in Seq(Op) /\ op \in Op
    /\ pc \in {"loop", "query", "end", "failed", "panic"}
    /\ cmd \in Nat \ {0}
    /\ sink \in {"held", "direct"}
    /\ held \in Seq(Nat) /\ out \in Seq(Nat) /\ found \in Nat
    /\ tally \in Nat

(* handle_scc_component puts the axioms behind everything else.             *)
AxiomsLast ==
    /\ \A i \in 1..Len(initial) : initial[i].kind \in ContextKind \cup ErrorKind /\ initial[i].rerun = "no"
    /\ \A i, j \in 1..Len(initial) : i < j /\ initial[i].kind = "axioms" => initial[j].kind = "axioms"

(* The queue is at most one check of recommends clauses, the operations of  *)
(* the component that have not been run, and reruns for profiles.           *)
IsRetry(o) == o.kind \in RecommendsKind /\ o.rerun = "no"
Ahead == IF queue # <<>> /\ IsRetry(queue[1]) THEN 1 ELSE 0
Left == Len(initial) - Len(ran)
QueueOK ==
    /\ Len(ran) <= Len(initial)
    /\ \A i \in 1..Len(ran) : ran[i] = initial[i]
    /\ Ahead + Left <= Len(queue)
    /\ \A i \in 1..Left : queue[Ahead + i] = initial[Len(ran) + i]
    /\ \A i \in (Ahead + Left + 1)..Len(queue) : queue[i].rerun = "yes"
    /\ pc = "query" /\ op.kind # "expanded" => Ahead = 0
    /\ pc = "end" => queue = <<>>

(* The query being run is at level Error only if it is the operation that   *)
(* was run last, and the command lists counted are those of the operations  *)
(* before it and of its own up to cmd.                                      *)
Counting == pc = "query" /\ Counts
CountedOfLast == IF Counting THEN cmd - 1 ELSE ran[Len(ran)].cmds
CountedLists(r, last) ==
    UNION {{i} \X (1..(IF i = Len(r) THEN last ELSE r[i].cmds)) :
               i \in {j \in 1..Len(r) : r[j].kind \in ErrorKind}}
TallyOK ==
    /\ Counting => ran # <<>> /\ ran[Len(ran)] = op
    /\ pc = "query" => op.kind \notin ContextKind /\ cmd <= op.cmds + 1
    /\ pc \in {"loop", "query", "end"} =>
        LET counted == CountedLists(ran, CountedOfLast)
        IN  IsFiniteSet(counted) /\ tally = Cardinality(counted)

OpsInv == TypeOK /\ AxiomsLast /\ QueueOK /\ TallyOK /\ NoErrorLost
=============================================================================
