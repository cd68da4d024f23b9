----------------------------- MODULE SmtProcess -----------------------------
(***************************************************************************)
(* air/src/smt_process.rs: one SmtProcess, its writer and reader threads,  *)
(* the two pipes to the solver and the solver itself.                      *)
(*                                                                         *)
(* The thread that owns the SmtProcess ("main" here) puts a request on the *)
(* requests channel, hands the solver's stdout to the reader thread and    *)
(* waits for the lines that thread collects up to the DONE the writer asks *)
(* the solver to echo.  A request is what matters of its text: how many    *)
(* commands it holds.  The pipes are bounded and block when full.  The     *)
(* solver is external: it reads commands, prints lines for each, dies when *)
(* its stdout is gone, exits at end of input, and may crash at any point.  *)
(***************************************************************************)
EXTENDS Naturals, Sequences

CONSTANTS
    MaxReq,     \* bound: requests sent
    MaxCmds,    \* bound: commands in one request
    MaxOut,     \* bound: lines the solver prints for one request, without DONE
    InCap,      \* what the pipe to the solver's stdin holds
    OutCap      \* what the pipe from its stdout holds

ASSUME SmtBoundsAssumption == {MaxReq, MaxCmds, MaxOut} \subseteq Nat
ASSUME SmtPipesAssumption == {InCap, OutCap} \subseteq Nat \ {0}

VARIABLES
    main,       \* where the owner of the SmtProcess is
    fate,       \* "ok", or "panic" once it unwinds from a panic
    cur,        \* the number of requests sent so far; the last one is current
    answer,     \* the lines returned for the last request answered
    requests,   \* the requests channel, as the number of commands of each
    sender,     \* self.requests: "some", or "none" when Drop has taken it
    wpc,        \* where the writer thread is
    wleft,      \* what it has still to write of the request it took
    stdin,      \* the pipe to the solver
    solver,     \* "running" or "dead"
    work,       \* what the solver is executing
    stdout,     \* the pipe from the solver
    buf,        \* who holds the BufReader over the solver's stdout
    rpc,        \* where the reader thread is
    got,        \* the lines the reader has collected
    blanks,     \* empty_lines
    responses,  \* the responses channel
    printed,    \* history: what the solver printed since the last send
    cause       \* history: the last thing that happened that may end in a panic

mainVars == <<main, fate, cur, answer>>
chanVars == <<requests, sender, responses>>
writerVars == <<wpc, wleft>>
solverVars == <<solver, work>>
readerVars == <<rpc, got, blanks>>
vars == <<mainVars, chanVars, writerVars, stdin, solverVars, stdout, buf,
          readerVars, printed, cause>>

-----------------------------------------------------------------------------
\* A command writes any lines, some of them blank; the echo writes DONE.
Token == {"cmd", "echo", "newline"}
Line == {"text", "blank", "DONE"}

Init ==
    /\ main = "idle"
    /\ fate = "ok"
    /\ cur = 0
    /\ answer = <<>>
    /\ requests = <<>>
    /\ sender = "some"
    /\ wpc = "recv"
    /\ wleft = <<>>
    /\ stdin = <<>>
    /\ solver = "running"
    /\ work = "none"
    /\ stdout = <<>>
    /\ buf = "main"
    /\ rpc = "recv"
    /\ got = <<>>
    /\ blanks = 0
    /\ responses = <<>>
    /\ printed = <<>>
    /\ cause = "none"

-----------------------------------------------------------------------------
\* The owner of the SmtProcess.

\* send_commands_async, first half: the request goes to the writer thread.
Send(n) ==
    /\ main = "idle"
    /\ cur < MaxReq
    /\ wpc # "panicked"
    /\ requests' = Append(requests, n)
    /\ cur' = cur + 1
    /\ main' = "sent"
    /\ printed' = <<>>
    /\ UNCHANGED <<fate, answer, sender, responses, writerVars, stdin, solverVars,
                   stdout, buf, readerVars, cause>>

\* Unwinding from a panic drops the SmtProcess: the sender goes first.
Unwind ==
    /\ fate' = "panic"
    /\ main' = "joining"
    /\ sender' = "none"

\* The send fails when the writer thread is gone, and its expect panics.
SendFails ==
    /\ main = "idle"
    /\ cur < MaxReq
    /\ wpc = "panicked"
    /\ Unwind
    /\ UNCHANGED <<cur, answer, requests, responses, writerVars, stdin, solverVars,
                   stdout, buf, readerVars, printed, cause>>

\* Mutant: the reader starts only when the whole request has been written.
SendReadWhenWritten ==
    /\ main = "sent"
    /\ wpc = "recv" /\ requests = <<>>
    /\ main' = "waiting"
    /\ buf' = "queued"
    /\ UNCHANGED <<fate, cur, answer, chanVars, writerVars, stdin, solverVars,
                   stdout, readerVars, printed, cause>>

\* send_commands_async, second half: the reader thread gets the BufReader.
SendRead ==
    /\ main = "sent"
    /\ main' = "waiting"
    /\ buf' = "queued"
    /\ UNCHANGED <<fate, cur, answer, chanVars, writerVars, stdin, solverVars,
                   stdout, readerVars, printed, cause>>

\* wait, or wait_timeout in time: the BufReader comes back with the lines.
Receive ==
    /\ main \in {"waiting", "late"}
    /\ responses # <<>>
    /\ answer' = Head(responses)
    /\ responses' = Tail(responses)
    /\ buf' = "main"
    /\ main' = "idle"
    /\ UNCHANGED <<fate, cur, requests, sender, writerVars, stdin, solverVars,
                   stdout, readerVars, printed, cause>>

\* wait_timeout returns the handle; the caller reports and waits again.
Timeout ==
    /\ main = "waiting"
    /\ responses = <<>>
    /\ main' = "late"
    /\ UNCHANGED <<fate, cur, answer, chanVars, writerVars, stdin, solverVars,
                   stdout, buf, readerVars, printed, cause>>

\* Reporting that the query runs long panics when nobody receives reports.
ReportPanics ==
    /\ main = "late"
    /\ Unwind
    /\ cause' = "report"
    /\ UNCHANGED <<cur, answer, requests, responses, writerVars, stdin, solverVars,
                   stdout, buf, readerVars, printed>>

\* recv and recv_timeout find the responses channel without a sender.
ReceiveFails ==
    /\ main \in {"waiting", "late"}
    /\ responses = <<>>
    /\ rpc = "panicked"
    /\ Unwind
    /\ UNCHANGED <<cur, answer, requests, responses, writerVars, stdin, solverVars,
                   stdout, buf, readerVars, printed, cause>>

\* Mutant: the child is waited for with the requests channel still open.
DropKeepsSender ==
    /\ main = "idle"
    /\ main' = "joining"
    /\ UNCHANGED <<fate, cur, answer, chanVars, writerVars, stdin, solverVars,
                   stdout, buf, readerVars, printed, cause>>

\* Drop for SmtProcess closes the requests channel ...
Drop ==
    /\ main = "idle"
    /\ main' = "joining"
    /\ sender' = "none"
    /\ UNCHANGED <<fate, cur, answer, requests, responses, writerVars, stdin,
                   solverVars, stdout, buf, readerVars, printed, cause>>

\* ... and waits for the child; the other fields are dropped after that.
Joined ==
    /\ main = "joining"
    /\ solver = "dead"
    /\ main' = "gone"
    /\ buf' = IF buf = "main" THEN "closed" ELSE buf
    /\ UNCHANGED <<fate, cur, answer, chanVars, writerVars, stdin, solverVars,
                   stdout, readerVars, printed, cause>>

-----------------------------------------------------------------------------
\* Mutant: DONE is asked for before the commands.
EncodedEchoFirst(n) == [i \in 1..(n + 2) |->
    IF i = 1 THEN "echo" ELSE IF i <= n + 1 THEN "cmd" ELSE "newline"]

\* The writer thread.  writeln! writes the echo command and the newline after
\* it in separate system calls.
Encoded(n) == [i \in 1..(n + 2) |->
    IF i <= n THEN "cmd" ELSE IF i = n + 1 THEN "echo" ELSE "newline"]

WriterRecv ==
    /\ wpc = "recv"
    /\ requests # <<>>
    /\ wleft' = Encoded(Head(requests))
    /\ requests' = Tail(requests)
    /\ wpc' = "write"
    /\ UNCHANGED <<mainVars, sender, responses, stdin, solverVars, stdout, buf,
                   readerVars, printed, cause>>

Write ==
    /\ wpc = "write"
    /\ solver = "running"
    /\ Len(stdin) < InCap
    /\ stdin' = Append(stdin, Head(wleft))
    /\ wleft' = Tail(wleft)
    /\ wpc' = IF Tail(wleft) = <<>> THEN "recv" ELSE "write"
    /\ UNCHANGED <<mainVars, chanVars, solverVars, stdout, buf, readerVars, printed,
                   cause>>

\* The pipe is broken: the thread panics and its receiver is dropped.
WriteFails ==
    /\ wpc = "write"
    /\ solver = "dead"
    /\ wpc' = "panicked"
    /\ wleft' = <<>>
    /\ requests' = <<>>
    /\ UNCHANGED <<mainVars, sender, responses, stdin, solverVars, stdout,
                   buf, readerVars, printed, cause>>

WriterExit ==
    /\ wpc = "recv"
    /\ requests = <<>>
    /\ sender = "none"
    /\ wpc' = "exited"
    /\ UNCHANGED <<mainVars, chanVars, wleft, stdin, solverVars, stdout, buf,
                   readerVars, printed, cause>>

-----------------------------------------------------------------------------
\* The solver process.
SolverRead ==
    /\ solver = "running"
    /\ work = "none"
    /\ stdin # <<>>
    /\ work' = IF Head(stdin) = "newline" THEN "none" ELSE Head(stdin)
    /\ stdin' = Tail(stdin)
    /\ UNCHANGED <<mainVars, chanVars, writerVars, solver, stdout, buf, readerVars,
                   printed, cause>>

EmitLine(l) ==
    /\ buf # "closed"
    /\ Len(stdout) < OutCap
    /\ stdout' = Append(stdout, l)
    /\ printed' = Append(printed, l)

\* A command has one more line to print: until there is room for it in the
\* pipe the solver does not go on.
SolverLine ==
    /\ solver = "running"
    /\ work = "cmd"
    /\ Len(printed) < MaxOut
    /\ work' = "line"
    /\ UNCHANGED <<mainVars, chanVars, writerVars, stdin, solver, stdout, buf,
                   readerVars, printed, cause>>

SolverPrint(l) ==
    /\ solver = "running"
    /\ work = "line"
    /\ EmitLine(l)
    /\ work' = "cmd"
    /\ UNCHANGED <<mainVars, chanVars, writerVars, stdin, solver, buf, readerVars,
                   cause>>

SolverFinish ==
    /\ solver = "running"
    /\ work = "cmd"
    /\ work' = "none"
    /\ UNCHANGED <<mainVars, chanVars, writerVars, stdin, solver, stdout, buf,
                   readerVars, printed, cause>>

SolverEcho ==
    /\ solver = "running"
    /\ work = "echo"
    /\ EmitLine("DONE")
    /\ work' = "none"
    /\ UNCHANGED <<mainVars, chanVars, writerVars, stdin, solver, buf, readerVars,
                   cause>>

Dead ==
    /\ solver' = "dead"
    /\ work' = "none"
    /\ stdin' = <<>>
    /\ UNCHANGED <<mainVars, chanVars, writerVars, stdout, buf, readerVars, printed>>

\* Writing to a pipe that nobody reads ends the process.
SolverBrokenPipe ==
    /\ solver = "running"
    /\ work # "none"
    /\ buf = "closed"
    /\ Dead
    /\ UNCHANGED cause

\* End of input: the writer has dropped the pipe.
SolverEof ==
    /\ solver = "running"
    /\ work = "none"
    /\ stdin = <<>>
    /\ wpc \in {"exited", "panicked"}
    /\ Dead
    /\ UNCHANGED cause

SolverCrash ==
    /\ solver = "running"
    /\ Dead
    /\ cause' = "crash"

-----------------------------------------------------------------------------
\* The reader thread.
ReaderRecv ==
    /\ rpc = "recv"
    /\ buf = "queued"
    /\ buf' = "reader"
    /\ rpc' = "read"
    /\ got' = <<>>
    /\ blanks' = 0
    /\ UNCHANGED <<mainVars, chanVars, writerVars, stdin, solverVars, stdout, printed,
                   cause>>

ReaderPanic ==
    /\ rpc' = "panicked"
    /\ buf' = "closed"

\* An empty line, or the empty string read_line leaves at end of file.
ReadEmpty(why) ==
    /\ blanks' = blanks + 1
    /\ \/ /\ blanks < 2
          /\ got' = Append(got, "blank")
          /\ UNCHANGED <<rpc, buf, cause>>
       \/ /\ blanks = 2
          /\ ReaderPanic
          /\ cause' = why
          /\ UNCHANGED got
    /\ UNCHANGED responses

ReadText ==
    /\ blanks' = 0
    /\ got' = Append(got, "text")
    /\ UNCHANGED <<rpc, buf, cause, responses>>

\* DONE ends the answer; the send fails when the handle has been dropped.
ReadDone ==
    /\ blanks' = 0
    /\ \/ /\ main \in {"waiting", "late"}
          /\ responses' = Append(responses, got)
          /\ rpc' = "recv"
          /\ buf' = "answered"
       \/ /\ main \in {"joining", "gone"}
          /\ ReaderPanic
          /\ UNCHANGED responses
    /\ UNCHANGED <<got, cause>>

\* Mutant: an empty line ends the answer as well.
ReadLineToEmpty ==
    /\ rpc = "read"
    /\ stdout # <<>>
    /\ stdout' = Tail(stdout)
    /\ \/ Head(stdout) = "text"  /\ ReadText
       \/ Head(stdout) # "text"  /\ ReadDone
    /\ UNCHANGED <<mainVars, requests, sender, writerVars, stdin, solverVars, printed>>

ReadLine ==
    /\ rpc = "read"
    /\ stdout # <<>>
    /\ stdout' = Tail(stdout)
    /\ \/ Head(stdout) = "text"  /\ ReadText
       \/ Head(stdout) = "blank" /\ ReadEmpty("blank lines")
       \/ Head(stdout) = "DONE"  /\ ReadDone
    /\ UNCHANGED <<mainVars, requests, sender, writerVars, stdin, solverVars, printed>>

\* Mutant: a pipe that is empty for now is taken to be at its end.
ReadEofEarly ==
    /\ rpc = "read"
    /\ stdout = <<>>
    /\ ReadEmpty(cause)
    /\ UNCHANGED <<mainVars, requests, sender, writerVars, stdin, solverVars, stdout,
                   printed>>

ReadEof ==
    /\ rpc = "read"
    /\ stdout = <<>>
    /\ solver = "dead"
    /\ ReadEmpty(cause)
    /\ UNCHANGED <<mainVars, requests, sender, writerVars, stdin, solverVars, stdout,
                   printed>>

\* recv_requests is dropped with the other fields of the SmtProcess.
ReaderExit ==
    /\ rpc = "recv"
    /\ main = "gone"
    /\ buf # "queued"
    /\ rpc' = "exited"
    /\ UNCHANGED <<mainVars, chanVars, writerVars, stdin, solverVars, stdout, buf, got,
                   blanks, printed, cause>>

-----------------------------------------------------------------------------
MainStep ==
    \/ \E n \in 1..MaxCmds : Send(n)
    \/ SendFails \/ SendRead \/ Receive \/ Timeout \/ ReportPanics \/ ReceiveFails
    \/ Drop \/ Joined

WriterStep == WriterRecv \/ Write \/ WriteFails \/ WriterExit

SolverStep ==
    \/ SolverRead
    \/ SolverLine
    \/ \E l \in {"text", "blank"} : SolverPrint(l)
    \/ SolverFinish \/ SolverEcho \/ SolverBrokenPipe \/ SolverEof

ReaderStep == ReaderRecv \/ ReadLine \/ ReadEof \/ ReaderExit

Next == MainStep \/ WriterStep \/ SolverStep \/ SolverCrash \/ ReaderStep

Spec == Init /\ [][Next]_vars

\* The threads are scheduled fairly, and so is the solver, which does not stay
\* in one command for ever: every check-sat runs under an rlimit, and an answer
\* has at most MaxOut lines.
FairSpec ==
    /\ Spec
    /\ WF_vars(SendRead \/ Receive \/ ReceiveFails \/ Joined)
    /\ WF_vars(WriterStep)
    /\ WF_vars(SolverStep)
    /\ WF_vars(ReaderStep)

-----------------------------------------------------------------------------
MainPc == {"idle", "sent", "waiting", "late", "joining", "gone"}
WriterPc == {"recv", "write", "exited", "panicked"}
ReaderPc == {"recv", "read", "exited", "panicked"}
Holder == {"main", "queued", "reader", "answered", "closed"}
Cause == {"none", "crash", "blank lines", "report"}

MainTypeOK ==
    /\ main \in MainPc
    /\ fate \in {"ok", "panic"}
    /\ cur \in Nat
    /\ sender \in {"some", "none"}
    /\ cause \in Cause

ThreadTypeOK ==
    /\ wpc \in WriterPc
    /\ solver \in {"running", "dead"}
    /\ work \in {"none", "cmd", "line", "echo"}
    /\ buf \in Holder
    /\ rpc \in ReaderPc
    /\ blanks \in 0..3

InputTypeOK ==
    /\ requests \in Seq(Nat)
    /\ wleft \in Seq(Token)
    /\ wpc = "write" => wleft # <<>>
    /\ stdin \in Seq(Token)
    /\ Len(stdin) <= InCap

OutputTypeOK ==
    /\ stdout \in Seq(Line)
    /\ Len(stdout) <= OutCap
    /\ got \in Seq(Line)
    /\ responses \in Seq(Seq(Line))
    /\ answer \in Seq(Line)
    /\ printed \in Seq(Line)

\* Type invariant of the process, its threads, channels and pipes: no pipe
\* holds more than it can, and a thread that is writing has bytes left.
TypeOK == MainTypeOK /\ ThreadTypeOK /\ InputTypeOK /\ OutputTypeOK

\* Requests and answers stay paired: the lines send_commands returns are all
\* the lines the solver printed for this very request, and only those,
\* whatever the threads did in between and however the pipes filled up.
AnswersPaired ==
    main = "idle" /\ cur > 0 => printed = Append(answer, "DONE")

\* Nothing in s makes the solver print.
OnlyNewlines(s) == \A i \in 1..Len(s) : s[i] = "newline"

\* Between two requests both pipes are drained: no command that could still
\* print is in the pipe or left with the writer, the solver is not executing
\* one, and no line of an earlier answer waits to be taken for a later one.
QuietBetweenRequests ==
    main = "idle" =>
        /\ stdout = <<>> /\ responses = <<>> /\ requests = <<>>
        /\ work = "none"
        /\ OnlyNewlines(wleft) /\ OnlyNewlines(stdin)

\* The expect on recv_requests.send cannot fail and its BufReader is there to
\* send: a reader thread that has panicked has taken its owner down with it.
ReaderAvailable ==
    main \in {"idle", "sent"} => rpc = "recv" /\ buf = "main"

\* The owner panics only because the solver died, printed three blank lines
\* in a row, or nobody received its reports; never for an interleaving.
PanicExplained ==
    fate = "panic" => cause # "none"

-----------------------------------------------------------------------------
\* The inductive invariant behind the theorems of SmtProcessProofs.

\* An echo is the last thing of a request that makes the solver print.
EchoLast(s) == \A i, j \in 1..Len(s) : s[i] = "echo" /\ i < j => s[j] = "newline"
HasEcho(s) == \E i \in 1..Len(s) : s[i] = "echo"
NothingToRun == OnlyNewlines(wleft) /\ OnlyNewlines(stdin) /\ work = "none"

\* How far the current request has come on its way into the solver.
CommandsInOrder ==
    /\ EchoLast(wleft) /\ EchoLast(stdin)
    /\ HasEcho(stdin) => OnlyNewlines(wleft)
    /\ work = "echo" => OnlyNewlines(stdin) /\ OnlyNewlines(wleft)
    /\ requests # <<>> => NothingToRun /\ Len(requests) = 1 /\ printed = <<>>

\* DONE is the last line printed for a request, after its last command.
HasDone(s) == \E i \in 1..Len(s) : s[i] = "DONE"
OnlyLastDone(s) == \A i \in 1..Len(s) : s[i] = "DONE" => i = Len(s)
DoneIsLast ==
    /\ OnlyLastDone(printed)
    /\ HasDone(printed) => NothingToRun /\ requests = <<>>

\* The lines printed for a request are where the BufReader is.
LinesInOrder ==
    /\ main = "idle" =>
        /\ NothingToRun /\ requests = <<>> /\ stdout = <<>>
        /\ cur > 0 => printed = Append(answer, "DONE")
    /\ main \in {"idle", "sent"} => rpc = "recv" /\ buf = "main" /\ responses = <<>>
    /\ main = "sent" => stdout = printed
    /\ main \in {"waiting", "late"} =>
        \/ buf = "queued" /\ rpc = "recv" /\ responses = <<>> /\ stdout = printed
        \/ /\ buf = "reader" /\ rpc = "read" /\ responses = <<>>
           /\ printed = got \o stdout \/ (solver = "dead" /\ stdout = <<>>)
        \/ /\ buf = "answered" /\ rpc = "recv" /\ Len(responses) = 1 /\ stdout = <<>>
           /\ printed = Append(responses[1], "DONE")
        \/ buf = "closed" /\ rpc = "panicked" /\ responses = <<>>

\* What the threads and the solver die of.
DeathExplained ==
    /\ sender = "none" <=> main \in {"joining", "gone"}
    /\ wpc = "exited" => sender = "none"
    /\ buf = "closed" => rpc = "panicked" \/ main = "gone"
    /\ rpc = "panicked" \/ wpc = "panicked" \/ solver = "dead" => cause # "none" \/ sender = "none"
    /\ fate = "panic" => cause # "none"

SmtInv == TypeOK /\ CommandsInOrder /\ DoneIsLast /\ LinesInOrder /\ DeathExplained

-----------------------------------------------------------------------------
\* No request hangs: it is answered or ends in a panic, although the solver
\* may die at any point and both pipes may be full.
RequestEnds ==
    main \in {"sent", "waiting", "late"} ~> (main = "idle" \/ fate = "panic")

\* Dropping the SmtProcess always terminates, while unwinding too: the child
\* exits, and then the writer and the reader thread do.
DropEnds ==
    main = "joining" ~>
        /\ main = "gone"
        /\ wpc \in {"exited", "panicked"}
        /\ rpc \in {"exited", "panicked"}
=============================================================================
