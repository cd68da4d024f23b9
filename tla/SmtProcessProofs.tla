-------------------------- MODULE SmtProcessProofs --------------------------
(* The safety properties of the SMT process, for every number of requests,  *)
(* commands and lines and every capacity of the pipes.                      *)
EXTENDS SmtProcess, SequenceTheorems, TLAPS

(* What the encoding of a request and the pipes' operations keep in order.  *)
LEMMA EmptyOK == OnlyNewlines(<<>>) /\ EchoLast(<<>>) /\ ~HasEcho(<<>>)
                 /\ ~HasDone(<<>>) /\ OnlyLastDone(<<>>)
  BY DEF OnlyNewlines, EchoLast, HasEcho, HasDone, OnlyLastDone

LEMMA TailOK ==
    \A s \in Seq(Token) : s # <<>> =>
        /\ OnlyNewlines(s) => OnlyNewlines(Tail(s)) /\ Head(s) = "newline"
        /\ EchoLast(s) => EchoLast(Tail(s))
        /\ HasEcho(Tail(s)) => HasEcho(s)
        /\ Head(s) = "echo" => HasEcho(s)
        /\ EchoLast(s) /\ Head(s) = "echo" => OnlyNewlines(Tail(s))
  BY DEF OnlyNewlines, EchoLast, HasEcho

LEMMA AppendOK ==
    \A s \in Seq(Token) : \A e \in Token :
        /\ OnlyNewlines(s) /\ e = "newline" => OnlyNewlines(Append(s, e))
        /\ OnlyNewlines(s) => EchoLast(s) /\ ~HasEcho(s)
        /\ EchoLast(s) /\ (e = "newline" \/ ~HasEcho(s)) => EchoLast(Append(s, e))
        /\ HasEcho(Append(s, e)) => HasEcho(s) \/ e = "echo"
  BY DEF OnlyNewlines, EchoLast, HasEcho

LEMMA EncodedOK ==
    \A n \in Nat : /\ Encoded(n) \in Seq(Token) /\ Encoded(n) # <<>>
                   /\ EchoLast(Encoded(n))
  BY DEF Encoded, EchoLast, Token

LEMMA DoneOK ==
    \A s \in Seq(Line) : \A l \in Line :
        /\ ~HasDone(s) => OnlyLastDone(Append(s, l))
        /\ HasDone(Append(s, l)) => HasDone(s) \/ l = "DONE"
  BY DEF HasDone, OnlyLastDone, Line

(* Types of what goes through channels and pipes. *)
LEMMA SeqOK ==
    /\ "text" \in Line /\ "blank" \in Line /\ "DONE" \in Line
    /\ \A s \in Seq(Nat), n \in Nat : Append(s, n) \in Seq(Nat)
    /\ \A s \in Seq(Nat) : s # <<>> => Head(s) \in Nat /\ Tail(s) \in Seq(Nat)
    /\ \A s \in Seq(Token), t \in Token :
          Append(s, t) \in Seq(Token) /\ Len(Append(s, t)) = Len(s) + 1
    /\ \A s \in Seq(Token) : s # <<>> =>
          /\ Head(s) \in Token /\ Tail(s) \in Seq(Token)
          /\ Len(Tail(s)) = Len(s) - 1 /\ Len(s) \in Nat
    /\ \A s \in Seq(Line), l \in Line :
          Append(s, l) \in Seq(Line) /\ Len(Append(s, l)) = Len(s) + 1
    /\ \A s \in Seq(Line) : s # <<>> =>
          /\ Head(s) \in Line /\ Tail(s) \in Seq(Line)
          /\ Len(Tail(s)) = Len(s) - 1 /\ Len(s) \in Nat
    /\ \A r \in Seq(Seq(Line)), a \in Seq(Line) : Append(r, a) \in Seq(Seq(Line))
    /\ \A r \in Seq(Seq(Line)) : r # <<>> =>
          Head(r) \in Seq(Line) /\ Tail(r) \in Seq(Seq(Line))
<1>1. "text" \in Line /\ "blank" \in Line /\ "DONE" \in Line
  BY DEF Line
<1>2. \A S : \A s \in Seq(S), e \in S :
          Append(s, e) \in Seq(S) /\ Len(Append(s, e)) = Len(s) + 1
  OBVIOUS
<1>3. ASSUME NEW S, NEW s \in Seq(S), s # <<>>
      PROVE  /\ Head(s) \in S /\ Tail(s) \in Seq(S)
             /\ Len(Tail(s)) = Len(s) - 1 /\ Len(s) \in Nat
     BY <1>3, HeadTailProperties, LenProperties
<1>. QED  BY <1>1, <1>2, <1>3

(* Moving a line from the pipe to the reader's lines keeps their sequence. *)
LEMMA CatOK ==
    ASSUME NEW a \in Seq(Line), NEW b \in Seq(Line)
    PROVE  /\ <<>> \o b = b
           /\ a \o <<>> = a
           /\ \A l \in Line : a \o Append(b, l) = Append(a \o b, l)
           /\ b # <<>> => Append(a, Head(b)) \o Tail(b) = a \o b
           /\ b # <<>> /\ OnlyLastDone(a \o b) /\ Head(b) = "DONE" =>
                 a \o b = Append(a, "DONE") /\ Tail(b) = <<>>
<1>1. <<>> \o b = b /\ a \o <<>> = a
  BY ConcatEmptySeq
<1>2. ASSUME NEW l \in Line
      PROVE  a \o Append(b, l) = Append(a \o b, l)
  <2>1. a \o b \in Seq(Line) /\ <<l>> \in Seq(Line)
    BY ConcatProperties
  <2>2. Append(b, l) = b \o <<l>> /\ Append(a \o b, l) = (a \o b) \o <<l>>
    BY <2>1, AppendIsConcat
  <2>. QED  BY <2>1, <2>2, ConcatAssociative
<1>3. ASSUME b # <<>>
      PROVE  Append(a, Head(b)) \o Tail(b) = a \o b
  <2>1. Head(b) \in Line /\ Tail(b) \in Seq(Line) /\ <<Head(b)>> \in Seq(Line)
    BY <1>3, HeadTailProperties
  <2>2. Append(a, Head(b)) \o Tail(b) = a \o (<<Head(b)>> \o Tail(b))
    BY <2>1, AppendIsConcat, ConcatAssociative
  <2>3. <<Head(b)>> \o Tail(b) = b
    BY <1>3, <2>1
  <2>. QED  BY <2>2, <2>3
<1>4. ASSUME b # <<>>, OnlyLastDone(a \o b), Head(b) = "DONE"
      PROVE  a \o b = Append(a, "DONE") /\ Tail(b) = <<>>
  <2>1. (a \o b)[Len(a) + 1] = "DONE" /\ Len(a) + 1 \in 1..Len(a \o b)
        /\ Len(a \o b) = Len(a) + Len(b)
    BY <1>4, ConcatProperties
  <2>2. Len(b) = 1 /\ Len(a) \in Nat
    <3>1. Len(a) + 1 = Len(a \o b)
      BY <1>4, <2>1 DEF OnlyLastDone
    <3>2. Len(a) \in Nat /\ Len(b) \in Nat
      BY LenProperties
    <3>3. Len(a) + 1 = Len(a) + Len(b)
      BY <2>1, <3>1
    <3>4. \A m, n \in Nat : m + 1 = m + n => n = 1
      OBVIOUS
    <3>. QED  BY <3>2, <3>3, <3>4
  <2>3. Tail(b) = <<>>
    <3>1. Tail(b) \in Seq(Line) /\ Len(Tail(b)) = 0
      BY <1>4, <2>2, HeadTailProperties
    <3>. QED  BY <3>1, EmptySeq
  <2>4. Append(a, Head(b)) \in Seq(Line)
    BY <1>4, HeadTailProperties, AppendProperties
  <2>5. Append(a, Head(b)) \o <<>> = Append(a, Head(b))
    BY <2>4, ConcatEmptySeq
  <2>. QED  BY <1>3, <1>4, <2>3, <2>5
<1>. QED  BY <1>1, <1>2, <1>3, <1>4

LEMMA CommandsFrame ==
    ASSUME CommandsInOrder, DoneIsLast, UNCHANGED <<requests, wleft, stdin, work, printed>>
    PROVE  CommandsInOrder' /\ DoneIsLast'
  BY DEF CommandsInOrder, DoneIsLast, NothingToRun

LEMMA SmtInit == Init => SmtInv
<1> SUFFICES ASSUME Init PROVE SmtInv  OBVIOUS
<1>1. TypeOK
  BY SmtPipesAssumption
    DEF Init, TypeOK, MainTypeOK, ThreadTypeOK, MainPc, WriterPc, ReaderPc, Holder,
       Cause, InputTypeOK, OutputTypeOK, Token, Line
<1>2. CommandsInOrder /\ DoneIsLast
  BY EmptyOK DEF Init, CommandsInOrder, DoneIsLast, NothingToRun
<1>3. LinesInOrder /\ DeathExplained
  BY EmptyOK DEF Init, LinesInOrder, DeathExplained, NothingToRun
<1>. QED  BY <1>1, <1>2, <1>3 DEF SmtInv

LEMMA SmtStep == SmtInv /\ [Next]_vars => SmtInv'
<1>send. ASSUME SmtInv, NEW n \in 1..MaxCmds, Send(n)
     PROVE  SmtInv'
  <2>1. TypeOK'
    <3>0. MainTypeOK'
      BY <1>send
        DEF SmtInv, TypeOK, MainTypeOK, MainPc, Send, writerVars, solverVars,
           readerVars
    <3>1. ThreadTypeOK'
      BY <1>send
        DEF SmtInv, TypeOK, ThreadTypeOK, Send, writerVars, solverVars, readerVars
    <3>2. InputTypeOK'
      BY <1>send, SmtBoundsAssumption, SmtPipesAssumption, EncodedOK, SeqOK
        DEF SmtInv, TypeOK, InputTypeOK, Send, writerVars, solverVars, readerVars
    <3>3. OutputTypeOK'
      BY <1>send, SmtBoundsAssumption, SmtPipesAssumption, SeqOK
        DEF SmtInv, TypeOK, OutputTypeOK, Send, writerVars, solverVars, readerVars
    <3>. QED  BY <3>0, <3>1, <3>2, <3>3 DEF TypeOK
  <2>2. CommandsInOrder' /\ DoneIsLast'
    BY <1>send, EmptyOK, TailOK, AppendOK, EncodedOK, DoneOK
      DEF SmtInv, TypeOK, InputTypeOK, OutputTypeOK, CommandsInOrder, DoneIsLast,
         LinesInOrder, NothingToRun, Send, writerVars, solverVars, readerVars
  <2>4. LinesInOrder'
    BY <1>send, EmptyOK, TailOK, AppendOK, CatOK
      DEF SmtInv, TypeOK, InputTypeOK, OutputTypeOK, CommandsInOrder, DoneIsLast,
         LinesInOrder, NothingToRun, DeathExplained, Send, writerVars, solverVars,
         readerVars
  <2>5. DeathExplained'
    BY <1>send
      DEF SmtInv, LinesInOrder, DeathExplained, Send, writerVars, solverVars,
         readerVars
  <2>. QED  BY <2>1, <2>2, <2>4, <2>5 DEF SmtInv
<1>print. ASSUME SmtInv, NEW l \in {"text", "blank"}, SolverPrint(l)
     PROVE  SmtInv'
  <2>1. TypeOK'
    <3>0. MainTypeOK'
      BY <1>print
        DEF SmtInv, TypeOK, MainTypeOK, SolverPrint, EmitLine, mainVars, chanVars,
           writerVars, solverVars, readerVars
    <3>1. ThreadTypeOK'
      BY <1>print
        DEF SmtInv, TypeOK, ThreadTypeOK, SolverPrint, EmitLine, mainVars,
           chanVars, writerVars, solverVars, readerVars
    <3>2. InputTypeOK'
      BY <1>print
        DEF SmtInv, TypeOK, InputTypeOK, SolverPrint, EmitLine, mainVars, chanVars,
           writerVars, solverVars, readerVars
    <3>3. OutputTypeOK'
      BY <1>print, SmtBoundsAssumption, SmtPipesAssumption, SeqOK
        DEF SmtInv, TypeOK, OutputTypeOK, SolverPrint, EmitLine, mainVars,
           chanVars, writerVars, solverVars, readerVars
    <3>. QED  BY <3>0, <3>1, <3>2, <3>3 DEF TypeOK
  <2>a. l \in Line
    BY <1>print DEF Line
  <2>b. ~HasDone(printed) /\ requests = <<>>
    BY <1>print DEF SmtInv, CommandsInOrder, DoneIsLast, NothingToRun, SolverPrint
  <2>2. CommandsInOrder' /\ DoneIsLast'
    <3>1. ~HasDone(printed') /\ OnlyLastDone(printed')
      BY <1>print, <2>a, <2>b, DoneOK
        DEF SmtInv, TypeOK, OutputTypeOK, SolverPrint, EmitLine
    <3>. QED  BY <1>print, <2>b, <3>1
                DEF SmtInv, CommandsInOrder, DoneIsLast, NothingToRun, SolverPrint,
                   EmitLine, chanVars, writerVars, solverVars
  <2>4. LinesInOrder'
    <3>0. /\ got \in Seq(Line) /\ stdout \in Seq(Line) /\ printed \in Seq(Line)
          /\ responses \in Seq(Seq(Line))
      BY <1>print DEF SmtInv, TypeOK, OutputTypeOK
    <3>1. main # "idle"
      BY <1>print DEF SmtInv, LinesInOrder, NothingToRun, SolverPrint
    <3>2. printed = got \o stdout => printed' = got \o stdout'
      <4>1. got \o Append(stdout, l) = Append(got \o stdout, l)
        BY <3>0, <2>a, CatOK
      <4>. QED  BY <1>print, <4>1 DEF SolverPrint, EmitLine
    <3>3. ~HasDone(printed)
      BY <2>b
    <3>4. ASSUME NEW x \in Seq(Line) PROVE printed # Append(x, "DONE")
      BY <3>3, SeqOK DEF HasDone
    <3>5. buf = "answered" => main \notin {"waiting", "late"}
      BY <1>print, <3>0, <3>4 DEF SmtInv, LinesInOrder
    <3>. QED  BY <1>print, <3>1, <3>2, <3>5
                DEF SmtInv, LinesInOrder, SolverPrint, EmitLine, mainVars,
                   chanVars, solverVars, readerVars
  <2>5. DeathExplained'
    BY <1>print
      DEF SmtInv, LinesInOrder, DeathExplained, SolverPrint, EmitLine, mainVars,
         chanVars, writerVars, solverVars, readerVars
  <2>. QED  BY <2>1, <2>2, <2>4, <2>5 DEF SmtInv
<1>SendFails. ASSUME SmtInv, SendFails
     PROVE  SmtInv'
  <2>1. TypeOK'
    <3>0. MainTypeOK'
      BY <1>SendFails
        DEF SmtInv, TypeOK, MainTypeOK, MainPc, SendFails, Unwind, writerVars,
           solverVars, readerVars
    <3>1. ThreadTypeOK'
      BY <1>SendFails
        DEF SmtInv, TypeOK, ThreadTypeOK, SendFails, Unwind, writerVars,
           solverVars, readerVars
    <3>2. InputTypeOK'
      BY <1>SendFails
        DEF SmtInv, TypeOK, InputTypeOK, SendFails, Unwind, writerVars, solverVars,
           readerVars
    <3>3. OutputTypeOK'
      BY <1>SendFails
        DEF SmtInv, TypeOK, OutputTypeOK, SendFails, Unwind, writerVars,
           solverVars, readerVars
    <3>. QED  BY <3>0, <3>1, <3>2, <3>3 DEF TypeOK
  <2>2. CommandsInOrder' /\ DoneIsLast'
    BY <1>SendFails, CommandsFrame
      DEF SmtInv, SendFails, Unwind, writerVars, solverVars, readerVars
  <2>4. LinesInOrder'
    BY <1>SendFails, EmptyOK, TailOK, AppendOK, CatOK
      DEF SmtInv, TypeOK, InputTypeOK, OutputTypeOK, CommandsInOrder, DoneIsLast,
         LinesInOrder, NothingToRun, DeathExplained, SendFails, Unwind, writerVars,
         solverVars, readerVars
  <2>5. DeathExplained'
    BY <1>SendFails
      DEF SmtInv, LinesInOrder, DeathExplained, SendFails, Unwind, writerVars,
         solverVars, readerVars
  <2>. QED  BY <2>1, <2>2, <2>4, <2>5 DEF SmtInv
<1>SendRead. ASSUME SmtInv, SendRead
     PROVE  SmtInv'
  <2>1. TypeOK'
    <3>0. MainTypeOK'
      BY <1>SendRead
        DEF SmtInv, TypeOK, MainTypeOK, MainPc, SendRead, chanVars, writerVars,
           solverVars, readerVars
    <3>1. ThreadTypeOK'
      BY <1>SendRead
        DEF SmtInv, TypeOK, ThreadTypeOK, Holder, SendRead, chanVars, writerVars,
           solverVars, readerVars
    <3>2. InputTypeOK'
      BY <1>SendRead
        DEF SmtInv, TypeOK, InputTypeOK, SendRead, chanVars, writerVars,
           solverVars, readerVars
    <3>3. OutputTypeOK'
      BY <1>SendRead
        DEF SmtInv, TypeOK, OutputTypeOK, SendRead, chanVars, writerVars,
           solverVars, readerVars
    <3>. QED  BY <3>0, <3>1, <3>2, <3>3 DEF TypeOK
  <2>2. CommandsInOrder' /\ DoneIsLast'
    BY <1>SendRead, CommandsFrame
      DEF SmtInv, SendRead, chanVars, writerVars, solverVars, readerVars
  <2>4. LinesInOrder'
    BY <1>SendRead, EmptyOK, TailOK, AppendOK, CatOK
      DEF SmtInv, TypeOK, InputTypeOK, OutputTypeOK, CommandsInOrder, DoneIsLast,
         LinesInOrder, NothingToRun, DeathExplained, SendRead, chanVars,
         writerVars, solverVars, readerVars
  <2>5. DeathExplained'
    BY <1>SendRead
      DEF SmtInv, LinesInOrder, DeathExplained, SendRead, chanVars, writerVars,
         solverVars, readerVars
  <2>. QED  BY <2>1, <2>2, <2>4, <2>5 DEF SmtInv
<1>Receive. ASSUME SmtInv, Receive
     PROVE  SmtInv'
  <2>1. TypeOK'
    <3>0. MainTypeOK'
      BY <1>Receive
        DEF SmtInv, TypeOK, MainTypeOK, MainPc, Receive, writerVars, solverVars,
           readerVars
    <3>1. ThreadTypeOK'
      BY <1>Receive
        DEF SmtInv, TypeOK, ThreadTypeOK, Holder, Receive, writerVars, solverVars,
           readerVars
    <3>2. InputTypeOK'
      BY <1>Receive
        DEF SmtInv, TypeOK, InputTypeOK, Receive, writerVars, solverVars,
           readerVars
    <3>3. OutputTypeOK'
      BY <1>Receive, SmtBoundsAssumption, SmtPipesAssumption, SeqOK
        DEF SmtInv, TypeOK, OutputTypeOK, Receive, writerVars, solverVars,
           readerVars
    <3>. QED  BY <3>0, <3>1, <3>2, <3>3 DEF TypeOK
  <2>2. CommandsInOrder' /\ DoneIsLast'
    BY <1>Receive, CommandsFrame
      DEF SmtInv, Receive, writerVars, solverVars, readerVars
  <2>4. LinesInOrder'
    <3>1. /\ buf = "answered" /\ rpc = "recv" /\ Len(responses) = 1 /\ stdout = <<>>
          /\ printed = Append(responses[1], "DONE") /\ responses[1] \in Seq(Line)
          /\ responses \in Seq(Seq(Line))
      BY <1>Receive DEF SmtInv, TypeOK, OutputTypeOK, LinesInOrder, Receive
    <3>2. responses' = <<>> /\ answer' = responses[1]
      BY <1>Receive, <3>1 DEF Receive
    <3>3. HasDone(printed)
      BY <3>1, AppendProperties, SeqOK, LenProperties DEF HasDone
    <3>. QED  BY <1>Receive, <3>1, <3>2, <3>3
                DEF SmtInv, DoneIsLast, LinesInOrder, NothingToRun, Receive,
                   writerVars, solverVars, readerVars
  <2>5. DeathExplained'
    BY <1>Receive
      DEF SmtInv, LinesInOrder, DeathExplained, Receive, writerVars, solverVars,
         readerVars
  <2>. QED  BY <2>1, <2>2, <2>4, <2>5 DEF SmtInv
<1>Timeout. ASSUME SmtInv, Timeout
     PROVE  SmtInv'
  <2>1. TypeOK'
    <3>0. MainTypeOK'
      BY <1>Timeout
        DEF SmtInv, TypeOK, MainTypeOK, MainPc, Timeout, chanVars, writerVars,
           solverVars, readerVars
    <3>1. ThreadTypeOK'
      BY <1>Timeout
        DEF SmtInv, TypeOK, ThreadTypeOK, Timeout, chanVars, writerVars,
           solverVars, readerVars
    <3>2. InputTypeOK'
      BY <1>Timeout
        DEF SmtInv, TypeOK, InputTypeOK, Timeout, chanVars, writerVars, solverVars,
           readerVars
    <3>3. OutputTypeOK'
      BY <1>Timeout
        DEF SmtInv, TypeOK, OutputTypeOK, Timeout, chanVars, writerVars,
           solverVars, readerVars
    <3>. QED  BY <3>0, <3>1, <3>2, <3>3 DEF TypeOK
  <2>2. CommandsInOrder' /\ DoneIsLast'
    BY <1>Timeout, CommandsFrame
      DEF SmtInv, Timeout, chanVars, writerVars, solverVars, readerVars
  <2>4. LinesInOrder'
    BY <1>Timeout, EmptyOK, TailOK, AppendOK, CatOK
      DEF SmtInv, TypeOK, InputTypeOK, OutputTypeOK, CommandsInOrder, DoneIsLast,
         LinesInOrder, NothingToRun, DeathExplained, Timeout, chanVars, writerVars,
         solverVars, readerVars
  <2>5. DeathExplained'
    BY <1>Timeout
      DEF SmtInv, LinesInOrder, DeathExplained, Timeout, chanVars, writerVars,
         solverVars, readerVars
  <2>. QED  BY <2>1, <2>2, <2>4, <2>5 DEF SmtInv
<1>ReportPanics. ASSUME SmtInv, ReportPanics
     PROVE  SmtInv'
  <2>1. TypeOK'
    <3>0. MainTypeOK'
      BY <1>ReportPanics
        DEF SmtInv, TypeOK, MainTypeOK, MainPc, Cause, ReportPanics, Unwind,
           writerVars, solverVars, readerVars
    <3>1. ThreadTypeOK'
      BY <1>ReportPanics
        DEF SmtInv, TypeOK, ThreadTypeOK, ReportPanics, Unwind, writerVars,
           solverVars, readerVars
    <3>2. InputTypeOK'
      BY <1>ReportPanics
        DEF SmtInv, TypeOK, InputTypeOK, ReportPanics, Unwind, writerVars,
           solverVars, readerVars
    <3>3. OutputTypeOK'
      BY <1>ReportPanics
        DEF SmtInv, TypeOK, OutputTypeOK, ReportPanics, Unwind, writerVars,
           solverVars, readerVars
    <3>. QED  BY <3>0, <3>1, <3>2, <3>3 DEF TypeOK
  <2>2. CommandsInOrder' /\ DoneIsLast'
    BY <1>ReportPanics, CommandsFrame
      DEF SmtInv, ReportPanics, Unwind, writerVars, solverVars, readerVars
  <2>4. LinesInOrder'
    BY <1>ReportPanics, EmptyOK, TailOK, AppendOK, CatOK
      DEF SmtInv, TypeOK, InputTypeOK, OutputTypeOK, CommandsInOrder, DoneIsLast,
         LinesInOrder, NothingToRun, DeathExplained, ReportPanics, Unwind,
         writerVars, solverVars, readerVars
  <2>5. DeathExplained'
    BY <1>ReportPanics
      DEF SmtInv, LinesInOrder, DeathExplained, ReportPanics, Unwind, writerVars,
         solverVars, readerVars
  <2>. QED  BY <2>1, <2>2, <2>4, <2>5 DEF SmtInv
<1>ReceiveFails. ASSUME SmtInv, ReceiveFails
     PROVE  SmtInv'
  <2>1. TypeOK'
    <3>0. MainTypeOK'
      BY <1>ReceiveFails
        DEF SmtInv, TypeOK, MainTypeOK, MainPc, ReceiveFails, Unwind, writerVars,
           solverVars, readerVars
    <3>1. ThreadTypeOK'
      BY <1>ReceiveFails
        DEF SmtInv, TypeOK, ThreadTypeOK, ReceiveFails, Unwind, writerVars,
           solverVars, readerVars
    <3>2. InputTypeOK'
      BY <1>ReceiveFails
        DEF SmtInv, TypeOK, InputTypeOK, ReceiveFails, Unwind, writerVars,
           solverVars, readerVars
    <3>3. OutputTypeOK'
      BY <1>ReceiveFails
        DEF SmtInv, TypeOK, OutputTypeOK, ReceiveFails, Unwind, writerVars,
           solverVars, readerVars
    <3>. QED  BY <3>0, <3>1, <3>2, <3>3 DEF TypeOK
  <2>2. CommandsInOrder' /\ DoneIsLast'
    BY <1>ReceiveFails, CommandsFrame
      DEF SmtInv, ReceiveFails, Unwind, writerVars, solverVars, readerVars
  <2>4. LinesInOrder'
    BY <1>ReceiveFails, EmptyOK, TailOK, AppendOK, CatOK
      DEF SmtInv, TypeOK, InputTypeOK, OutputTypeOK, CommandsInOrder, DoneIsLast,
         LinesInOrder, NothingToRun, DeathExplained, ReceiveFails, Unwind,
         writerVars, solverVars, readerVars
  <2>5. DeathExplained'
    BY <1>ReceiveFails
      DEF SmtInv, LinesInOrder, DeathExplained, ReceiveFails, Unwind, writerVars,
         solverVars, readerVars
  <2>. QED  BY <2>1, <2>2, <2>4, <2>5 DEF SmtInv
<1>Drop. ASSUME SmtInv, Drop
     PROVE  SmtInv'
  <2>1. TypeOK'
    <3>0. MainTypeOK'
      BY <1>Drop
        DEF SmtInv, TypeOK, MainTypeOK, MainPc, Drop, writerVars, solverVars,
           readerVars
    <3>1. ThreadTypeOK'
      BY <1>Drop
        DEF SmtInv, TypeOK, ThreadTypeOK, Drop, writerVars, solverVars, readerVars
    <3>2. InputTypeOK'
      BY <1>Drop
        DEF SmtInv, TypeOK, InputTypeOK, Drop, writerVars, solverVars, readerVars
    <3>3. OutputTypeOK'
      BY <1>Drop
        DEF SmtInv, TypeOK, OutputTypeOK, Drop, writerVars, solverVars, readerVars
    <3>. QED  BY <3>0, <3>1, <3>2, <3>3 DEF TypeOK
  <2>2. CommandsInOrder' /\ DoneIsLast'
    BY <1>Drop, CommandsFrame DEF SmtInv, Drop, writerVars, solverVars, readerVars
  <2>4. LinesInOrder'
    BY <1>Drop, EmptyOK, TailOK, AppendOK, CatOK
      DEF SmtInv, TypeOK, InputTypeOK, OutputTypeOK, CommandsInOrder, DoneIsLast,
         LinesInOrder, NothingToRun, DeathExplained, Drop, writerVars, solverVars,
         readerVars
  <2>5. DeathExplained'
    BY <1>Drop
      DEF SmtInv, LinesInOrder, DeathExplained, Drop, writerVars, solverVars,
         readerVars
  <2>. QED  BY <2>1, <2>2, <2>4, <2>5 DEF SmtInv
<1>Joined. ASSUME SmtInv, Joined
     PROVE  SmtInv'
  <2>1. TypeOK'
    <3>0. MainTypeOK'
      BY <1>Joined
        DEF SmtInv, TypeOK, MainTypeOK, MainPc, Joined, chanVars, writerVars,
           solverVars, readerVars
    <3>1. ThreadTypeOK'
      BY <1>Joined
        DEF SmtInv, TypeOK, ThreadTypeOK, Holder, Joined, chanVars, writerVars,
           solverVars, readerVars
    <3>2. InputTypeOK'
      BY <1>Joined
        DEF SmtInv, TypeOK, InputTypeOK, Joined, chanVars, writerVars, solverVars,
           readerVars
    <3>3. OutputTypeOK'
      BY <1>Joined
        DEF SmtInv, TypeOK, OutputTypeOK, Joined, chanVars, writerVars, solverVars,
           readerVars
    <3>. QED  BY <3>0, <3>1, <3>2, <3>3 DEF TypeOK
  <2>2. CommandsInOrder' /\ DoneIsLast'
    BY <1>Joined, CommandsFrame
      DEF SmtInv, Joined, chanVars, writerVars, solverVars, readerVars
  <2>4. LinesInOrder'
    BY <1>Joined, EmptyOK, TailOK, AppendOK, CatOK
      DEF SmtInv, TypeOK, InputTypeOK, OutputTypeOK, CommandsInOrder, DoneIsLast,
         LinesInOrder, NothingToRun, DeathExplained, Joined, chanVars, writerVars,
         solverVars, readerVars
  <2>5. DeathExplained'
    BY <1>Joined
      DEF SmtInv, LinesInOrder, DeathExplained, Joined, chanVars, writerVars,
         solverVars, readerVars
  <2>. QED  BY <2>1, <2>2, <2>4, <2>5 DEF SmtInv
<1>WriterRecv. ASSUME SmtInv, WriterRecv
     PROVE  SmtInv'
  <2>1. TypeOK'
    <3>0. MainTypeOK'
      BY <1>WriterRecv
        DEF SmtInv, TypeOK, MainTypeOK, WriterRecv, mainVars, solverVars,
           readerVars
    <3>1. ThreadTypeOK'
      BY <1>WriterRecv
        DEF SmtInv, TypeOK, ThreadTypeOK, WriterPc, WriterRecv, mainVars,
           solverVars, readerVars
    <3>2. InputTypeOK'
      BY <1>WriterRecv, SmtBoundsAssumption, SmtPipesAssumption, EncodedOK, SeqOK
        DEF SmtInv, TypeOK, InputTypeOK, WriterRecv, mainVars, solverVars,
           readerVars
    <3>3. OutputTypeOK'
      BY <1>WriterRecv
        DEF SmtInv, TypeOK, OutputTypeOK, WriterRecv, mainVars, solverVars,
           readerVars
    <3>. QED  BY <3>0, <3>1, <3>2, <3>3 DEF TypeOK
  <2>2. CommandsInOrder' /\ DoneIsLast'
    <3>0. requests \in Seq(Nat) /\ Len(requests) = 1 /\ requests # <<>>
      BY <1>WriterRecv DEF SmtInv, TypeOK, InputTypeOK, CommandsInOrder, WriterRecv
    <3>1. requests' = <<>> /\ EchoLast(wleft')
      <4>1. Head(requests) \in Nat /\ Tail(requests) \in Seq(Nat) /\ Len(Tail(requests)) = 0
        BY <3>0, HeadTailProperties
      <4>2. Tail(requests) = <<>>
        BY <4>1, EmptySeq
      <4>. QED  BY <1>WriterRecv, <4>1, <4>2, EncodedOK DEF WriterRecv
    <3>2. NothingToRun /\ printed = <<>>
      BY <1>WriterRecv DEF SmtInv, CommandsInOrder, WriterRecv
    <3>3. ~HasEcho(stdin)
      BY <3>2 DEF HasEcho, OnlyNewlines, NothingToRun
    <3>. QED  BY <1>WriterRecv, <3>1, <3>2, <3>3, EmptyOK
                DEF SmtInv, CommandsInOrder, DoneIsLast, NothingToRun, WriterRecv,
                   solverVars
  <2>4. LinesInOrder'
    BY <1>WriterRecv, EmptyOK, TailOK, AppendOK, CatOK
      DEF SmtInv, TypeOK, InputTypeOK, OutputTypeOK, CommandsInOrder, DoneIsLast,
         LinesInOrder, NothingToRun, DeathExplained, WriterRecv, mainVars,
         solverVars, readerVars
  <2>5. DeathExplained'
    BY <1>WriterRecv
      DEF SmtInv, LinesInOrder, DeathExplained, WriterRecv, mainVars, solverVars,
         readerVars
  <2>. QED  BY <2>1, <2>2, <2>4, <2>5 DEF SmtInv
<1>Write. ASSUME SmtInv, Write
     PROVE  SmtInv'
  <2>1. TypeOK'
    <3>0. MainTypeOK'
      BY <1>Write
        DEF SmtInv, TypeOK, MainTypeOK, Write, mainVars, chanVars, solverVars,
           readerVars
    <3>1. ThreadTypeOK'
      BY <1>Write
        DEF SmtInv, TypeOK, ThreadTypeOK, WriterPc, Write, mainVars, chanVars,
           solverVars, readerVars
    <3>2. InputTypeOK'
      <4>1. /\ stdin \in Seq(Token) /\ wleft \in Seq(Token) /\ wleft # <<>>
            /\ Len(stdin) < InCap /\ requests \in Seq(Nat)
        BY <1>Write DEF SmtInv, TypeOK, InputTypeOK, Write
      <4>2. stdin' \in Seq(Token) /\ Len(stdin') <= InCap /\ wleft' \in Seq(Token)
        BY <1>Write, <4>1, SeqOK, SmtPipesAssumption, LenProperties DEF Write
      <4>. QED  BY <1>Write, <4>1, <4>2 DEF InputTypeOK, Write, chanVars
    <3>3. OutputTypeOK'
      BY <1>Write
        DEF SmtInv, TypeOK, OutputTypeOK, Write, mainVars, chanVars, solverVars,
           readerVars
    <3>. QED  BY <3>0, <3>1, <3>2, <3>3 DEF TypeOK
  <2>a. wleft \in Seq(Token) /\ wleft # <<>> /\ stdin \in Seq(Token) /\ Head(wleft) \in Token
        /\ stdin' = Append(stdin, Head(wleft)) /\ wleft' = Tail(wleft)
    BY <1>Write, SeqOK DEF SmtInv, TypeOK, InputTypeOK, Write
  <2>b. /\ OnlyNewlines(wleft) => OnlyNewlines(wleft')
        /\ OnlyNewlines(wleft) /\ OnlyNewlines(stdin) => OnlyNewlines(stdin')
    BY <2>a, TailOK, AppendOK
  <2>2. CommandsInOrder' /\ DoneIsLast'
    <3>1. EchoLast(wleft')
      BY <1>Write, <2>a, TailOK DEF SmtInv, CommandsInOrder
    <3>2. EchoLast(stdin')
      BY <1>Write, <2>a, TailOK, AppendOK DEF SmtInv, CommandsInOrder
    <3>3. HasEcho(stdin') => OnlyNewlines(wleft')
      BY <1>Write, <2>a, <2>b, TailOK, AppendOK DEF SmtInv, CommandsInOrder
    <3>4. work = "echo" => OnlyNewlines(stdin') /\ OnlyNewlines(wleft')
      BY <1>Write, <2>b DEF SmtInv, CommandsInOrder
    <3>5. NothingToRun => NothingToRun'
      BY <1>Write, <2>b DEF NothingToRun, Write, solverVars
    <3>. QED  BY <1>Write, <3>1, <3>2, <3>3, <3>4, <3>5
                DEF SmtInv, CommandsInOrder, DoneIsLast, Write, chanVars,
                   solverVars
  <2>4. LinesInOrder'
    <3>1. NothingToRun => NothingToRun'
      BY <1>Write, <2>b DEF NothingToRun, Write, solverVars
    <3>. QED  BY <1>Write, <3>1
                DEF SmtInv, LinesInOrder, Write, mainVars, chanVars, solverVars,
                   readerVars
  <2>5. DeathExplained'
    BY <1>Write
      DEF SmtInv, LinesInOrder, DeathExplained, Write, mainVars, chanVars,
         solverVars, readerVars
  <2>. QED  BY <2>1, <2>2, <2>4, <2>5 DEF SmtInv
<1>WriteFails. ASSUME SmtInv, WriteFails
     PROVE  SmtInv'
  <2>1. TypeOK'
    <3>0. MainTypeOK'
      BY <1>WriteFails
        DEF SmtInv, TypeOK, MainTypeOK, WriteFails, mainVars, solverVars,
           readerVars
    <3>1. ThreadTypeOK'
      BY <1>WriteFails
        DEF SmtInv, TypeOK, ThreadTypeOK, WriterPc, WriteFails, mainVars,
           solverVars, readerVars
    <3>2. InputTypeOK'
      BY <1>WriteFails, SmtBoundsAssumption, SmtPipesAssumption, EncodedOK, SeqOK
        DEF SmtInv, TypeOK, InputTypeOK, WriteFails, mainVars, solverVars,
           readerVars
    <3>3. OutputTypeOK'
      BY <1>WriteFails
        DEF SmtInv, TypeOK, OutputTypeOK, WriteFails, mainVars, solverVars,
           readerVars
    <3>. QED  BY <3>0, <3>1, <3>2, <3>3 DEF TypeOK
  <2>2. CommandsInOrder' /\ DoneIsLast'
    BY <1>WriteFails, EmptyOK, TailOK, AppendOK, EncodedOK, DoneOK
      DEF SmtInv, TypeOK, InputTypeOK, OutputTypeOK, CommandsInOrder, DoneIsLast,
         LinesInOrder, NothingToRun, WriteFails, mainVars, solverVars, readerVars
  <2>4. LinesInOrder'
    BY <1>WriteFails, EmptyOK, TailOK, AppendOK, CatOK
      DEF SmtInv, TypeOK, InputTypeOK, OutputTypeOK, CommandsInOrder, DoneIsLast,
         LinesInOrder, NothingToRun, DeathExplained, WriteFails, mainVars,
         solverVars, readerVars
  <2>5. DeathExplained'
    BY <1>WriteFails
      DEF SmtInv, LinesInOrder, DeathExplained, WriteFails, mainVars, solverVars,
         readerVars
  <2>. QED  BY <2>1, <2>2, <2>4, <2>5 DEF SmtInv
<1>WriterExit. ASSUME SmtInv, WriterExit
     PROVE  SmtInv'
  <2>1. TypeOK'
    <3>0. MainTypeOK'
      BY <1>WriterExit
        DEF SmtInv, TypeOK, MainTypeOK, WriterExit, mainVars, chanVars, solverVars,
           readerVars
    <3>1. ThreadTypeOK'
      BY <1>WriterExit
        DEF SmtInv, TypeOK, ThreadTypeOK, WriterPc, WriterExit, mainVars, chanVars,
           solverVars, readerVars
    <3>2. InputTypeOK'
      BY <1>WriterExit, SmtBoundsAssumption, SmtPipesAssumption, EncodedOK, SeqOK
        DEF SmtInv, TypeOK, InputTypeOK, WriterExit, mainVars, chanVars,
           solverVars, readerVars
    <3>3. OutputTypeOK'
      BY <1>WriterExit
        DEF SmtInv, TypeOK, OutputTypeOK, WriterExit, mainVars, chanVars,
           solverVars, readerVars
    <3>. QED  BY <3>0, <3>1, <3>2, <3>3 DEF TypeOK
  <2>2. CommandsInOrder' /\ DoneIsLast'
    BY <1>WriterExit, CommandsFrame
      DEF SmtInv, WriterExit, mainVars, chanVars, solverVars, readerVars
  <2>4. LinesInOrder'
    BY <1>WriterExit, EmptyOK, TailOK, AppendOK, CatOK
      DEF SmtInv, TypeOK, InputTypeOK, OutputTypeOK, CommandsInOrder, DoneIsLast,
         LinesInOrder, NothingToRun, DeathExplained, WriterExit, mainVars,
         chanVars, solverVars, readerVars
  <2>5. DeathExplained'
    BY <1>WriterExit
      DEF SmtInv, LinesInOrder, DeathExplained, WriterExit, mainVars, chanVars,
         solverVars, readerVars
  <2>. QED  BY <2>1, <2>2, <2>4, <2>5 DEF SmtInv
<1>SolverRead. ASSUME SmtInv, SolverRead
     PROVE  SmtInv'
  <2>1. TypeOK'
    <3>0. MainTypeOK'
      BY <1>SolverRead
        DEF SmtInv, TypeOK, MainTypeOK, SolverRead, mainVars, chanVars, writerVars,
           readerVars
    <3>1. ThreadTypeOK'
      BY <1>SolverRead, SeqOK
        DEF SmtInv, TypeOK, InputTypeOK, Token, ThreadTypeOK, SolverRead, mainVars,
           chanVars, writerVars, readerVars
    <3>2. InputTypeOK'
      BY <1>SolverRead, SmtBoundsAssumption, SmtPipesAssumption, EncodedOK, SeqOK
        DEF SmtInv, TypeOK, InputTypeOK, SolverRead, mainVars, chanVars,
           writerVars, readerVars
    <3>3. OutputTypeOK'
      BY <1>SolverRead
        DEF SmtInv, TypeOK, OutputTypeOK, SolverRead, mainVars, chanVars,
           writerVars, readerVars
    <3>. QED  BY <3>0, <3>1, <3>2, <3>3 DEF TypeOK
  <2>2. CommandsInOrder' /\ DoneIsLast'
    BY <1>SolverRead, EmptyOK, TailOK, AppendOK, EncodedOK, DoneOK
      DEF SmtInv, TypeOK, InputTypeOK, OutputTypeOK, CommandsInOrder, DoneIsLast,
         LinesInOrder, NothingToRun, SolverRead, mainVars, chanVars, writerVars,
         readerVars
  <2>4. LinesInOrder'
    BY <1>SolverRead, EmptyOK, TailOK, AppendOK, CatOK
      DEF SmtInv, TypeOK, InputTypeOK, OutputTypeOK, CommandsInOrder, DoneIsLast,
         LinesInOrder, NothingToRun, DeathExplained, SolverRead, mainVars,
         chanVars, writerVars, readerVars
  <2>5. DeathExplained'
    BY <1>SolverRead
      DEF SmtInv, LinesInOrder, DeathExplained, SolverRead, mainVars, chanVars,
         writerVars, readerVars
  <2>. QED  BY <2>1, <2>2, <2>4, <2>5 DEF SmtInv
<1>SolverLine. ASSUME SmtInv, SolverLine
     PROVE  SmtInv'
  <2>1. TypeOK'
    <3>0. MainTypeOK'
      BY <1>SolverLine
        DEF SmtInv, TypeOK, MainTypeOK, SolverLine, mainVars, chanVars,
           writerVars, readerVars
    <3>1. ThreadTypeOK'
      BY <1>SolverLine
        DEF SmtInv, TypeOK, ThreadTypeOK, SolverLine, mainVars, chanVars,
           writerVars, readerVars
    <3>2. InputTypeOK'
      BY <1>SolverLine
        DEF SmtInv, TypeOK, InputTypeOK, SolverLine, mainVars, chanVars,
           writerVars, readerVars
    <3>3. OutputTypeOK'
      BY <1>SolverLine
        DEF SmtInv, TypeOK, OutputTypeOK, SolverLine, mainVars, chanVars,
           writerVars, readerVars
    <3>. QED  BY <3>0, <3>1, <3>2, <3>3 DEF TypeOK
  <2>2. CommandsInOrder' /\ DoneIsLast'
    BY <1>SolverLine, EmptyOK, TailOK, AppendOK, EncodedOK, DoneOK
      DEF SmtInv, TypeOK, InputTypeOK, OutputTypeOK, CommandsInOrder, DoneIsLast,
         LinesInOrder, NothingToRun, SolverLine, mainVars, chanVars, writerVars,
         readerVars
  <2>4. LinesInOrder'
    BY <1>SolverLine, EmptyOK, TailOK, AppendOK, CatOK
      DEF SmtInv, TypeOK, InputTypeOK, OutputTypeOK, CommandsInOrder, DoneIsLast,
         LinesInOrder, NothingToRun, DeathExplained, SolverLine, mainVars,
         chanVars, writerVars, readerVars
  <2>5. DeathExplained'
    BY <1>SolverLine
      DEF SmtInv, LinesInOrder, DeathExplained, SolverLine, mainVars, chanVars,
         writerVars, readerVars
  <2>. QED  BY <2>1, <2>2, <2>4, <2>5 DEF SmtInv
<1>SolverFinish. ASSUME SmtInv, SolverFinish
     PROVE  SmtInv'
  <2>1. TypeOK'
    <3>0. MainTypeOK'
      BY <1>SolverFinish
        DEF SmtInv, TypeOK, MainTypeOK, SolverFinish, mainVars, chanVars,
           writerVars, readerVars
    <3>1. ThreadTypeOK'
      BY <1>SolverFinish
        DEF SmtInv, TypeOK, ThreadTypeOK, SolverFinish, mainVars, chanVars,
           writerVars, readerVars
    <3>2. InputTypeOK'
      BY <1>SolverFinish
        DEF SmtInv, TypeOK, InputTypeOK, SolverFinish, mainVars, chanVars,
           writerVars, readerVars
    <3>3. OutputTypeOK'
      BY <1>SolverFinish
        DEF SmtInv, TypeOK, OutputTypeOK, SolverFinish, mainVars, chanVars,
           writerVars, readerVars
    <3>. QED  BY <3>0, <3>1, <3>2, <3>3 DEF TypeOK
  <2>2. CommandsInOrder' /\ DoneIsLast'
    BY <1>SolverFinish, EmptyOK, TailOK, AppendOK, EncodedOK, DoneOK
      DEF SmtInv, TypeOK, InputTypeOK, OutputTypeOK, CommandsInOrder, DoneIsLast,
         LinesInOrder, NothingToRun, SolverFinish, mainVars, chanVars, writerVars,
         readerVars
  <2>4. LinesInOrder'
    BY <1>SolverFinish, EmptyOK, TailOK, AppendOK, CatOK
      DEF SmtInv, TypeOK, InputTypeOK, OutputTypeOK, CommandsInOrder, DoneIsLast,
         LinesInOrder, NothingToRun, DeathExplained, SolverFinish, mainVars,
         chanVars, writerVars, readerVars
  <2>5. DeathExplained'
    BY <1>SolverFinish
      DEF SmtInv, LinesInOrder, DeathExplained, SolverFinish, mainVars, chanVars,
         writerVars, readerVars
  <2>. QED  BY <2>1, <2>2, <2>4, <2>5 DEF SmtInv
<1>SolverEcho. ASSUME SmtInv, SolverEcho
     PROVE  SmtInv'
  <2>1. TypeOK'
    <3>0. MainTypeOK'
      BY <1>SolverEcho
        DEF SmtInv, TypeOK, MainTypeOK, SolverEcho, EmitLine, mainVars, chanVars,
           writerVars, readerVars
    <3>1. ThreadTypeOK'
      BY <1>SolverEcho
        DEF SmtInv, TypeOK, ThreadTypeOK, SolverEcho, EmitLine, mainVars, chanVars,
           writerVars, readerVars
    <3>2. InputTypeOK'
      BY <1>SolverEcho
        DEF SmtInv, TypeOK, InputTypeOK, SolverEcho, EmitLine, mainVars, chanVars,
           writerVars, readerVars
    <3>3. OutputTypeOK'
      BY <1>SolverEcho, SmtBoundsAssumption, SmtPipesAssumption, SeqOK
        DEF SmtInv, TypeOK, OutputTypeOK, SolverEcho, EmitLine, mainVars, chanVars,
           writerVars, readerVars
    <3>. QED  BY <3>0, <3>1, <3>2, <3>3 DEF TypeOK
  <2>b. ~HasDone(printed) /\ requests = <<>> /\ OnlyNewlines(stdin) /\ OnlyNewlines(wleft)
    BY <1>SolverEcho
      DEF SmtInv, CommandsInOrder, DoneIsLast, NothingToRun, SolverEcho
  <2>2. CommandsInOrder' /\ DoneIsLast'
    <3>1. OnlyLastDone(printed')
      BY <1>SolverEcho, <2>b, SeqOK, DoneOK
        DEF SmtInv, TypeOK, OutputTypeOK, SolverEcho, EmitLine
    <3>. QED  BY <1>SolverEcho, <2>b, <3>1
                DEF SmtInv, CommandsInOrder, DoneIsLast, NothingToRun, SolverEcho,
                   EmitLine, chanVars, writerVars
  <2>4. LinesInOrder'
    <3>0. /\ got \in Seq(Line) /\ stdout \in Seq(Line) /\ printed \in Seq(Line)
          /\ responses \in Seq(Seq(Line))
      BY <1>SolverEcho DEF SmtInv, TypeOK, OutputTypeOK
    <3>1. main # "idle"
      BY <1>SolverEcho DEF SmtInv, LinesInOrder, NothingToRun, SolverEcho
    <3>2. printed = got \o stdout => printed' = got \o stdout'
      <4>1. got \o Append(stdout, "DONE") = Append(got \o stdout, "DONE")
        BY <3>0, SeqOK, CatOK
      <4>. QED  BY <1>SolverEcho, <4>1 DEF SolverEcho, EmitLine
    <3>3. ~HasDone(printed)
      BY <2>b
    <3>4. ASSUME NEW x \in Seq(Line) PROVE printed # Append(x, "DONE")
      BY <3>3, SeqOK DEF HasDone
    <3>5. buf = "answered" => main \notin {"waiting", "late"}
      BY <1>SolverEcho, <3>0, <3>4 DEF SmtInv, LinesInOrder
    <3>. QED  BY <1>SolverEcho, <3>1, <3>2, <3>5
                DEF SmtInv, LinesInOrder, SolverEcho, EmitLine, mainVars, chanVars,
                   readerVars
  <2>5. DeathExplained'
    BY <1>SolverEcho
      DEF SmtInv, LinesInOrder, DeathExplained, SolverEcho, EmitLine, mainVars,
         chanVars, writerVars, readerVars
  <2>. QED  BY <2>1, <2>2, <2>4, <2>5 DEF SmtInv
<1>SolverBrokenPipe. ASSUME SmtInv, SolverBrokenPipe
     PROVE  SmtInv'
  <2>1. TypeOK'
    <3>0. MainTypeOK'
      BY <1>SolverBrokenPipe
        DEF SmtInv, TypeOK, MainTypeOK, SolverBrokenPipe, Dead, mainVars, chanVars,
           writerVars, readerVars
    <3>1. ThreadTypeOK'
      BY <1>SolverBrokenPipe
        DEF SmtInv, TypeOK, ThreadTypeOK, SolverBrokenPipe, Dead, mainVars,
           chanVars, writerVars, readerVars
    <3>2. InputTypeOK'
      BY <1>SolverBrokenPipe, SmtBoundsAssumption, SmtPipesAssumption, EncodedOK,
           SeqOK
        DEF SmtInv, TypeOK, InputTypeOK, SolverBrokenPipe, Dead, mainVars,
           chanVars, writerVars, readerVars
    <3>3. OutputTypeOK'
      BY <1>SolverBrokenPipe
        DEF SmtInv, TypeOK, OutputTypeOK, SolverBrokenPipe, Dead, mainVars,
           chanVars, writerVars, readerVars
    <3>. QED  BY <3>0, <3>1, <3>2, <3>3 DEF TypeOK
  <2>2. CommandsInOrder' /\ DoneIsLast'
    BY <1>SolverBrokenPipe, EmptyOK, TailOK, AppendOK, EncodedOK, DoneOK
      DEF SmtInv, TypeOK, InputTypeOK, OutputTypeOK, CommandsInOrder, DoneIsLast,
         LinesInOrder, NothingToRun, SolverBrokenPipe, Dead, mainVars, chanVars,
         writerVars, readerVars
  <2>4. LinesInOrder'
    BY <1>SolverBrokenPipe, EmptyOK, TailOK, AppendOK, CatOK
      DEF SmtInv, TypeOK, InputTypeOK, OutputTypeOK, CommandsInOrder, DoneIsLast,
         LinesInOrder, NothingToRun, DeathExplained, SolverBrokenPipe, Dead,
         mainVars, chanVars, writerVars, readerVars
  <2>5. DeathExplained'
    BY <1>SolverBrokenPipe
      DEF SmtInv, LinesInOrder, DeathExplained, SolverBrokenPipe, Dead, mainVars,
         chanVars, writerVars, readerVars
  <2>. QED  BY <2>1, <2>2, <2>4, <2>5 DEF SmtInv
<1>SolverEof. ASSUME SmtInv, SolverEof
     PROVE  SmtInv'
  <2>1. TypeOK'
    <3>0. MainTypeOK'
      BY <1>SolverEof
        DEF SmtInv, TypeOK, MainTypeOK, SolverEof, Dead, mainVars, chanVars,
           writerVars, readerVars
    <3>1. ThreadTypeOK'
      BY <1>SolverEof
        DEF SmtInv, TypeOK, ThreadTypeOK, SolverEof, Dead, mainVars, chanVars,
           writerVars, readerVars
    <3>2. InputTypeOK'
      BY <1>SolverEof, SmtBoundsAssumption, SmtPipesAssumption, EncodedOK, SeqOK
        DEF SmtInv, TypeOK, InputTypeOK, SolverEof, Dead, mainVars, chanVars,
           writerVars, readerVars
    <3>3. OutputTypeOK'
      BY <1>SolverEof
        DEF SmtInv, TypeOK, OutputTypeOK, SolverEof, Dead, mainVars, chanVars,
           writerVars, readerVars
    <3>. QED  BY <3>0, <3>1, <3>2, <3>3 DEF TypeOK
  <2>2. CommandsInOrder' /\ DoneIsLast'
    BY <1>SolverEof, EmptyOK, TailOK, AppendOK, EncodedOK, DoneOK
      DEF SmtInv, TypeOK, InputTypeOK, OutputTypeOK, CommandsInOrder, DoneIsLast,
         LinesInOrder, NothingToRun, SolverEof, Dead, mainVars, chanVars,
         writerVars, readerVars
  <2>4. LinesInOrder'
    BY <1>SolverEof, EmptyOK, TailOK, AppendOK, CatOK
      DEF SmtInv, TypeOK, InputTypeOK, OutputTypeOK, CommandsInOrder, DoneIsLast,
         LinesInOrder, NothingToRun, DeathExplained, SolverEof, Dead, mainVars,
         chanVars, writerVars, readerVars
  <2>5. DeathExplained'
    BY <1>SolverEof
      DEF SmtInv, LinesInOrder, DeathExplained, SolverEof, Dead, mainVars,
         chanVars, writerVars, readerVars
  <2>. QED  BY <2>1, <2>2, <2>4, <2>5 DEF SmtInv
<1>SolverCrash. ASSUME SmtInv, SolverCrash
     PROVE  SmtInv'
  <2>1. TypeOK'
    <3>0. MainTypeOK'
      BY <1>SolverCrash
        DEF SmtInv, TypeOK, MainTypeOK, Cause, SolverCrash, Dead, mainVars,
           chanVars, writerVars, readerVars
    <3>1. ThreadTypeOK'
      BY <1>SolverCrash
        DEF SmtInv, TypeOK, ThreadTypeOK, SolverCrash, Dead, mainVars, chanVars,
           writerVars, readerVars
    <3>2. InputTypeOK'
      BY <1>SolverCrash, SmtBoundsAssumption, SmtPipesAssumption, EncodedOK, SeqOK
        DEF SmtInv, TypeOK, InputTypeOK, SolverCrash, Dead, mainVars, chanVars,
           writerVars, readerVars
    <3>3. OutputTypeOK'
      BY <1>SolverCrash
        DEF SmtInv, TypeOK, OutputTypeOK, SolverCrash, Dead, mainVars, chanVars,
           writerVars, readerVars
    <3>. QED  BY <3>0, <3>1, <3>2, <3>3 DEF TypeOK
  <2>2. CommandsInOrder' /\ DoneIsLast'
    BY <1>SolverCrash, EmptyOK, TailOK, AppendOK, EncodedOK, DoneOK
      DEF SmtInv, TypeOK, InputTypeOK, OutputTypeOK, CommandsInOrder, DoneIsLast,
         LinesInOrder, NothingToRun, SolverCrash, Dead, mainVars, chanVars,
         writerVars, readerVars
  <2>4. LinesInOrder'
    BY <1>SolverCrash, EmptyOK, TailOK, AppendOK, CatOK
      DEF SmtInv, TypeOK, InputTypeOK, OutputTypeOK, CommandsInOrder, DoneIsLast,
         LinesInOrder, NothingToRun, DeathExplained, SolverCrash, Dead, mainVars,
         chanVars, writerVars, readerVars
  <2>5. DeathExplained'
    BY <1>SolverCrash
      DEF SmtInv, LinesInOrder, DeathExplained, SolverCrash, Dead, mainVars,
         chanVars, writerVars, readerVars
  <2>. QED  BY <2>1, <2>2, <2>4, <2>5 DEF SmtInv
<1>ReaderRecv. ASSUME SmtInv, ReaderRecv
     PROVE  SmtInv'
  <2>1. TypeOK'
    <3>0. MainTypeOK'
      BY <1>ReaderRecv
        DEF SmtInv, TypeOK, MainTypeOK, ReaderRecv, mainVars, chanVars, writerVars,
           solverVars
    <3>1. ThreadTypeOK'
      BY <1>ReaderRecv
        DEF SmtInv, TypeOK, ThreadTypeOK, ReaderPc, Holder, ReaderRecv, mainVars,
           chanVars, writerVars, solverVars
    <3>2. InputTypeOK'
      BY <1>ReaderRecv
        DEF SmtInv, TypeOK, InputTypeOK, ReaderRecv, mainVars, chanVars,
           writerVars, solverVars
    <3>3. OutputTypeOK'
      BY <1>ReaderRecv, SmtBoundsAssumption, SmtPipesAssumption, SeqOK
        DEF SmtInv, TypeOK, OutputTypeOK, ReaderRecv, mainVars, chanVars,
           writerVars, solverVars
    <3>. QED  BY <3>0, <3>1, <3>2, <3>3 DEF TypeOK
  <2>2. CommandsInOrder' /\ DoneIsLast'
    BY <1>ReaderRecv, CommandsFrame
      DEF SmtInv, ReaderRecv, mainVars, chanVars, writerVars, solverVars
  <2>4. LinesInOrder'
    BY <1>ReaderRecv, EmptyOK, TailOK, AppendOK, CatOK
      DEF SmtInv, TypeOK, InputTypeOK, OutputTypeOK, CommandsInOrder, DoneIsLast,
         LinesInOrder, NothingToRun, DeathExplained, ReaderRecv, mainVars,
         chanVars, writerVars, solverVars
  <2>5. DeathExplained'
    BY <1>ReaderRecv
      DEF SmtInv, LinesInOrder, DeathExplained, ReaderRecv, mainVars, chanVars,
         writerVars, solverVars
  <2>. QED  BY <2>1, <2>2, <2>4, <2>5 DEF SmtInv
<1>ReadLine. ASSUME SmtInv, ReadLine
     PROVE  SmtInv'
  <2>1. TypeOK'
    <3>0. MainTypeOK'
      BY <1>ReadLine
        DEF SmtInv, TypeOK, MainTypeOK, Cause, ReadLine, ReadText, ReadEmpty,
           ReadDone, ReaderPanic, mainVars, writerVars, solverVars
    <3>1. ThreadTypeOK'
      <4>1. rpc' \in ReaderPc /\ buf' \in Holder
        BY <1>ReadLine
          DEF SmtInv, TypeOK, ThreadTypeOK, ReaderPc, Holder, ReadLine, ReadText,
             ReadEmpty, ReadDone, ReaderPanic
      <4>2. blanks' \in 0..3
        <5>1. blanks \in 0..3
          BY <1>ReadLine DEF SmtInv, TypeOK, ThreadTypeOK
        <5>2. blanks' = 0 \/ (blanks <= 2 /\ blanks' = blanks + 1)
          <6>1. ASSUME ReadEmpty("blank lines") PROVE blanks <= 2 /\ blanks' = blanks + 1
            <7>1. blanks' = blanks + 1 /\ (blanks < 2 \/ blanks = 2)
              BY <6>1, Zenon DEF ReadEmpty
            <7>. QED  BY <5>1, <7>1
          <6>2. ASSUME ReadText \/ ReadDone PROVE blanks' = 0
            BY <6>2 DEF ReadText, ReadDone
          <6>. QED  BY <1>ReadLine, <6>1, <6>2 DEF ReadLine
        <5>. QED  BY <5>1, <5>2
      <4>. QED  BY <1>ReadLine, <4>1, <4>2
                  DEF SmtInv, TypeOK, ThreadTypeOK, ReadLine, writerVars,
                     solverVars
    <3>2. InputTypeOK'
      BY <1>ReadLine
        DEF SmtInv, TypeOK, InputTypeOK, ReadLine, ReadText, ReadEmpty, ReadDone,
           ReaderPanic, mainVars, writerVars, solverVars
    <3>3. OutputTypeOK'
      <4>1. stdout' \in Seq(Line) /\ Len(stdout') <= OutCap
        <5>1. stdout' = Tail(stdout) /\ stdout # <<>> /\ stdout \in Seq(Line) /\ Len(stdout) <= OutCap
          BY <1>ReadLine DEF SmtInv, TypeOK, OutputTypeOK, ReadLine
        <5>. QED  BY <5>1, SeqOK, SmtPipesAssumption
      <4>2. got' \in Seq(Line) /\ responses' \in Seq(Seq(Line))
        BY <1>ReadLine, SeqOK
          DEF SmtInv, TypeOK, OutputTypeOK, ReadLine, ReadText, ReadEmpty, ReadDone
      <4>. QED  BY <1>ReadLine, <4>1, <4>2
                  DEF SmtInv, TypeOK, OutputTypeOK, ReadLine, mainVars
    <3>. QED  BY <3>0, <3>1, <3>2, <3>3 DEF TypeOK
  <2>2. CommandsInOrder' /\ DoneIsLast'
    BY <1>ReadLine, CommandsFrame
      DEF SmtInv, ReadLine, ReadText, ReadEmpty, ReadDone, ReaderPanic, mainVars,
         writerVars, solverVars
  <2>4. LinesInOrder'
    <3>. SUFFICES ASSUME main \in {"waiting", "late"} PROVE LinesInOrder'
      BY <1>ReadLine DEF SmtInv, LinesInOrder, ReadLine, mainVars
    <3>1. /\ buf = "reader" /\ responses = <<>> /\ printed = got \o stdout
          /\ stdout # <<>> /\ stdout \in Seq(Line) /\ got \in Seq(Line)
      BY <1>ReadLine DEF SmtInv, TypeOK, OutputTypeOK, LinesInOrder, ReadLine
    <3>2. CASE Head(stdout) # "DONE"
      <4>1. rpc' = "read" /\ buf' = "reader" => got' = Append(got, Head(stdout))
        BY <1>ReadLine, <3>2 DEF ReadLine, ReadText, ReadEmpty, ReaderPanic
      <4>2. rpc' = "read" /\ buf' = "reader" => printed' = got' \o stdout'
        BY <1>ReadLine, <3>1, <4>1, CatOK DEF ReadLine
      <4>. QED  BY <1>ReadLine, <3>1, <3>2, <4>2
                  DEF LinesInOrder, ReadLine, ReadText, ReadEmpty, ReaderPanic,
                     mainVars
    <3>3. CASE Head(stdout) = "DONE"
      <4>1. printed = Append(got, "DONE") /\ Tail(stdout) = <<>>
        BY <1>ReadLine, <3>1, <3>3, CatOK DEF SmtInv, DoneIsLast
      <4>2. /\ responses' = Append(responses, got)
            /\ rpc' = "recv" /\ buf' = "answered" /\ UNCHANGED <<main, printed>>
            /\ stdout' = Tail(stdout)
        BY <1>ReadLine, <3>3 DEF ReadLine, ReadDone, mainVars
      <4>3. Len(responses') = 1 /\ responses'[1] = got
        BY <3>1, <4>2
      <4>. QED  BY <3>1, <4>1, <4>2, <4>3 DEF LinesInOrder
    <3>. QED  BY <3>2, <3>3
  <2>5. DeathExplained'
    BY <1>ReadLine
      DEF SmtInv, LinesInOrder, DeathExplained, ReadLine, ReadText, ReadEmpty,
         ReadDone, ReaderPanic, mainVars, writerVars, solverVars
  <2>. QED  BY <2>1, <2>2, <2>4, <2>5 DEF SmtInv
<1>ReadEof. ASSUME SmtInv, ReadEof
     PROVE  SmtInv'
  <2>1. TypeOK'
    <3>0. MainTypeOK'
      BY <1>ReadEof
        DEF SmtInv, TypeOK, MainTypeOK, Cause, ReadEof, ReadEmpty, ReaderPanic,
           mainVars, writerVars, solverVars
    <3>1. ThreadTypeOK'
      BY <1>ReadEof
        DEF SmtInv, TypeOK, ThreadTypeOK, ReaderPc, Holder, ReadEof, ReadEmpty,
           ReaderPanic, mainVars, writerVars, solverVars
    <3>2. InputTypeOK'
      BY <1>ReadEof
        DEF SmtInv, TypeOK, InputTypeOK, ReadEof, ReadEmpty, ReaderPanic, mainVars,
           writerVars, solverVars
    <3>3. OutputTypeOK'
      BY <1>ReadEof, SmtBoundsAssumption, SmtPipesAssumption, SeqOK
        DEF SmtInv, TypeOK, OutputTypeOK, ReadEof, ReadEmpty, ReaderPanic,
           mainVars, writerVars, solverVars
    <3>. QED  BY <3>0, <3>1, <3>2, <3>3 DEF TypeOK
  <2>2. CommandsInOrder' /\ DoneIsLast'
    BY <1>ReadEof, CommandsFrame
      DEF SmtInv, ReadEof, ReadEmpty, ReaderPanic, mainVars, writerVars, solverVars
  <2>4. LinesInOrder'
    BY <1>ReadEof, EmptyOK, TailOK, AppendOK, CatOK
      DEF SmtInv, TypeOK, InputTypeOK, OutputTypeOK, CommandsInOrder, DoneIsLast,
         LinesInOrder, NothingToRun, DeathExplained, ReadEof, ReadEmpty,
         ReaderPanic, mainVars, writerVars, solverVars
  <2>5. DeathExplained'
    BY <1>ReadEof
      DEF SmtInv, LinesInOrder, DeathExplained, ReadEof, ReadEmpty, ReaderPanic,
         mainVars, writerVars, solverVars
  <2>. QED  BY <2>1, <2>2, <2>4, <2>5 DEF SmtInv
<1>ReaderExit. ASSUME SmtInv, ReaderExit
     PROVE  SmtInv'
  <2>1. TypeOK'
    <3>0. MainTypeOK'
      BY <1>ReaderExit
        DEF SmtInv, TypeOK, MainTypeOK, ReaderExit, mainVars, chanVars, writerVars,
           solverVars
    <3>1. ThreadTypeOK'
      BY <1>ReaderExit
        DEF SmtInv, TypeOK, ThreadTypeOK, ReaderPc, ReaderExit, mainVars, chanVars,
           writerVars, solverVars
    <3>2. InputTypeOK'
      BY <1>ReaderExit
        DEF SmtInv, TypeOK, InputTypeOK, ReaderExit, mainVars, chanVars,
           writerVars, solverVars
    <3>3. OutputTypeOK'
      BY <1>ReaderExit
        DEF SmtInv, TypeOK, OutputTypeOK, ReaderExit, mainVars, chanVars,
           writerVars, solverVars
    <3>. QED  BY <3>0, <3>1, <3>2, <3>3 DEF TypeOK
  <2>2. CommandsInOrder' /\ DoneIsLast'
    BY <1>ReaderExit, CommandsFrame
      DEF SmtInv, ReaderExit, mainVars, chanVars, writerVars, solverVars
  <2>4. LinesInOrder'
    BY <1>ReaderExit, EmptyOK, TailOK, AppendOK, CatOK
      DEF SmtInv, TypeOK, InputTypeOK, OutputTypeOK, CommandsInOrder, DoneIsLast,
         LinesInOrder, NothingToRun, DeathExplained, ReaderExit, mainVars,
         chanVars, writerVars, solverVars
  <2>5. DeathExplained'
    BY <1>ReaderExit
      DEF SmtInv, LinesInOrder, DeathExplained, ReaderExit, mainVars, chanVars,
         writerVars, solverVars
  <2>. QED  BY <2>1, <2>2, <2>4, <2>5 DEF SmtInv
<1>stutter. ASSUME SmtInv, UNCHANGED vars
     PROVE  SmtInv'
  <2>. USE DEF vars, mainVars, chanVars, writerVars, solverVars, readerVars
  <2>1. TypeOK'
    <3>0. MainTypeOK'
      BY <1>stutter DEF SmtInv, TypeOK, MainTypeOK
    <3>1. ThreadTypeOK'
      BY <1>stutter DEF SmtInv, TypeOK, ThreadTypeOK
    <3>2. InputTypeOK'
      BY <1>stutter DEF SmtInv, TypeOK, InputTypeOK
    <3>3. OutputTypeOK'
      BY <1>stutter DEF SmtInv, TypeOK, OutputTypeOK
    <3>. QED  BY <3>0, <3>1, <3>2, <3>3 DEF TypeOK
  <2>2. CommandsInOrder' /\ DoneIsLast'
    BY <1>stutter, CommandsFrame DEF SmtInv
  <2>3. LinesInOrder' /\ DeathExplained'
    BY <1>stutter DEF SmtInv, LinesInOrder, DeathExplained, NothingToRun
  <2>. QED  BY <2>1, <2>2, <2>3 DEF SmtInv
<1>. QED
  BY <1>send, <1>print, <1>stutter, <1>SendFails, <1>SendRead, <1>Receive,
       <1>Timeout, <1>ReportPanics, <1>ReceiveFails, <1>Drop, <1>Joined,
       <1>WriterRecv, <1>Write, <1>WriteFails, <1>WriterExit, <1>SolverRead,
       <1>SolverLine, <1>SolverFinish, <1>SolverEcho, <1>SolverBrokenPipe, <1>SolverEof,
       <1>SolverCrash, <1>ReaderRecv, <1>ReadLine, <1>ReadEof, <1>ReaderExit
    DEF Next, MainStep, WriterStep, SolverStep, ReaderStep

LEMMA SmtInvariant == Spec => []SmtInv
  BY SmtInit, SmtStep, PTL DEF Spec

(* Every variable of the process, its threads and its pipes keeps its type. *)
THEOREM TypeCorrect == Spec => []TypeOK
  BY SmtInvariant, PTL DEF SmtInv

(* The lines send_commands returns are those the solver printed for this    *)
(* request, whatever the capacities of the pipes and the interleaving.      *)
THEOREM RequestsAndAnswersPaired == Spec => []AnswersPaired
<1>1. SmtInv => AnswersPaired
  BY DEF SmtInv, LinesInOrder, AnswersPaired
<1>. QED  BY <1>1, SmtInvariant, PTL

(* No command and no line of a request is left when the next one is sent.   *)
THEOREM NothingCarriedOver == Spec => []QuietBetweenRequests
<1>1. SmtInv => QuietBetweenRequests
  BY DEF SmtInv, LinesInOrder, QuietBetweenRequests, NothingToRun
<1>. QED  BY <1>1, SmtInvariant, PTL

(* recv_requests.send never fails: the reader thread is there to receive.   *)
THEOREM ReaderNeverMissing == Spec => []ReaderAvailable
<1>1. SmtInv => ReaderAvailable
  BY DEF SmtInv, LinesInOrder, ReaderAvailable
<1>. QED  BY <1>1, SmtInvariant, PTL

(* No interleaving makes the owner of the process panic.                    *)
THEOREM PanicsExplained == Spec => []PanicExplained
<1>1. SmtInv => PanicExplained
  BY DEF SmtInv, DeathExplained, PanicExplained
<1>. QED  BY <1>1, SmtInvariant, PTL
=============================================================================
