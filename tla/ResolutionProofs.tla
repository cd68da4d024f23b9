-------------------------- MODULE ResolutionProofs --------------------------
(***************************************************************************)
(* Proofs about Resolution, for every set of control flow graphs and       *)
(* places: the worklist algorithm ends with a solution of the dataflow     *)
(* equations, and that solution is what the paths of the graph say; no     *)
(* execution changes a value that was assumed resolved, and none misses an *)
(* assumption it could have had.                                           *)
(***************************************************************************)
EXTENDS Resolution, SequenceTheorems, FiniteSetTheorems, WellFoundedInduction, TLAPS

-----------------------------------------------------------------------------
(* Places: the comparisons of resolution_inference.rs, position by         *)
(* position, and those by which an execution is judged.                    *)

LEMMA WithinContains ==
    ASSUME NEW p \in Places, NEW q \in Places
    PROVE  Within(p, q) <=> Contains(q, p)
  <1>1. Len(p) \in Nat /\ Len(q) \in Nat  BY LenProperties DEF Places
  <1>2. ASSUME Len(q) <= Len(p)
        PROVE  /\ SubSeq(p, 1, Len(q)) \in Seq(Projections)
               /\ Len(SubSeq(p, 1, Len(q))) = Len(q)
               /\ \A i \in 1..Len(q) : SubSeq(p, 1, Len(q))[i] = p[i]
    <2>1. \A i \in 1 .. Len(q) : p[i] \in Projections  BY <1>1, <1>2, ElementOfSeq DEF Places
    <2>2. 1 \in Int /\ Len(q) \in Int  BY <1>1
    <2>3. /\ SubSeq(p, 1, Len(q)) \in Seq(Projections)
          /\ Len(SubSeq(p, 1, Len(q))) = IF 1 <= Len(q) THEN Len(q) - 1 + 1 ELSE 0
          /\ \A i \in 1 .. Len(q) - 1 + 1 : SubSeq(p, 1, Len(q))[i] = p[1 + i - 1]
      BY <2>1, <2>2, SubSeqProperties
    <2>. QED  BY <1>1, <2>3
  <1>3. ASSUME Within(p, q) PROVE Contains(q, p)
    BY <1>1, <1>2, <1>3 DEF Within, Contains
  <1>4. ASSUME Contains(q, p) PROVE Within(p, q)
    <2>1. Len(q) <= Len(p) /\ \A i \in 1..Len(q) : SubSeq(p, 1, Len(q))[i] = q[i]
      BY <1>2, <1>4 DEF Contains
    <2>2. SubSeq(p, 1, Len(q)) = q  BY <1>2, <2>1, SeqEqual DEF Places
    <2>. QED  BY <2>1, <2>2 DEF Within
  <1>. QED  BY <1>3, <1>4

LEMMA IntersectsWithin ==
    ASSUME NEW p \in Places, NEW q \in Places
    PROVE  /\ Within(p, q) \/ Within(q, p) <=> Intersects(q, p)
           /\ Intersects(q, p) <=> Intersects(p, q)
  <1>1. Len(p) \in Nat /\ Len(q) \in Nat  BY LenProperties DEF Places
  <1>. QED  BY <1>1, WithinContains DEF Contains, Intersects

LEMMA DisposesContains ==
    ASSUME NEW p \in Places, NEW instr \in Instructions
    PROVE  Disposes(instr, p) <=>
               /\ instr.kind \in {"Overwrite", "DropFrom"}
               /\ ContainsAndNotSeparatedByDeref(instr.place, p)
  <1>1. instr.place \in Places  BY DEF Instructions
  <1>2. Len(p) \in Nat /\ Len(instr.place) \in Nat  BY <1>1, LenProperties DEF Places
  <1>. QED  BY <1>1, <1>2, WithinContains DEF Disposes, ContainsAndNotSeparatedByDeref

(* The place the initialisation analysis tracks is a prefix of the place. *)
LEMMA Truncated ==
    ASSUME NEW p \in Places
    PROVE  TruncateToDeref(p) \in Places /\ Contains(TruncateToDeref(p), p)
  <1> DEFINE D == {i \in 1..Len(p) : p[i] = Deref}
             Q == {SubSeq(p, 1, n) : n \in 0..Len(p)}
             Good(q) == ~HasDeref(q) /\ (Len(q) < Len(p) => p[Len(q) + 1] = Deref)
  <1>1. Len(p) \in Nat /\ \A i \in 1..Len(p) : p[i] \in Projections
    BY LenProperties, ElementOfSeq DEF Places
  <1>2. ASSUME NEW n \in 0..Len(p)
        PROVE  /\ SubSeq(p, 1, n) \in Places
               /\ Len(SubSeq(p, 1, n)) = n
               /\ \A i \in 1..n : SubSeq(p, 1, n)[i] = p[i]
    <2>1. \A i \in 1..n : p[i] \in Projections  BY <1>1
    <2>2. 1 \in Int /\ n \in Int  BY <1>1
    <2>3. /\ SubSeq(p, 1, n) \in Seq(Projections)
          /\ Len(SubSeq(p, 1, n)) = IF 1 <= n THEN n - 1 + 1 ELSE 0
          /\ \A i \in 1 .. n - 1 + 1 : SubSeq(p, 1, n)[i] = p[1 + i - 1]
      BY <2>1, <2>2, SubSeqProperties
    <2>. QED  BY <1>1, <2>3 DEF Places
  <1>3. \E n \in 0..Len(p) : (\A i \in 1..n : p[i] # Deref) /\ (n < Len(p) => p[n + 1] = Deref)
    <2>1. CASE D = {}  BY <1>1, <2>1
    <2>2. CASE D # {}
      <3>1. D \in SUBSET Nat  BY <1>1
      <3>2. PICK m \in D : \A j \in D : m <= j
        <4>1. IsWellFoundedOn(OpToRel(<, Nat), Nat)  BY NatLessThanWellFounded
        <4>2. PICK m \in D : \A j \in D : ~(<<j, m>> \in OpToRel(<, Nat))
          <5>. HIDE DEF D
          <5>. QED  BY <2>2, <3>1, <4>1, WFMin, Zenon
        <4>3. \A j \in D : ~(j < m)
          <5>. HIDE DEF D
          <5>. QED  BY <3>1, <4>2, Zenon DEF OpToRel
        <4>. QED  BY <1>1, <4>3
      <3>3. m - 1 \in 0..Len(p) /\ p[m] = Deref /\ (m - 1) + 1 = m  BY <1>1, <3>2
      <3>4. \A i \in 1..(m - 1) : p[i] # Deref  BY <1>1, <3>2
      <3>. QED  BY <3>3, <3>4
    <2>. QED  BY <2>1, <2>2
  <1>4. PICK n \in 0..Len(p) : (\A i \in 1..n : p[i] # Deref) /\ (n < Len(p) => p[n + 1] = Deref)
    BY <1>3
  <1>5. SubSeq(p, 1, n) \in Q /\ Good(SubSeq(p, 1, n))  BY <1>2, <1>4 DEF HasDeref
  <1>6. TruncateToDeref(p) \in Q  BY <1>5 DEF TruncateToDeref
  <1>7. PICK m \in 0..Len(p) : TruncateToDeref(p) = SubSeq(p, 1, m)  BY <1>6
  <1>. QED  BY <1>1, <1>2, <1>7 DEF Contains

-----------------------------------------------------------------------------
(* The graph, and what a solution of the equations says point by point.    *)

LEMMA Graph ==
    ASSUME TypeOK
    PROVE  /\ Len(cfg) \in Nat /\ Blocks = 1..Len(cfg) /\ NoBlock \notin Blocks
           /\ place \in Places /\ IPlace \in Places /\ Contains(IPlace, place)
           /\ \A b \in Blocks :
                 /\ Size(b) \in Nat
                 /\ \A i \in 1..Size(b) : cfg[b].instructions[i] \in Instructions
                 /\ cfg[b].successors \in Seq(Blocks) /\ cfg[b].predecessors \in Seq(Blocks)
                 /\ cfg[b].position_of_start \in Positions
                 /\ cfg[b].position_of_start # "Ast" => cfg[b].instructions = <<>>
           /\ \A p, b \in Blocks : p \in ElementsOf(cfg[b].predecessors)
                                      <=> b \in ElementsOf(cfg[p].successors)
  <1>1. WellFormed(cfg)  BY GraphAssumption DEF TypeOK
  <1>2. place \in Places  BY GraphAssumption DEF TypeOK
  <1>3. Len(cfg) \in Nat /\ Blocks = 1..Len(cfg)  BY <1>1 DEF WellFormed, Blocks
  <1>4. IPlace \in Places /\ Contains(IPlace, place)  BY <1>2, Truncated DEF IPlace
  <1>5. ASSUME NEW b \in Blocks
        PROVE  /\ cfg[b].instructions \in Seq(Instructions)
               /\ cfg[b].successors \in Seq(Blocks) /\ cfg[b].predecessors \in Seq(Blocks)
               /\ cfg[b].position_of_start \in Positions
               /\ cfg[b].position_of_start # "Ast" => cfg[b].instructions = <<>>
    BY <1>1, <1>3 DEF WellFormed
  <1>6. \A b \in Blocks : Size(b) \in Nat /\ \A i \in 1..Size(b) : cfg[b].instructions[i] \in Instructions
    BY <1>5, LenProperties, ElementOfSeq DEF Size
  <1>7. \A p, b \in Blocks : p \in ElementsOf(cfg[b].predecessors)
                                <=> b \in ElementsOf(cfg[p].successors)
    BY <1>1, <1>3 DEF WellFormed
  <1>. QED  BY <1>2, <1>3, <1>4, <1>5, <1>6, <1>7 DEF NoBlock

LEMMA Elements ==
    ASSUME NEW S, NEW s \in Seq(S)
    PROVE  ElementsOf(s) = {s[i] : i \in 1..Len(s)} /\ ElementsOf(s) \subseteq S
  BY LenProperties, ElementOfSeq DEF ElementsOf

LEMMA PointsOf ==
    ASSUME TypeOK
    PROVE  /\ \A b \in Blocks : \A i \in 0..Size(b) : <<b, i>> \in Points
           /\ \A pt \in Points : pt = <<pt[1], pt[2]>> /\ pt[1] \in Blocks /\ pt[2] \in 0..Size(pt[1])
  BY DEF Points

LEMMA ForwardStep ==
    ASSUME TypeOK, Solved("Forward"), NEW b \in Blocks, NEW i \in 0 .. Size(b) - 1
    PROVE  LET instr == cfg[b].instructions[i + 1]
           IN  CanBeUninit(<<b, i + 1>>) <=>
                  IF Contains(instr.place, IPlace) /\ instr.kind # "Mutate"
                  THEN instr.kind # "Overwrite" ELSE CanBeUninit(<<b, i>>)
  <1>1. StepSolved("Forward", b, i)  BY DEF Solved
  <1>. QED
    BY <1>1 DEF StepSolved, Stop, Idx, Transfer, TransferInitialization, StepInstr, CanBeUninit

LEMMA ReverseStep ==
    ASSUME TypeOK, Solved("Reverse"), NEW b \in Blocks, NEW i \in 0 .. Size(b) - 1
    PROVE  LET instr == cfg[b].instructions[i + 1]
               next == CanResolve(<<b, i + 1>>) /\ ~Intersects(instr.place, place)
           IN  CanResolve(<<b, i>>) <=>
                  IF instr.kind \in {"MoveFrom", "Mutate"} THEN next
                  ELSE ContainsAndNotSeparatedByDeref(instr.place, place) \/ next
  <1>1. Size(b) \in Nat  BY Graph
  <1>2. PICK j \in 0 .. Size(b) - 1 : j = Size(b) - 1 - i  BY <1>1
  <1>3. StepSolved("Reverse", b, j)  BY DEF Solved
  <1>4. Size(b) - (j + 1) = i /\ Size(b) - j = i + 1  BY <1>1, <1>2
  <1>5. /\ Stop("Reverse", b, j + 1) = <<b, i>>
        /\ Stop("Reverse", b, j) = <<b, i + 1>>
        /\ StepInstr("Reverse", b, j) = cfg[b].instructions[i + 1]
    BY <1>4 DEF Stop, Idx, StepInstr
  <1>. QED
    BY <1>3, <1>5 DEF StepSolved, Transfer, TransferResolve, CanResolve

LEMMA ForwardJoin ==
    ASSUME TypeOK, Solved("Forward"), NEW b \in Blocks
    PROVE  CanBeUninit(<<b, 0>>) <=>
              \/ cfg[b].is_entry
              \/ \E p \in ElementsOf(cfg[b].predecessors) : CanBeUninit(<<p, Size(p)>>)
  <1>1. JoinSolved("Forward", b)  BY DEF Solved
  <1>. QED  BY <1>1 DEF JoinSolved, Join, JoinPredecessors, Final, Stop, Idx, CanBeUninit

LEMMA ReverseJoin ==
    ASSUME TypeOK, Solved("Reverse"), NEW b \in Blocks
    PROVE  CanResolve(<<b, Size(b)>>) <=>
              /\ cfg[b].is_exit => ~HasDeref(place)
              /\ \A s \in ElementsOf(cfg[b].successors) : CanResolve(<<s, 0>>)
  <1>1. JoinSolved("Reverse", b)  BY DEF Solved
  <1>2. \A c \in Blocks : Size(c) - Size(c) = 0 /\ Size(c) - 0 = Size(c)  BY Graph
  <1>3. \A c \in Blocks : Stop("Reverse", c, Size(c)) = <<c, 0>> /\ Stop("Reverse", c, 0) = <<c, Size(c)>>
    BY <1>2 DEF Stop, Idx
  <1>4. ElementsOf(cfg[b].successors) \subseteq Blocks  BY Graph, Elements
  <1>. QED  BY <1>1, <1>3, <1>4 DEF JoinSolved, Join, JoinSuccessors, Final, CanResolve

(* Where the value can be resolved the next instruction does not change    *)
(* it, and unless that instruction disposes of it, the value can still be  *)
(* resolved and the place still holds one.                                 *)
LEMMA ResolvedStays ==
    ASSUME TypeOK, Solved("Reverse"), NEW b \in Blocks, NEW i \in 0 .. Size(b) - 1,
           CanResolve(<<b, i>>)
    PROVE  LET instr == cfg[b].instructions[i + 1]
           IN  /\ ~MayBeChanged(instr, place)
               /\ ~Disposes(instr, place) => /\ CanResolve(<<b, i + 1>>)
                                             /\ ~Within(IPlace, instr.place)
  <1> DEFINE instr == cfg[b].instructions[i + 1]
  <1>1. Size(b) \in Nat /\ i + 1 \in 1..Size(b)  BY Graph
  <1>2. instr \in Instructions  BY <1>1, Graph
  <1>3. instr.place \in Places /\ instr.kind \in Kinds  BY <1>2 DEF Instructions
  <1>4. place \in Places /\ IPlace \in Places /\ Contains(IPlace, place)  BY Graph
  <1>. HIDE DEF instr
  <1>5. IF instr.kind \in {"MoveFrom", "Mutate"}
        THEN CanResolve(<<b, i + 1>>) /\ ~Intersects(instr.place, place)
        ELSE \/ ContainsAndNotSeparatedByDeref(instr.place, place)
             \/ CanResolve(<<b, i + 1>>) /\ ~Intersects(instr.place, place)
    BY ReverseStep DEF instr
  <1>6. Disposes(instr, place) <=> instr.kind \in {"Overwrite", "DropFrom"}
                                     /\ ContainsAndNotSeparatedByDeref(instr.place, place)
    BY <1>2, <1>4, DisposesContains
  <1>7. ~Disposes(instr, place) => CanResolve(<<b, i + 1>>) /\ ~Intersects(instr.place, place)
    BY <1>3, <1>5, <1>6 DEF Kinds
  <1>8. ~MayBeChanged(instr, place)  BY <1>3, <1>4, <1>7, IntersectsWithin DEF MayBeChanged
  <1>9. ASSUME Within(IPlace, instr.place) PROVE Intersects(instr.place, place)
    <2>1. Contains(instr.place, IPlace)  BY <1>3, <1>4, <1>9, WithinContains
    <2>2. Len(instr.place) \in Nat /\ Len(IPlace) \in Nat /\ Len(place) \in Nat
      BY <1>3, <1>4, LenProperties DEF Places
    <2>. QED  BY <1>4, <2>1, <2>2 DEF Contains, Intersects
  <1>. QED  BY <1>7, <1>8, <1>9 DEF instr

-----------------------------------------------------------------------------
(* The worklist algorithm.                                                 *)

LEMMA Initially == Init => SoundInv
  <1> SUFFICES ASSUME Init PROVE SoundInv
    OBVIOUS
  <1>1. WellFormed(cfg)  BY GraphAssumption DEF Init
  <1>2. Len(cfg) \in Nat /\ Blocks = 1..Len(cfg)  BY <1>1 DEF WellFormed, Blocks
  <1>3. worklist = [i \in Blocks |-> i]  BY DEF Init, InitialWorklist
  <1>4. worklist \in Seq(Blocks) /\ ElementsOf(worklist) = Blocks
    BY <1>2, <1>3 DEF ElementsOf
  <1>5. output \in [Dirs -> SUBSET Points]  BY DEF Init, InitialOutput
  <1>6. TypeOK  BY <1>4, <1>5 DEF Init, TypeOK, Dirs
  <1>7. VisitsOwed  BY <1>4 DEF Init, VisitsOwed
  <1>8. AnalysesSolved /\ InsertedSafely /\ RunsWithin
    BY DEF Init, AnalysesSolved, InsertedSafely, RunsWithin, Dirs
  <1>. QED  BY <1>6, <1>7, <1>8 DEF SoundInv

LEMMA Stops ==
    ASSUME TypeOK, NEW dir \in Dirs
    PROVE  /\ \A b \in Blocks : \A i \in 0..Size(b) : Stop(dir, b, i) \in Points
           /\ \A b, c \in Blocks : \A i, j \in Nat :
                 Stop(dir, b, i) = Stop(dir, c, j) => b = c /\ i = j
  <1>1. \A b \in Blocks : Size(b) \in Nat  BY Graph
  <1>2. \A b \in Blocks : \A i \in 0..Size(b) : Idx(dir, b, i) \in 0..Size(b)
    BY <1>1 DEF Idx
  <1>3. \A b \in Blocks : \A i, j \in Nat : Idx(dir, b, i) = Idx(dir, b, j) => i = j
    BY <1>1 DEF Idx
  <1>. QED  BY <1>2, <1>3, PointsOf DEF Stop

(* A value written changes that point of the running analysis only. *)
LEMMA Written ==
    ASSUME TypeOK, phase \in Dirs, NEW pt \in Points, NEW v \in BOOLEAN, Write(pt, v)
    PROVE  /\ output' \in [Dirs -> SUBSET Points]
           /\ \A q : q \in output'[phase] <=> IF q = pt THEN v ELSE q \in output[phase]
           /\ \A dir \in Dirs \ {phase} : output'[dir] = output[dir]
  BY DEF TypeOK, Write

(* A visit to b can disturb only the equations of b, and the joins of the  *)
(* blocks that follow it.                                                  *)
LEMMA OnlyTargetsRead ==
    ASSUME TypeOK, phase \in Dirs, UNCHANGED <<cfg, place, phase>>, NEW b \in Blocks,
           \A c \in Blocks \ {b} : \A i \in 0..Size(c) :
              Stop(phase, c, i) \in output'[phase] <=> Stop(phase, c, i) \in output[phase]
    PROVE  /\ \A c \in Blocks \ ElementsOf(Targets(phase, b)) : Join(phase, c)' <=> Join(phase, c)
           /\ \A c \in Blocks \ {b} : \A i \in 0 .. Size(c) - 1 :
                 StepSolved(phase, c, i)' <=> StepSolved(phase, c, i)
  <1>1. \A c \in Blocks : Size(c) \in Nat  BY Graph
  <1>2. \A c \in Blocks \ {b} : Final(phase, c)' <=> Final(phase, c)
    BY <1>1 DEF Final, Stop, Idx, Size
  <1>3. \A c, d \in Blocks : c \in ElementsOf(Sources(phase, d)) <=> d \in ElementsOf(Targets(phase, c))
    BY Graph DEF Sources, Targets
  <1>4. \A c \in Blocks : ElementsOf(Sources(phase, c)) \subseteq Blocks
    BY Graph, Elements DEF Sources
  <1>5. ASSUME NEW c \in Blocks \ ElementsOf(Targets(phase, b))
        PROVE  Join(phase, c)' <=> Join(phase, c)
    <2>1. \A d \in ElementsOf(Sources(phase, c)) : Final(phase, d)' <=> Final(phase, d)
      BY <1>2, <1>3, <1>4, <1>5
    <2>2. CASE phase = "Forward"
      BY <2>1, <2>2 DEF Sources, Join, JoinPredecessors
    <2>3. CASE phase = "Reverse"
      BY <2>1, <2>3 DEF Sources, Join, JoinSuccessors
    <2>. QED  BY <2>2, <2>3 DEF Dirs
  <1>6. ASSUME NEW c \in Blocks \ {b}, NEW i \in 0 .. Size(c) - 1
        PROVE  StepSolved(phase, c, i)' <=> StepSolved(phase, c, i)
    <2>1. i \in 0..Size(c) /\ i + 1 \in 0..Size(c)  BY <1>1
    <2>2. /\ Stop(phase, c, i) \in output'[phase] <=> Stop(phase, c, i) \in output[phase]
          /\ Stop(phase, c, i + 1) \in output'[phase] <=> Stop(phase, c, i + 1) \in output[phase]
      BY <2>1
    <2>3. /\ Stop(phase, c, i)' = Stop(phase, c, i) /\ Stop(phase, c, i + 1)' = Stop(phase, c, i + 1)
          /\ StepInstr(phase, c, i)' = StepInstr(phase, c, i)
      BY DEF Stop, Idx, Size, StepInstr
    <2>4. \A v, instr : Transfer(phase, v, instr)' = Transfer(phase, v, instr)
      BY DEF Transfer, TransferInitialization, TransferResolve, IPlace
    <2>. QED  BY <2>2, <2>3, <2>4 DEF StepSolved
  <1>. QED  BY <1>5, <1>6

(* What no step of an analysis touches. *)
Analysing == phase \in Dirs /\ UNCHANGED <<Input, phase, Later>>

LEMMA AnalysisFrame ==
    ASSUME SoundInv, Analysing, TypeOK', VisitsOwed',
           \A dir \in Dirs \ {phase} : output'[dir] = output[dir]
    PROVE  SoundInv'
  <1>1. AnalysesSolved'
    <2>1. CASE phase = "Forward"  BY <2>1 DEF Analysing, AnalysesSolved, Dirs
    <2>2. CASE phase = "Reverse"
      <3>1. Solved("Forward") /\ output'["Forward"] = output["Forward"]
        BY <2>2 DEF SoundInv, AnalysesSolved, Dirs
      <3>2. UNCHANGED <<cfg, place>>  BY DEF Analysing, Input
      <3>3. Solved("Forward")'
        BY <3>1, <3>2 DEF Solved, JoinSolved, StepSolved, Blocks, Size, Stop, Idx, Join,
              JoinPredecessors, Final, Transfer, TransferInitialization, IPlace, StepInstr
      <3>. QED  BY <2>2, <3>3 DEF Analysing, AnalysesSolved, Dirs
    <2>. QED  BY <2>1, <2>2 DEF Analysing, Dirs
  <1>2. InsertedSafely' /\ RunsWithin'
    BY DEF SoundInv, Analysing, Later, InsertedSafely, RunsWithin, Dirs
  <1>. QED  BY <1>1, <1>2 DEF SoundInv

LEMMA HeadAndTail ==
    ASSUME NEW S, NEW s \in Seq(S), s # <<>>
    PROVE  /\ Head(s) \in S /\ Tail(s) \in Seq(S)
           /\ ElementsOf(s) = {Head(s)} \cup ElementsOf(Tail(s))
  <1>1. /\ Len(s) \in Nat /\ Len(s) >= 1 /\ Head(s) \in S /\ Tail(s) \in Seq(S)
        /\ Head(s) = s[1] /\ Len(Tail(s)) = Len(s) - 1
        /\ \A i \in 1 .. Len(Tail(s)) : Tail(s)[i] = s[i + 1]
    BY HeadTailProperties, LenProperties, EmptySeq
  <1>2. /\ ElementsOf(s) = {s[i] : i \in 1..Len(s)}
        /\ ElementsOf(Tail(s)) = {Tail(s)[i] : i \in 1..Len(Tail(s))}
    BY <1>1, Elements
  <1>3. \A i \in 1..Len(s) : i = 1 \/ (i - 1 \in 1..Len(Tail(s)) /\ s[i] = Tail(s)[i - 1])
    BY <1>1
  <1>4. ElementsOf(s) \subseteq {Head(s)} \cup ElementsOf(Tail(s))
    BY <1>1, <1>2, <1>3
  <1>5. \A i \in 1..Len(Tail(s)) : i + 1 \in 1..Len(s) /\ Tail(s)[i] = s[i + 1]
    BY <1>1
  <1>6. {Head(s)} \cup ElementsOf(Tail(s)) \subseteq ElementsOf(s)
    BY <1>1, <1>2, <1>5
  <1>. QED  BY <1>1, <1>4, <1>6

LEMMA Appended ==
    ASSUME NEW S, NEW s \in Seq(S), NEW e \in S
    PROVE  Append(s, e) \in Seq(S) /\ ElementsOf(Append(s, e)) = ElementsOf(s) \cup {e}
  <1>1. /\ Len(s) \in Nat /\ Append(s, e) \in Seq(S) /\ Len(Append(s, e)) = Len(s) + 1
        /\ \A i \in 1..Len(s) : Append(s, e)[i] = s[i]
        /\ Append(s, e)[Len(s) + 1] = e
    BY AppendProperties, LenProperties
  <1>2. /\ ElementsOf(s) = {s[i] : i \in 1..Len(s)}
        /\ ElementsOf(Append(s, e)) = {Append(s, e)[i] : i \in 1 .. Len(s) + 1}
    BY <1>1, Elements
  <1>3. \A i \in 1 .. Len(s) + 1 : i \in 1..Len(s) \/ i = Len(s) + 1  BY <1>1
  <1>4. Len(s) + 1 \in 1 .. Len(s) + 1 /\ \A i \in 1..Len(s) : i \in 1 .. Len(s) + 1  BY <1>1
  <1>5. ElementsOf(Append(s, e)) \subseteq ElementsOf(s) \cup {e}
    BY <1>1, <1>2, <1>3
  <1>6. ElementsOf(s) \cup {e} \subseteq ElementsOf(Append(s, e))
    BY <1>1, <1>2, <1>4
  <1>. QED  BY <1>1, <1>5, <1>6

(* What is left of a sequence after its first n elements. *)
Rest(s, n) == {s[j] : j \in {j \in 1..Len(s) : j > n}}

LEMMA RestOf ==
    ASSUME NEW S, NEW s \in Seq(S), NEW n \in Int
    PROVE  /\ n <= 0 => Rest(s, n) = ElementsOf(s)
           /\ n >= Len(s) => Rest(s, n) = {}
           /\ n + 1 \in 1..Len(s) => Rest(s, n) = Rest(s, n + 1) \cup {s[n + 1]}
  <1>1. Len(s) \in Nat /\ ElementsOf(s) = {s[j] : j \in 1..Len(s)}  BY Elements, LenProperties
  <1>2. ASSUME n <= 0 PROVE Rest(s, n) = ElementsOf(s)
    <2>1. {j \in 1..Len(s) : j > n} = 1..Len(s)  BY <1>1, <1>2
    <2>. QED  BY <1>1, <2>1 DEF Rest
  <1>3. ASSUME n >= Len(s) PROVE Rest(s, n) = {}
    <2>1. {j \in 1..Len(s) : j > n} = {}  BY <1>1, <1>3
    <2>. QED  BY <2>1 DEF Rest
  <1>4. ASSUME n + 1 \in 1..Len(s) PROVE Rest(s, n) = Rest(s, n + 1) \cup {s[n + 1]}
    <2>1. {j \in 1..Len(s) : j > n} = {j \in 1..Len(s) : j > n + 1} \cup {n + 1}  BY <1>1, <1>4
    <2>. QED  BY <2>1 DEF Rest
  <1>. QED  BY <1>2, <1>3, <1>4

LEMMA ToPush ==
    ASSUME TypeOK, phase \in Dirs
    PROVE  /\ \A b \in Blocks : Targets(phase, b) \in Seq(Blocks)
                                 /\ ElementsOf(Targets(phase, b)) \subseteq Blocks
           /\ cur # NoBlock => cur \in Blocks /\ StillToPush = Rest(Targets(phase, cur), k - Size(cur))
           /\ cur = NoBlock => StillToPush = {}
  BY Graph, Elements DEF TypeOK, Targets, StillToPush, Rest

(* What stays when the values of the analyses do. *)
LEMMA Frozen ==
    ASSUME UNCHANGED <<cfg, place, output>>
    PROVE  /\ UNCHANGED <<Blocks, Points>>
           /\ \A dir, c : JoinSolved(dir, c)' <=> JoinSolved(dir, c)
           /\ \A dir, c, i : StepSolved(dir, c, i)' <=> StepSolved(dir, c, i)
           /\ \A dir : Solved(dir)' <=> Solved(dir)
           /\ \A pt : CanAssumeHasResolved(pt)' <=> CanAssumeHasResolved(pt)
  <1>1. UNCHANGED <<Blocks, Points>>  BY DEF Blocks, Points, Size
  <1>2. /\ \A dir, c : JoinSolved(dir, c)' <=> JoinSolved(dir, c)
        /\ \A dir, c, i : StepSolved(dir, c, i)' <=> StepSolved(dir, c, i)
    BY DEF JoinSolved, StepSolved, Size, Stop, Idx, Join, JoinPredecessors,
          JoinSuccessors, Final, Transfer, TransferInitialization, TransferResolve, IPlace, StepInstr
  <1>3. \A dir : Solved(dir)' <=> Solved(dir)  BY <1>1, <1>2 DEF Solved, Size
  <1>4. \A pt : CanAssumeHasResolved(pt)' <=> CanAssumeHasResolved(pt)
    BY DEF CanAssumeHasResolved, CanBeUninit, CanResolve
  <1>. QED  BY <1>1, <1>2, <1>3, <1>4

(* The first visit of a block, and one that brings a new value. *)
LEMMA PopKeeps ==
    ASSUME SoundInv, Pop
    PROVE  SoundInv'
  <1> DEFINE b == Head(worklist)
             start == Stop(phase, b, 0)
  <1>1. TypeOK /\ VisitsOwed /\ phase \in Dirs /\ cur = NoBlock /\ Analysing /\ k' = 0
    BY DEF SoundInv, Pop, Analysing
  <1>2. UNCHANGED <<cfg, place, phase>>  BY <1>1 DEF Analysing, Input
  <1>3. /\ b \in Blocks /\ worklist' = Tail(worklist) /\ worklist' \in Seq(Blocks)
        /\ ElementsOf(worklist) = {b} \cup ElementsOf(worklist')
    BY <1>1, HeadAndTail DEF Pop, TypeOK
  <1>4. /\ Size(b) \in Nat /\ start \in Points
        /\ \A c \in Blocks : 0 \in 0..Size(c)
    <2>1. \A c \in Blocks : Size(c) \in Nat /\ 0 \in 0..Size(c)  BY <1>1, Graph
    <2>. QED  BY <1>1, <1>3, <2>1, Stops
  <1>5. UNCHANGED <<Blocks, Points>>  BY <1>2 DEF Blocks, Points, Size
  <1>6. StillToPush = {}  BY <1>1, ToPush
  <1>. HIDE DEF b, start
  <1>7. CASE b \notin has_run \/ ~(start \in output[phase] <=> Join(phase, b))
    <2>1. Write(start, Join(phase, b)) /\ has_run' = has_run \cup {b} /\ cur' = b
      BY <1>7 DEF Pop, b, start
    <2>2. Join(phase, b) \in BOOLEAN  BY DEF Join, JoinPredecessors, JoinSuccessors
    <2>3. /\ output' \in [Dirs -> SUBSET Points]
          /\ \A q : q \in output'[phase] <=> IF q = start THEN Join(phase, b) ELSE q \in output[phase]
          /\ \A dir \in Dirs \ {phase} : output'[dir] = output[dir]
      BY <1>1, <1>4, <2>1, <2>2, Written
    <2>4. TypeOK'  BY <1>1, <1>2, <1>3, <1>5, <2>1, <2>3 DEF TypeOK
    <2>5. \A c \in Blocks \ {b} : \A i \in 0..Size(c) : Stop(phase, c, i) # start
      <3>1. \A c \in Blocks \ {b} : \A i \in 0..Size(c) : Stop(phase, c, i) # Stop(phase, b, 0)
        BY <1>1, <1>3, Stops, Graph
      <3>. QED  BY <3>1 DEF start
    <2>6. \A c \in Blocks \ {b} : \A i \in 0..Size(c) :
             Stop(phase, c, i) \in output'[phase] <=> Stop(phase, c, i) \in output[phase]
      BY <2>3, <2>5
    <2>7. /\ \A c \in Blocks \ ElementsOf(Targets(phase, b)) : Join(phase, c)' <=> Join(phase, c)
          /\ \A c \in Blocks \ {b} : \A i \in 0 .. Size(c) - 1 :
                StepSolved(phase, c, i)' <=> StepSolved(phase, c, i)
      BY <1>1, <1>2, <1>3, <2>6, OnlyTargetsRead
    <2>8. StillToPush' = ElementsOf(Targets(phase, b))
      <3>1. StillToPush' = Rest(Targets(phase, b), 0 - Size(b))
        BY <1>1, <1>2, <1>3, <2>1, Graph DEF StillToPush, Rest, Targets, Size
      <3>2. 0 - Size(b) \in Int /\ 0 - Size(b) <= 0  BY <1>4
      <3>3. Targets(phase, b) \in Seq(Blocks)  BY <1>1, <1>3, ToPush
      <3>. QED  BY <3>1, <3>2, <3>3, RestOf
    <2>9. (Blocks \ has_run \subseteq ElementsOf(worklist))'
      BY <1>1, <1>3, <1>5, <2>1 DEF VisitsOwed
    <2>10. ASSUME NEW c \in has_run', c \notin ElementsOf(worklist'), c \notin StillToPush'
           PROVE  JoinSolved(phase, c)'
      <3>1. c \in Blocks \ ElementsOf(Targets(phase, b))
        BY <2>1, <2>8, <2>10, <1>1, <1>3 DEF TypeOK
      <3>2. (Stop(phase, c, 0) \in output[phase])' <=> Stop(phase, c, 0) \in output'[phase]
        BY <1>2 DEF Stop, Idx, Size
      <3>3. CASE c = b  BY <2>3, <2>7, <3>1, <3>2, <3>3 DEF JoinSolved, start
      <3>4. CASE c # b
        <4>1. c \in has_run /\ c \notin ElementsOf(worklist)  BY <1>3, <2>1, <2>10, <3>4
        <4>2. JoinSolved(phase, c)  BY <1>1, <1>6, <4>1 DEF VisitsOwed
        <4>. QED  BY <1>4, <2>6, <2>7, <3>1, <3>2, <3>4, <4>2 DEF JoinSolved
      <3>. QED  BY <3>3, <3>4
    <2>11. ASSUME NEW c \in has_run', NEW i \in (0 .. Size(c) - 1)', c # b
           PROVE  StepSolved(phase, c, i)'
      <3>1. c \in has_run /\ c \in Blocks /\ c # cur /\ i \in 0 .. Size(c) - 1
        BY <1>1, <1>2, <2>1, <2>11, Graph DEF TypeOK, Size
      <3>. QED  BY <1>1, <2>7, <2>11, <3>1 DEF VisitsOwed
    <2>12. VisitsOwed'
      <3>1. \A c \in has_run' : \A i \in (0 .. Size(c) - 1)' : (c = cur' /\ i >= k') \/ StepSolved(phase, c, i)'
        <4>1. \A c \in has_run' : \A i \in (0 .. Size(c) - 1)' : i >= 0  OBVIOUS
        <4>. QED  BY <1>1, <2>1, <2>11, <4>1
      <3>. QED  BY <1>2, <2>9, <2>10, <3>1 DEF VisitsOwed
    <2>. QED  BY <1>1, <2>3, <2>4, <2>12, AnalysisFrame
  <1>8. CASE ~(b \notin has_run \/ ~(start \in output[phase] <=> Join(phase, b)))
    <2>1. UNCHANGED <<output, has_run, cur>>  BY <1>8 DEF Pop, b, start
    <2>2. TypeOK'  BY <1>1, <1>2, <1>3, <1>5, <2>1 DEF TypeOK
    <2>3. \A c \in has_run :
             c \in ElementsOf(worklist') \/ JoinSolved(phase, c)
      BY <1>1, <1>3, <1>6, <1>8 DEF VisitsOwed, JoinSolved, start
    <2>4. /\ \A c : JoinSolved(phase, c)' <=> JoinSolved(phase, c)
          /\ \A c, i : StepSolved(phase, c, i)' <=> StepSolved(phase, c, i)
      BY <1>2, <2>1, Frozen
    <2>5. \A c \in has_run : \A i \in 0 .. Size(c) - 1 : StepSolved(phase, c, i)
      BY <1>1, Graph DEF VisitsOwed, TypeOK
    <2>6. Blocks \ has_run \subseteq ElementsOf(worklist')
      BY <1>1, <1>3, <1>8 DEF VisitsOwed
    <2>7. VisitsOwed'  BY <1>2, <1>5, <2>1, <2>3, <2>4, <2>5, <2>6 DEF VisitsOwed, Size
    <2>. QED  BY <1>1, <2>1, <2>2, <2>7, AnalysisFrame
  <1>. QED  BY <1>7, <1>8

LEMMA TransferStepKeeps ==
    ASSUME SoundInv, TransferStep
    PROVE  SoundInv'
  <1> DEFINE target == Stop(phase, cur, k + 1)
             v == Transfer(phase, Stop(phase, cur, k) \in output[phase], StepInstr(phase, cur, k))
  <1>1. /\ TypeOK /\ VisitsOwed /\ phase \in Dirs /\ cur # NoBlock /\ Analysing
        /\ k < Size(cur) /\ k' = k + 1 /\ UNCHANGED <<worklist, has_run, cur>>
    BY DEF SoundInv, TransferStep, Analysing
  <1>2. UNCHANGED <<cfg, place, phase>>  BY <1>1 DEF Analysing, Input
  <1>3. UNCHANGED <<Blocks, Points>>  BY <1>2 DEF Blocks, Points, Size
  <1>4. /\ cur \in Blocks /\ Targets(phase, cur) \in Seq(Blocks)
        /\ StillToPush = Rest(Targets(phase, cur), k - Size(cur))
    BY <1>1, ToPush
  <1>5. k \in Nat /\ \A c \in Blocks : Size(c) \in Nat  BY <1>1, Graph DEF TypeOK
  <1>6. k \in 0..Size(cur) /\ k + 1 \in 0..Size(cur)  BY <1>1, <1>4, <1>5
  <1>7. target \in Points  BY <1>1, <1>4, <1>6, Stops
  <1>8. v \in BOOLEAN
    <2>1. CASE phase = "Forward"
      <3>1. \A w \in BOOLEAN : \A instr : TransferInitialization(w, instr) \in BOOLEAN
        BY DEF TransferInitialization
      <3>2. (Stop(phase, cur, k) \in output[phase]) \in BOOLEAN  OBVIOUS
      <3>3. TransferInitialization(Stop(phase, cur, k) \in output[phase], StepInstr(phase, cur, k)) \in BOOLEAN
        BY <3>1, <3>2, Zenon
      <3>. QED  BY <2>1, <3>3, Zenon DEF Transfer
    <2>2. CASE phase # "Forward"
      BY <2>2 DEF Transfer, TransferResolve, ContainsAndNotSeparatedByDeref, Contains
    <2>. QED  BY <2>1, <2>2
  <1>9. Write(target, v)  BY DEF TransferStep
  <1>. HIDE DEF target, v
  <1>10. /\ output' \in [Dirs -> SUBSET Points]
         /\ \A q : q \in output'[phase] <=> IF q = target THEN v ELSE q \in output[phase]
         /\ \A dir \in Dirs \ {phase} : output'[dir] = output[dir]
    BY <1>1, <1>7, <1>8, <1>9, Written
  <1>11. TypeOK'  BY <1>1, <1>2, <1>3, <1>5, <1>10 DEF TypeOK
  <1>12. \A c \in Blocks : \A i \in 0..Size(c) : Stop(phase, c, i) = target => c = cur /\ i = k + 1
    <2>1. \A c \in Blocks : \A i \in Nat : Stop(phase, c, i) = Stop(phase, cur, k + 1) => c = cur /\ i = k + 1
      BY <1>1, <1>4, <1>5, Stops
    <2>. QED  BY <1>5, <2>1 DEF target
  <1>13. \A c \in Blocks : \A i \in 0..Size(c) : ~(c = cur /\ i = k + 1) =>
            (Stop(phase, c, i) \in output'[phase] <=> Stop(phase, c, i) \in output[phase])
    BY <1>10, <1>12
  <1>14. /\ \A c \in Blocks \ ElementsOf(Targets(phase, cur)) : Join(phase, c)' <=> Join(phase, c)
         /\ \A c \in Blocks \ {cur} : \A i \in 0 .. Size(c) - 1 :
               StepSolved(phase, c, i)' <=> StepSolved(phase, c, i)
    BY <1>1, <1>2, <1>4, <1>13, OnlyTargetsRead
  <1>15. StillToPush = ElementsOf(Targets(phase, cur)) /\ StillToPush' = ElementsOf(Targets(phase, cur))
    <2>1. StillToPush' = Rest(Targets(phase, cur), (k + 1) - Size(cur))
      BY <1>1, <1>2 DEF StillToPush, Rest, Targets, Size
    <2>2. /\ k - Size(cur) \in Int /\ k - Size(cur) <= 0
          /\ (k + 1) - Size(cur) \in Int /\ (k + 1) - Size(cur) <= 0
      BY <1>1, <1>4, <1>5
    <2>. QED  BY <1>4, <2>1, <2>2, RestOf
  <1>16. ASSUME NEW c \in has_run, c \notin ElementsOf(worklist), c \notin StillToPush'
         PROVE  JoinSolved(phase, c)'
    <2>1. c \in Blocks /\ JoinSolved(phase, c)  BY <1>1, <1>15, <1>16 DEF VisitsOwed, TypeOK
    <2>2. 0 \in 0..Size(c) /\ 0 # k + 1  BY <1>5, <2>1
    <2>3. (Stop(phase, c, 0) \in output[phase])' <=> Stop(phase, c, 0) \in output[phase]
      <3>1. (Stop(phase, c, 0) \in output[phase])' <=> Stop(phase, c, 0) \in output'[phase]
        BY <1>2 DEF Stop, Idx, Size
      <3>. QED  BY <1>13, <2>1, <2>2, <3>1
    <2>. QED  BY <1>14, <1>15, <1>16, <2>1, <2>3 DEF JoinSolved
  <1>17. ASSUME NEW c \in has_run, NEW i \in 0 .. Size(c) - 1, ~(c = cur /\ i >= k + 1)
         PROVE  StepSolved(phase, c, i)'
    <2>1. c \in Blocks  BY <1>1 DEF TypeOK
    <2>2. i \in 0..Size(c) /\ i + 1 \in 0..Size(c)  BY <1>5, <2>1
    <2>3. /\ Stop(phase, c, i)' = Stop(phase, c, i) /\ Stop(phase, c, i + 1)' = Stop(phase, c, i + 1)
          /\ StepInstr(phase, c, i)' = StepInstr(phase, c, i)
      BY <1>2 DEF Stop, Idx, Size, StepInstr
    <2>4. \A w, instr : Transfer(phase, w, instr)' = Transfer(phase, w, instr)
      BY <1>2 DEF Transfer, TransferInitialization, TransferResolve, IPlace
    <2>5. CASE c # cur  BY <1>1, <1>14, <1>17, <2>1, <2>5 DEF VisitsOwed
    <2>6. CASE c = cur /\ i = k
      <3>1. Stop(phase, c, i) \in output'[phase] <=> Stop(phase, c, i) \in output[phase]
        BY <1>5, <1>13, <2>1, <2>2, <2>6
      <3>2. Stop(phase, c, i + 1) \in output'[phase] <=> v  BY <1>10, <2>6 DEF target
      <3>. QED  BY <1>2, <2>3, <2>4, <2>6, <3>1, <3>2 DEF StepSolved, v
    <2>7. CASE c = cur /\ i < k
      <3>1. StepSolved(phase, c, i)  BY <1>1, <1>5, <2>7 DEF VisitsOwed
      <3>2. i # k + 1 /\ i + 1 # k + 1  BY <1>5, <2>7
      <3>3. /\ Stop(phase, c, i) \in output'[phase] <=> Stop(phase, c, i) \in output[phase]
            /\ Stop(phase, c, i + 1) \in output'[phase] <=> Stop(phase, c, i + 1) \in output[phase]
        BY <1>13, <2>1, <2>2, <3>2
      <3>. QED  BY <1>2, <2>3, <2>4, <3>1, <3>3 DEF StepSolved
    <2>. QED  BY <1>5, <1>17, <2>5, <2>6, <2>7
  <1>18. VisitsOwed'
    <2>1. \A c \in has_run : Size(c)' = Size(c)  BY <1>2 DEF Size
    <2>. QED  BY <1>1, <1>2, <1>3, <1>16, <1>17, <2>1 DEF VisitsOwed
  <1>. QED  BY <1>1, <1>10, <1>11, <1>18, AnalysisFrame

LEMMA PushKeeps ==
    ASSUME SoundInv, Push
    PROVE  SoundInv'
  <1> DEFINE t == Targets(phase, cur)
             n == k - Size(cur)
             bb1 == t[n + 1]
  <1>1. /\ TypeOK /\ VisitsOwed /\ phase \in Dirs /\ cur # NoBlock /\ Analysing
        /\ k >= Size(cur) /\ n < Len(t) /\ k' = k + 1 /\ UNCHANGED <<has_run, cur, output>>
    BY DEF SoundInv, Push, Analysing
  <1>2. UNCHANGED <<cfg, place, phase>>  BY <1>1 DEF Analysing, Input
  <1>3. cur \in Blocks /\ t \in Seq(Blocks) /\ StillToPush = Rest(t, n)
    BY <1>1, ToPush
  <1>4. k \in Nat /\ Size(cur) \in Nat /\ Len(t) \in Nat
    BY <1>1, <1>3, Graph, LenProperties DEF TypeOK
  <1>5. worklist' = IF bb1 \in ElementsOf(worklist) THEN worklist ELSE Append(worklist, bb1)
    BY DEF Push
  <1>6. StillToPush' = Rest(t, (k + 1) - Size(cur))
    BY <1>1, <1>2 DEF StillToPush, Rest, Targets, Size
  <1>. HIDE DEF t
  <1>7. n \in Int /\ n + 1 \in 1..Len(t) /\ (k + 1) - Size(cur) = n + 1  BY <1>1, <1>4
  <1>8. StillToPush = StillToPush' \cup {bb1}  BY <1>3, <1>6, <1>7, RestOf
  <1>9. bb1 \in Blocks  BY <1>3, <1>7, ElementOfSeq
  <1>. HIDE DEF bb1
  <1>10. worklist' \in Seq(Blocks) /\ ElementsOf(worklist') = ElementsOf(worklist) \cup {bb1}
    BY <1>1, <1>5, <1>9, Appended DEF TypeOK
  <1>11. TypeOK'  BY <1>1, <1>2, <1>4, <1>10, Frozen DEF TypeOK
  <1>12. \A c \in has_run : c \in ElementsOf(worklist') \/ c \in StillToPush' \/ JoinSolved(phase, c)
    BY <1>1, <1>8, <1>10 DEF VisitsOwed
  <1>13. \A c \in has_run : \A i \in 0 .. Size(c) - 1 : StepSolved(phase, c, i)
    <2>1. \A i \in 0 .. Size(cur) - 1 : ~(i >= k)  BY <1>1, <1>4
    <2>. QED  BY <1>1, <2>1 DEF VisitsOwed
  <1>14. VisitsOwed'
    <2>1. \A c : Size(c)' = Size(c)  BY <1>2 DEF Size
    <2>2. Blocks \ has_run \subseteq ElementsOf(worklist')  BY <1>1, <1>10 DEF VisitsOwed
    <2>. QED  BY <1>1, <1>2, <1>12, <1>13, <2>1, <2>2, Frozen DEF VisitsOwed
  <1>. QED  BY <1>1, <1>11, <1>14, AnalysisFrame

LEMMA VisitedKeeps ==
    ASSUME SoundInv, Visited
    PROVE  SoundInv'
  <1> DEFINE t == Targets(phase, cur)
  <1>1. /\ TypeOK /\ VisitsOwed /\ phase \in Dirs /\ cur # NoBlock /\ Analysing /\ cur' = NoBlock
        /\ k = Size(cur) + Len(t) /\ k' = 0 /\ UNCHANGED <<worklist, has_run, output>>
    BY DEF SoundInv, Visited, Analysing
  <1>2. UNCHANGED <<cfg, place, phase>>  BY <1>1 DEF Analysing, Input
  <1>3. cur \in Blocks /\ t \in Seq(Blocks) /\ StillToPush = Rest(t, k - Size(cur))
    BY <1>1, ToPush
  <1>. HIDE DEF t
  <1>4. k \in Nat /\ Size(cur) \in Nat /\ Len(t) \in Nat
    BY <1>1, <1>3, Graph, LenProperties DEF TypeOK
  <1>5. k - Size(cur) \in Int /\ k - Size(cur) >= Len(t) /\ k >= Size(cur)  BY <1>1, <1>4
  <1>6. StillToPush = {}  BY <1>3, <1>5, RestOf
  <1>7. TypeOK'  BY <1>1, <1>2, Frozen DEF TypeOK
  <1>8. \A c \in has_run : \A i \in 0 .. Size(c) - 1 : StepSolved(phase, c, i)
    <2>1. \A i \in 0 .. Size(cur) - 1 : ~(i >= k)  BY <1>4, <1>5
    <2>. QED  BY <1>1, <2>1 DEF VisitsOwed
  <1>9. VisitsOwed'
    <2>1. \A c : Size(c)' = Size(c)  BY <1>2 DEF Size
    <2>2. \A c \in has_run : c \in ElementsOf(worklist) \/ JoinSolved(phase, c)
      BY <1>1, <1>6 DEF VisitsOwed
    <2>. QED  BY <1>1, <1>2, <1>8, <2>1, <2>2, Frozen DEF VisitsOwed
  <1>. QED  BY <1>1, <1>7, <1>9, AnalysisFrame

LEMMA AnalyseKeeps == SoundInv /\ Analyse => SoundInv'
  BY PopKeeps, TransferStepKeeps, PushKeeps, VisitedKeeps DEF Analyse

-----------------------------------------------------------------------------
(* The choice of the points, and the executions.                           *)

(* When the worklist is empty the equations are solved. *)
LEMMA Settled ==
    ASSUME SoundInv, phase \in Dirs, cur = NoBlock, worklist = <<>>
    PROVE  Solved(phase)
  <1>1. TypeOK /\ VisitsOwed  BY DEF SoundInv
  <1>2. ElementsOf(worklist) = {}  BY DEF ElementsOf
  <1>3. StillToPush = {}  BY DEF StillToPush
  <1>4. has_run = Blocks  BY <1>1, <1>2 DEF VisitsOwed, TypeOK
  <1>5. \A b \in Blocks : JoinSolved(phase, b)  BY <1>1, <1>2, <1>3, <1>4 DEF VisitsOwed
  <1>6. \A b \in Blocks : b # cur  BY <1>1, Graph
  <1>7. \A b \in Blocks : \A i \in 0 .. Size(b) - 1 : StepSolved(phase, b, i)
    BY <1>1, <1>4, <1>6 DEF VisitsOwed
  <1>. QED  BY <1>5, <1>7 DEF Solved

LEMMA NextAnalysisKeeps ==
    ASSUME SoundInv, NextAnalysis
    PROVE  SoundInv'
  <1>1. /\ TypeOK /\ phase = "Forward" /\ cur = NoBlock /\ worklist = <<>> /\ phase' = "Reverse"
        /\ worklist' = InitialWorklist("Reverse") /\ has_run' = {}
        /\ UNCHANGED <<cfg, place, cur, k, output, pending, inserted>>
    BY DEF SoundInv, NextAnalysis, Input, Later
  <1>2. Solved("Forward")  BY <1>1, Settled DEF Dirs
  <1>3. Len(cfg) \in Nat /\ Blocks = 1..Len(cfg)  BY <1>1, Graph
  <1>4. worklist' = [i \in Blocks |-> Len(cfg) + 1 - i]  BY <1>1 DEF InitialWorklist
  <1>5. worklist' \in Seq(Blocks)  BY <1>3, <1>4
  <1>6. ElementsOf(worklist') = Blocks
    <2>1. ElementsOf(worklist') = {Len(cfg) + 1 - i : i \in 1..Len(cfg)}  BY <1>3, <1>4 DEF ElementsOf
    <2>2. \A i \in 1..Len(cfg) : Len(cfg) + 1 - i \in 1..Len(cfg) /\ Len(cfg) + 1 - (Len(cfg) + 1 - i) = i
      BY <1>3
    <2>. QED  BY <1>3, <2>1, <2>2
  <1>7. TypeOK'  BY <1>1, <1>5, Frozen DEF TypeOK, Dirs
  <1>8. VisitsOwed'  BY <1>1, <1>6, Frozen DEF VisitsOwed
  <1>9. AnalysesSolved'  BY <1>1, <1>2, Frozen DEF AnalysesSolved, Dirs
  <1>10. InsertedSafely'  BY <1>1 DEF SoundInv, InsertedSafely, Dirs
  <1>11. RunsWithin'  BY <1>1 DEF RunsWithin
  <1>. QED  BY <1>7, <1>8, <1>9, <1>10, <1>11 DEF SoundInv

(* After the analyses only the resolutions and the execution change. *)
LEMMA InsertFrame ==
    ASSUME SoundInv, UNCHANGED <<cfg, place, worklist, has_run, cur, k, output>>,
           phase' \in {"insert", "run", "end"}, AnalysesSolved', InsertedSafely', RunsWithin'
    PROVE  SoundInv'
  <1>1. TypeOK'  BY Frozen DEF SoundInv, TypeOK
  <1>2. VisitsOwed'  BY DEF VisitsOwed, Dirs
  <1>. QED  BY <1>1, <1>2 DEF SoundInv

LEMMA ChoosePointsKeeps ==
    ASSUME SoundInv, ChoosePoints
    PROVE  SoundInv'
  <1>1. /\ TypeOK /\ phase = "Reverse" /\ cur = NoBlock /\ worklist = <<>> /\ phase' = "insert"
        /\ UNCHANGED <<cfg, place, worklist, has_run, cur, k, output, inserted>>
        /\ \A pt \in pending' : pt \in Points /\ CanAssumeHasResolved(pt)
    BY DEF SoundInv, ChoosePoints
  <1>2. Solved("Reverse")  BY <1>1, Settled DEF Dirs
  <1>3. Solved("Forward")  BY <1>1 DEF SoundInv, AnalysesSolved
  <1>4. AnalysesSolved'  BY <1>1, <1>2, <1>3, Frozen DEF AnalysesSolved
  <1>5. inserted = {}  BY <1>1 DEF SoundInv, InsertedSafely, Dirs
  <1>6. InsertedSafely'  BY <1>1, <1>5, Frozen DEF InsertedSafely, Dirs
  <1>7. RunsWithin'  BY <1>1 DEF RunsWithin
  <1>. QED  BY <1>1, <1>4, <1>6, <1>7, InsertFrame

(* A resolution passed on is as safe at the successors as it was before:   *)
(* nothing else leads to them, and nothing happens in between.             *)
LEMMA ForwardedSafely ==
    ASSUME TypeOK, Solved("Forward"), Solved("Reverse"), NEW pt \in Points,
           CanAssumeHasResolved(pt), ForwardedToSuccessors(pt),
           NEW s \in ElementsOf(cfg[pt[1]].successors)
    PROVE  <<s, 0>> \in Points /\ CanAssumeHasResolved(<<s, 0>>)
  <1>1. pt = <<pt[1], pt[2]>> /\ pt[1] \in Blocks /\ pt[2] \in 0..Size(pt[1])  BY PointsOf
  <1>2. Size(pt[1]) = 0  BY EmptySeq DEF ForwardedToSuccessors, Size
  <1>3. pt = <<pt[1], Size(pt[1])>>  BY <1>1, <1>2
  <1>4. s \in Blocks /\ 0 \in 0..Size(s)  BY <1>1, Graph, Elements
  <1>5. cfg[s].predecessors = <<pt[1]>> /\ ~cfg[s].is_entry  BY DEF ForwardedToSuccessors
  <1>6. ElementsOf(cfg[s].predecessors) = {pt[1]}  BY <1>5 DEF ElementsOf
  <1>7. CanResolve(pt) /\ ~CanBeUninit(pt)  BY DEF CanAssumeHasResolved
  <1>8. CanResolve(<<pt[1], Size(pt[1])>>) /\ ~CanBeUninit(<<pt[1], Size(pt[1])>>)  BY <1>3, <1>7
  <1>9. CanResolve(<<s, 0>>)  BY <1>1, <1>8, ReverseJoin
  <1>10. ~CanBeUninit(<<s, 0>>)  BY <1>4, <1>5, <1>6, <1>8, ForwardJoin
  <1>. QED  BY <1>4, <1>9, <1>10, PointsOf DEF CanAssumeHasResolved

LEMMA PushResolutionKeeps ==
    ASSUME SoundInv, PushResolution
    PROVE  SoundInv'
  <1>1. /\ TypeOK /\ phase = "insert" /\ phase' = "insert"
        /\ UNCHANGED <<cfg, place, worklist, has_run, cur, k, output>>
        /\ Solved("Forward") /\ Solved("Reverse") /\ InsertedSafely
    BY DEF SoundInv, PushResolution, Input, AnalysesSolved, Dirs
  <1>2. AnalysesSolved'  BY <1>1, Frozen DEF AnalysesSolved
  <1>3. \A pt \in inserted' : pt \in Points /\ CanAssumeHasResolved(pt)
    BY <1>1 DEF PushResolution, InsertedSafely
  <1>4. ASSUME NEW q \in pending' PROVE q \in Points /\ CanAssumeHasResolved(q)
    <2>1. PICK pt \in pending : ForwardedToSuccessors(pt) /\ q \in ElementsOf(cfg[pt[1]].successors) \X {0}
      BY DEF PushResolution
    <2>2. PICK s \in ElementsOf(cfg[pt[1]].successors) : q = <<s, 0>>  BY <2>1
    <2>3. pt \in Points /\ CanAssumeHasResolved(pt)  BY <1>1, <2>1 DEF InsertedSafely
    <2>. QED  BY <1>1, <2>1, <2>2, <2>3, ForwardedSafely
  <1>5. InsertedSafely'  BY <1>1, <1>3, <1>4, Frozen DEF InsertedSafely, Dirs
  <1>6. RunsWithin'  BY <1>1 DEF RunsWithin
  <1>. QED  BY <1>1, <1>2, <1>5, <1>6, InsertFrame

LEMMA Arrived ==
    ASSUME SoundInv, phase \notin Dirs, UNCHANGED Fixed, phase' = "run",
           NEW pt \in Points, NEW i, NEW c, NEW kn, Arrive(pt, i, c, kn),
           i = "yes" \/ CanBeUninit(pt), c = "yes" => CanResolve(pt) /\ i = "yes"
    PROVE  SoundInv'
  <1>1. UNCHANGED <<cfg, place, worklist, has_run, cur, k, output, pending, inserted>>
    BY DEF Fixed, Input
  <1>2. AnalysesSolved'  BY <1>1, Frozen DEF SoundInv, AnalysesSolved, Dirs
  <1>3. InsertedSafely'  BY <1>1, Frozen DEF SoundInv, InsertedSafely, Dirs
  <1>4. at' = pt /\ init' = i /\ claimed' = IF Applied(pt) THEN "yes" ELSE c  BY DEF Arrive
  <1>5. Applied(pt) => CanResolve(pt) /\ ~CanBeUninit(pt)
    BY DEF SoundInv, Applied, InsertedSafely, CanAssumeHasResolved
  <1>6. claimed' = "yes" => CanResolve(pt) /\ i = "yes"  BY <1>4, <1>5
  <1>7. (CanBeUninit(at)' <=> CanBeUninit(pt)) /\ (CanResolve(at)' <=> CanResolve(pt))
    BY <1>1, <1>4 DEF CanBeUninit, CanResolve
  <1>8. RunsWithin'  BY <1>1, <1>4, <1>6, <1>7, Frozen DEF RunsWithin
  <1>. QED  BY <1>1, <1>2, <1>3, <1>8, InsertFrame

LEMMA CallKeeps ==
    ASSUME SoundInv, Call
    PROVE  SoundInv'
  <1>1. PICK b \in Blocks : cfg[b].is_entry /\ Arrive(<<b, 0>>, "no", "no", "no")  BY DEF Call
  <1>2. TypeOK /\ Solved("Forward") /\ phase \notin Dirs
    BY DEF SoundInv, Call, AnalysesSolved, Dirs
  <1>3. CanBeUninit(<<b, 0>>)  BY <1>1, <1>2, ForwardJoin
  <1>4. <<b, 0>> \in Points  BY <1>2, PointsOf, Graph
  <1>. QED  BY <1>1, <1>2, <1>3, <1>4, Arrived DEF Call

(* The facts every step of an execution starts from. *)
LEMMA Running ==
    ASSUME SoundInv, phase = "run"
    PROVE  /\ TypeOK /\ Solved("Forward") /\ Solved("Reverse") /\ phase \notin Dirs
           /\ at \in Points /\ at = <<at[1], at[2]>> /\ at[1] \in Blocks /\ at[2] \in 0..Size(at[1])
           /\ init = "yes" \/ CanBeUninit(at)
           /\ claimed = "yes" => CanResolve(at) /\ init = "yes"
  <1>1. TypeOK /\ Solved("Forward") /\ Solved("Reverse") /\ phase \notin Dirs /\ RunsWithin
    BY DEF SoundInv, AnalysesSolved, Dirs
  <1>. QED  BY <1>1, PointsOf DEF RunsWithin

LEMMA ExecuteKeeps ==
    ASSUME SoundInv, Execute
    PROVE  SoundInv'
  <1> DEFINE b == at[1]
             i == at[2]
             instr == cfg[b].instructions[i + 1]
             init2 == IF ~Within(IPlace, instr.place) \/ instr.kind = "Mutate" THEN init
                      ELSE IF instr.kind = "Overwrite" THEN "yes" ELSE "no"
             claimed2 == IF Disposes(instr, place) THEN "no" ELSE claimed
  <1>1. phase = "run" /\ phase' = "run" /\ i < Size(b) /\ UNCHANGED Fixed  BY DEF Execute
  <1>2. /\ TypeOK /\ Solved("Forward") /\ Solved("Reverse") /\ phase \notin Dirs
        /\ at = <<b, i>> /\ b \in Blocks /\ i \in 0..Size(b)
        /\ init = "yes" \/ CanBeUninit(<<b, i>>)
        /\ claimed = "yes" => CanResolve(<<b, i>>) /\ init = "yes"
    BY <1>1, Running
  <1>3. PICK kn : Arrive(<<b, i + 1>>, init2, claimed2, kn)  BY DEF Execute
  <1>. HIDE DEF b, i
  <1>4. Size(b) \in Nat  BY <1>2, Graph
  <1>5. i \in 0 .. Size(b) - 1 /\ i + 1 \in 1..Size(b) /\ i + 1 \in 0..Size(b)  BY <1>1, <1>2, <1>4
  <1>6. instr \in Instructions  BY <1>2, <1>5, Graph
  <1>7. instr.place \in Places /\ instr.kind \in Kinds  BY <1>6 DEF Instructions
  <1>8. Within(IPlace, instr.place) <=> Contains(instr.place, IPlace)
    BY <1>2, <1>7, Graph, WithinContains
  <1>9. CanBeUninit(<<b, i + 1>>) <=>
           IF Contains(instr.place, IPlace) /\ instr.kind # "Mutate"
           THEN instr.kind # "Overwrite" ELSE CanBeUninit(<<b, i>>)
    BY <1>2, <1>5, ForwardStep
  <1>10. init2 = "yes" \/ CanBeUninit(<<b, i + 1>>)  BY <1>2, <1>8, <1>9
  <1>11. ASSUME claimed2 = "yes" PROVE CanResolve(<<b, i + 1>>) /\ init2 = "yes"
    <2>1. ~Disposes(instr, place) /\ CanResolve(<<b, i>>) /\ init = "yes"  BY <1>2, <1>11
    <2>2. CanResolve(<<b, i + 1>>) /\ ~Within(IPlace, instr.place)
      BY <1>2, <1>5, <2>1, ResolvedStays
    <2>. QED  BY <2>1, <2>2
  <1>12. <<b, i + 1>> \in Points  BY <1>2, <1>5, PointsOf
  <1>. HIDE DEF init2, claimed2
  <1>. QED  BY <1>1, <1>2, <1>3, <1>10, <1>11, <1>12, Arrived

LEMMA JumpKeeps ==
    ASSUME SoundInv, Jump
    PROVE  SoundInv'
  <1> DEFINE b == at[1]
  <1>1. phase = "run" /\ phase' = "run" /\ at[2] = Size(b) /\ UNCHANGED Fixed  BY DEF Jump
  <1>2. /\ TypeOK /\ Solved("Forward") /\ Solved("Reverse") /\ phase \notin Dirs
        /\ at = <<b, Size(b)>> /\ b \in Blocks
        /\ init = "yes" \/ CanBeUninit(<<b, Size(b)>>)
        /\ claimed = "yes" => CanResolve(<<b, Size(b)>>) /\ init = "yes"
    BY <1>1, Running
  <1>3. PICK s \in ElementsOf(cfg[b].successors) :
           Arrive(<<s, 0>>, init, claimed, IF Forgets(s) THEN "no" ELSE known)
    BY DEF Jump
  <1>. HIDE DEF b
  <1>4. s \in Blocks  BY <1>2, Graph, Elements
  <1>5. b \in ElementsOf(cfg[s].predecessors)  BY <1>2, <1>4, Graph
  <1>6. CanBeUninit(<<b, Size(b)>>) => CanBeUninit(<<s, 0>>)  BY <1>2, <1>4, <1>5, ForwardJoin
  <1>7. CanResolve(<<b, Size(b)>>) => CanResolve(<<s, 0>>)  BY <1>2, ReverseJoin
  <1>8. <<s, 0>> \in Points  BY <1>2, <1>4, Graph, PointsOf
  <1>9. /\ init = "yes" \/ CanBeUninit(<<s, 0>>)
        /\ claimed = "yes" => CanResolve(<<s, 0>>) /\ init = "yes"
    BY <1>2, <1>6, <1>7
  <1>. QED  BY <1>1, <1>2, <1>3, <1>8, <1>9, Arrived

LEMMA ReturnKeeps ==
    ASSUME SoundInv, Return
    PROVE  SoundInv'
  <1>1. phase = "run" /\ phase' = "end"  BY DEF Return
  <1>2. UNCHANGED <<cfg, place, worklist, has_run, cur, k, output, pending, inserted, at, init, claimed>>
    BY DEF Return, Fixed, Input
  <1>3. AnalysesSolved'  BY <1>1, <1>2, Frozen DEF SoundInv, AnalysesSolved, Dirs
  <1>4. InsertedSafely'  BY <1>1, <1>2, Frozen DEF SoundInv, InsertedSafely, Dirs
  <1>5. RunsWithin'
    BY <1>1, <1>2, Frozen DEF SoundInv, Return, RunsWithin, CanBeUninit, CanResolve, Size
  <1>. QED  BY <1>1, <1>2, <1>3, <1>4, <1>5, InsertFrame

LEMMA StutterKeeps ==
    ASSUME SoundInv, UNCHANGED vars
    PROVE  SoundInv'
  <1>1. UNCHANGED <<cfg, place, phase, worklist, has_run, cur, k, output, pending, inserted, at, init, claimed>>
    BY DEF vars
  <1>2. TypeOK'  BY <1>1, Frozen DEF SoundInv, TypeOK
  <1>3. VisitsOwed'
    <2>1. StillToPush' = StillToPush  BY <1>1 DEF StillToPush, Targets, Size
    <2>2. \A c : Size(c)' = Size(c)  BY <1>1 DEF Size
    <2>. QED  BY <1>1, <2>1, <2>2, Frozen DEF SoundInv, VisitsOwed
  <1>4. AnalysesSolved' /\ InsertedSafely'  BY <1>1, Frozen DEF SoundInv, AnalysesSolved, InsertedSafely
  <1>5. RunsWithin'  BY <1>1, Frozen DEF SoundInv, RunsWithin, CanBeUninit, CanResolve, Size
  <1>. QED  BY <1>2, <1>3, <1>4, <1>5 DEF SoundInv

(* The invariant of the inference: what its worklists still owe, that the  *)
(* finished analyses solve their equations (do_dataflow), that resolutions *)
(* stand where both allow it (push_resolution), and that every execution   *)
(* stays within them.                                                      *)
THEOREM SoundInvariant == Spec => []SoundInv
  <1>1. Init => SoundInv  BY Initially
  <1>2. SoundInv /\ [Next]_vars => SoundInv'
    <2> SUFFICES ASSUME SoundInv, [Next]_vars PROVE SoundInv'
      OBVIOUS
    <2>1. CASE Analyse  BY <2>1, AnalyseKeeps
    <2>2. CASE NextAnalysis  BY <2>2, NextAnalysisKeeps
    <2>3. CASE ChoosePoints  BY <2>3, ChoosePointsKeeps
    <2>4. CASE PushResolution  BY <2>4, PushResolutionKeeps
    <2>5. CASE Call  BY <2>5, CallKeeps
    <2>6. CASE Execute  BY <2>6, ExecuteKeeps
    <2>7. CASE Jump  BY <2>7, JumpKeeps
    <2>8. CASE Return  BY <2>8, ReturnKeeps
    <2>9. CASE Ended  BY <2>9, StutterKeeps DEF Ended
    <2>10. CASE UNCHANGED vars  BY <2>10, StutterKeeps
    <2>. QED
      BY <2>1, <2>2, <2>3, <2>4, <2>5, <2>6, <2>7, <2>8, <2>9, <2>10 DEF Next, Insert, Run
  <1>. QED  BY <1>1, <1>2, PTL DEF Spec

(* get_resolutions inserts no unsound assumption, whatever the graph and   *)
(* the place: a value assumed resolved exists and is not changed after.    *)
THEOREM ResolutionsSound == Spec => []ResolutionSound
  <1>1. SoundInv => ResolutionSound
    <2> SUFFICES ASSUME SoundInv, phase \in {"run", "end"}, claimed = "yes"
                 PROVE  /\ init = "yes"
                        /\ at[2] < Size(at[1]) => ~MayBeChanged(cfg[at[1]].instructions[at[2] + 1], place)
                        /\ phase = "end" => ~HasDeref(place)
      BY DEF ResolutionSound
    <2>1. TypeOK /\ Solved("Reverse") /\ RunsWithin  BY DEF SoundInv, AnalysesSolved, Dirs
    <2>2. /\ at = <<at[1], at[2]>> /\ at[1] \in Blocks /\ at[2] \in 0..Size(at[1])
          /\ CanResolve(at) /\ init = "yes"
          /\ phase = "end" => at[2] = Size(at[1]) /\ cfg[at[1]].is_exit
      BY <2>1, PointsOf DEF RunsWithin
    <2>3. CanResolve(<<at[1], at[2]>>)  BY <2>2
    <2>4. ASSUME at[2] < Size(at[1]) PROVE ~MayBeChanged(cfg[at[1]].instructions[at[2] + 1], place)
      <3>1. at[2] \in 0 .. Size(at[1]) - 1  BY <2>1, <2>2, <2>4, Graph
      <3>. QED  BY <2>1, <2>2, <2>3, <3>1, ResolvedStays
    <2>5. phase = "end" => ~HasDeref(place)  BY <2>1, <2>2, <2>3, ReverseJoin
    <2>. QED  BY <2>2, <2>4, <2>5
  <1>. QED  BY <1>1, SoundInvariant, PTL

-----------------------------------------------------------------------------
(* Completeness of the inserted assumptions.                               *)

LEMMA CoversStays ==
    ASSUME UNCHANGED <<cfg, place, is_temp, output>>
    PROVE  /\ \A pt : Wanted(pt)' <=> Wanted(pt)
           /\ PassedOn' = PassedOn
           /\ UNCHANGED <<pending, inserted>> => \A H : Covers(H)' <=> Covers(H)
  <1>1. \A pt : Wanted(pt)' <=> Wanted(pt)
    BY DEF Wanted, CanAssumeHasResolved, ShouldAssumeHasResolved, CanBeUninit, CanResolve, Size
  <1>2. PassedOn' = PassedOn
    BY DEF PassedOn, Points, Blocks, Size, ForwardedToSuccessors, Position
  <1>3. UNCHANGED <<pending, inserted>> => \A H : Covers(H)' <=> Covers(H)
    BY <1>1, Frozen DEF Covers, Owed
  <1>. QED  BY <1>1, <1>2, <1>3

LEMMA ChoosePointsCovers ==
    ASSUME SoundInv, ChoosePoints
    PROVE  NothingForgotten'
  <1>1. phase' = "insert" /\ UNCHANGED <<cfg, place, output>>  BY DEF ChoosePoints
  <1>2. pending' = {pt \in Points : CanAssumeHasResolved(pt) /\ ShouldAssumeHasResolved(pt, is_temp')}
    BY DEF ChoosePoints
  <1>3. \A pt : Wanted(pt)' <=> CanAssumeHasResolved(pt) /\ ShouldAssumeHasResolved(pt, is_temp')
    BY <1>1 DEF Wanted, CanAssumeHasResolved, ShouldAssumeHasResolved, CanBeUninit, CanResolve, Size
  <1>4. Covers({})'  BY <1>1, <1>2, <1>3, Frozen DEF Covers, Owed
  <1>5. {} \in (SUBSET PassedOn)'  OBVIOUS
  <1>. QED  BY <1>1, <1>4, <1>5 DEF NothingForgotten

LEMMA PushResolutionCovers ==
    ASSUME SoundInv, NothingForgotten, PushResolution
    PROVE  NothingForgotten'
  <1> DEFINE forwarded == {pt \in pending : ForwardedToSuccessors(pt)}
             passed == UNION {ElementsOf(cfg[pt[1]].successors) \X {0} : pt \in forwarded}
  <1>1. /\ phase = "insert" /\ phase' = "insert" /\ UNCHANGED <<cfg, place, is_temp, output>>
        /\ inserted' = inserted \cup (pending \ forwarded) /\ pending' = passed
    BY DEF PushResolution, Input
  <1>2. PICK H \in SUBSET PassedOn : Covers(H)  BY <1>1 DEF NothingForgotten, Dirs
  <1>3. pending \subseteq Points  BY DEF SoundInv, InsertedSafely
  <1>4. forwarded \subseteq PassedOn  BY <1>3 DEF PassedOn
  <1>5. \A pt \in forwarded : ElementsOf(cfg[pt[1]].successors) \X {0} \subseteq passed  OBVIOUS
  <1>6. forwarded \subseteq pending  OBVIOUS
  <1>. HIDE DEF forwarded, passed
  <1>7. PICK G : G = H \cup forwarded  OBVIOUS
  <1>8. Owed(H) \subseteq Owed(G)' /\ passed \subseteq Owed(G)'
    <2>1. Owed(G)' = inserted' \cup pending' \cup G  BY DEF Owed
    <2>. QED  BY <1>1, <1>6, <1>7, <2>1 DEF Owed
  <1>9. Covers(G)'
    <2>1. ({pt \in Points : Wanted(pt)})' = {pt \in Points : Wanted(pt)}
      BY <1>1, CoversStays, Frozen
    <2>2. ({pt \in Points : Wanted(pt)})' \subseteq Owed(G)'  BY <1>2, <1>8, <2>1 DEF Covers
    <2>3. \A pt \in G : ElementsOf(cfg'[pt[1]].successors) \X {0} \subseteq Owed(G)'
      BY <1>1, <1>2, <1>5, <1>7, <1>8 DEF Covers
    <2>. QED  BY <2>2, <2>3 DEF Covers
  <1>10. G \in (SUBSET PassedOn)'  BY <1>1, <1>2, <1>4, <1>7, CoversStays
  <1>. QED  BY <1>1, <1>9, <1>10 DEF NothingForgotten

(* A step of the execution owes nothing new when the point it arrives at   *)
(* is inserted or was passed on, or when the value was known before.       *)
LEMMA ArrivedCovers ==
    ASSUME UNCHANGED Fixed, phase' = "run", pending = {}, NEW H \in SUBSET PassedOn, Covers(H),
           NEW pt, NEW i, NEW c, NEW kn, Arrive(pt, i, c, kn),
           CanAssumeHasResolved(pt) /\ kn = "no" => pt \in inserted \cup H
    PROVE  NothingForgotten'
  <1>1. UNCHANGED <<cfg, place, is_temp, output, pending, inserted>>  BY DEF Fixed, Input
  <1>2. H \in (SUBSET PassedOn)' /\ Covers(H)'  BY <1>1, CoversStays
  <1>3. at' = pt /\ (known' = "no" => kn = "no" /\ pt \notin inserted)  BY DEF Arrive
  <1>4. CanAssumeHasResolved(at)' <=> CanAssumeHasResolved(pt)
    BY <1>1, <1>3 DEF CanAssumeHasResolved, CanBeUninit, CanResolve
  <1>5. (CanAssumeHasResolved(at) /\ known = "no" => at \in H)'  BY <1>3, <1>4
  <1>. QED  BY <1>1, <1>2, <1>5 DEF NothingForgotten

LEMMA CallCovers ==
    ASSUME SoundInv, NothingForgotten, Call
    PROVE  NothingForgotten'
  <1>1. PICK b \in Blocks : cfg[b].is_entry /\ Arrive(<<b, 0>>, "no", "no", "no")  BY DEF Call
  <1>2. TypeOK /\ Solved("Forward") /\ phase \notin Dirs
    BY DEF SoundInv, Call, AnalysesSolved, Dirs
  <1>3. ~CanAssumeHasResolved(<<b, 0>>)  BY <1>1, <1>2, ForwardJoin DEF CanAssumeHasResolved
  <1>4. PICK H \in SUBSET PassedOn : Covers(H)  BY <1>2 DEF NothingForgotten
  <1>. QED  BY <1>1, <1>3, <1>4, ArrivedCovers DEF Call

LEMMA ExecuteCovers ==
    ASSUME SoundInv, NothingForgotten, Execute
    PROVE  NothingForgotten'
  <1> DEFINE b == at[1]
             i == at[2]
             instr == cfg[b].instructions[i + 1]
             kn == IF ValueMayChange(place, instr) THEN "no" ELSE known
  <1>1. phase = "run" /\ phase' = "run" /\ i < Size(b) /\ UNCHANGED Fixed  BY DEF Execute
  <1>2. /\ TypeOK /\ Solved("Forward") /\ Solved("Reverse") /\ phase \notin Dirs
        /\ at = <<b, i>> /\ b \in Blocks /\ i \in 0..Size(b) /\ at \in Points
    BY <1>1, Running
  <1>3. PICK j, c : Arrive(<<b, i + 1>>, j, c, kn)  BY DEF Execute
  <1>4. PICK H \in SUBSET PassedOn :
           Covers(H) /\ pending = {} /\ (CanAssumeHasResolved(at) /\ known = "no" => at \in H)
    BY <1>1, <1>2 DEF NothingForgotten
  <1>. HIDE DEF b, i
  <1>5. Size(b) \in Nat  BY <1>2, Graph
  <1>6. i \in 0 .. Size(b) - 1 /\ i + 1 \in 1..Size(b) /\ i + 1 \in 0..Size(b)  BY <1>1, <1>2, <1>5
  <1>7. <<b, i + 1>> \in Points  BY <1>2, <1>6, PointsOf
  <1>8. ASSUME CanAssumeHasResolved(<<b, i + 1>>), kn = "no", ~Wanted(<<b, i + 1>>)
        PROVE  FALSE
    <2>1. instr \in Instructions  BY <1>2, <1>6, Graph
    <2>2. instr.place \in Places  BY <2>1 DEF Instructions
    <2>3. ~ShouldAssumeHasResolved(<<b, i + 1>>, is_temp)  BY <1>8 DEF Wanted
    <2>4. (i + 1) - 1 = i /\ i + 1 > 0  BY <1>6
    <2>5. CanResolve(<<b, i>>) /\ ~ValueMayChange(place, instr)
      <3>1. ~(i + 1 > 0 /\ ~CanResolve(<<b, (i + 1) - 1>>)) /\ ~(i + 1 > 0 /\ ValueMayChange(place, instr))
        BY <2>3 DEF ShouldAssumeHasResolved
      <3>. QED  BY <2>4, <3>1
    <2>6. ~CanBeUninit(<<b, i + 1>>)  BY <1>8 DEF CanAssumeHasResolved
    <2>7. CanBeUninit(<<b, i + 1>>) <=>
             IF Contains(instr.place, IPlace) /\ instr.kind # "Mutate"
             THEN instr.kind # "Overwrite" ELSE CanBeUninit(<<b, i>>)
      BY <1>2, <1>6, ForwardStep
    <2>8. Contains(instr.place, IPlace) => Intersects(place, instr.place)
      <3>1. place \in Places /\ IPlace \in Places /\ Contains(IPlace, place)  BY <1>2, Graph
      <3>2. Len(instr.place) \in Nat /\ Len(IPlace) \in Nat /\ Len(place) \in Nat
        BY <2>2, <3>1, LenProperties DEF Places
      <3>. HIDE DEF instr
      <3>. QED  BY <3>1, <3>2 DEF Contains, Intersects
    <2>9. ~CanBeUninit(<<b, i>>)  BY <2>5, <2>6, <2>7, <2>8 DEF ValueMayChange
    <2>10. CanAssumeHasResolved(at) /\ known = "no"  BY <1>2, <1>8, <2>5, <2>9 DEF CanAssumeHasResolved
    <2>11. ForwardedToSuccessors(at)  BY <1>4, <2>10 DEF PassedOn
    <2>12. Size(b) = 0  BY <2>11, EmptySeq DEF ForwardedToSuccessors, Size, b
    <2>. QED  BY <1>6, <2>12
  <1>9. Wanted(<<b, i + 1>>) => <<b, i + 1>> \in inserted \cup H
    BY <1>4, <1>7 DEF Covers, Owed
  <1>. HIDE DEF kn
  <1>10. CanAssumeHasResolved(<<b, i + 1>>) /\ kn = "no" => <<b, i + 1>> \in inserted \cup H
    BY <1>8, <1>9
  <1>. QED  BY <1>1, <1>3, <1>4, <1>10, ArrivedCovers

LEMMA JumpCovers ==
    ASSUME SoundInv, NothingForgotten, Jump
    PROVE  NothingForgotten'
  <1> DEFINE b == at[1]
  <1>1. phase = "run" /\ phase' = "run" /\ at[2] = Size(b) /\ UNCHANGED Fixed  BY DEF Jump
  <1>2. /\ TypeOK /\ Solved("Forward") /\ Solved("Reverse") /\ phase \notin Dirs
        /\ at = <<b, Size(b)>> /\ b \in Blocks /\ at \in Points
    BY <1>1, Running
  <1>3. PICK s \in ElementsOf(cfg[b].successors) :
           Arrive(<<s, 0>>, init, claimed, IF Forgets(s) THEN "no" ELSE known)
    BY DEF Jump
  <1>4. PICK H \in SUBSET PassedOn :
           Covers(H) /\ pending = {} /\ (CanAssumeHasResolved(at) /\ known = "no" => at \in H)
    BY <1>1, <1>2 DEF NothingForgotten
  <1>5. at \in H => <<s, 0>> \in inserted \cup H
    <2>1. <<s, 0>> \in ElementsOf(cfg[at[1]].successors) \X {0}  BY <1>3
    <2>. QED  BY <1>4, <2>1 DEF Covers, Owed
  <1>. HIDE DEF b
  <1>6. s \in Blocks  BY <1>2, Graph, Elements
  <1>7. b \in ElementsOf(cfg[s].predecessors)  BY <1>2, <1>6, Graph
  <1>8. <<s, 0>> \in Points  BY <1>2, <1>6, Graph, PointsOf
  <1>9. Wanted(<<s, 0>>) => <<s, 0>> \in inserted \cup H  BY <1>4, <1>8 DEF Covers, Owed
  <1>10. ASSUME CanAssumeHasResolved(<<s, 0>>), ~Wanted(<<s, 0>>), ~Forgets(s) => known = "no"
         PROVE  at \in H
    <2>1. ~ShouldAssumeHasResolved(<<s, 0>>, is_temp)  BY <1>10 DEF Wanted
    <2>2. /\ ~(cfg[s].always_add_resolution_at_start /\ is_temp = "no")
          /\ \A p \in ElementsOf(cfg[s].predecessors) : CanResolve(<<p, Size(p)>>)
      BY <2>1 DEF ShouldAssumeHasResolved
    <2>3. known = "no"  BY <1>10, <2>2 DEF Forgets
    <2>4. CanResolve(at)  BY <1>2, <1>7, <2>2
    <2>5. ~CanBeUninit(<<s, 0>>)  BY <1>10 DEF CanAssumeHasResolved
    <2>6. ~CanBeUninit(at)  BY <1>2, <1>6, <1>7, <2>5, ForwardJoin
    <2>. QED  BY <1>4, <2>3, <2>4, <2>6 DEF CanAssumeHasResolved
  <1>11. CanAssumeHasResolved(<<s, 0>>) /\ (IF Forgets(s) THEN "no" ELSE known) = "no"
            => <<s, 0>> \in inserted \cup H
    BY <1>5, <1>9, <1>10
  <1>. QED  BY <1>1, <1>3, <1>4, <1>11, ArrivedCovers

LEMMA EndCovers ==
    ASSUME NothingForgotten, phase \notin Dirs, (phase' = "end" /\ phase = "run") \/ phase' = phase,
           UNCHANGED <<cfg, place, is_temp, output, pending, inserted, at, known>>
    PROVE  NothingForgotten'
  <1>1. PICK H \in SUBSET PassedOn :
           /\ Covers(H)
           /\ phase \in {"run", "end"} => pending = {}
           /\ phase = "run" /\ CanAssumeHasResolved(at) /\ known = "no" => at \in H
    BY DEF NothingForgotten
  <1>2. H \in (SUBSET PassedOn)' /\ Covers(H)'  BY <1>1, CoversStays
  <1>3. CanAssumeHasResolved(at)' <=> CanAssumeHasResolved(at)
    BY DEF CanAssumeHasResolved, CanBeUninit, CanResolve
  <1>. QED  BY <1>1, <1>2, <1>3 DEF NothingForgotten

(* Inserting only where it is "useful" loses nothing, whatever the graph   *)
(* and the place: wherever both analyses allow the assumption, it has been *)
(* made on the path taken, or was made at a block without a place in the   *)
(* AST (apply_resolutions).                                                *)
THEOREM ResolutionsComplete == Spec => []ResolutionComplete
  <1>1. Init => NothingForgotten  BY DEF Init, NothingForgotten, Dirs
  <1>2. SoundInv /\ NothingForgotten /\ [Next]_vars => NothingForgotten'
    <2> SUFFICES ASSUME SoundInv, NothingForgotten, [Next]_vars PROVE NothingForgotten'
      OBVIOUS
    <2>1. CASE Analyse
      <3>1. phase' \in Dirs  BY <2>1 DEF Analyse, Pop, TransferStep, Push, Visited
      <3>. QED  BY <3>1 DEF NothingForgotten
    <2>2. CASE NextAnalysis  BY <2>2 DEF NextAnalysis, NothingForgotten, Dirs
    <2>3. CASE ChoosePoints  BY <2>3, ChoosePointsCovers
    <2>4. CASE PushResolution  BY <2>4, PushResolutionCovers
    <2>5. CASE Call  BY <2>5, CallCovers
    <2>6. CASE Execute  BY <2>6, ExecuteCovers
    <2>7. CASE Jump  BY <2>7, JumpCovers
    <2>8. CASE Return
      <3>1. /\ phase = "run" /\ phase' = "end"
            /\ UNCHANGED <<cfg, place, is_temp, output, pending, inserted, at, known>>
        BY <2>8 DEF Return, Fixed, Input
      <3>. QED  BY <3>1, EndCovers DEF Dirs
    <2>9. CASE Ended \/ UNCHANGED vars
      <3>1. /\ phase' = phase
            /\ UNCHANGED <<cfg, place, is_temp, output, pending, inserted, at, known>>
        BY <2>9 DEF Ended, vars
      <3>2. CASE phase \in Dirs  BY <3>1, <3>2 DEF NothingForgotten
      <3>3. CASE phase \notin Dirs  BY <3>1, <3>3, EndCovers
      <3>. QED  BY <3>2, <3>3
    <2>. QED
      BY <2>1, <2>2, <2>3, <2>4, <2>5, <2>6, <2>7, <2>8, <2>9 DEF Next, Insert, Run
  <1>3. NothingForgotten => ResolutionComplete
    <2> SUFFICES ASSUME NothingForgotten, phase = "run", Position(at) = "Ast",
                        CanResolve(at), ~CanBeUninit(at), known = "no"
                 PROVE  FALSE
      BY DEF ResolutionComplete
    <2>1. ForwardedToSuccessors(at)
      BY DEF NothingForgotten, Dirs, CanAssumeHasResolved, PassedOn
    <2>. QED  BY <2>1 DEF ForwardedToSuccessors
  <1>. QED  BY <1>1, <1>2, <1>3, SoundInvariant, PTL DEF Spec

-----------------------------------------------------------------------------
(* Growing a set step by step: n steps from S, each by G.                  *)

IsChain(f, S, G, n) == f[0] = S /\ \A i \in 1..n : f[i] = G[f[i - 1]]

ChainIn(P, f, S, G, N) ==
    /\ N \in Nat /\ S \in SUBSET P /\ G \in [SUBSET P -> SUBSET P]
    /\ f \in [0..N -> SUBSET P] /\ IsChain(f, S, G, N)

Grows(P, G) == \A Y \in SUBSET P : Y \subseteq G[Y]
StaysIn(P, G, X) == \A Y \in SUBSET P : Y \subseteq X => G[Y] \subseteq X

LEMMA LeastNumber ==
    ASSUME NEW T \in SUBSET Nat, T # {}
    PROVE  \E x \in T : \A y \in T : x <= y
  <1> DEFINE Less == OpToRel(<, Nat)
  <1>1. IsWellFoundedOn(Less, Nat)  BY NatLessThanWellFounded
  <1>2. \A x, y \in Nat : <<x, y>> \in Less <=> x < y  BY DEF OpToRel
  <1>. HIDE DEF Less
  <1>3. PICK x \in T : \A y \in T : ~(<<y, x>> \in Less)  BY <1>1, WFMin
  <1>4. ASSUME NEW y \in T PROVE x <= y
    <2>1. x \in Nat /\ y \in Nat  OBVIOUS
    <2>2. ~(y < x)  BY <1>2, <1>3, <2>1
    <2>. QED  BY <2>1, <2>2
  <1>. QED  BY <1>4

(* Such a chain exists, so that the recursive definitions define one. *)
LEMMA ChainExists ==
    ASSUME NEW P, NEW S \in SUBSET P, NEW G \in [SUBSET P -> SUBSET P], NEW N \in Nat
    PROVE  \E f \in [0..N -> SUBSET P] : IsChain(f, S, G, N)
  <1> DEFINE Has(n) == \E f \in [0..n -> SUBSET P] : IsChain(f, S, G, n)
             Bad == {n \in Nat : ~Has(n)}
  <1>1. SUFFICES ASSUME Bad # {} PROVE FALSE
    OBVIOUS
  <1>2. Bad \in SUBSET Nat  OBVIOUS
  <1>3. PICK m \in Bad : \A y \in Bad : m <= y
    <2>. HIDE DEF Bad
    <2>. QED  BY <1>1, <1>2, LeastNumber
  <1>4. m \in Nat /\ ~Has(m)  BY <1>3
  <1>5. Has(0)
    <2>1. [n \in 0..0 |-> S] \in [0..0 -> SUBSET P]  OBVIOUS
    <2>2. IsChain([n \in 0..0 |-> S], S, G, 0)  BY DEF IsChain
    <2>. QED  BY <2>1, <2>2
  <1>6. m # 0  BY <1>4, <1>5
  <1>7. m - 1 \in Nat /\ Has(m - 1)
    <2>1. m - 1 \in Nat /\ ~(m <= m - 1)  BY <1>4, <1>6
    <2>2. m - 1 \notin Bad  BY <1>3, <2>1
    <2>. QED  BY <2>1, <2>2
  <1>8. PICK f \in [0..(m - 1) -> SUBSET P] : IsChain(f, S, G, m - 1)  BY <1>7
  <1>9. PICK g : g = [n \in 0..m |-> IF n < m THEN f[n] ELSE G[f[m - 1]]]  OBVIOUS
  <1>10. f[m - 1] \in SUBSET P /\ G[f[m - 1]] \in SUBSET P
    <2>1. m - 1 \in 0..(m - 1)  BY <1>7
    <2>. QED  BY <2>1, <1>8
  <1>11. g \in [0..m -> SUBSET P]
    <2>1. ASSUME NEW n \in 0..m PROVE (IF n < m THEN f[n] ELSE G[f[m - 1]]) \in SUBSET P
      <3>1. CASE n < m
        <4>1. n \in 0..(m - 1)  BY <1>4, <3>1
        <4>. QED  BY <4>1, <3>1, <1>8
      <3>2. CASE ~(n < m)  BY <3>2, <1>10
      <3>. QED  BY <3>1, <3>2
    <2>. QED  BY <1>9, <2>1
  <1>12. IsChain(g, S, G, m)
    <2>1. g[0] = S
      <3>1. 0 \in 0..m /\ 0 < m  BY <1>4, <1>6
      <3>. QED  BY <3>1, <1>8, <1>9 DEF IsChain
    <2>2. ASSUME NEW i \in 1..m PROVE g[i] = G[g[i - 1]]
      <3>1. i - 1 \in 0..m /\ i \in 0..m /\ i - 1 < m  BY <1>4
      <3>2. g[i - 1] = f[i - 1]  BY <1>9, <3>1
      <3>3. CASE i = m
        <4>1. g[i] = G[f[m - 1]]  BY <1>4, <1>9, <3>1, <3>3
        <4>. QED  BY <3>2, <3>3, <4>1
      <3>4. CASE i # m
        <4>1. i < m /\ i \in 1..(m - 1)  BY <1>4, <3>4
        <4>2. g[i] = f[i]  BY <1>9, <3>1, <4>1
        <4>3. f[i] = G[f[i - 1]]  BY <1>8, <4>1 DEF IsChain
        <4>. QED  BY <3>2, <4>2, <4>3
      <3>. QED  BY <3>3, <3>4
    <2>. QED  BY <2>1, <2>2 DEF IsChain
  <1>. QED  BY <1>4, <1>11, <1>12

(* What holds the start and what grows out of it holds the chain. *)
LEMMA ChainLeast ==
    ASSUME NEW P, NEW S, NEW G, NEW N, NEW f, NEW X,
           ChainIn(P, f, S, G, N), S \subseteq X, StaysIn(P, G, X)
    PROVE  f[N] \subseteq X
  <1>. USE DEF ChainIn, StaysIn
  <1> DEFINE Bad == {n \in 0..N : ~(f[n] \subseteq X)}
  <1>1. SUFFICES ASSUME Bad # {} PROVE FALSE
    OBVIOUS
  <1>2. Bad \in SUBSET Nat  OBVIOUS
  <1>3. PICK m \in Bad : \A y \in Bad : m <= y
    <2>. HIDE DEF Bad
    <2>. QED  BY <1>1, <1>2, LeastNumber
  <1>4. m \in 0..N /\ ~(f[m] \subseteq X)  BY <1>3
  <1>5. m # 0  BY <1>4 DEF IsChain
  <1>6. m - 1 \in 0..N /\ m \in 1..N /\ ~(m <= m - 1)  BY <1>4, <1>5
  <1>7. m - 1 \notin Bad  BY <1>3, <1>6
  <1>8. f[m - 1] \subseteq X /\ f[m - 1] \in SUBSET P  BY <1>6, <1>7
  <1>9. f[m] = G[f[m - 1]]  BY <1>6 DEF IsChain
  <1>. QED  BY <1>4, <1>8, <1>9

(* As many steps as there are elements are enough: a step that adds none   *)
(* is followed by no other.                                                *)
LEMMA ChainFixed ==
    ASSUME NEW P, NEW S, NEW G, NEW N, NEW f,
           ChainIn(P, f, S, G, N), IsFiniteSet(P), N = Cardinality(P), Grows(P, G)
    PROVE  S \subseteq f[N] /\ G[f[N]] = f[N]
  <1>. USE DEF ChainIn, Grows
  <1>0. \A n \in 0..N : f[n] \in SUBSET P  OBVIOUS
  <1>1. \A i \in 1..N : f[i] = G[f[i - 1]] /\ f[i - 1] \in SUBSET P /\ f[i - 1] \subseteq f[i]
    <2> TAKE i \in 1..N
    <2>1. i - 1 \in 0..N  OBVIOUS
    <2>. QED  BY <1>0, <2>1 DEF IsChain
  <1>2. \A n \in 0..N : IsFiniteSet(f[n]) /\ Cardinality(f[n]) \in Nat
    BY <1>0, FS_Subset, FS_CardinalityType
  <1> DEFINE Low == {n \in 0..N : Cardinality(f[n]) < n}
  <1>4. S \subseteq f[N]
    <2> DEFINE Bad == {i \in 0..N : ~(S \subseteq f[i])}
    <2>1. SUFFICES ASSUME Bad # {} PROVE FALSE
      OBVIOUS
    <2>2. Bad \in SUBSET Nat  OBVIOUS
    <2>3. PICK m \in Bad : \A y \in Bad : m <= y
      <3>. HIDE DEF Bad
      <3>. QED  BY <2>1, <2>2, LeastNumber
    <2>4. m \in 0..N /\ ~(S \subseteq f[m])  BY <2>3
    <2>5. m # 0  BY <2>4 DEF IsChain
    <2>6. m - 1 \in 0..N /\ m \in 1..N /\ ~(m <= m - 1)  BY <2>4, <2>5
    <2>7. m - 1 \notin Bad  BY <2>3, <2>6
    <2>8. S \subseteq f[m - 1]  BY <2>6, <2>7
    <2>. QED  BY <1>1, <2>4, <2>6, <2>8
  <1>5. CASE Low = {}
    <2>1. N \in 0..N  OBVIOUS
    <2>2. ~(Cardinality(f[N]) < N)  BY <1>5, <2>1
    <2>3. f[N] \subseteq P /\ Cardinality(f[N]) <= Cardinality(P) /\ Cardinality(f[N]) \in Nat
      BY <1>0, <1>2, <2>1, FS_Subset
    <2>4. Cardinality(f[N]) = Cardinality(P)  BY <2>2, <2>3
    <2>5. f[N] = P  BY <2>3, <2>4, FS_Subset
    <2>6. G[f[N]] \subseteq P /\ f[N] \subseteq G[f[N]]  BY <1>0, <2>1
    <2>. QED  BY <1>4, <2>5, <2>6
  <1>6. CASE Low # {}
    <2>1. Low \in SUBSET Nat  OBVIOUS
    <2>2. PICK m \in Low : \A y \in Low : m <= y
      <3>. HIDE DEF Low
      <3>. QED  BY <1>6, <2>1, LeastNumber
    <2>3. m \in 0..N /\ Cardinality(f[m]) < m  BY <2>2
    <2>4. Cardinality(f[m]) \in Nat  BY <1>2, <2>3
    <2>5. m - 1 \in 0..N /\ m \in 1..N /\ ~(m <= m - 1)  BY <2>3, <2>4
    <2>6. m - 1 \notin Low  BY <2>2, <2>5
    <2>7. Cardinality(f[m - 1]) \in Nat /\ Cardinality(f[m - 1]) >= m - 1  BY <1>2, <2>5, <2>6
    <2>8. f[m - 1] \subseteq f[m] /\ IsFiniteSet(f[m])  BY <1>1, <1>2, <2>3, <2>5
    <2>9. Cardinality(f[m - 1]) <= Cardinality(f[m])  BY <2>8, FS_Subset
    <2>10. Cardinality(f[m - 1]) = Cardinality(f[m])  BY <2>3, <2>4, <2>5, <2>7, <2>9
    <2>11. f[m - 1] = f[m]  BY <2>8, <2>10, FS_Subset
    <2>12. G[f[m - 1]] = f[m - 1]  BY <1>1, <2>5, <2>11
    <2>13. f[N] = f[m - 1]
      <3> DEFINE Bad == {i \in 0..N : i >= m - 1 /\ f[i] # f[m - 1]}
      <3>1. SUFFICES ASSUME Bad # {} PROVE FALSE
        BY <2>5
      <3>2. Bad \in SUBSET Nat  OBVIOUS
      <3>3. PICK l \in Bad : \A y \in Bad : l <= y
        <4>. HIDE DEF Bad
        <4>. QED  BY <3>1, <3>2, LeastNumber
      <3>4. l \in 0..N /\ l >= m - 1 /\ f[l] # f[m - 1]  BY <3>3
      <3>5. l # m - 1  BY <3>4
      <3>6. l - 1 \in 0..N /\ l \in 1..N /\ l - 1 >= m - 1 /\ ~(l <= l - 1)  BY <2>5, <3>4, <3>5
      <3>7. l - 1 \notin Bad  BY <3>3, <3>6
      <3>8. f[l - 1] = f[m - 1]  BY <3>6, <3>7
      <3>. QED  BY <1>1, <2>12, <3>4, <3>6, <3>8
    <2>. QED  BY <1>4, <2>12, <2>13
  <1>. QED  BY <1>5, <1>6

-----------------------------------------------------------------------------
(* The points that paths lead to, and from which they lead on.             *)

LEMMA FinitePoints ==
    ASSUME TypeOK
    PROVE  IsFiniteSet(Points) /\ NumPoints \in Nat
  <1>1. Blocks = 1..Len(cfg) /\ Len(cfg) \in Nat  BY Graph
  <1>2. IsFiniteSet(Blocks)  BY <1>1, FS_Interval
  <1>3. ASSUME NEW b \in Blocks PROVE IsFiniteSet({b} \X (0..Size(b)))
    <2>1. Size(b) \in Nat  BY Graph
    <2>2. IsFiniteSet(0..Size(b))  BY <2>1, FS_Interval
    <2>3. IsFiniteSet({b})  BY FS_Singleton
    <2>. QED  BY <2>2, <2>3, FS_Product
  <1>4. IsFiniteSet({{b} \X (0..Size(b)) : b \in Blocks})
    <2>1. PICK f : f = [b \in Blocks |-> {b} \X (0..Size(b))]  OBVIOUS
    <2>2. PICK T : T = {{b} \X (0..Size(b)) : b \in Blocks}  OBVIOUS
    <2>3. f \in [Blocks -> T] /\ \A t \in T : \E b \in Blocks : f[b] = t  BY <2>1, <2>2
    <2>4. f \in Surjection(Blocks, T)  BY <2>3 DEF Surjection
    <2>5. IsFiniteSet(T)  BY <1>2, <2>4, FS_Surjection
    <2>. QED  BY <2>2, <2>5
  <1>5. IsFiniteSet(Points)
    <2>1. PICK T : T = {{b} \X (0..Size(b)) : b \in Blocks}  OBVIOUS
    <2>2. IsFiniteSet(T) /\ \A t \in T : IsFiniteSet(t)  BY <1>3, <1>4, <2>1
    <2>3. IsFiniteSet(UNION T)  BY <2>2, FS_UNION
    <2>. QED  BY <2>1, <2>3 DEF Points
  <1>. QED  BY <1>5, FS_CardinalityType DEF NumPoints

LEMMA StepsArePoints ==
    ASSUME TypeOK, NEW pt \in Points
    PROVE  Steps(pt) \subseteq Points
  <1>1. pt[1] \in Blocks /\ pt[2] \in 0..Size(pt[1]) /\ Size(pt[1]) \in Nat  BY PointsOf, Graph
  <1>2. CASE pt[2] < Size(pt[1])
    <2>1. pt[2] + 1 \in 0..Size(pt[1])  BY <1>1, <1>2
    <2>. QED  BY <1>1, <1>2, <2>1, PointsOf DEF Steps
  <1>3. CASE ~(pt[2] < Size(pt[1]))
    <2>1. ElementsOf(cfg[pt[1]].successors) \subseteq Blocks  BY <1>1, Graph, Elements
    <2>2. \A b \in Blocks : 0 \in 0..Size(b)  BY Graph
    <2>. QED  BY <1>3, <2>1, <2>2, PointsOf DEF Steps
  <1>. QED  BY <1>2, <1>3

(* UninitPoints is the least set of points that holds the starts and what  *)
(* follows a point at which the place stays uninitialised.                 *)
LEMMA UninitLeast ==
    ASSUME TypeOK
    PROVE  /\ UninitPoints \subseteq Points /\ UninitStart \subseteq UninitPoints
           /\ \A pt \in UninitPoints : StaysUninit(pt) => Steps(pt) \subseteq UninitPoints
           /\ \A X \in SUBSET Points :
                 UninitStart \subseteq X /\ (\A pt \in X : StaysUninit(pt) => Steps(pt) \subseteq X)
                    => UninitPoints \subseteq X
  <1>1. IsFiniteSet(Points) /\ NumPoints \in Nat /\ NumPoints = Cardinality(Points)
    BY FinitePoints DEF NumPoints
  <1>2. UninitStart \in SUBSET Points
    <2>1. \A b \in Blocks : <<b, 0>> \in Points
      <3>1. \A b \in Blocks : 0 \in 0..Size(b)  BY Graph
      <3>. QED  BY <3>1, PointsOf
    <2>2. \A pt \in Points : pt[2] < Size(pt[1]) => <<pt[1], pt[2] + 1>> \in Points
      BY StepsArePoints DEF Steps
    <2>. QED  BY <2>1, <2>2 DEF UninitStart
  <1>3. \A r \in SUBSET Points : UninitMore(r) \in SUBSET Points /\ r \subseteq UninitMore(r)
    BY StepsArePoints DEF UninitMore
  <1>4. PICK G : G = [r \in SUBSET Points |-> UninitMore(r)]  OBVIOUS
  <1>5. G \in [SUBSET Points -> SUBSET Points] /\ \A r \in SUBSET Points : G[r] = UninitMore(r) /\ r \subseteq G[r]
    BY <1>3, <1>4
  <1>6. PICK f \in [0..NumPoints -> SUBSET Points] : IsChain(f, UninitStart, G, NumPoints)
    BY <1>1, <1>2, <1>5, ChainExists
  <1>7. f = [n \in 0..NumPoints |-> IF n = 0 THEN UninitStart ELSE UninitMore(f[n - 1])]
    <2>1. ASSUME NEW n \in 0..NumPoints PROVE f[n] = IF n = 0 THEN UninitStart ELSE UninitMore(f[n - 1])
      <3>1. CASE n = 0  BY <1>6, <3>1 DEF IsChain
      <3>2. CASE n # 0
        <4>1. n \in 1..NumPoints /\ n - 1 \in 0..NumPoints  BY <1>1, <3>2
        <4>2. f[n] = G[f[n - 1]] /\ f[n - 1] \in SUBSET Points  BY <1>6, <4>1 DEF IsChain
        <4>. QED  BY <1>5, <3>2, <4>2
      <3>. QED  BY <3>1, <3>2
    <2>2. f = [n \in 0..NumPoints |-> f[n]]  BY <1>6
    <2>. QED  BY <2>1, <2>2
  <1>8. UninitWithin = [n \in 0..NumPoints |-> IF n = 0 THEN UninitStart ELSE UninitMore(UninitWithin[n - 1])]
    BY <1>7 DEF UninitWithin
  <1>9. UninitWithin = f
    <2> DEFINE Bad == {n \in 0..NumPoints : UninitWithin[n] # f[n]}
    <2>1. ASSUME Bad # {} PROVE FALSE
      <3>1. Bad \in SUBSET Nat  OBVIOUS
      <3>2. PICK m \in Bad : \A y \in Bad : m <= y
        <4>. HIDE DEF Bad
        <4>. QED  BY <2>1, <3>1, LeastNumber
      <3>3. m \in 0..NumPoints /\ UninitWithin[m] # f[m]  BY <3>2
      <3>4. UninitWithin[m] = (IF m = 0 THEN UninitStart ELSE UninitMore(UninitWithin[m - 1])) /\ f[m] = (IF m = 0 THEN UninitStart ELSE UninitMore(f[m - 1]))
        BY <1>7, <1>8, <3>3
      <3>5. m # 0  BY <3>3, <3>4
      <3>6. m - 1 \in 0..NumPoints /\ ~(m <= m - 1)  BY <1>1, <3>3, <3>5
      <3>7. m - 1 \notin Bad  BY <3>2, <3>6
      <3>8. UninitWithin[m - 1] = f[m - 1]  BY <3>6, <3>7
      <3>. QED  BY <3>3, <3>4, <3>5, <3>8
    <2>2. \A n \in 0..NumPoints : UninitWithin[n] = f[n]  BY <2>1
    <2>3. UninitWithin = [n \in 0..NumPoints |-> UninitWithin[n]]  BY <1>8
    <2>4. f = [n \in 0..NumPoints |-> f[n]]  BY <1>6
    <2>. QED  BY <2>2, <2>3, <2>4
  <1>10. UninitPoints = f[NumPoints] /\ f[NumPoints] \in SUBSET Points  BY <1>1, <1>9 DEF UninitPoints
  <1>11. UninitStart \subseteq UninitPoints /\ G[UninitPoints] = UninitPoints
    <2>1. ChainIn(Points, f, UninitStart, G, NumPoints)  BY <1>1, <1>2, <1>5, <1>6 DEF ChainIn
    <2>2. Grows(Points, G)  BY <1>5 DEF Grows
    <2>. QED  BY <1>1, <1>10, <2>1, <2>2, ChainFixed
  <1>12. ASSUME NEW pt \in UninitPoints, StaysUninit(pt) PROVE Steps(pt) \subseteq UninitPoints
    <2>1. UninitMore(UninitPoints) = UninitPoints  BY <1>5, <1>10, <1>11
    <2>. QED  BY <1>12, <2>1 DEF UninitMore
  <1>13. ASSUME NEW X \in SUBSET Points, UninitStart \subseteq X,
                \A pt \in X : StaysUninit(pt) => Steps(pt) \subseteq X
         PROVE  UninitPoints \subseteq X
    <2>1. ASSUME NEW Y \in SUBSET Points, Y \subseteq X PROVE G[Y] \subseteq X
      <3>1. G[Y] = UninitMore(Y)  BY <1>5
      <3>. QED  BY <1>13, <2>1, <3>1 DEF UninitMore
    <2>2. StaysIn(Points, G, X)  BY <2>1 DEF StaysIn
    <2>3. ChainIn(Points, f, UninitStart, G, NumPoints)  BY <1>1, <1>2, <1>5, <1>6 DEF ChainIn
    <2>. QED  BY <1>10, <1>13, <2>2, <2>3, ChainLeast
  <1>. QED  BY <1>10, <1>11, <1>12, <1>13

(* UnresolvedPoints is the least set of points that holds the starts and   *)
(* the points that lead to one of it with the value still there.           *)
LEMMA UnresolvedLeast ==
    ASSUME TypeOK
    PROVE  /\ UnresolvedPoints \subseteq Points
           /\ UnresolvedStart \subseteq UnresolvedPoints
           /\ \A pt \in Points :
                 StaysAlive(pt) /\ Steps(pt) \cap UnresolvedPoints # {} => pt \in UnresolvedPoints
           /\ \A X \in SUBSET Points :
                 /\ UnresolvedStart \subseteq X
                 /\ \A pt \in Points : StaysAlive(pt) /\ Steps(pt) \cap X # {} => pt \in X
                 => UnresolvedPoints \subseteq X
  <1>1. IsFiniteSet(Points) /\ NumPoints \in Nat /\ NumPoints = Cardinality(Points)
    BY FinitePoints DEF NumPoints
  <1>2. UnresolvedStart \in SUBSET Points  BY DEF UnresolvedStart
  <1>3. \A r \in SUBSET Points : UnresolvedMore(r) \in SUBSET Points /\ r \subseteq UnresolvedMore(r)
    BY DEF UnresolvedMore
  <1>4. PICK G : G = [r \in SUBSET Points |-> UnresolvedMore(r)]  OBVIOUS
  <1>5. G \in [SUBSET Points -> SUBSET Points] /\ \A r \in SUBSET Points : G[r] = UnresolvedMore(r) /\ r \subseteq G[r]
    BY <1>3, <1>4
  <1>6. PICK f \in [0..NumPoints -> SUBSET Points] : IsChain(f, UnresolvedStart, G, NumPoints)
    BY <1>1, <1>2, <1>5, ChainExists
  <1>7. f = [n \in 0..NumPoints |-> IF n = 0 THEN UnresolvedStart ELSE UnresolvedMore(f[n - 1])]
    <2>1. ASSUME NEW n \in 0..NumPoints PROVE f[n] = IF n = 0 THEN UnresolvedStart ELSE UnresolvedMore(f[n - 1])
      <3>1. CASE n = 0  BY <1>6, <3>1 DEF IsChain
      <3>2. CASE n # 0
        <4>1. n \in 1..NumPoints /\ n - 1 \in 0..NumPoints  BY <1>1, <3>2
        <4>2. f[n] = G[f[n - 1]] /\ f[n - 1] \in SUBSET Points  BY <1>6, <4>1 DEF IsChain
        <4>. QED  BY <1>5, <3>2, <4>2
      <3>. QED  BY <3>1, <3>2
    <2>2. f = [n \in 0..NumPoints |-> f[n]]  BY <1>6
    <2>. QED  BY <2>1, <2>2
  <1>8. UnresolvedWithin = [n \in 0..NumPoints |-> IF n = 0 THEN UnresolvedStart ELSE UnresolvedMore(UnresolvedWithin[n - 1])]
    BY <1>7 DEF UnresolvedWithin
  <1>9. UnresolvedWithin = f
    <2> DEFINE Bad == {n \in 0..NumPoints : UnresolvedWithin[n] # f[n]}
    <2>1. ASSUME Bad # {} PROVE FALSE
      <3>1. Bad \in SUBSET Nat  OBVIOUS
      <3>2. PICK m \in Bad : \A y \in Bad : m <= y
        <4>. HIDE DEF Bad
        <4>. QED  BY <2>1, <3>1, LeastNumber
      <3>3. m \in 0..NumPoints /\ UnresolvedWithin[m] # f[m]  BY <3>2
      <3>4. UnresolvedWithin[m] = (IF m = 0 THEN UnresolvedStart ELSE UnresolvedMore(UnresolvedWithin[m - 1])) /\ f[m] = (IF m = 0 THEN UnresolvedStart ELSE UnresolvedMore(f[m - 1]))
        BY <1>7, <1>8, <3>3
      <3>5. m # 0  BY <3>3, <3>4
      <3>6. m - 1 \in 0..NumPoints /\ ~(m <= m - 1)  BY <1>1, <3>3, <3>5
      <3>7. m - 1 \notin Bad  BY <3>2, <3>6
      <3>8. UnresolvedWithin[m - 1] = f[m - 1]  BY <3>6, <3>7
      <3>. QED  BY <3>3, <3>4, <3>5, <3>8
    <2>2. \A n \in 0..NumPoints : UnresolvedWithin[n] = f[n]  BY <2>1
    <2>3. UnresolvedWithin = [n \in 0..NumPoints |-> UnresolvedWithin[n]]  BY <1>8
    <2>4. f = [n \in 0..NumPoints |-> f[n]]  BY <1>6
    <2>. QED  BY <2>2, <2>3, <2>4
  <1>10. UnresolvedPoints = f[NumPoints] /\ f[NumPoints] \in SUBSET Points  BY <1>1, <1>9 DEF UnresolvedPoints
  <1>11. UnresolvedStart \subseteq UnresolvedPoints /\ G[UnresolvedPoints] = UnresolvedPoints
    <2>1. ChainIn(Points, f, UnresolvedStart, G, NumPoints)  BY <1>1, <1>2, <1>5, <1>6 DEF ChainIn
    <2>2. Grows(Points, G)  BY <1>5 DEF Grows
    <2>. QED  BY <1>1, <1>10, <2>1, <2>2, ChainFixed
  <1>12. ASSUME NEW pt \in Points, StaysAlive(pt), Steps(pt) \cap UnresolvedPoints # {}
         PROVE  pt \in UnresolvedPoints
    <2>1. UnresolvedMore(UnresolvedPoints) = UnresolvedPoints  BY <1>5, <1>10, <1>11
    <2>. QED  BY <1>12, <2>1 DEF UnresolvedMore
  <1>13. ASSUME NEW X \in SUBSET Points, UnresolvedStart \subseteq X,
                \A pt \in Points : StaysAlive(pt) /\ Steps(pt) \cap X # {} => pt \in X
         PROVE  UnresolvedPoints \subseteq X
    <2>1. ASSUME NEW Y \in SUBSET Points, Y \subseteq X PROVE G[Y] \subseteq X
      <3>1. G[Y] = UnresolvedMore(Y)  BY <1>5
      <3>. QED  BY <1>13, <2>1, <3>1 DEF UnresolvedMore
    <2>2. StaysIn(Points, G, X)  BY <2>1 DEF StaysIn
    <2>3. ChainIn(Points, f, UnresolvedStart, G, NumPoints)  BY <1>1, <1>2, <1>5, <1>6 DEF ChainIn
    <2>. QED  BY <1>10, <1>13, <2>2, <2>3, ChainLeast
  <1>. QED  BY <1>10, <1>11, <1>12, <1>13

-----------------------------------------------------------------------------
(* Exactness: the values say no more than the paths do while the analyses  *)
(* run, and no less once the equations are solved.                         *)

LEMMA PathsStay ==
    ASSUME UNCHANGED <<cfg, place>>
    PROVE  UninitPoints' = UninitPoints /\ UnresolvedPoints' = UnresolvedPoints
  <1>1. UNCHANGED <<Blocks, Points, IPlace>> /\ \A c : Size(c)' = Size(c)
    BY DEF Blocks, Points, Size, IPlace
  <1>2. NumPoints' = NumPoints  BY <1>1 DEF NumPoints
  <1>3. \A pt : NextInstr(pt)' = NextInstr(pt) /\ Steps(pt)' = Steps(pt)  BY <1>1 DEF NextInstr, Steps
  <1>4. UninitStart' = UninitStart  BY <1>1, <1>3 DEF UninitStart
  <1>5. \A pt : StaysUninit(pt)' = StaysUninit(pt)  BY <1>1, <1>3 DEF StaysUninit
  <1>6. \A r : UninitMore(r)' = UninitMore(r)  BY <1>3, <1>5 DEF UninitMore
  <1>7. UninitWithin' = UninitWithin  BY <1>2, <1>4, <1>6 DEF UninitWithin
  <1>8. UninitPoints' = UninitPoints  BY <1>2, <1>7 DEF UninitPoints
  <1>14. UnresolvedStart' = UnresolvedStart  BY <1>1, <1>3 DEF UnresolvedStart
  <1>15. \A pt : StaysAlive(pt)' = StaysAlive(pt)  BY <1>1, <1>3 DEF StaysAlive
  <1>16. \A r : UnresolvedMore(r)' = UnresolvedMore(r)  BY <1>1, <1>3, <1>15 DEF UnresolvedMore
  <1>17. UnresolvedWithin' = UnresolvedWithin  BY <1>2, <1>14, <1>16 DEF UnresolvedWithin
  <1>18. UnresolvedPoints' = UnresolvedPoints  BY <1>2, <1>17 DEF UnresolvedPoints
  <1>. QED  BY <1>8, <1>18

(* A step that keeps the values. *)
LEMMA ExactFrame ==
    ASSUME ExactInv, UNCHANGED <<cfg, place, output>>, FirstRound', StartValues \subseteq StartValues'
    PROVE  ExactInv'
  <1>1. Points' = Points  BY DEF Points, Blocks, Size
  <1>. QED  BY <1>1, PathsStay DEF ExactInv

(* A step that writes one. *)
LEMMA ExactForward ==
    ASSUME TypeOK, ExactInv, phase = "Forward", UNCHANGED <<cfg, place>>, FirstRound',
           NEW pt \in Points, NEW v \in BOOLEAN, Write(pt, v), v => pt \in UninitPoints,
           \A q \in StartValues : q # pt => q \in StartValues'
    PROVE  ExactInv'
  <1>1. Points' = Points  BY DEF Points, Blocks, Size
  <1>2. /\ \A q : q \in output'["Forward"] <=> IF q = pt THEN v ELSE q \in output["Forward"]
        /\ output'["Reverse"] = output["Reverse"]
    BY Written DEF Dirs
  <1>3. ASSUME NEW q \in output'["Forward"] PROVE q \in UninitPoints \cup StartValues'
    BY <1>2 DEF ExactInv
  <1>. QED  BY <1>1, <1>2, <1>3, PathsStay DEF ExactInv

LEMMA ExactReverse ==
    ASSUME TypeOK, ExactInv, phase = "Reverse", UNCHANGED <<cfg, place, phase>>,
           NEW pt \in Points, NEW v \in BOOLEAN, Write(pt, v), ~v => pt \in UnresolvedPoints
    PROVE  ExactInv'
  <1>1. Points' = Points  BY DEF Points, Blocks, Size
  <1>2. /\ \A q : q \in output'["Reverse"] <=> IF q = pt THEN v ELSE q \in output["Reverse"]
        /\ output'["Forward"] = output["Forward"]
    BY Written DEF Dirs
  <1>3. StartValues = {} /\ FirstRound'  BY DEF StartValues, FirstRound
  <1>4. ASSUME NEW q \in Points \ output'["Reverse"] PROVE q \in UnresolvedPoints
    BY <1>2 DEF ExactInv
  <1>. QED  BY <1>1, <1>2, <1>3, <1>4, PathsStay DEF ExactInv

LEMMA ExactInitially == Init => ExactInv
  <1> SUFFICES ASSUME Init PROVE ExactInv
    OBVIOUS
  <1>1. TypeOK  BY Initially DEF SoundInv
  <1>2. Len(cfg) \in Nat /\ Blocks = 1..Len(cfg)  BY <1>1, Graph
  <1>3. FirstRound
    <2>1. worklist = [i \in 1..Len(cfg) |-> i]  BY <1>2 DEF Init, InitialWorklist
    <2>2. Len(worklist) = Len(cfg) /\ \A i \in 1..(Len(cfg) - 0) : worklist[i] = 0 + i  BY <1>2, <2>1
    <2>3. has_run = 1..0 /\ 0 \in 0..Len(cfg) /\ Len(worklist) >= Len(cfg) - 0  BY <1>2, <2>2 DEF Init
    <2>. QED  BY <2>2, <2>3 DEF FirstRound
  <1>4. ASSUME NEW pt \in output["Forward"] PROVE pt \in StartValues
    <2>1. pt \in Points /\ pt[2] = Size(pt[1]) /\ cfg[pt[1]].is_entry
      BY DEF Init, InitialOutput, Dirs, Empty
    <2>2. pt = <<pt[1], Size(pt[1])>> /\ pt[1] \in Blocks  BY <1>1, <2>1, PointsOf
    <2>. QED  BY <2>1, <2>2 DEF Init, StartValues
  <1>5. ASSUME NEW pt \in Points, pt \notin output["Reverse"] PROVE pt \in UnresolvedPoints
    <2>1. pt[2] = Size(pt[1]) /\ cfg[pt[1]].is_exit /\ HasDeref(place)
      BY <1>5 DEF Init, InitialOutput, Dirs, Empty, EntryOrExit
    <2>2. pt[1] \in Blocks /\ Size(pt[1]) \in Nat  BY <1>1, PointsOf, Graph
    <2>3. pt \in UnresolvedStart  BY <2>1, <2>2 DEF UnresolvedStart
    <2>. QED  BY <1>1, <2>3, UnresolvedLeast
  <1>. QED  BY <1>3, <1>4, <1>5 DEF ExactInv

(* What flows into a block comes along a path. *)
LEMMA JoinedAlongPath ==
    ASSUME SoundInv, ExactInv, phase = "Forward", cur = NoBlock, worklist # <<>>,
           Join("Forward", Head(worklist))
    PROVE  <<Head(worklist), 0>> \in UninitPoints
  <1>1. PICK b \in Blocks : b = Head(worklist)  BY HeadAndTail DEF SoundInv, TypeOK
  <1>2. TypeOK  BY DEF SoundInv
  <1>3. CASE cfg[b].is_entry
    <2>1. <<b, 0>> \in UninitStart  BY <1>3 DEF UninitStart
    <2>. QED  BY <1>1, <1>2, <2>1, UninitLeast
  <1>4. CASE ~cfg[b].is_entry
    <2>1. PICK p \in ElementsOf(cfg[b].predecessors) : <<p, Size(p)>> \in output["Forward"]
      BY <1>1, <1>4 DEF Join, JoinPredecessors, Final, Stop, Idx
    <2>2. p \in Blocks /\ b \in ElementsOf(cfg[p].successors) /\ Size(p) \in Nat
      BY <1>2, Graph, Elements
    <2>3. <<p, Size(p)>> \in Points  BY <1>2, <2>2, PointsOf
    <2>4. <<p, Size(p)>> \notin StartValues
      <3>1. SUFFICES ASSUME <<p, Size(p)>> \in StartValues PROVE FALSE
        OBVIOUS
      <3>2. cfg[p].is_entry /\ p \notin has_run  BY <1>2, <2>2, <3>1, Graph DEF StartValues
      <3>3. p < b
        <4>1. cfg \in Cfgs /\ EntriesFirst(cfg)  BY <1>2, EntryAssumption DEF TypeOK
        <4>2. p \in 1..Len(cfg)  BY <1>2, <2>2, Graph
        <4>. QED  BY <2>2, <3>2, <4>1, <4>2 DEF EntriesFirst
      <3>4. PICK m \in 0..Len(cfg) : /\ has_run = 1..m /\ Len(worklist) >= Len(cfg) - m
                                     /\ \A i \in 1..(Len(cfg) - m) : worklist[i] = m + i
        BY DEF ExactInv, FirstRound
      <3>5. Len(cfg) \in Nat /\ p \in 1..Len(cfg) /\ b \in Nat  BY <1>2, <2>2, Graph
      <3>6. p > m  BY <3>2, <3>4, <3>5
      <3>7. 1 \in 1..(Len(cfg) - m)  BY <3>5, <3>6
      <3>8. worklist[1] = m + 1  BY <3>4, <3>7
      <3>9. b = m + 1
        <4>1. worklist \in Seq(Blocks)  BY <1>2 DEF TypeOK
        <4>. QED  BY <1>1, <3>8, <4>1, HeadTailProperties
      <3>. QED  BY <3>3, <3>4, <3>5, <3>6, <3>9
    <2>5. <<p, Size(p)>> \in UninitPoints  BY <2>1, <2>4 DEF ExactInv
    <2>6. StaysUninit(<<p, Size(p)>>)  BY <2>2 DEF StaysUninit
    <2>7. <<b, 0>> \in Steps(<<p, Size(p)>>)  BY <2>2 DEF Steps
    <2>. QED  BY <1>1, <1>2, <2>5, <2>6, <2>7, UninitLeast
  <1>. QED  BY <1>3, <1>4

(* The first round goes on when a block is taken. *)
LEMMA PopInOrder ==
    ASSUME SoundInv, ExactInv, Pop
    PROVE  FirstRound'
  <1>1. TypeOK /\ phase' = phase /\ cfg' = cfg /\ worklist # <<>> /\ worklist' = Tail(worklist)
    BY DEF SoundInv, Pop, Input
  <1>2. CASE phase # "Forward"  BY <1>1, <1>2 DEF FirstRound
  <1>3. CASE phase = "Forward"
    <2>1. PICK m \in 0..Len(cfg) : /\ has_run = 1..m /\ Len(worklist) >= Len(cfg) - m
                                   /\ \A i \in 1..(Len(cfg) - m) : worklist[i] = m + i
      BY <1>3 DEF ExactInv, FirstRound
    <2>2. Len(cfg) \in Nat /\ Blocks = 1..Len(cfg) /\ worklist \in Seq(Blocks)  BY <1>1, Graph DEF TypeOK
    <2>3. /\ Len(worklist) \in Nat /\ Len(worklist') = Len(worklist) - 1 /\ Head(worklist) = worklist[1]
          /\ \A i \in 1..Len(worklist') : worklist'[i] = worklist[i + 1] 
          /\ Head(worklist) \in Blocks
      BY <1>1, <2>2, HeadTailProperties, LenProperties
    <2>4. CASE m = Len(cfg)
      <3>1. has_run' = has_run
        <4>1. Head(worklist) \in has_run  BY <2>1, <2>2, <2>3, <2>4
        <4>. QED  BY <4>1 DEF Pop
      <3>2. Len(worklist') >= Len(cfg) - Len(cfg) /\ 1..(Len(cfg) - Len(cfg)) = {}
        <4>1. Len(worklist) # 0  BY <1>1, <2>2, EmptySeq
        <4>. QED  BY <2>2, <2>3, <4>1
      <3>3. Len(cfg) \in 0..Len(cfg)  BY <2>2
      <3>. QED  BY <1>1, <2>1, <2>4, <3>1, <3>2, <3>3 DEF FirstRound
    <2>5. CASE m # Len(cfg)
      <3>1. 1 \in 1..(Len(cfg) - m) /\ m + 1 \in 0..Len(cfg) /\ m \in Nat  BY <2>1, <2>2, <2>5
      <3>2. Head(worklist) = m + 1  BY <2>1, <2>3, <3>1
      <3>3. Head(worklist) \notin has_run  BY <2>1, <3>1, <3>2
      <3>4. has_run' = has_run \cup {m + 1}  BY <3>2, <3>3 DEF Pop
      <3>5. has_run' = 1..(m + 1)  BY <2>1, <3>1, <3>4
      <3>6. Len(worklist') >= Len(cfg) - (m + 1)  BY <2>1, <2>2, <2>3, <3>1
      <3>7. ASSUME NEW i \in 1..(Len(cfg) - (m + 1)) PROVE worklist'[i] = (m + 1) + i
        <4>1. i \in 1..Len(worklist') /\ i + 1 \in 1..(Len(cfg) - m)  BY <2>2, <2>3, <3>1, <3>6
        <4>2. worklist'[i] = worklist[i + 1] /\ worklist[i + 1] = m + (i + 1)  BY <2>1, <2>3, <4>1
        <4>. QED  BY <3>1, <4>2
      <3>. QED  BY <1>1, <3>1, <3>5, <3>6, <3>7 DEF FirstRound
    <2>. QED  BY <2>4, <2>5
  <1>. QED  BY <1>2, <1>3

LEMMA PopExact ==
    ASSUME SoundInv, ExactInv, Pop
    PROVE  ExactInv'
  <1>1. /\ TypeOK /\ phase \in Dirs /\ cur = NoBlock /\ worklist # <<>> /\ k' = 0
        /\ UNCHANGED <<cfg, place, phase>>
    BY DEF SoundInv, Pop, Input
  <1>2. PICK b \in Blocks : b = Head(worklist)  BY <1>1, HeadAndTail DEF TypeOK
  <1>3. PICK start : start = Stop(phase, b, 0)  OBVIOUS
  <1>4. FirstRound'  BY PopInOrder
  <1>5. \A c \in Blocks : c # cur /\ Size(c) \in Nat /\ Size(c)' = Size(c) /\ Blocks' = Blocks
    BY <1>1, Graph DEF Size, Blocks
  <1>6. CASE b \notin has_run \/ ~(start \in output[phase] <=> Join(phase, b))
    <2>1. Write(start, Join(phase, b)) /\ has_run' = has_run \cup {b} /\ cur' = b
      BY <1>2, <1>3, <1>6 DEF Pop
    <2>2. Join(phase, b) \in BOOLEAN  BY DEF Join, JoinPredecessors, JoinSuccessors
    <2>3. 0 \in 0..Size(b)  BY <1>5
    <2>4. start \in Points  BY <1>1, <1>3, <2>3, Stops
    <2>5. CASE phase = "Forward"
      <3>1. start = <<b, 0>>  BY <1>3, <2>5 DEF Stop, Idx
      <3>2. Join(phase, b) => start \in UninitPoints  BY <1>1, <1>2, <2>5, <3>1, JoinedAlongPath
      <3>3. ASSUME NEW q \in StartValues, q # start PROVE q \in StartValues'
        <4>1. PICK c \in Blocks : q = <<c, Size(c)>> /\ cfg[c].is_entry /\ c \notin has_run
          BY <1>5 DEF StartValues
        <4>2. c \notin has_run' \/ (c = cur' /\ k' < Size(c))
          BY <1>1, <1>5, <2>1, <3>1, <3>3, <4>1
        <4>. QED  BY <1>1, <1>5, <2>5, <4>1, <4>2 DEF StartValues
      <3>. QED  BY <1>1, <1>4, <2>1, <2>2, <2>4, <2>5, <3>2, <3>3, ExactForward
    <2>6. CASE phase = "Reverse"
      <3>1. start = <<b, Size(b)>>  BY <1>3, <1>5, <2>6 DEF Stop, Idx
      <3>2. ASSUME ~Join(phase, b) PROVE start \in UnresolvedPoints
        <4>1. start[1] = b /\ start[2] = Size(b) /\ ~(start[2] < Size(start[1]))  BY <1>5, <3>1
        <4>2. CASE cfg[b].is_exit /\ HasDeref(place)
          <5>1. start \in UnresolvedStart  BY <2>4, <4>1, <4>2 DEF UnresolvedStart
          <5>. QED  BY <1>1, <5>1, UnresolvedLeast
        <4>3. CASE \E s \in ElementsOf(cfg[b].successors) : ~Final("Reverse", s)
          <5>1. PICK s \in ElementsOf(cfg[b].successors) : ~Final("Reverse", s)  BY <4>3
          <5>2. s \in Blocks  BY <1>1, Graph, Elements
          <5>3. Size(s) \in Nat /\ Size(s) - Size(s) = 0 /\ 0 \in 0..Size(s)  BY <1>5, <5>2
          <5>4. <<s, 0>> \in Points  BY <1>1, <5>2, <5>3, PointsOf
          <5>5. <<s, 0>> \notin output["Reverse"]  BY <5>1, <5>3 DEF Final, Stop, Idx
          <5>6. <<s, 0>> \in UnresolvedPoints  BY <5>4, <5>5 DEF ExactInv
          <5>7. <<s, 0>> \in Steps(start)  BY <4>1, <5>1 DEF Steps
          <5>8. StaysAlive(start)  BY <4>1 DEF StaysAlive
          <5>9. Steps(start) \cap UnresolvedPoints # {}  BY <5>6, <5>7
          <5>. QED  BY <1>1, <2>4, <5>8, <5>9, UnresolvedLeast
        <4>. QED  BY <2>6, <3>2, <4>2, <4>3 DEF Join, JoinSuccessors
      <3>. QED  BY <1>1, <2>1, <2>2, <2>4, <2>6, <3>2, ExactReverse
    <2>. QED  BY <1>1, <2>5, <2>6 DEF Dirs
  <1>7. CASE ~(b \notin has_run \/ ~(start \in output[phase] <=> Join(phase, b)))
    <2>1. UNCHANGED <<output, has_run, cur>>  BY <1>2, <1>3, <1>7 DEF Pop
    <2>2. StartValues \subseteq StartValues'  BY <1>1, <1>5, <2>1 DEF StartValues
    <2>. QED  BY <1>1, <1>4, <2>1, <2>2, ExactFrame
  <1>. QED  BY <1>6, <1>7

(* An instruction is gone through along a path. *)
LEMMA ForwardAlongPath ==
    ASSUME SoundInv, ExactInv, NEW b \in Blocks, NEW i \in Nat, i < Size(b),
           TransferInitialization(<<b, i>> \in UninitPoints, cfg[b].instructions[i + 1])
    PROVE  <<b, i + 1>> \in UninitPoints
  <1>1. TypeOK  BY DEF SoundInv
  <1>2. Size(b) \in Nat /\ i \in 0..Size(b) /\ i + 1 \in 1..Size(b)  BY <1>1, Graph
  <1>3. PICK pt \in Points : pt = <<b, i>>  BY <1>1, <1>2, PointsOf
  <1>4. pt[1] = b /\ pt[2] = i /\ pt[2] < Size(pt[1])  BY <1>3
  <1>5. PICK instr \in Instructions : instr = cfg[b].instructions[i + 1]  BY <1>1, <1>2, Graph
  <1>6. NextInstr(pt) = instr  BY <1>4, <1>5 DEF NextInstr
  <1>7. instr.place \in Places /\ IPlace \in Places /\ instr.kind \in Kinds
    BY <1>1, Graph DEF Instructions
  <1>8. Within(IPlace, instr.place) <=> Contains(instr.place, IPlace)  BY <1>7, WithinContains
  <1>9. CASE Contains(instr.place, IPlace) /\ instr.kind # "Mutate"
    <2>1. instr.kind # "Overwrite"  BY <1>5, <1>9 DEF TransferInitialization
    <2>2. instr.kind \in {"MoveFrom", "DropFrom"}  BY <1>7, <1>9, <2>1 DEF Kinds
    <2>3. <<pt[1], pt[2] + 1>> \in UninitStart  BY <1>4, <1>6, <1>8, <1>9, <2>2 DEF UninitStart
    <2>. QED  BY <1>1, <1>4, <2>3, UninitLeast
  <1>10. CASE ~(Contains(instr.place, IPlace) /\ instr.kind # "Mutate")
    <2>1. pt \in UninitPoints  BY <1>3, <1>5, <1>10 DEF TransferInitialization
    <2>2. StaysUninit(pt)  BY <1>6, <1>8, <1>10 DEF StaysUninit
    <2>3. <<b, i + 1>> \in Steps(pt)  BY <1>4 DEF Steps
    <2>. QED  BY <1>1, <2>1, <2>2, <2>3, UninitLeast
  <1>. QED  BY <1>9, <1>10

LEMMA ReverseAlongPath ==
    ASSUME SoundInv, ExactInv, NEW b \in Blocks, NEW i \in Nat, i < Size(b), NEW v \in BOOLEAN,
           ~v => <<b, i + 1>> \in UnresolvedPoints,
           ~TransferResolve(v, cfg[b].instructions[i + 1])
    PROVE  <<b, i>> \in UnresolvedPoints
  <1>1. TypeOK  BY DEF SoundInv
  <1>2. Size(b) \in Nat /\ i \in 0..Size(b) /\ i + 1 \in 1..Size(b)  BY <1>1, Graph
  <1>3. PICK pt \in Points : pt = <<b, i>>  BY <1>1, <1>2, PointsOf
  <1>4. pt[1] = b /\ pt[2] = i /\ pt[2] < Size(pt[1])  BY <1>3
  <1>5. PICK instr \in Instructions : instr = cfg[b].instructions[i + 1]  BY <1>1, <1>2, Graph
  <1>6. NextInstr(pt) = instr  BY <1>4, <1>5 DEF NextInstr
  <1>7. instr.place \in Places /\ place \in Places /\ instr.kind \in Kinds
    BY <1>1, Graph DEF Instructions
  <1>8. ~Disposes(instr, place)
    BY <1>5, <1>7, DisposesContains DEF TransferResolve
  <1>9. CASE Intersects(instr.place, place)
    <2>1. MayBeChanged(instr, place)  BY <1>7, <1>8, <1>9, IntersectsWithin DEF MayBeChanged
    <2>2. pt \in UnresolvedStart  BY <1>4, <1>6, <2>1 DEF UnresolvedStart
    <2>. QED  BY <1>1, <1>3, <2>2, UnresolvedLeast
  <1>10. CASE ~Intersects(instr.place, place)
    <2>1. ~v  BY <1>5, <1>10 DEF TransferResolve
    <2>2. <<b, i + 1>> \in UnresolvedPoints  BY <2>1
    <2>3. <<b, i + 1>> \in Steps(pt)  BY <1>4 DEF Steps
    <2>4. StaysAlive(pt)  BY <1>6, <1>8 DEF StaysAlive
    <2>5. Steps(pt) \cap UnresolvedPoints # {}  BY <2>2, <2>3
    <2>. QED  BY <1>1, <1>3, <2>4, <2>5, UnresolvedLeast
  <1>. QED  BY <1>9, <1>10

LEMMA TransferStepExact ==
    ASSUME SoundInv, ExactInv, TransferStep
    PROVE  ExactInv'
  <1>1. /\ TypeOK /\ phase \in Dirs /\ cur # NoBlock /\ k < Size(cur) /\ k' = k + 1
        /\ UNCHANGED <<cfg, place, phase, worklist, has_run, cur>>
    BY DEF SoundInv, TransferStep, Input
  <1>2. cur \in Blocks /\ cur \in has_run /\ k \in Nat  BY <1>1 DEF TypeOK
  <1>3. \A c \in Blocks : Size(c) \in Nat /\ Size(c)' = Size(c)  BY <1>1, Graph DEF Size
  <1>4. k \in 0..Size(cur) /\ k + 1 \in 0..Size(cur) /\ Blocks' = Blocks  BY <1>1, <1>2, <1>3 DEF Blocks
  <1>5. PICK target \in Points : target = Stop(phase, cur, k + 1)  BY <1>1, <1>2, <1>4, Stops
  <1>6. PICK u \in BOOLEAN : u = (Stop(phase, cur, k) \in output[phase])
    <2>1. (Stop(phase, cur, k) \in output[phase]) \in BOOLEAN  OBVIOUS
    <2>. QED  BY <2>1, Zenon
  <1>7. PICK v : v = Transfer(phase, u, StepInstr(phase, cur, k))  OBVIOUS
  <1>8. Write(target, v)  BY <1>5, <1>6, <1>7 DEF TransferStep
  <1>9. CASE phase = "Forward"
    <2>1. v = TransferInitialization(u, cfg[cur].instructions[k + 1]) /\ target = <<cur, k + 1>>
      BY <1>5, <1>7, <1>9 DEF Transfer, StepInstr, Stop, Idx
    <2>2. u = (<<cur, k>> \in output["Forward"])  BY <1>6, <1>9 DEF Stop, Idx
    <2>3. v \in BOOLEAN  BY <2>1 DEF TransferInitialization
    <2>4. <<cur, k>> \notin StartValues  BY <1>1, <1>3 DEF StartValues
    <2>5. u => <<cur, k>> \in UninitPoints  BY <2>2, <2>4 DEF ExactInv
    <2>6. ASSUME v PROVE target \in UninitPoints
      <3>1. TransferInitialization(<<cur, k>> \in UninitPoints, cfg[cur].instructions[k + 1])
        BY <2>1, <2>5, <2>6 DEF TransferInitialization
      <3>. QED  BY <1>1, <1>2, <2>1, <3>1, ForwardAlongPath
    <2>7. FirstRound'  BY <1>1 DEF ExactInv, FirstRound
    <2>8. ASSUME NEW q \in StartValues, q # target PROVE q \in StartValues'
      <3>1. PICK c \in Blocks : /\ q = <<c, Size(c)>> /\ cfg[c].is_entry
                                /\ c \notin has_run \/ (c = cur /\ k < Size(c))
        BY DEF StartValues
      <3>2. c \notin has_run' \/ (c = cur' /\ k' < Size(c))
        BY <1>1, <1>2, <1>3, <2>1, <2>8, <3>1
      <3>. QED  BY <1>1, <1>3, <1>4, <1>9, <3>1, <3>2 DEF StartValues
    <2>. QED  BY <1>1, <1>8, <1>9, <2>3, <2>6, <2>7, <2>8, ExactForward
  <1>10. CASE phase = "Reverse"
    <2>1. PICK i \in Nat : i = Size(cur) - (k + 1)  BY <1>2, <1>3, <1>4
    <2>2. i < Size(cur) /\ i + 1 = Size(cur) - k  BY <1>2, <1>3, <2>1
    <2>3. v = TransferResolve(u, cfg[cur].instructions[i + 1]) /\ target = <<cur, i>>
      BY <1>5, <1>7, <1>10, <2>1, <2>2 DEF Transfer, StepInstr, Stop, Idx
    <2>4. u = (<<cur, i + 1>> \in output["Reverse"])  BY <1>6, <1>10, <2>2 DEF Stop, Idx
    <2>5. v \in BOOLEAN  BY <2>3 DEF TransferResolve, ContainsAndNotSeparatedByDeref, Contains
    <2>6. i + 1 \in 0..Size(cur)  BY <1>2, <1>3, <2>1, <2>2
    <2>7. <<cur, i + 1>> \in Points  BY <1>1, <1>2, <2>6, PointsOf
    <2>8. ~u => <<cur, i + 1>> \in UnresolvedPoints  BY <2>4, <2>7 DEF ExactInv
    <2>9. ASSUME ~v PROVE target \in UnresolvedPoints
      BY <1>2, <2>2, <2>3, <2>8, <2>9, ReverseAlongPath
    <2>. QED  BY <1>1, <1>8, <1>10, <2>5, <2>9, ExactReverse
  <1>. QED  BY <1>1, <1>9, <1>10 DEF Dirs

LEMMA PushExact ==
    ASSUME SoundInv, ExactInv, Push
    PROVE  ExactInv'
  <1>1. /\ TypeOK /\ phase \in Dirs /\ cur # NoBlock /\ k >= Size(cur) /\ k' = k + 1
        /\ UNCHANGED <<cfg, place, phase, has_run, cur, output>>
    BY DEF SoundInv, Push, Input
  <1>2. cur \in Blocks /\ k \in Nat /\ Size(cur) \in Nat /\ worklist \in Seq(Blocks)
    BY <1>1, Graph DEF TypeOK
  <1>3. StartValues \subseteq StartValues'  BY <1>1, <1>2 DEF StartValues, Blocks, Size
  <1>4. worklist' = worklist \/ \E bb1 \in Blocks : worklist' = Append(worklist, bb1)
    <2>1. Targets(phase, cur) \in Seq(Blocks) /\ Len(Targets(phase, cur)) \in Nat
      BY <1>1, <1>2, ToPush, LenProperties
    <2>2. k - Size(cur) + 1 \in 1..Len(Targets(phase, cur))  BY <1>1, <1>2, <2>1 DEF Push
    <2>3. Targets(phase, cur)[k - Size(cur) + 1] \in Blocks  BY <2>1, <2>2, ElementOfSeq
    <2>. QED  BY <2>3 DEF Push
  <1>5. Len(worklist') >= Len(worklist) /\ \A i \in 1..Len(worklist) : worklist'[i] = worklist[i]
    BY <1>2, <1>4, AppendProperties, LenProperties
  <1>6. FirstRound'
    <2>1. SUFFICES ASSUME phase = "Forward" PROVE FirstRound'
      BY <1>1 DEF FirstRound
    <2>2. PICK m \in 0..Len(cfg) : /\ has_run = 1..m /\ Len(worklist) >= Len(cfg) - m
                                   /\ \A i \in 1..(Len(cfg) - m) : worklist[i] = m + i
      BY <2>1 DEF ExactInv, FirstRound
    <2>3. Len(cfg) \in Nat /\ Len(worklist) \in Nat /\ Len(worklist') \in Nat
      BY <1>1, <1>2, <1>4, Graph, LenProperties, AppendProperties
    <2>4. Len(worklist') >= Len(cfg) - m /\ \A i \in 1..(Len(cfg) - m) : worklist'[i] = m + i
      BY <1>5, <2>2, <2>3
    <2>. QED  BY <1>1, <2>2, <2>4 DEF FirstRound
  <1>. QED  BY <1>1, <1>3, <1>6, ExactFrame

LEMMA VisitedExact ==
    ASSUME SoundInv, ExactInv, Visited
    PROVE  ExactInv'
  <1>1. /\ TypeOK /\ phase \in Dirs /\ cur # NoBlock /\ k = Size(cur) + Len(Targets(phase, cur))
        /\ UNCHANGED <<cfg, place, phase, has_run, worklist, output>>
    BY DEF SoundInv, Visited, Input
  <1>2. cur \in Blocks /\ Size(cur) \in Nat /\ Len(Targets(phase, cur)) \in Nat
    BY <1>1, Graph, ToPush, LenProperties DEF TypeOK
  <1>3. StartValues \subseteq StartValues'  BY <1>1, <1>2 DEF StartValues, Blocks, Size
  <1>4. FirstRound'  BY <1>1 DEF ExactInv, FirstRound
  <1>. QED  BY <1>1, <1>3, <1>4, ExactFrame

LEMMA NextAnalysisExact ==
    ASSUME SoundInv, ExactInv, NextAnalysis
    PROVE  ExactInv'
  <1>1. /\ TypeOK /\ VisitsOwed /\ phase = "Forward" /\ phase' = "Reverse" /\ cur = NoBlock
        /\ worklist = <<>> /\ UNCHANGED <<cfg, place, output>>
    BY DEF SoundInv, NextAnalysis, Input
  <1>2. ElementsOf(worklist) = {}  BY <1>1 DEF ElementsOf
  <1>3. Blocks \subseteq has_run  BY <1>1, <1>2 DEF VisitsOwed, Dirs
  <1>4. StartValues = {}  BY <1>1, <1>3, Graph DEF StartValues
  <1>5. FirstRound'  BY <1>1 DEF FirstRound
  <1>. QED  BY <1>1, <1>4, <1>5, ExactFrame

(* From then on the values of the analyses stay. *)
LEMMA AfterwardsExact ==
    ASSUME ExactInv, phase # "Forward", phase' # "Forward", UNCHANGED <<cfg, place, output>>
    PROVE  ExactInv'
  <1>1. StartValues = {} /\ FirstRound'  BY DEF StartValues, FirstRound
  <1>. QED  BY <1>1, ExactFrame

LEMMA StutterExact ==
    ASSUME ExactInv, UNCHANGED vars
    PROVE  ExactInv'
  <1>1. UNCHANGED <<cfg, place, phase, worklist, has_run, cur, k, output>>  BY DEF vars
  <1>2. FirstRound' /\ StartValues' = StartValues
    BY <1>1 DEF ExactInv, FirstRound, StartValues, Blocks, Size
  <1>. QED  BY <1>1, <1>2, ExactFrame

(* The analyses never say more than the paths of the graph do.             *)
THEOREM ExactInvariant == Spec => []ExactInv
  <1>1. Init => ExactInv  BY ExactInitially
  <1>2. SoundInv /\ ExactInv /\ [Next]_vars => ExactInv'
    <2> SUFFICES ASSUME SoundInv, ExactInv, [Next]_vars PROVE ExactInv'
      OBVIOUS
    <2>1. CASE Analyse
      BY <2>1, PopExact, TransferStepExact, PushExact, VisitedExact DEF Analyse
    <2>2. CASE NextAnalysis  BY <2>2, NextAnalysisExact
    <2>3. CASE ChoosePoints  BY <2>3, AfterwardsExact DEF ChoosePoints
    <2>4. CASE PushResolution  BY <2>4, AfterwardsExact DEF PushResolution, Input
    <2>5. CASE Call  BY <2>5, AfterwardsExact DEF Call, Fixed, Input
    <2>6. CASE Execute  BY <2>6, AfterwardsExact DEF Execute, Fixed, Input
    <2>7. CASE Jump  BY <2>7, AfterwardsExact DEF Jump, Fixed, Input
    <2>8. CASE Return  BY <2>8, AfterwardsExact DEF Return, Fixed, Input
    <2>9. CASE Ended \/ UNCHANGED vars  BY <2>9, StutterExact DEF Ended
    <2>. QED
      BY <2>1, <2>2, <2>3, <2>4, <2>5, <2>6, <2>7, <2>8, <2>9 DEF Next, Insert, Run
  <1>3. Spec => []SoundInv  BY SoundInvariant
  <1>. QED  BY <1>1, <1>2, <1>3, PTL DEF Spec

(* Values that solve the equations miss none of the points on a path. *)
LEMMA UninitSolved ==
    ASSUME TypeOK, Solved("Forward")
    PROVE  UninitPoints \subseteq output["Forward"]
  <1>1. output["Forward"] \in SUBSET Points  BY DEF TypeOK, Dirs
  <1>2. ASSUME NEW pt \in Points, pt[2] < Size(pt[1])
        PROVE  /\ pt[1] \in Blocks /\ pt[2] \in 0 .. Size(pt[1]) - 1
               /\ pt = <<pt[1], pt[2]>> /\ NextInstr(pt) = cfg[pt[1]].instructions[pt[2] + 1]
               /\ NextInstr(pt) \in Instructions
               /\ Within(IPlace, NextInstr(pt).place) <=> Contains(NextInstr(pt).place, IPlace)
    <2>1. pt = <<pt[1], pt[2]>> /\ pt[1] \in Blocks /\ pt[2] \in 0..Size(pt[1]) /\ Size(pt[1]) \in Nat
      BY PointsOf, Graph
    <2>2. pt[2] \in 0 .. Size(pt[1]) - 1 /\ pt[2] + 1 \in 1..Size(pt[1])  BY <1>2, <2>1
    <2>3. NextInstr(pt) = cfg[pt[1]].instructions[pt[2] + 1]  BY DEF NextInstr
    <2>4. NextInstr(pt) \in Instructions /\ IPlace \in Places  BY <2>1, <2>2, <2>3, Graph
    <2>5. NextInstr(pt).place \in Places  BY <2>4 DEF Instructions
    <2>. QED  BY <2>1, <2>2, <2>3, <2>4, <2>5, WithinContains
  <1>3. ASSUME NEW pt \in UninitStart PROVE pt \in output["Forward"]
    <2>1. CASE \E b \in Blocks : cfg[b].is_entry /\ pt = <<b, 0>>
      BY <2>1, ForwardJoin DEF CanBeUninit
    <2>2. CASE \E q \in Points : /\ pt = <<q[1], q[2] + 1>> /\ q[2] < Size(q[1])
                                 /\ NextInstr(q).kind \in {"MoveFrom", "DropFrom"}
                                 /\ Within(IPlace, NextInstr(q).place)
      <3>1. PICK q \in Points : /\ pt = <<q[1], q[2] + 1>> /\ q[2] < Size(q[1])
                                /\ NextInstr(q).kind \in {"MoveFrom", "DropFrom"}
                                /\ Within(IPlace, NextInstr(q).place)
        BY <2>2
      <3>2. CanBeUninit(<<q[1], q[2] + 1>>)  BY <1>2, <3>1, ForwardStep
      <3>. QED  BY <3>1, <3>2 DEF CanBeUninit
    <2>. QED  BY <2>1, <2>2 DEF UninitStart
  <1>4. ASSUME NEW pt \in output["Forward"], StaysUninit(pt), NEW q \in Steps(pt)
        PROVE  q \in output["Forward"]
    <2>1. pt \in Points  BY <1>1
    <2>2. CASE pt[2] < Size(pt[1])
      <3>1. q = <<pt[1], pt[2] + 1>>  BY <1>4, <2>2 DEF Steps
      <3>2. CanBeUninit(<<pt[1], pt[2]>>)  BY <1>2, <2>1, <2>2 DEF CanBeUninit
      <3>3. CanBeUninit(<<pt[1], pt[2] + 1>>)
        BY <1>2, <1>4, <2>1, <2>2, <3>2, ForwardStep DEF StaysUninit
      <3>. QED  BY <3>1, <3>3 DEF CanBeUninit
    <2>3. CASE ~(pt[2] < Size(pt[1]))
      <3>1. /\ pt = <<pt[1], pt[2]>> /\ pt[1] \in Blocks /\ pt[2] \in 0..Size(pt[1])
            /\ Size(pt[1]) \in Nat
        BY <2>1, PointsOf, Graph
      <3>2. pt[2] = Size(pt[1])  BY <2>3, <3>1
      <3>3. CanBeUninit(<<pt[1], Size(pt[1])>>)  BY <3>1, <3>2 DEF CanBeUninit
      <3>4. PICK s \in ElementsOf(cfg[pt[1]].successors) : q = <<s, 0>>  BY <1>4, <2>3 DEF Steps
      <3>5. s \in Blocks /\ pt[1] \in ElementsOf(cfg[s].predecessors)  BY <3>1, Graph, Elements
      <3>6. CanBeUninit(<<s, 0>>)  BY <3>3, <3>5, ForwardJoin
      <3>. QED  BY <3>4, <3>6 DEF CanBeUninit
    <2>. QED  BY <2>2, <2>3
  <1>. QED  BY <1>1, <1>3, <1>4, UninitLeast

LEMMA UnresolvedSolved ==
    ASSUME TypeOK, Solved("Reverse")
    PROVE  UnresolvedPoints \subseteq Points \ output["Reverse"]
  <1>1. PICK X \in SUBSET Points : X = Points \ output["Reverse"]  OBVIOUS
  <1>2. ASSUME NEW pt \in Points, ~(pt[2] < Size(pt[1]))
        PROVE  pt = <<pt[1], Size(pt[1])>> /\ pt[1] \in Blocks
    <2>1. /\ pt = <<pt[1], pt[2]>> /\ pt[1] \in Blocks /\ pt[2] \in 0..Size(pt[1])
          /\ Size(pt[1]) \in Nat
      BY PointsOf, Graph
    <2>2. pt[2] = Size(pt[1])  BY <1>2, <2>1
    <2>. QED  BY <2>1, <2>2
  <1>3. ASSUME NEW pt \in Points, pt[2] < Size(pt[1])
        PROVE  /\ CanResolve(pt) => ~MayBeChanged(NextInstr(pt), place)
               /\ CanResolve(pt) /\ ~Disposes(NextInstr(pt), place) => CanResolve(<<pt[1], pt[2] + 1>>)
    <2>1. /\ pt = <<pt[1], pt[2]>> /\ pt[1] \in Blocks /\ pt[2] \in 0..Size(pt[1])
          /\ Size(pt[1]) \in Nat
      BY PointsOf, Graph
    <2>2. pt[2] \in 0 .. Size(pt[1]) - 1  BY <1>3, <2>1
    <2>. QED  BY <2>1, <2>2, ResolvedStays DEF NextInstr
  <1>4. ASSUME NEW pt \in UnresolvedStart PROVE pt \in X
    <2>1. pt \in Points  BY DEF UnresolvedStart
    <2>2. CASE pt[2] < Size(pt[1])  BY <1>1, <1>3, <2>1, <2>2 DEF UnresolvedStart, CanResolve
    <2>3. CASE ~(pt[2] < Size(pt[1]))
      <3>1. cfg[pt[1]].is_exit /\ HasDeref(place)  BY <2>3 DEF UnresolvedStart
      <3>2. ~CanResolve(<<pt[1], Size(pt[1])>>)  BY <1>2, <2>1, <2>3, <3>1, ReverseJoin
      <3>3. ~CanResolve(pt)  BY <1>2, <2>1, <2>3, <3>2
      <3>. QED  BY <1>1, <2>1, <3>3 DEF CanResolve
    <2>. QED  BY <2>2, <2>3
  <1>5. ASSUME NEW pt \in Points, StaysAlive(pt), Steps(pt) \cap X # {} PROVE pt \in X
    <2>1. PICK q \in Steps(pt) : q \in Points /\ ~CanResolve(q)  BY <1>1, <1>5 DEF CanResolve
    <2>2. CASE pt[2] < Size(pt[1])
      <3>1. q = <<pt[1], pt[2] + 1>>  BY <2>1, <2>2 DEF Steps
      <3>2. ~CanResolve(pt)  BY <1>3, <1>5, <2>1, <2>2, <3>1 DEF StaysAlive
      <3>. QED  BY <1>1, <3>2 DEF CanResolve
    <2>3. CASE ~(pt[2] < Size(pt[1]))
      <3>1. PICK s \in ElementsOf(cfg[pt[1]].successors) : q = <<s, 0>>  BY <2>1, <2>3 DEF Steps
      <3>2. ~CanResolve(<<pt[1], Size(pt[1])>>)  BY <1>2, <2>1, <2>3, <3>1, ReverseJoin
      <3>3. ~CanResolve(pt)  BY <1>2, <2>3, <3>2
      <3>. QED  BY <1>1, <3>3 DEF CanResolve
    <2>. QED  BY <2>2, <2>3
  <1>6. UnresolvedPoints \subseteq X  BY <1>4, <1>5, UnresolvedLeast
  <1>. QED  BY <1>1, <1>6

(* When both analyses are done they say of every point exactly what the     *)
(* paths of the control flow graph say: no value is left stale, and none    *)
(* is lost to the values the worklist algorithm starts with.                *)
THEOREM AnalysesSayWhatPathsDo == Spec => []AnalysesExact
  <1>1. SoundInv /\ ExactInv => AnalysesExact
    <2> SUFFICES ASSUME SoundInv, ExactInv, phase = "insert"
                 PROVE  /\ {pt \in Points : CanBeUninit(pt)} = UninitPoints
                        /\ {pt \in Points : ~CanResolve(pt)} = UnresolvedPoints
      BY DEF AnalysesExact
    <2>1. TypeOK /\ Solved("Forward") /\ Solved("Reverse")  BY DEF SoundInv, AnalysesSolved, Dirs
    <2>2. StartValues = {}  BY DEF StartValues
    <2>3. output["Forward"] = UninitPoints  BY <2>1, <2>2, UninitSolved DEF ExactInv
    <2>4. Points \ output["Reverse"] = UnresolvedPoints  BY <2>1, UnresolvedSolved DEF ExactInv
    <2>5. output["Forward"] \subseteq Points  BY <2>1 DEF TypeOK, Dirs
    <2>. QED  BY <2>3, <2>4, <2>5 DEF CanBeUninit, CanResolve
  <1>2. Spec => []SoundInv  BY SoundInvariant
  <1>3. Spec => []ExactInv  BY ExactInvariant
  <1>. QED  BY <1>1, <1>2, <1>3, PTL

=============================================================================
