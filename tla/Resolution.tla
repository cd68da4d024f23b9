----------------------------- MODULE Resolution -----------------------------
(***************************************************************************)
(* The inference of resolution points (vir/src/resolution_inference.rs):   *)
(* where a function body may assume has_resolved of a place, that is, that *)
(* the value now in the place is never mutated again.  An assumption at a  *)
(* wrong point makes the verifier unsound, a missing one makes correct     *)
(* programs fail to verify.                                                *)
(*                                                                         *)
(* The model follows one tracked place through get_resolutions: a forward  *)
(* dataflow analysis (may the place be uninitialised here?), a reverse one *)
(* (may its value be resolved here?), the choice of the points at which    *)
(* the assumption is inserted, and then an arbitrary execution of the      *)
(* function that meets the inserted assumptions.  The control flow graph   *)
(* is any member of Cfgs; ResolutionCfg builds the ones TLC checks.        *)
(*                                                                         *)
(* A place is a sequence of projections from one local.  The analyses of   *)
(* different places do not interact, so one place is enough.               *)
(***************************************************************************)
EXTENDS Naturals, Sequences, FiniteSetsExt

CONSTANTS Projections, Deref,   \* fields, indices, and the projection DerefMut
          Cfgs,                 \* the control flow graphs
          Tracked               \* the places analysed: leaves of the place tree

Places == Seq(Projections)

Kinds == {"MoveFrom", "Overwrite", "Mutate", "DropFrom"}

Instructions == [kind : Kinds, place : Places]

Positions == {"Ast", "OnUnwind", "MatchIntermediate"}

ElementsOf(s) == {s[i] : i \in DOMAIN s}

(* A graph: basic blocks numbered from 1, predecessors the converse of     *)
(* successors, and no instruction in a block that has no place in the AST. *)
WellFormed(c) ==
    LET n == Len(c)
    IN  /\ n \in Nat
        /\ c \in [1..n -> [instructions : Seq(Instructions),
                           predecessors : Seq(1..n), successors : Seq(1..n),
                           is_entry : BOOLEAN, is_exit : BOOLEAN,
                           always_add_resolution_at_start : BOOLEAN,
                           position_of_start : Positions]]
        /\ \A p, b \in 1..n : (p \in ElementsOf(c[b].predecessors))
                                <=> (b \in ElementsOf(c[p].successors))
        /\ \A b \in 1..n : c[b].position_of_start # "Ast" => c[b].instructions = <<>>

(* Blocks are numbered as they are made, and the block at which a body is   *)
(* entered is made before those it leads to.                               *)
EntriesFirst(c) ==
    \A b \in 1..Len(c) : c[b].is_entry => \A s \in ElementsOf(c[b].successors) : b < s

ASSUME GraphAssumption ==
    /\ Deref \in Projections
    /\ Tracked \subseteq Places
    /\ \A c \in Cfgs : WellFormed(c)

ASSUME EntryAssumption == \A c \in Cfgs : EntriesFirst(c)

-----------------------------------------------------------------------------
(* Places *)

Intersects(p, q) ==
    \A i \in 1..Len(p) : i <= Len(q) => p[i] = q[i]

Contains(p, q) ==
    /\ Len(p) <= Len(q)
    /\ \A i \in 1..Len(p) : p[i] = q[i]

ContainsAndNotSeparatedByDeref(p, q) ==
    /\ Contains(p, q)
    /\ \A i \in Len(p) + 1 .. Len(q) : q[i] # Deref

HasDeref(p) == \E i \in 1..Len(p) : p[i] = Deref

(* The tracked place of the initialisation analysis that contains p: p      *)
(* itself, or the mutable reference p lies behind.                          *)
TruncateToDeref(p) ==
    CHOOSE q \in {SubSeq(p, 1, n) : n \in 0..Len(p)} :
        /\ ~HasDeref(q)
        /\ Len(q) < Len(p) => p[Len(q) + 1] = Deref

ValueMayChange(p, instr) ==
    instr.kind \in {"Overwrite", "Mutate"} /\ Intersects(p, instr.place)

-----------------------------------------------------------------------------
VARIABLES
    cfg,       \* the control flow graph, fixed
    place,     \* the place whose resolutions are looked for, fixed
    is_temp,   \* "yes" if it belongs to an unnamed temporary, looked up by ChoosePoints
    phase,     \* the analysis that runs, then "insert", "run" and "end"
    worklist,  \* the blocks still to visit; in_worklist is membership
    has_run,   \* the blocks visited at least once by the running analysis
    cur,       \* the block being visited, NoBlock between visits
    k,         \* how far the visit is: instructions transferred, then blocks pushed
    output,    \* output[dir]: the points at which the analysis has TRUE
    pending,   \* points at which push_resolution is still to be called
    inserted,  \* the points at which a resolution was pushed
    at,        \* execution: the block, and the instructions of it executed
    init,      \* execution: "yes" while the place holds a value
    claimed,   \* execution: "yes" once that value was assumed resolved
    known      \* what the verifier has been told of that value on this path

vars == <<cfg, place, is_temp, phase, worklist, has_run, cur, k, output,
          pending, inserted, at, init, claimed, known>>

NoBlock == 0
Blocks == DOMAIN cfg
Size(b) == Len(cfg[b].instructions)

(* Point <<b, i>> is the one in block b after i of its instructions. *)
Points == UNION {{b} \X (0..Size(b)) : b \in Blocks}

IPlace == TruncateToDeref(place)
Dirs == {"Forward", "Reverse"}

(* Forward, a block is entered at its start and its instructions are taken *)
(* in order; in reverse, everything is the other way round.  Step i of a   *)
(* visit goes from the value at Idx(dir, b, i) to that at Idx(dir, b, i+1) *)
(* over the instruction StepInstr(dir, b, i).                              *)
Idx(dir, b, i) == IF dir = "Forward" THEN i ELSE Size(b) - i

StepInstr(dir, b, i) ==
    cfg[b].instructions[IF dir = "Forward" THEN i + 1 ELSE Size(b) - i]

Sources(dir, b) == IF dir = "Forward" THEN cfg[b].predecessors ELSE cfg[b].successors
Targets(dir, b) == IF dir = "Forward" THEN cfg[b].successors ELSE cfg[b].predecessors

(* InitializationPossibilities: TRUE is "can be uninitialised"; ResolveSafety: *)
(* TRUE is "can resolve".                                                      *)
Empty(dir) == dir = "Reverse"
EntryOrExit(dir) == IF dir = "Forward" THEN TRUE ELSE ~HasDeref(place)

TransferInitialization(v, instr) ==
    IF Contains(instr.place, IPlace) /\ instr.kind # "Mutate"
    THEN instr.kind # "Overwrite"
    ELSE v

TransferResolve(v, instr) ==
    IF instr.kind \in {"MoveFrom", "Mutate"}
    THEN v /\ ~Intersects(instr.place, place)
    ELSE \/ ContainsAndNotSeparatedByDeref(instr.place, place)
         \/ v /\ ~Intersects(instr.place, place)

Transfer(dir, v, instr) ==
    IF dir = "Forward" THEN TransferInitialization(v, instr) ELSE TransferResolve(v, instr)

(* Step i of a visit to b starts and ends at these points; the last one is *)
(* read by the blocks that follow.                                         *)
Stop(dir, b, i) == <<b, Idx(dir, b, i)>>
Final(dir, b) == Stop(dir, b, Size(b)) \in output[dir]

(* join is "or" forwards and "and" in reverse. *)
JoinPredecessors(b) ==
    \/ cfg[b].is_entry
    \/ \E p \in ElementsOf(cfg[b].predecessors) : Final("Forward", p)

JoinSuccessors(b) ==
    /\ cfg[b].is_exit => ~HasDeref(place)
    /\ \A s \in ElementsOf(cfg[b].successors) : Final("Reverse", s)

Join(dir, b) == IF dir = "Forward" THEN JoinPredecessors(b) ELSE JoinSuccessors(b)

-----------------------------------------------------------------------------
(* do_dataflow *)

InitialOutput(dir) ==
    {pt \in Points :
        IF pt[2] = Size(pt[1])
             /\ (IF dir = "Forward" THEN cfg[pt[1]].is_entry ELSE cfg[pt[1]].is_exit)
        THEN EntryOrExit(dir) ELSE Empty(dir)}

InitialWorklist(dir) ==
    [i \in Blocks |-> IF dir = "Forward" THEN i ELSE Len(cfg) + 1 - i]

(* The execution has not begun. *)
NotStarted == <<NoBlock, 0>>

Init ==
    /\ cfg \in Cfgs
    /\ place \in Tracked
    /\ is_temp = "no"
    /\ phase = "Forward"
    /\ worklist = InitialWorklist("Forward")
    /\ has_run = {}
    /\ cur = NoBlock
    /\ k = 0
    /\ output = [dir \in Dirs |-> InitialOutput(dir)]
    /\ pending = {}
    /\ inserted = {}
    /\ at = NotStarted
    /\ init = "no"
    /\ claimed = "no"
    /\ known = "no"

Later == <<pending, inserted, at, init, claimed, known>>
Input == <<cfg, place, is_temp>>

(* The running analysis gets the value v at pt. *)
Write(pt, v) ==
    output' = [output EXCEPT ![phase] = IF v THEN @ \cup {pt} ELSE @ \ {pt}]

(* Mutant: the block is gone through whether or not its value is new. *)
PopAlways ==
    /\ phase \in Dirs
    /\ cur = NoBlock
    /\ worklist # <<>>
    /\ LET b == Head(worklist)
       IN /\ Write(Stop(phase, b, 0), Join(phase, b))
          /\ has_run' = has_run \cup {b}
          /\ cur' = b
    /\ worklist' = Tail(worklist)
    /\ k' = 0
    /\ UNCHANGED <<Input, phase, Later>>

(* Take a block from the worklist and join what flows into it; go through  *)
(* the block when this is its first visit or the joined value is new.      *)
Pop ==
    /\ phase \in Dirs
    /\ cur = NoBlock
    /\ worklist # <<>>
    /\ LET b == Head(worklist)
           start == Stop(phase, b, 0)
       IN IF b \notin has_run \/ ~(start \in output[phase] <=> Join(phase, b))
          THEN /\ Write(start, Join(phase, b))
               /\ has_run' = has_run \cup {b}
               /\ cur' = b
          ELSE UNCHANGED <<output, has_run, cur>>
    /\ worklist' = Tail(worklist)
    /\ k' = 0
    /\ UNCHANGED <<Input, phase, Later>>

(* One instruction of transfer_forward or transfer_reverse. *)
TransferStep ==
    /\ phase \in Dirs
    /\ cur # NoBlock
    /\ k < Size(cur)
    /\ Write(Stop(phase, cur, k + 1),
             Transfer(phase, Stop(phase, cur, k) \in output[phase], StepInstr(phase, cur, k)))
    /\ k' = k + 1
    /\ UNCHANGED <<Input, phase, worklist, has_run, cur, Later>>

(* Mutant: a block already visited is not queued again. *)
PushOnce ==
    /\ phase \in Dirs
    /\ cur # NoBlock
    /\ k >= Size(cur)
    /\ k - Size(cur) < Len(Targets(phase, cur))
    /\ LET bb1 == Targets(phase, cur)[k - Size(cur) + 1]
       IN worklist' = IF bb1 \in has_run \/ bb1 \in ElementsOf(worklist)
                      THEN worklist ELSE Append(worklist, bb1)
    /\ k' = k + 1
    /\ UNCHANGED <<Input, phase, has_run, cur, output, Later>>

(* Queue one of the blocks that read the new value, unless it is queued.   *)
Push ==
    /\ phase \in Dirs
    /\ cur # NoBlock
    /\ k >= Size(cur)
    /\ k - Size(cur) < Len(Targets(phase, cur))
    /\ LET bb1 == Targets(phase, cur)[k - Size(cur) + 1]
       IN worklist' = IF bb1 \in ElementsOf(worklist) THEN worklist ELSE Append(worklist, bb1)
    /\ k' = k + 1
    /\ UNCHANGED <<Input, phase, has_run, cur, output, Later>>

Visited ==
    /\ phase \in Dirs
    /\ cur # NoBlock
    /\ k = Size(cur) + Len(Targets(phase, cur))
    /\ cur' = NoBlock
    /\ k' = 0
    /\ UNCHANGED <<Input, phase, worklist, has_run, output, Later>>

-----------------------------------------------------------------------------
(* get_resolutions_for_place and push_resolution *)

CanBeUninit(pt) == pt \in output["Forward"]
CanResolve(pt) == pt \in output["Reverse"]

(* Mutant: whether the place holds a value is not asked. *)
CanAssumeEvenUninit(pt) == CanResolve(pt)

CanAssumeHasResolved(pt) == CanResolve(pt) /\ ~CanBeUninit(pt)

(* Mutant: a value that replaced another is not resolved again. *)
ShouldAssumeUnlessOverwritten(pt, temp) ==
    LET b == pt[1]
        i == pt[2]
    IN \/ i = 0 /\ cfg[b].always_add_resolution_at_start /\ temp = "no"
       \/ i = 0 /\ \E p \in ElementsOf(cfg[b].predecessors) : ~CanResolve(<<p, Size(p)>>)
       \/ i > 0 /\ ~CanResolve(<<b, i - 1>>)

ShouldAssumeHasResolved(pt, temp) ==
    LET b == pt[1]
        i == pt[2]
    IN \/ i = 0 /\ cfg[b].always_add_resolution_at_start /\ temp = "no"
       \/ i = 0 /\ \E p \in ElementsOf(cfg[b].predecessors) : ~CanResolve(<<p, Size(p)>>)
       \/ i > 0 /\ ~CanResolve(<<b, i - 1>>)
       \/ i > 0 /\ ValueMayChange(place, cfg[b].instructions[i])

Position(pt) == IF pt[2] = 0 THEN cfg[pt[1]].position_of_start ELSE "Ast"

ForwardedToSuccessors(pt) ==
    /\ Position(pt) = "MatchIntermediate"
    /\ cfg[pt[1]].instructions = <<>>
    /\ \A s \in ElementsOf(cfg[pt[1]].successors) :
          cfg[s].predecessors = <<pt[1]>> /\ ~cfg[s].is_entry

(* The forward analysis is over: run the reverse one. *)
NextAnalysis ==
    /\ phase = "Forward"
    /\ cur = NoBlock /\ worklist = <<>>
    /\ phase' = "Reverse"
    /\ worklist' = InitialWorklist("Reverse")
    /\ has_run' = {}
    /\ UNCHANGED <<Input, cur, k, output, Later>>

ChoosePoints ==
    /\ phase = "Reverse"
    /\ cur = NoBlock /\ worklist = <<>>
    /\ phase' = "insert"
    /\ is_temp' \in {"yes", "no"}
    /\ pending' = {pt \in Points : /\ CanAssumeHasResolved(pt)
                                   /\ ShouldAssumeHasResolved(pt, is_temp')}
    /\ UNCHANGED <<cfg, place, worklist, has_run, cur, k, output,
                   inserted, at, init, claimed, known>>

(* One level of push_resolution's recursion, for every point at once: the  *)
(* resolutions are only looked up by position, so their order is not seen. *)
PushResolution ==
    /\ phase = "insert"
    /\ pending # {}
    /\ LET forwarded == {pt \in pending : ForwardedToSuccessors(pt)}
       IN /\ inserted' = inserted \cup (pending \ forwarded)
          /\ pending' = UNION {ElementsOf(cfg[pt[1]].successors) \X {0} : pt \in forwarded}
    /\ UNCHANGED <<Input, phase, worklist, has_run, cur, k, output,
                   at, init, claimed, known>>

(* apply_resolutions has no place in the AST for the other positions. *)
Applied(pt) == pt \in inserted /\ Position(pt) = "Ast"

-----------------------------------------------------------------------------
(* An execution of the function.  Which branch is taken is arbitrary, and  *)
(* so are the instructions: programs that rustc rejects are included.      *)

(* What instr does to the value held by p. *)
Within(p, q) == Len(q) <= Len(p) /\ SubSeq(p, 1, Len(q)) = q

(* ... it disposes of it: p is owned by what is overwritten or dropped. *)
Disposes(instr, p) ==
    /\ instr.kind \in {"Overwrite", "DropFrom"}
    /\ Within(p, instr.place)
    /\ \A i \in 1..Len(p) : p[i] = Deref => i <= Len(instr.place)

(* ... or it may be followed by a change of that value: it mutates it, or  *)
(* gives it away, or forgets the reference through which it was borrowed.  *)
MayBeChanged(instr, p) ==
    /\ Within(p, instr.place) \/ Within(instr.place, p)
    /\ ~Disposes(instr, p)

(* A loop is verified apart from what surrounds it, so what was known      *)
(* before is lost at its head and behind it.  A temporary does not outlive *)
(* the expression it belongs to.                                           *)
Forgets(b) == cfg[b].always_add_resolution_at_start /\ is_temp = "no"

Arrive(pt, i, c, kn) ==
    /\ at' = pt
    /\ init' = i
    /\ claimed' = IF Applied(pt) THEN "yes" ELSE c
    /\ known' = IF Applied(pt) THEN "yes"
                ELSE IF pt \in inserted /\ kn = "no" THEN "dropped" ELSE kn

Fixed == <<Input, worklist, has_run, cur, k, output, pending, inserted>>

Call ==
    /\ phase = "insert"
    /\ pending = {}
    /\ phase' = "run"
    /\ \E b \in {b \in Blocks : cfg[b].is_entry} : Arrive(<<b, 0>>, "no", "no", "no")
    /\ UNCHANGED Fixed

Execute ==
    /\ phase = "run"
    /\ at[2] < Size(at[1])
    /\ LET instr == cfg[at[1]].instructions[at[2] + 1]
       IN Arrive(<<at[1], at[2] + 1>>,
                 IF ~Within(IPlace, instr.place) \/ instr.kind = "Mutate" THEN init
                 ELSE IF instr.kind = "Overwrite" THEN "yes" ELSE "no",
                 IF Disposes(instr, place) THEN "no" ELSE claimed,
                 IF ValueMayChange(place, instr) THEN "no" ELSE known)
    /\ UNCHANGED <<Fixed, phase>>

Jump ==
    /\ phase = "run"
    /\ at[2] = Size(at[1])
    /\ \E s \in ElementsOf(cfg[at[1]].successors) :
          Arrive(<<s, 0>>, init, claimed, IF Forgets(s) THEN "no" ELSE known)
    /\ UNCHANGED <<Fixed, phase>>

Return ==
    /\ phase = "run"
    /\ at[2] = Size(at[1])
    /\ cfg[at[1]].is_exit
    /\ phase' = "end"
    /\ UNCHANGED <<Fixed, at, init, claimed, known>>

Ended ==
    /\ phase = "end"
    /\ UNCHANGED vars

Analyse == Pop \/ TransferStep \/ Push \/ Visited
Insert == NextAnalysis \/ ChoosePoints \/ PushResolution
Run == Call \/ Execute \/ Jump \/ Return \/ Ended

Next == Analyse \/ Insert \/ Run

(* The inference is a sequential program: it takes every step it can. *)
Spec == Init /\ [][Next]_vars /\ WF_vars(Analyse \/ Insert)

-----------------------------------------------------------------------------
(* Properties *)

(* The values the worklist algorithm ends with, stated without it: a point *)
(* can be uninitialised exactly when some path from an entry leads there   *)
(* with the place moved, dropped or never assigned, and a value cannot be  *)
(* resolved exactly when some path from the point leads to an instruction  *)
(* that may change it, or to the end of the function with the value behind *)
(* a reference, before something disposes of it.                           *)
NumPoints == Cardinality(Points)

Steps(pt) ==
    IF pt[2] < Size(pt[1]) THEN {<<pt[1], pt[2] + 1>>}
    ELSE ElementsOf(cfg[pt[1]].successors) \X {0}

NextInstr(pt) == cfg[pt[1]].instructions[pt[2] + 1]

UninitStart ==
    {<<b, 0>> : b \in {b \in Blocks : cfg[b].is_entry}}
        \cup {<<pt[1], pt[2] + 1>> : pt \in {pt \in Points :
                /\ pt[2] < Size(pt[1])
                /\ NextInstr(pt).kind \in {"MoveFrom", "DropFrom"}
                /\ Within(IPlace, NextInstr(pt).place)}}

StaysUninit(pt) ==
    ~(/\ pt[2] < Size(pt[1])
      /\ NextInstr(pt).kind = "Overwrite"
      /\ Within(IPlace, NextInstr(pt).place))

UninitMore(r) == r \cup UNION {Steps(pt) : pt \in {pt \in r : StaysUninit(pt)}}

\* The points that n steps lead to.
UninitWithin[n \in 0..NumPoints] ==
    IF n = 0 THEN UninitStart ELSE UninitMore(UninitWithin[n - 1])

UninitPoints == UninitWithin[NumPoints]

UnresolvedStart ==
    {pt \in Points :
        IF pt[2] < Size(pt[1]) THEN MayBeChanged(NextInstr(pt), place)
        ELSE cfg[pt[1]].is_exit /\ HasDeref(place)}

StaysAlive(pt) == pt[2] < Size(pt[1]) => ~Disposes(NextInstr(pt), place)

UnresolvedMore(r) == r \cup {pt \in Points : StaysAlive(pt) /\ Steps(pt) \cap r # {}}

UnresolvedWithin[n \in 0..NumPoints] ==
    IF n = 0 THEN UnresolvedStart ELSE UnresolvedMore(UnresolvedWithin[n - 1])

UnresolvedPoints == UnresolvedWithin[NumPoints]

(* When the two analyses end they hold exactly what the paths of the graph *)
(* say, whatever its loops, joins and unreachable blocks: nothing stale is *)
(* left by a block that was not visited again, and nothing is lost to a    *)
(* start value that was too pessimistic.  (A block that cannot be reached  *)
(* counts as initialised: no path leads there.)                            *)
AnalysesExact ==
    phase = "insert" =>
        /\ {pt \in Points : CanBeUninit(pt)} = UninitPoints
        /\ {pt \in Points : ~CanResolve(pt)} = UnresolvedPoints

(* Soundness of the inserted assumptions: a value assumed to be resolved   *)
(* exists, and until it is dropped nothing changes it, moves it away, lets *)
(* go of the reference it lives behind, or returns to the caller with it   *)
(* behind a reference.                                                     *)
ResolutionSound ==
    phase \in {"run", "end"} /\ claimed = "yes" =>
        /\ init = "yes"
        /\ at[2] < Size(at[1]) => ~MayBeChanged(cfg[at[1]].instructions[at[2] + 1], place)
        /\ phase = "end" => ~HasDeref(place)

(* Inserting only where it is "useful" loses nothing: wherever both        *)
(* analyses find it safe, the value has already been assumed resolved on   *)
(* the path taken, in the part of the function verified together with this *)
(* point.  Left out are the blocks without a place in the AST, and values  *)
(* whose only resolution was at such a block.                              *)
ResolutionComplete ==
    phase = "run" /\ Position(at) = "Ast" /\ CanResolve(at) /\ ~CanBeUninit(at)
        => known # "no"

(* Both worklists run empty and push_resolution returns. *)
InferenceEnds == <>(phase \in {"run", "end"} \/ (phase = "insert" /\ pending = {}))

-----------------------------------------------------------------------------
(* The inductive invariant behind the theorems of ResolutionProofs.        *)

TypeOK ==
    /\ cfg \in Cfgs
    /\ place \in Tracked
    /\ phase \in Dirs \cup {"insert", "run", "end"}
    /\ worklist \in Seq(Blocks)
    /\ has_run \subseteq Blocks
    /\ cur \in has_run \cup {NoBlock}
    /\ k \in Nat
    /\ output \in [Dirs -> SUBSET Points]

(* The equations the values of an analysis are to solve. *)
JoinSolved(dir, b) == Stop(dir, b, 0) \in output[dir] <=> Join(dir, b)
StepSolved(dir, b, i) ==
    Stop(dir, b, i + 1) \in output[dir]
        <=> Transfer(dir, Stop(dir, b, i) \in output[dir], StepInstr(dir, b, i))
Solved(dir) ==
    \A b \in Blocks : JoinSolved(dir, b) /\ \A i \in 0 .. Size(b) - 1 : StepSolved(dir, b, i)

(* The blocks the visit of cur has not yet queued. *)
StillToPush ==
    IF cur = NoBlock THEN {}
    ELSE {Targets(phase, cur)[j] : j \in {j \in 1..Len(Targets(phase, cur)) : j > k - Size(cur)}}

(* An equation that does not hold yet will be looked at: its block was     *)
(* never visited, is queued, is being visited or is about to be queued.    *)
VisitsOwed ==
    phase \in Dirs =>
        /\ Blocks \ has_run \subseteq ElementsOf(worklist)
        /\ \A b \in has_run :
              b \in ElementsOf(worklist) \/ b \in StillToPush \/ JoinSolved(phase, b)
        /\ \A b \in has_run : \A i \in 0 .. Size(b) - 1 :
              (b = cur /\ i >= k) \/ StepSolved(phase, b, i)

AnalysesSolved ==
    /\ phase # "Forward" => Solved("Forward")
    /\ phase \notin Dirs => Solved("Reverse")

(* Resolutions are inserted only where both analyses allow it, also when   *)
(* they were passed on from one block of a match to the next.              *)
InsertedSafely ==
    \A pt \in pending \cup inserted :
        phase \notin Dirs /\ pt \in Points /\ CanAssumeHasResolved(pt)

(* An execution stays within what the analyses say of its point. *)
RunsWithin ==
    phase \in {"run", "end"} =>
        /\ at \in Points
        /\ init = "yes" \/ CanBeUninit(at)
        /\ claimed = "yes" => CanResolve(at) /\ init = "yes"
        /\ phase = "end" => at[2] = Size(at[1]) /\ cfg[at[1]].is_exit

SoundInv ==
    TypeOK /\ VisitsOwed /\ AnalysesSolved /\ InsertedSafely /\ RunsWithin

(* A resolution wanted at a point was inserted there or is still to be, or *)
(* it was passed on (H) and is wanted at the successors; an execution that *)
(* could know the value is resolved but does not is between the two.       *)
Wanted(pt) == CanAssumeHasResolved(pt) /\ ShouldAssumeHasResolved(pt, is_temp)
Owed(H) == pending \cup inserted \cup H
PassedOn == {pt \in Points : ForwardedToSuccessors(pt)}
Covers(H) ==
    /\ {pt \in Points : Wanted(pt)} \subseteq Owed(H)
    /\ \A pt \in H : ElementsOf(cfg[pt[1]].successors) \X {0} \subseteq Owed(H)
NothingForgotten ==
    phase \notin Dirs =>
        \E H \in SUBSET PassedOn :
            /\ Covers(H)
            /\ phase \in {"run", "end"} => pending = {}
            /\ phase = "run" /\ CanAssumeHasResolved(at) /\ known = "no" => at \in H

(* The first round goes through the blocks in order, so that the value an  *)
(* entry starts with at its end is replaced before anything reads it.      *)
FirstRound ==
    phase = "Forward" =>
        \E m \in 0..Len(cfg) :
            /\ has_run = 1..m
            /\ Len(worklist) >= Len(cfg) - m
            /\ \A i \in 1..(Len(cfg) - m) : worklist[i] = m + i

StartValues ==
    {<<b, Size(b)>> : b \in {b \in Blocks :
        /\ phase = "Forward" /\ cfg[b].is_entry
        /\ b \notin has_run \/ (b = cur /\ k < Size(b))}}

(* Apart from that the analyses never say more than the paths do. *)
ExactInv ==
    /\ FirstRound
    /\ output["Forward"] \subseteq UninitPoints \cup StartValues
    /\ Points \ output["Reverse"] \subseteq UnresolvedPoints
=============================================================================
