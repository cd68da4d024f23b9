---------------------------- MODULE ExpandErrors ----------------------------
(***************************************************************************)
(* The driver of --expand-errors: ExpandErrorsDriver in                    *)
(* rust_verify/src/expand_errors_driver.rs.                                *)
(*                                                                         *)
(* A failing assertion is expanded into leaves, which are asked about one  *)
(* by one; a leaf that fails is expanded in turn.  The identifier of a     *)
(* leaf is the identifier of its parent with the leaf's number added.  The *)
(* output is a flat list of lines into which each expansion is spliced     *)
(* below the line of the leaf that it expands.                             *)
(***************************************************************************)
EXTENDS Integers, Sequences, FiniteSets, SequencesExt

CONSTANTS
    MaxFailures,        \* MAX_FAILURES
    MaxDepth,           \* MAX_DEPTH
    MaxLeaves           \* bound: leaves of one expansion

ASSUME ExpandAssumption ==
    /\ {MaxFailures, MaxDepth, MaxLeaves} \subseteq Nat \ {0}
    /\ MaxDepth > 1

VARIABLES
    current,            \* the identifier to ask about, <<>> when done
    caps,               \* the number of leaves at each level of current
    leafFails,          \* leaf_fails
    results,            \* "pass", "fail" (Fail and Timeout) or "presumed fail" of an identifier
    leaves,             \* expansions: the number of leaves an identifier was expanded into
    output,             \* the lines: indentation, identifier of a leaf or <<>>
    skipped             \* whether skip_to_end was called, for reference

expandVars == <<current, caps, leafFails, results, leaves, output, skipped>>

Base == 0
Root == <<Base>>
\* A line of the output.
Intro(i) == [indent |-> i, leaf |-> <<>>]
Leaf(i, id) == [indent |-> i, leaf |-> id]

With(f, k, v) == [x \in DOMAIN f \cup {k} |-> IF x = k THEN v ELSE f[x]]

ExpandInit ==
    /\ current = Root
    /\ caps = <<Base + 1>>
    /\ leafFails = 0
    /\ results = << >>
    /\ leaves = << >>
    /\ output = <<>>
    /\ skipped = "no"

-----------------------------------------------------------------------------
(* One expansion.  vir::expand_errors::do_expansion gives a leaf again, if *)
(* it can go no further, or an introduction with the leaves below it.      *)

Unfolded(id, n, indent) ==
    <<Intro(indent)>> \o [k \in 1..n |-> Leaf(indent + 1, Append(id, k - 1))]

Tree(id, n, unfolds, indent) ==
    IF unfolds = "yes" THEN Unfolded(id, n, indent) ELSE <<Leaf(indent, Append(id, 0))>>

\* The line of the leaf that is expanded; 0 for the first expansion.
LineOf(id) ==
    IF Len(id) = 1 THEN 0 ELSE CHOOSE i \in 1..Len(output) : output[i].leaf = id
IndentOf(id) == IF Len(id) = 1 THEN 0 ELSE output[LineOf(id)].indent

\* The first line repeats the leaf, unless there is no leaf yet.
NewLines(id, tree) == IF Len(id) = 1 THEN tree ELSE Tail(tree)

\* Mutant: the lines go to the end of the output.
SpliceAtEnd(id, lines) == output \o lines

\* self.output.splice(idx..idx, new_lines)
Splice(id, lines) ==
    SubSeq(output, 1, LineOf(id)) \o lines \o SubSeq(output, LineOf(id) + 1, Len(output))

-----------------------------------------------------------------------------
(* Where to go next.                                                       *)

\* The levels at which there is another leaf.
AdvanceLevels == {k \in 1..Len(current) : current[k] + 1 < caps[k]}

\* advance: add one at the deepest level that has another leaf, leave those below.
Advance ==
    LET k == IF AdvanceLevels = {} THEN 0 ELSE Max(AdvanceLevels)
        up == SubSeq(current, 1, k)
    IN  /\ current' = IF k = 0 THEN <<>> ELSE [up EXCEPT ![k] = @ + 1]
        /\ caps' = SubSeq(caps, 1, k)

\* Mutant: the driver starts with the second leaf.
DescendSecond(n) == current' = Append(current, 1) /\ caps' = Append(caps, n)

Descend(n) == current' = Append(current, 0) /\ caps' = Append(caps, n)

SkipToEnd == current' = <<>> /\ UNCHANGED caps

LeafFailsAfter(n) == IF n = 1 THEN leafFails + 1 ELSE leafFails

\* report of a result other than Pass
Expand(n, unfolds) ==
    /\ current # <<>>
    /\ unfolds = "no" => n = 1
    /\ leaves' = With(leaves, current, n)
    /\ results' = IF n = 1
                  THEN With(With(results, current, "fail"), Append(current, 0), "presumed fail")
                  ELSE With(results, current, "fail")
    /\ output' = Splice(current, NewLines(current, Tree(current, n, unfolds, IndentOf(current))))
    /\ leafFails' = LeafFailsAfter(n)
    /\ \/ n = 1 /\ leafFails' >= MaxFailures /\ SkipToEnd /\ skipped' = "yes"
       \/ n = 1 /\ leafFails' < MaxFailures /\ Advance /\ UNCHANGED skipped
       \/ n > 1 /\ Len(current) < MaxDepth /\ Descend(n) /\ UNCHANGED skipped
       \/ n > 1 /\ Len(current) >= MaxDepth /\ Advance /\ UNCHANGED skipped

\* report of Pass; the first report is always a failure.
Pass ==
    /\ Len(current) > 1
    /\ results' = With(results, current, "pass")
    /\ Advance
    /\ UNCHANGED <<leafFails, leaves, output, skipped>>

ExpandNext ==
    \/ Pass
    \/ \E n \in 1..MaxLeaves, unfolds \in {"yes", "no"} : Expand(n, unfolds)

ExpandSpec == ExpandInit /\ [][ExpandNext]_expandVars

-----------------------------------------------------------------------------
Parent(id) == Front(id)

Before(a, b) ==
    \/ Len(a) < Len(b) /\ IsPrefix(a, b)
    \/ \E k \in 1..Len(a) : k <= Len(b) /\ SubSeq(a, 1, k - 1) = SubSeq(b, 1, k - 1) /\ a[k] < b[k]

(* However the expansions interleave with the answers, the output reads     *)
(* from top to bottom as one tree: each leaf is on one line, after its      *)
(* parent and before its next sibling, and indented below its parent.       *)
OutputIsTree ==
    \A i, j \in 1..Len(output) :
        i < j /\ output[i].leaf # <<>> /\ output[j].leaf # <<>> =>
            /\ Before(output[i].leaf, output[j].leaf)
            /\ IsPrefix(output[i].leaf, output[j].leaf) => output[i].indent < output[j].indent

(* The identifier to ask about is a leaf of an expansion that is there and  *)
(* on a line of the output, as get_current and add_lines_to_output unwrap   *)
(* these lookups, and it has no result yet.                                 *)
CurrentIsLeaf ==
    current \notin {<<>>, Root} =>
        /\ Parent(current) \in DOMAIN leaves
        /\ Last(current) < leaves[Parent(current)]
        /\ current \notin DOMAIN results
        /\ \E i \in 1..Len(output) : output[i].leaf = current

(* Every leaf is asked about once: never a second time, so that the walk    *)
(* through the tree ends, and when it ends each leaf has a result, unless   *)
(* it is below the deepest level or the limit on failures was reached.      *)
AllAsked ==
    /\ CurrentIsLeaf
    /\ skipped = "yes" <=> leafFails = MaxFailures
    /\ current = <<>> /\ skipped = "no" =>
        \A id \in DOMAIN leaves :
            Len(id) < MaxDepth =>
                \A k \in 0..(leaves[id] - 1) : Append(id, k) \in DOMAIN results

(* The inductive invariant behind these two, in the order of the walk.  A   *)
(* node is the root or a leaf of an expansion that is there, and so are the *)
(* identifiers above it.                                                    *)
Above(id, j) == SubSeq(id, 1, j - 1)
IsNode(id) ==
    /\ id # <<>> /\ id[1] = Base
    /\ \A j \in 2..Len(id) : Above(id, j) \in DOMAIN leaves /\ id[j] < leaves[Above(id, j)]

ExpandTypeOK ==
    /\ current \in Seq(Nat)
    /\ caps \in Seq(Nat)
    /\ leafFails \in Nat
    /\ skipped \in {"yes", "no"}
    /\ DOMAIN results \subseteq Seq(Nat)
    /\ DOMAIN leaves \subseteq Seq(Nat)
    /\ leaves \in [DOMAIN leaves -> 1..MaxLeaves]
    /\ output \in Seq([indent : Nat, leaf : Seq(Nat)])

(* What has been expanded or has a result comes before what is asked about. *)
CurrentOK ==
    current # <<>> =>
        /\ IsNode(current)
        /\ Len(current) <= MaxDepth /\ Len(caps) = Len(current)
        /\ caps[1] = Base + 1
        /\ \A j \in 2..Len(current) : caps[j] = leaves[Above(current, j)] /\ caps[j] > 1
        /\ \A id \in DOMAIN leaves \cup DOMAIN results : Before(id, current)

(* A leaf without a result is asked about now or later. *)
LeftToAsk ==
    skipped = "no" =>
        \A id \in DOMAIN leaves : Len(id) < MaxDepth =>
            \A k \in 0..(leaves[id] - 1) :
                \/ Append(id, k) \in DOMAIN results
                \/ current # <<>> /\ (Append(id, k) = current \/ Before(current, Append(id, k)))

LinesOK ==
    /\ \A i \in DOMAIN output :
            output[i].leaf # <<>> => IsNode(output[i].leaf) /\ Len(output[i].leaf) > 1
    /\ \A id \in DOMAIN leaves : leaves[id] > 1 =>
            \A k \in 0..(leaves[id] - 1) : \E i \in DOMAIN output : output[i].leaf = Append(id, k)

CountsFailures ==
    /\ skipped = "no" => leafFails < MaxFailures
    /\ skipped = "yes" => leafFails = MaxFailures /\ current = <<>>

ExpandInv ==
    /\ ExpandTypeOK
    /\ \A id \in DOMAIN leaves : IsNode(id)
    /\ CurrentOK /\ LeftToAsk /\ LinesOK /\ CountsFailures
    /\ OutputIsTree
=============================================================================
