-------------------------------- MODULE Scc ---------------------------------
(***************************************************************************)
(* vir/src/scc.rs: a graph, its strongly connected components by Tarjan's  *)
(* algorithm, their order, and the questions asked of them.  The order of  *)
(* the components is the order in which functions are declared to the      *)
(* solver, and a cycle the code misses is a recursion without a            *)
(* termination check.                                                      *)
(*                                                                         *)
(* Nodes are their indices in Graph.nodes, from 1; the graph is the        *)
(* sequence edges, of the sequences of edges of each node, duplicates      *)
(* included.  The two recursive functions, strongconnect and               *)
(* sort_sccs_node, are state machines with a stack of calls, a step for    *)
(* each turn of a loop.                                                    *)
(***************************************************************************)
EXTENDS Naturals, Sequences, FiniteSets, SequencesExt

VARIABLES
    edges,     \* Node.edges
    index,     \* Node.index
    lowlink,   \* Node.lowlink
    on_stack,  \* the nodes with Node.on_stack
    stack,
    counter,   \* Graph.index
    sccs,      \* the components; an SccId is a place in this sequence
    root,      \* compute_sccs: i
    active,    \* the nodes of the calls of strongconnect that have not returned
    edge,      \* strongconnect: i, for each node
    sort_root, \* sort_sccs: s
    sorting,   \* the components of the calls of sort_sccs_node not returned
    visited,   \* sort_sccs: visited
    sorted     \* sort_sccs: sorted

connectVars == <<index, lowlink, on_stack, stack, counter, sccs, root, active, edge>>
sortVars == <<sort_root, sorting, visited, sorted>>
sccVars == <<edges, connectVars, sortVars>>

Nodes == DOMAIN edges

(* usize::MAX, the index of a node that was not visited, is a number no    *)
(* node gets.                                                              *)
NotVisited == Len(edges)

(* A graph with the edges es, on which nothing was run yet. *)
Fresh(es) ==
    /\ edges' = es
    /\ index' = [v \in DOMAIN es |-> Len(es)]
    /\ lowlink' = [v \in DOMAIN es |-> Len(es)]
    /\ on_stack' = {}
    /\ stack' = <<>>
    /\ counter' = 0
    /\ sccs' = <<>>
    /\ root' = 1
    /\ active' = <<>>
    /\ edge' = [v \in DOMAIN es |-> 1]
    /\ sort_root' = 1
    /\ sorting' = <<>>
    /\ visited' = {}
    /\ sorted' = <<>>

-----------------------------------------------------------------------------
(* compute_sccs *)

min(m, n) == IF m <= n THEN m ELSE n

(* strongconnect(v) is called. *)
Enter(v) ==
    /\ index' = [index EXCEPT ![v] = counter]
    /\ lowlink' = [lowlink EXCEPT ![v] = counter]
    /\ counter' = counter + 1
    /\ stack' = Append(stack, v)
    /\ on_stack' = on_stack \cup {v}
    /\ active' = Append(active, v)
    /\ UNCHANGED <<edges, sccs, edge, sortVars>>

VisitRoot ==
    /\ active = <<>> /\ root \in Nodes
    /\ index[root] = NotVisited
    /\ Enter(root)
    /\ root' = root + 1

SkipRoot ==
    /\ active = <<>> /\ root \in Nodes
    /\ index[root] # NotVisited
    /\ root' = root + 1
    /\ UNCHANGED <<edges, index, lowlink, on_stack, stack, counter, sccs, active, edge, sortVars>>

(* The loop over the edges of v, the node of the innermost call. *)
Following(v, w) ==
    /\ active # <<>> /\ v = Last(active)
    /\ edge[v] \in DOMAIN edges[v] /\ w = edges[v][edge[v]]

Call ==
    \E v, w \in Nodes :
        /\ Following(v, w)
        /\ index[w] = NotVisited
        /\ Enter(w)
        /\ UNCHANGED root

Look ==
    \E v, w \in Nodes :
        /\ Following(v, w)
        /\ index[w] # NotVisited
        /\ lowlink' = IF w \in on_stack
                      THEN [lowlink EXCEPT ![v] = min(@, index[w])] ELSE lowlink
        /\ edge' = [edge EXCEPT ![v] = @ + 1]
        /\ UNCHANGED <<edges, index, on_stack, stack, counter, sccs, root, active, sortVars>>

Place(v) == CHOOSE i \in DOMAIN stack : stack[i] = v

(* Mutant: on_stack is not reset. *)
PopComponentStaysOn(v) ==
    /\ stack' = SubSeq(stack, 1, Place(v) - 1)
    /\ sccs' = Append(sccs, Reverse(SubSeq(stack, Place(v), Len(stack))))
    /\ UNCHANGED on_stack

(* The nodes above v, and v, leave the stack, the top first. *)
PopComponent(v) ==
    /\ stack' = SubSeq(stack, 1, Place(v) - 1)
    /\ on_stack' = on_stack \ {stack[i] : i \in Place(v) .. Len(stack)}
    /\ sccs' = Append(sccs, Reverse(SubSeq(stack, Place(v), Len(stack))))

(* strongconnect(v) ends, and the call that made it, if any, goes on. *)
Return ==
    \E v \in Nodes :
        /\ active # <<>> /\ v = Last(active)
        /\ edge[v] \notin DOMAIN edges[v]
        /\ \/ lowlink[v] = index[v] /\ PopComponent(v)
           \/ lowlink[v] # index[v] /\ UNCHANGED <<stack, on_stack, sccs>>
        /\ active' = Front(active)
        /\ LET p == active[Len(active) - 1]
           IN /\ lowlink' = IF Len(active) = 1 THEN lowlink
                            ELSE [lowlink EXCEPT ![p] = min(@, lowlink[v])]
              /\ edge' = IF Len(active) = 1 THEN edge ELSE [edge EXCEPT ![p] = @ + 1]
        /\ UNCHANGED <<edges, index, counter, root, sortVars>>

compute_sccs == VisitRoot \/ SkipRoot \/ Call \/ Look \/ Return

has_run == active = <<>> /\ root \notin Nodes

mapping(v) == CHOOSE s \in DOMAIN sccs : v \in ToSet(sccs[s])

rep(s) == sccs[s][1]

get_scc_rep(v) == rep(mapping(v))

-----------------------------------------------------------------------------
(* sort_sccs *)

(* The places of the edges that leave the nodes of component s, in the     *)
(* order of the loops, and the components they lead to.                    *)
SccEdges(s) == UNION {{i} \X DOMAIN edges[sccs[s][i]] : i \in DOMAIN sccs[s]}

SccTarget(s, p) == mapping(edges[sccs[s][p[1]]][p[2]])

Before(p, q) == p[1] < q[1] \/ (p[1] = q[1] /\ p[2] <= q[2])

sort_sccs ==
    /\ has_run
    /\ sorting = <<>> /\ sort_root \in DOMAIN sccs
    /\ sort_root' = sort_root + 1
    /\ visited' = visited \cup {sort_root}
    /\ sorting' = IF sort_root \in visited THEN <<>> ELSE <<sort_root>>
    /\ UNCHANGED <<edges, connectVars, sorted>>

(* Mutant: callers first. *)
sort_sccs_node_reversed ==
    /\ sorting # <<>>
    /\ LET s == Last(sorting)
           left == {p \in SccEdges(s) : SccTarget(s, p) \notin visited}
           t == SccTarget(s, CHOOSE p \in left : \A q \in left : Before(p, q))
       IN /\ visited' = IF left = {} THEN visited ELSE visited \cup {t}
          /\ sorting' = IF left = {} THEN Front(sorting) ELSE Append(sorting, t)
          /\ sorted' = IF left = {} THEN <<rep(s)>> \o sorted ELSE sorted
    /\ UNCHANGED <<edges, connectVars, sort_root>>

(* The innermost call goes on to the next component not visited; when      *)
(* there is none, its own is put down.                                     *)
sort_sccs_node ==
    /\ sorting # <<>>
    /\ LET s == Last(sorting)
           left == {p \in SccEdges(s) : SccTarget(s, p) \notin visited}
           t == SccTarget(s, CHOOSE p \in left : \A q \in left : Before(p, q))
       IN /\ visited' = IF left = {} THEN visited ELSE visited \cup {t}
          /\ sorting' = IF left = {} THEN Front(sorting) ELSE Append(sorting, t)
          /\ sorted' = IF left = {} THEN Append(sorted, rep(s)) ELSE sorted
    /\ UNCHANGED <<edges, connectVars, sort_root>>

SccStep == compute_sccs \/ sort_sccs \/ sort_sccs_node

has_sorted == has_run /\ sorting = <<>> /\ sort_root \notin DOMAIN sccs

-----------------------------------------------------------------------------
(* The questions *)

Successors(S) == UNION {ToSet(edges[v]) : v \in S}

node_has_direct_edge_to_itself(v) == v \in ToSet(edges[v])

get_scc_size(v) == Len(sccs[mapping(v)])

node_is_in_cycle(v) == node_has_direct_edge_to_itself(v) \/ get_scc_size(v) > 1

(* shortest_cycle_back_to_self: the paths of one length at a time, by      *)
(* their last nodes.                                                       *)
Levels(v) ==
    LET L[d \in 1 .. Len(edges)] ==
            IF d = 1 THEN [reached |-> {v}, frontier |-> {v}]
            ELSE LET l == L[d - 1]
                     next == Successors(l.frontier)
                 IN [reached |-> l.reached \cup next, frontier |-> next \ l.reached]
    IN L

(* The length of the cycle returned: the first at which a path has an edge *)
(* back.  0 where there is none, and the code's assertion of a path left   *)
(* fails.                                                                  *)
shortest_cycle_back_to_self(v) ==
    LET back == {d \in 1 .. Len(edges) : v \in Successors(Levels(v)[d].frontier)}
    IN IF back = {} THEN 0 ELSE CHOOSE d \in back : \A e \in back : d <= e

(* The place of a component in the order that sort_sccs returned. *)
SortIndex(order, s) == CHOOSE i \in DOMAIN order : order[i] = rep(s)

(* Mutant: the search is cut on the wrong side. *)
PassedReversed(order, s, tgt) ==
    order # <<>> /\ SortIndex(order, s) > SortIndex(order, tgt)

(* order is the sequence returned by sort_sccs, or <<>> where the code     *)
(* passes None.                                                            *)
Passed(order, s, tgt) ==
    order # <<>> /\ SortIndex(order, s) < SortIndex(order, tgt)

(* can_reach: the components that come onto the worklist.  The order in    *)
(* which they are popped makes no difference, and as many rounds as there  *)
(* are components lead to the last.                                        *)
can_reach(order, source, target) ==
    LET tgt == mapping(target)
        R[n \in 0 .. Len(sccs)] ==
            IF n = 0 THEN {mapping(source)}
            ELSE LET r == R[n - 1]
                     open == {s \in r : s # tgt /\ ~Passed(order, s, tgt)}
                 IN r \cup UNION {{SccTarget(s, p) : p \in SccEdges(s)} : s \in open}
    IN tgt \in R[Len(sccs)]

-----------------------------------------------------------------------------
(* The inductive invariant of compute_sccs and sort_sccs *)

(* w is in every set that holds v and the edges of its nodes stay in. *)
Leads(es, v, w) ==
    \A S \in SUBSET DOMAIN es :
        v \in S /\ (\A x \in S : ToSet(es[x]) \subseteq S) => w \in S

Seen == {v \in Nodes : index[v] # NotVisited}
Calls == ToSet(active)

SccTypes ==
    /\ edges \in Seq(Seq(Nodes))
    /\ index \in [Nodes -> Nat] /\ lowlink \in [Nodes -> Nat]
    /\ on_stack \in SUBSET Nodes /\ stack \in Seq(Nodes)
    /\ counter = Cardinality(Seen)
    /\ sccs \in Seq(Seq(Nodes))
    /\ root \in 1 .. Len(edges) + 1
    /\ active \in Seq(Nodes) /\ edge \in [Nodes -> Nat \ {0}]

(* Nodes are numbered in the order in which they are seen, and both stacks *)
(* are in this order.                                                      *)
Numbered ==
    /\ \A v \in Seen : index[v] < counter
    /\ \A v, w \in Seen : index[v] = index[w] => v = w
    /\ \A v \in Nodes : v < root => v \in Seen

OnStack ==
    /\ on_stack = ToSet(stack) /\ on_stack \subseteq Seen
    /\ \A i, j \in DOMAIN stack : i < j => index[stack[i]] < index[stack[j]]

InCall ==
    /\ Calls \subseteq on_stack
    /\ \A i, j \in DOMAIN active : i < j => index[active[i]] < index[active[j]]
    /\ \A i \in DOMAIN active :
          i < Len(active) => /\ edge[active[i]] \in DOMAIN edges[active[i]]
                             /\ edges[active[i]][edge[active[i]]] = active[i + 1]

(* An edge before the one a call is at has been followed; of a node whose  *)
(* call has returned, all have been.                                       *)
Followed(v, i) == i \in DOMAIN edges[v] /\ i < edge[v]

Progressed ==
    /\ \A v \in Nodes \ Seen : edge[v] = 1
    /\ \A v \in Seen \ Calls : edge[v] > Len(edges[v])
    /\ \A v \in Seen : \A i \in DOMAIN edges[v] : Followed(v, i) => edges[v][i] \in Seen

(* lowlink is the index of a node on the stack that the call's node leads  *)
(* to.                                                                     *)
LowSound ==
    \A g \in Calls :
        /\ lowlink[g] <= index[g]
        /\ \E u \in on_stack : index[u] = lowlink[g] /\ Leads(edges, g, u)

(* A node on the stack leads to all above it, and to one below it, or to   *)
(* itself, whose call has not returned.                                    *)
StackLeads ==
    /\ \A x, y \in on_stack : index[x] <= index[y] => Leads(edges, x, y)
    /\ \A y \in on_stack : \E g \in Calls : index[g] <= index[y] /\ Leads(edges, y, g)

(* The innermost call that was there when y was seen. *)
Owns(g, y) ==
    /\ index[g] <= index[y]
    /\ \A h \in Calls : index[h] <= index[y] => index[h] <= index[g]

(* ... knows of every edge into the stack that was followed since. *)
LowComplete ==
    \A g \in Calls, y \in on_stack :
        Owns(g, y) =>
            \A i \in DOMAIN edges[y] :
                Followed(y, i) /\ edges[y][i] \in on_stack => lowlink[g] <= index[edges[y][i]]

(* The components so far: their nodes are those that left the stack, lead  *)
(* to each other, and lead out of the component only to earlier ones.      *)
InScc(s, v) == s \in DOMAIN sccs /\ v \in ToSet(sccs[s])

Components ==
    /\ \A v \in Nodes : v \in Seen \ on_stack <=> \E s \in DOMAIN sccs : InScc(s, v)
    /\ \A s \in DOMAIN sccs : sccs[s] # <<>>
    /\ \A s, t \in DOMAIN sccs : \A i \in DOMAIN sccs[s], j \in DOMAIN sccs[t] :
          sccs[s][i] = sccs[t][j] => s = t /\ i = j
    /\ \A s \in DOMAIN sccs : \A x, y \in ToSet(sccs[s]) : Leads(edges, x, y)
    /\ \A s \in DOMAIN sccs : \A x \in ToSet(sccs[s]) : \A w \in ToSet(edges[x]) :
          \E t \in 1 .. s : InScc(t, w)

ConnectInv ==
    /\ SccTypes /\ Numbered /\ OnStack /\ InCall /\ Progressed
    /\ LowSound /\ StackLeads /\ LowComplete /\ Components

(* The components come out of compute_sccs in the order that sort_sccs     *)
(* looks for.                                                              *)
SortInv ==
    /\ sort_root \in 1 .. Len(sccs) + 1
    /\ ~has_run => sort_root = 1
    /\ visited = 1 .. sort_root - 1
    /\ sorted \in Seq(Nodes) /\ \A s \in DOMAIN sorted : sorted[s] = rep(s)
    /\ \/ sorting = <<>> /\ Len(sorted) = sort_root - 1
       \/ sorting = <<sort_root - 1>> /\ Len(sorted) = sort_root - 2
=============================================================================
