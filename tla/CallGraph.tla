----------------------------- MODULE CallGraph ------------------------------
(***************************************************************************)
(* The call graph of a pruned crate (GlobalCtx::new, vir/src/context.rs):  *)
(* its nodes are functions, broadcast groups, traits and trait             *)
(* implementations.  It is built in two passes.  The preliminary graph     *)
(* lacks the edges from a function to the trait implementations whose      *)
(* methods it calls; they are added where the preliminary graph has no     *)
(* path back, and the final graph is sorted again.                         *)
(*                                                                         *)
(* A cycle through a trait or a trait implementation is an error           *)
(* (recursive_types.rs, check_traits).                                     *)
(***************************************************************************)
EXTENDS Scc

CONSTANT NoImpl

VARIABLES
    graphStep,       \* "none", then the graph Scc is run on: "preliminary", "final"
    nodes,           \* the items of the graph, in the order in which they were added
    isFun,           \* the nodes that are functions
    methodImpl,      \* method_impl_map: the implementation a function is a method of
    func_call_graph, \* the edges, with those that were added
    scc, f4, f1      \* the three loops in which they are, by places

loopVars == <<scc, f4, f1>>
callVars == <<graphStep, nodes, isFun, methodImpl, func_call_graph, loopVars>>
graphVars == <<sccVars, callVars>>

GraphInit ==
    /\ edges = <<>> /\ index = <<>> /\ lowlink = <<>> /\ edge = <<>>
    /\ on_stack = {} /\ stack = <<>> /\ counter = 0 /\ sccs = <<>>
    /\ root = 1 /\ active = <<>>
    /\ sort_root = 1 /\ sorting = <<>> /\ visited = {} /\ sorted = <<>>
    /\ graphStep = "none"
    /\ nodes = <<>>
    /\ isFun = {}
    /\ methodImpl = <<>>
    /\ func_call_graph = <<>>
    /\ scc = 1 /\ f4 = 1 /\ f1 = 1

NodeOf(ns, x) == CHOOSE v \in DOMAIN ns : ns[v] = x

(* Nodes ns, the pairs es of items as edges, funs the functions of them.   *)
(* The graph that is run first is a clone.                                 *)
Build(ns, es, funs, implOf) ==
    LET graph == [v \in DOMAIN ns |-> SetToSeq({NodeOf(ns, e[2]) : e \in {e \in es : e[1] = ns[v]}})]
    IN /\ graphStep = "none"
       /\ graphStep' = "preliminary"
       /\ nodes' = ns
       /\ func_call_graph' = graph
       /\ Fresh(graph)
       /\ isFun' = {v \in DOMAIN ns : ns[v] \in funs}
       /\ methodImpl' = [v \in DOMAIN ns |->
                           IF implOf[ns[v]] = NoImpl THEN 0 ELSE NodeOf(ns, implOf[ns[v]])]
       /\ UNCHANGED loopVars

Sort ==
    /\ graphStep # "none"
    /\ SccStep
    /\ UNCHANGED callVars

Adding == graphStep = "preliminary" /\ has_sorted

get_scc_nodes(t) == sccs[mapping(t)]

(* One node f4 of a component, one edge of it, to f1. *)
AddEdge ==
    /\ Adding /\ scc \in DOMAIN sorted /\ f4 \in DOMAIN get_scc_nodes(sorted[scc])
    /\ LET node_f4 == get_scc_nodes(sorted[scc])[f4]
           trait_impl == methodImpl[edges[node_f4][f1]]
       IN /\ node_f4 \in isFun /\ f1 \in DOMAIN edges[node_f4]
          /\ func_call_graph' =
                IF \/ trait_impl = 0
                   \/ trait_impl \in ToSet(func_call_graph[node_f4])
                   \/ can_reach(sorted, trait_impl, node_f4)
                THEN func_call_graph
                ELSE [func_call_graph EXCEPT ![node_f4] = Append(@, trait_impl)]
    /\ f1' = f1 + 1
    /\ UNCHANGED <<sccVars, graphStep, nodes, isFun, methodImpl, scc, f4>>

NextNode ==
    /\ Adding /\ scc \in DOMAIN sorted /\ f4 \in DOMAIN get_scc_nodes(sorted[scc])
    /\ LET node_f4 == get_scc_nodes(sorted[scc])[f4]
       IN node_f4 \notin isFun \/ f1 \notin DOMAIN edges[node_f4]
    /\ f4' = f4 + 1
    /\ f1' = 1
    /\ UNCHANGED <<sccVars, graphStep, nodes, isFun, methodImpl, func_call_graph, scc>>

NextScc ==
    /\ Adding /\ scc \in DOMAIN sorted /\ f4 \notin DOMAIN get_scc_nodes(sorted[scc])
    /\ scc' = scc + 1
    /\ f4' = 1
    /\ UNCHANGED <<sccVars, graphStep, nodes, isFun, methodImpl, func_call_graph, f1>>

Added == Adding /\ scc \notin DOMAIN sorted

Final ==
    /\ Added
    /\ graphStep' = "final"
    /\ Fresh(func_call_graph)
    /\ UNCHANGED <<nodes, isFun, methodImpl, func_call_graph, loopVars>>

GraphStep == Sort \/ AddEdge \/ NextNode \/ NextScc \/ Final

GraphDone == graphStep = "final" /\ has_sorted

-----------------------------------------------------------------------------
(* Properties *)

(* The nodes reached from v over one or more edges. *)
ReachedFrom(es, v) ==
    LET R[n \in 0 .. Len(es)] ==
            IF n = 0 THEN ToSet(es[v])
            ELSE LET r == R[n - 1] IN r \cup UNION {ToSet(es[w]) : w \in r}
    IN R[Len(es)]

(* Whatever the order of the edges, every node is at one place in the      *)
(* components, and two nodes are in the same one exactly when each can be  *)
(* reached from the other: a recursion is never split over two components, *)
(* where its termination would not be checked, nor two functions put       *)
(* together that do not depend on each other.                              *)
ComponentsExact ==
    graphStep # "none" /\ has_sorted =>
        /\ \A v \in Nodes : \E s \in DOMAIN sccs : \E i \in DOMAIN sccs[s] :
              /\ sccs[s][i] = v
              /\ \A t \in DOMAIN sccs : \A j \in DOMAIN sccs[t] :
                    sccs[t][j] = v => t = s /\ j = i
        /\ \A v, w \in Nodes :
              v # w => ((mapping(v) = mapping(w))
                          <=> (w \in ReachedFrom(edges, v) /\ v \in ReachedFrom(edges, w)))

(* sort_sccs: one representative of each component, and "later elements    *)
(* point only to earlier elements", so that whatever a definition uses is  *)
(* declared to the solver before it.                                       *)
CalleesFirst ==
    graphStep # "none" /\ has_sorted =>
        /\ Len(sorted) = Len(sccs)
        /\ \A v \in Nodes :
              /\ get_scc_rep(v) \in ToSet(sorted)
              /\ \A w \in ToSet(edges[v]) :
                    SortIndex(sorted, mapping(w)) <= SortIndex(sorted, mapping(v))

(* The answers that other checks are built on are those of the graph:      *)
(* can_reach, with the order used to cut its search short and without;     *)
(* node_is_in_cycle; and the cycle shown to the user, which exists for     *)
(* every node in one and is as short as any.                               *)
AnswersExact ==
    graphStep # "none" /\ has_sorted =>
        \A v \in Nodes :
            LET from == ReachedFrom(edges, v)
                n == shortest_cycle_back_to_self(v)
                Within[k \in 0 .. n] == IF k = 0 THEN {v} ELSE Successors(Within[k - 1])
            IN /\ \A w \in Nodes, order \in {<<>>, sorted} :
                     can_reach(order, v, w) <=> (w = v \/ w \in from)
               /\ node_is_in_cycle(v) <=> v \in from
               /\ v \in from => n > 0 /\ v \in Within[n] /\ \A k \in 1 .. n - 1 : v \notin Within[k]

(* "In the final call graph, we add the edge Fun(f4) --> TraitImpl, based  *)
(* on the fact that f4 calls one of { f1, f3 }, but the TraitImpl does not *)
(* depend on f4" (context.rs): an edge that was added closes no cycle.     *)
AddedEdgesCloseNoCycle ==
    Added =>
        \A v \in isFun :
            \A i \in ToSet(func_call_graph[v]) \ ToSet(edges[v]) :
                v \notin ReachedFrom(func_call_graph, i)

(* What is true of it: no edge that was added closes a cycle with those of *)
(* the preliminary graph alone, which is all that can_reach looked at.     *)
AddedEdgesLeadNotBack ==
    graphStep = "preliminary" =>
        \A v \in Nodes :
            \A i \in ToSet(func_call_graph[v]) \ ToSet(edges[v]) :
                v # i /\ v \notin ReachedFrom(edges, i)

-----------------------------------------------------------------------------
(* The inductive invariant behind the theorems of CrateProofs: both graphs *)
(* are well formed, and Scc's own invariants hold of the one it runs on.   *)
NoneLeadsBack ==
    \A v \in Nodes : \A i \in ToSet(func_call_graph[v]) \ ToSet(edges[v]) : ~Leads(edges, i, v)

GraphInv ==
    /\ ConnectInv /\ SortInv
    /\ func_call_graph \in Seq(Seq(DOMAIN func_call_graph))
    /\ graphStep = "preliminary" => /\ DOMAIN func_call_graph = Nodes
                                    /\ methodImpl \in [Nodes -> Nodes \cup {0}]
                                    /\ NoneLeadsBack
=============================================================================
