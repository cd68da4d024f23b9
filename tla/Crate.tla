------------------------------- MODULE Crate --------------------------------
(***************************************************************************)
(* The way of a crate through pruning and the call graph: the merged       *)
(* crates are pruned for the current one and converted                     *)
(* (_compute_merged_crate, query.rs, and simplify_krate), the call graph   *)
(* of what is left is built (GlobalCtx::new), and the crate is pruned      *)
(* again for each bucket (verify_bucket_outer).  One bucket is followed,   *)
(* and the call graph that is kept: simplify_krate builds it anew, after a *)
(* first one, built the same way from what it was given.                   *)
(***************************************************************************)
EXTENDS PruneTwice, CallGraph

crateVars == <<pruneVars, graphVars>>

-----------------------------------------------------------------------------
(* expand_call_graph, add_trait_to_graph, add_trait_impl_to_graph: who     *)
(* depends on whom.  Functions also depend on the spans, modules and       *)
(* requirement nodes the code puts in between, which are left out.         *)
CalledBy(f) ==
    krate.decl[f] \cup krate.body[f] \cup krate.broadcast_use[f]
      \cup (krate.reveal[f] \cap krate.broadcast_forall)

FunEdges(f) ==
    {f} \X ((CalledBy(f) \cap (Funs \cup Groups \cup Traits)) \cup krate.instantiates[f])

(* A copy of a default method calls what the method does; what the trait   *)
(* declares it calls in its own implementation                             *)
(* (redirect_calls_in_default_methods).                                    *)
Redirected(i, f) ==
    LET own == {m \in krate.methods : m.impl = i /\ m.method = f /\ m.fun \in present}
    IN IF own = {} THEN f ELSE (CHOOSE m \in own : TRUE).fun

CopyEdges(m) ==
    {m.fun} \X ({Redirected(m.impl, f) : f \in CalledBy(m.method) \cap Funs}
                  \cup krate.instantiates[m.method])

MethodEdges(m) == {<<m.impl, m.fun>>, <<m.fun, krate.trait[m.impl]>>}

ImplEdges(i) == {i} \X ({krate.trait[i]} \cup (krate.instantiates[i] \ {i}))

TraitEdges(t) == {t} \X ((krate.decl[t] \cap Traits) \cup (krate.declares[t] \cap present))

(* A member may have been pruned: it is a node without edges. *)
GroupEdges(g) == {g} \X krate.members[g]

CallEdges ==
    UNION ({FunEdges(f) : f \in present \cap Funs}
             \cup {MethodEdges(m) : m \in {m \in krate.methods : m.fun \in present}}
             \cup {CopyEdges(m) : m \in {m \in krate.copies : m.fun \in present}}
             \cup {ImplEdges(i) : i \in present \cap Impls}
             \cup {TraitEdges(t) : t \in present \cap Traits}
             \cup {GroupEdges(g) : g \in present \cap Groups})

(* Spec functions and trait implementations are put first; an item that    *)
(* only an edge leads to becomes a node too.  Before them the code puts    *)
(* the implementations for tuples, the traits and the functions without a  *)
(* body; what is proved of the graph does not depend on the order.         *)
CallNodes ==
    LET funs == present \cap Funs
        first == (funs \cap krate.spec) \cup (present \cap Impls)
        ends == (present \cap (Funs \cup Impls \cup Groups \cup Traits))
                  \cup {e[2] : e \in CallEdges} \cup {e[1] : e \in CallEdges}
    IN SetToSeq(funs \cap krate.spec) \o SetToSeq(present \cap Impls)
         \o SetToSeq(funs \ krate.spec) \o SetToSeq(ends \ (funs \cup first))

ImplOf == [x \in Items |->
              IF x \in present /\ \E m \in krate.methods : m.fun = x
              THEN (CHOOSE m \in krate.methods : m.fun = x).impl ELSE NoImpl]

BuildCallGraph ==
    /\ pruning = "converted"
    /\ scope = "crate"
    /\ Build(CallNodes, CallEdges, Funs, ImplOf)
    /\ UNCHANGED pruneVars

Init == PruneInit /\ GraphInit

PruneStep == (Traverse \/ Finish \/ Convert) /\ UNCHANGED graphVars

CallGraphStep == BuildCallGraph \/ (GraphStep /\ UNCHANGED pruneVars)

Bucket == GraphDone /\ PruneForBucket /\ UNCHANGED graphVars

Verified ==
    /\ scope = "bucket" /\ pruning = "no"
    /\ UNCHANGED crateVars

Next == PruneStep \/ CallGraphStep \/ Bucket \/ Verified

Spec == Init /\ [][Next]_crateVars

-----------------------------------------------------------------------------
(* The inductive invariant: what the graph is built from, and the graph. *)
CrateInv ==
    /\ WellFormedKrate(krate)
    /\ present \subseteq Items
    /\ GraphInv
=============================================================================
