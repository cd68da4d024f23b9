----------------------------- MODULE PruneTwice -----------------------------
(***************************************************************************)
(* The two prunings of a crate together: the bucket's is run over what the *)
(* crate's has left and the conversions have made of it                    *)
(* (verify_bucket_outer, verifier.rs), with what is revealed, visible and  *)
(* present looked up in that.                                              *)
(***************************************************************************)
EXTENDS Prune

(* The functions that were not kept and of whose triggers none was. *)
Useless ==
    {f \in Funs \ reached :
        /\ krate.triggers[f] # {}
        /\ \A trig \in krate.triggers[f] : ~(trig \subseteq reached)}

(* The bucket's pruning of the crates as they were merged and converted,   *)
(* with groups that do not hold the useless lemmas.                        *)
Lighter == [krate EXCEPT !.members = [g \in Groups |-> @[g] \ Useless]]
Merged == INSTANCE Prune WITH present <- all
Unpruned ==
    INSTANCE Prune WITH
        present <- all, revealed <- Merged!RevealedWithMembers, krate <- Lighter

(* Pruning for the crate first loses nothing that a bucket needs: what is  *)
(* kept for the bucket is what would be kept of the crates as they were    *)
(* merged, and converted, although what is revealed, visible and present   *)
(* was looked up in what the first pruning had left, the conversions made  *)
(* copies only for what was left, and they mention what was not mentioned  *)
(* when it ran.  There are two exceptions.  One is a lemma that a group    *)
(* would bring in without being asked for: where another function of the   *)
(* crate reveals it, the first pruning drops it when no trigger is kept.   *)
(* The other is what waits for a type that only the conversions mention,   *)
(* and the copies of methods, and for implementations, nobody asked for.   *)
BucketLosesNothing ==
    scope = "bucket" /\ worklist = {} => Unpruned!ExactlyNeeded(reached)

-----------------------------------------------------------------------------
(* The inductive invariant behind BucketLosesNothing: until the bucket's   *)
(* pruning ends, the krate it prunes has all that the rules of the crate's *)
(* pruning ask for.                                                        *)
CrateReveals ==
    (UNION {krate.broadcast_use[f] \cup krate.reveal[f] : f \in krate.own \cap Funs})
      \cup krate.module_reveals \cup krate.other_reveals \cup krate.default_groups
CrateLemmas == WithMembers(CrateReveals, Groups) \cap Funs

FirstRules ==
    /\ \A x \in present \ (Groups \cup Decls) : EverMentioned(x) \cap all \subseteq present
    /\ \A m \in krate.methods :
          /\ m.fun \in present /\ m.method \in all => m.method \in present
          /\ m.method \in present /\ m.self \in present \cup {None} /\ m.fun \in all
                => m.fun \in present
    /\ \A i \in Impls \cap all :
          krate.trait[i] \in present /\ krate.trait_typ_args[i] \ {None} \subseteq present
             => i \in present
    /\ \A a \in AssocImpls \cap all :
          krate.assoc_decl[a] \in present /\ krate.assoc_self[a] \in present \cup {None}
             => a \in present
    /\ \A d \in Decls \cap present : krate.decl_trait[d] \in present
    /\ \A f \in CrateLemmas \cap all :
          (\E trig \in krate.triggers[f] : trig \subseteq present) => f \in present
    /\ \A g \in Groups \cap present : \A m \in krate.members[g] \cap all :
          m \notin CrateLemmas \/ krate.triggers[m] = {} => m \in present

FirstComplete ==
    /\ present \subseteq all /\ all \subseteq Items
    /\ Groups \cup Traits \cup Decls \cup Opaques \subseteq all
    /\ Copies \cap all \subseteq present
    /\ krate.own \cup krate.module_reveals \cup krate.other_reveals
         \cup (Groups \cap CrateReveals) \subseteq present
    /\ FirstRules

TwiceInv ==
    /\ pruning = "yes" => revealed = RevealedWithMembers
    /\ scope = "crate" /\ pruning # "converted" => all = krate.items
    /\ scope = "crate" /\ pruning = "yes" => present = all
    /\ scope = "crate" /\ pruning # "yes" => FirstComplete
    /\ scope = "bucket" /\ pruning = "yes" => FirstComplete
    /\ pruning = "no" => worklist = {}
    /\ scope = "bucket" /\ pruning = "no" => Unpruned!ExactlyNeeded(reached)
=============================================================================
