------------------------------- MODULE Prune --------------------------------
(***************************************************************************)
(* Pruning (vir/src/prune.rs): before a crate is checked, and again for    *)
(* every bucket of it, the items that nothing asks for are left out.  What *)
(* is kept too much slows the solver down; an item left out that was       *)
(* needed makes a correct program fail, or a declaration go missing.       *)
(*                                                                         *)
(* One worklist traversal (prune_krate_for_module_or_krate) runs twice:    *)
(* over the merged crates, with everything of the current crate as roots,  *)
(* and over what is left of them, with the functions of one bucket as      *)
(* roots.  In between, what is left is converted: methods of traits nobody *)
(* declared become functions, implementations get copies of the default    *)
(* methods they inherit, resolution is inferred, and simplification adds   *)
(* types, implementations and mentions of its own.  Items                  *)
(* are not only reached by being mentioned: a method implementation needs  *)
(* its type and its method, a trait implementation its trait and all its   *)
(* type arguments, a revealed broadcast lemma one of its triggers, and     *)
(* which of these is seen first depends on the order of the traversal.     *)
(*                                                                         *)
(* An expression is what it mentions.  The order in which a visitor meets  *)
(* the mentions of one item is not fixed, so neither is the order in which *)
(* items of one kind are popped.                                           *)
(***************************************************************************)
EXTENDS Naturals, FiniteSets

CONSTANTS Funs, Groups, Types, Traits, Impls, Decls, AssocImpls, Opaques,
          None,     \* ReachedType::None: a type parameter, a closure, ...
          Krates    \* the crates to prune

Items == Funs \cup Groups \cup Types \cup Traits \cup Impls
           \cup Decls \cup AssocImpls \cup Opaques

Mentionable == Funs \cup Types \cup Traits \cup Decls \cup Opaques

Methods == [fun : Funs, method : Funs, self : Types \cup {None}, impl : Impls]

(* What pruning sees of a crate merged with the crates it imports.         *)
KrateRecords ==
    [items : SUBSET Items,                 \* of the merged crates
     own : SUBSET (Items \ Decls),         \* current_crate
     decl : [Items \ (Groups \cup Decls) -> SUBSET Mentionable], \* mentioned by
                                \* the signature, the bounds, the fields
     body : [Funs \cup Types -> SUBSET Mentionable], \* ... by body or variants
     crate_only : [Funs \cup Types -> SUBSET Funs], \* autospec, and a type's
                                \* invariant that the bucket does not see
     shown : [Funs \cup Types -> {"open", "opaque", "closed"}], \* to the bucket
     visible : SUBSET (Groups \cup Types), \* to the bucket
     broadcast_use : [Funs -> SUBSET (Funs \cup Groups)], \* in the body
     reveal : [Funs -> SUBSET Funs],       \* in the body
     members : [Groups -> SUBSET (Funs \cup Groups)],
     default_groups : SUBSET Groups,       \* broadcast_use_by_default_...
     triggers : [Funs -> SUBSET (SUBSET (Funs \cup Types))],
     broadcast_forall : SUBSET Funs,
     methods : SUBSET Methods,
     copies : SUBSET Methods,              \* the default methods an impl may inherit
     made_for : [Funs \cup Impls \cup AssocImpls -> SUBSET (SUBSET Items)], \* what
                                \* the conversions make, when one of these is left
     fresh : SUBSET Types,                 \* there once they are mentioned
     simple_decl : [Items \ (Groups \cup Decls) -> SUBSET Mentionable],
     simple_body : [Funs \cup Types -> SUBSET Mentionable], \* decl and body, converted
     trait : [Impls -> Traits],
     trait_typ_args : [Impls -> SUBSET (Types \cup {None})],
     assoc_decl : [AssocImpls -> Decls],
     assoc_self : [AssocImpls -> Types \cup {None}],
     decl_trait : [Decls -> Traits],
     bucket_funs : SUBSET Funs,            \* the bucket's root functions
     bucket_types : SUBSET Types,          \* its datatypes, {} for one function
     module_reveals : SUBSET (Funs \cup Groups), \* of the bucket's module
     other_reveals : SUBSET (Funs \cup Groups), \* of the crate's other modules
     spec : SUBSET Funs,                   \* for the call graph only, as are
     declares : [Traits -> SUBSET Funs],   \* the methods of a trait and
     instantiates : [Funs \cup Impls -> SUBSET Impls]] \* the impl_paths

WellFormedKrate(c) ==
    /\ c \in KrateRecords
    /\ \A f \in Funs : {} \notin c.triggers[f]
    /\ c.own \cup c.module_reveals \cup c.other_reveals \subseteq c.items
    /\ Groups \cup Traits \cup Decls \cup Opaques \subseteq c.items
    /\ c.bucket_types \subseteq c.own
    /\ c.bucket_funs \subseteq c.own \cup {m.fun : m \in c.copies}
    /\ \A m \in c.copies : c.broadcast_use[m.fun] \cup c.reveal[m.fun] = {}

(* What x mentions in some scope, and after the conversions. *)
MentionedBy(c, x) ==
    c.decl[x] \cup (IF x \in Funs \cup Types THEN c.body[x] \cup c.crate_only[x] ELSE {})
              \cup (IF x \in Funs THEN c.broadcast_use[x] ELSE {})
Simple(c, x) == c.simple_decl[x] \cup (IF x \in Funs \cup Types THEN c.simple_body[x] ELSE {})

(* What the conversions can mention in what they make of the items S:      *)
(* what those mention, and the types of the fields of the types they       *)
(* mention, for a HasResolved of a place or of a part of it.               *)
MayMention(c, S) ==
    LET seen == (S \cap Traits) \cup UNION {MentionedBy(c, y) : y \in S}
    IN seen \cup (Types \cap UNION {MentionedBy(c, t) : t \in seen \cap Types \cap c.items})

(* What there is after the conversions: every item, rewritten, and what is *)
(* made for others.                                                        *)
MadeFrom(c, x) ==
    IF x \in c.items THEN {{x}}
    ELSE IF x \in Funs \cup Impls \cup AssocImpls THEN c.made_for[x] ELSE {}

(* What the conversions find and what they make.  The self type of a       *)
(* method is an argument of its implementation, whose arguments the        *)
(* visitor meets, and a method has its trait as a bound; a trigger has the *)
(* method, not the copy; a type that simplification makes for a closure    *)
(* has the bounds of the function.                                         *)
Convertible(c) ==
    /\ \A i \in Impls \cap c.items : c.trait_typ_args[i] \ {None} \subseteq c.decl[i] \cap c.items
    /\ \A m \in c.methods \cup c.copies : m.self \in c.trait_typ_args[m.impl]
    /\ \A m \in c.methods : m.fun \in c.items
    /\ \A m \in c.copies :
          /\ {m.method, m.impl} \subseteq c.items
          /\ c.trait[m.impl] \in c.decl[m.method]
          /\ c.made_for[m.fun] = {{m.impl, c.trait[m.impl], m.method}}
          /\ \A n \in c.copies : n.fun = m.fun => n = m
          /\ \A f \in Funs : m.fun \notin UNION c.triggers[f]
    /\ \A x \in Funs \cup Impls \cup AssocImpls : c.made_for[x] # {} =>
          /\ x \notin c.items
          /\ \A S \in c.made_for[x] : S \subseteq c.items \ (Groups \cup Decls)
          /\ x \in Funs => c.crate_only[x] = {} /\ \E m \in c.copies : m.fun = x
    /\ \A t \in c.fresh : c.crate_only[t] = {}
    /\ \A x \in Items \ (Groups \cup Decls) : \A S \in MadeFrom(c, x) :
          /\ Simple(c, x) \ c.fresh \subseteq MayMention(c, S)
          /\ \A t \in Simple(c, x) \cap c.fresh : Simple(c, t) \subseteq MayMention(c, S)

ASSUME KrateAssumption ==
    /\ IsFiniteSet(Items)
    /\ None \notin Items
    /\ Funs \cap Groups = {}
    /\ (Funs \cup Groups) \cap (Types \cup Traits \cup Impls \cup Decls
                                  \cup AssocImpls \cup Opaques) = {}
    /\ Types \cap (Traits \cup Impls \cup Decls \cup AssocImpls \cup Opaques) = {}
    /\ Traits \cap (Impls \cup Decls \cup AssocImpls \cup Opaques) = {}
    /\ Impls \cap (Decls \cup AssocImpls \cup Opaques) = {}
    /\ Decls \cap (AssocImpls \cup Opaques) = {}
    /\ AssocImpls \cap Opaques = {}
    /\ \A c \in Krates : WellFormedKrate(c) /\ Convertible(c)

VARIABLES
    krate,     \* the merged crates, then what the conversions make of them
    all,       \* history: the items there would be without the crate's pruning
    scope,     \* "crate": prune for the current crate; "bucket": for one bucket of it
    pruning,   \* "yes" while traverse_reachable runs; "converted" before the bucket's
    present,   \* the items of the krate being pruned
    revealed,  \* revealed_functions, groups included
    reached,   \* state.reached_*
    worklist,  \* state.worklist_*
    fully,     \* state.broadcast_functions_fully_reached
    only       \* the functions marked broadcast_forall_only

pruneVars == <<krate, all, scope, pruning, present, revealed, reached, worklist, fully, only>>

-----------------------------------------------------------------------------
(* What is decided before the traversal *)

(* A copy of a default method is a function of its implementation's bucket. *)
RootFunctions ==
    IF scope = "crate" THEN krate.own \cap Funs ELSE krate.bucket_funs \cap present

RootModulesReveal ==
    krate.module_reveals \cup (IF scope = "crate" THEN krate.other_reveals ELSE {})

VisibleGroups ==
    {g \in present \cap Groups : scope = "crate" \/ g \in krate.visible}

(* What is revealed by name. *)
RevealedDirectly ==
    (UNION {krate.broadcast_use[f] \cup krate.reveal[f] : f \in RootFunctions})
      \cup RootModulesReveal
      \cup (present \cap krate.default_groups)

(* overapproximate_revealed_functions: and the members of what is.  As     *)
(* many rounds as there are groups lead to the last member.                *)
WithMembers(direct, groups) ==
    LET R[n \in 0..Cardinality(Groups)] ==
            IF n = 0 THEN direct
            ELSE LET r == R[n - 1] IN r \cup UNION {krate.members[g] : g \in r \cap groups}
    IN R[Cardinality(Groups)]

RevealedWithMembers == WithMembers(RevealedDirectly, VisibleGroups)

(* fun_revealed_broadcast_map *)
RevealedBroadcasts == revealed \cap present \cap Funs

Roots ==
    (IF scope = "crate" THEN krate.own ELSE RootFunctions \cup krate.bucket_types)
      \cup RootModulesReveal
      \cup (VisibleGroups \cap RevealedDirectly)

(* The body of a function, or the variants of a datatype, are pruned away  *)
(* unless the bucket can see them.                                         *)
HasBody(x) ==
    \/ scope = "crate"
    \/ x \in krate.bucket_funs
    \/ krate.shown[x] = "open"
    \/ krate.shown[x] = "opaque" /\ x \in revealed

-----------------------------------------------------------------------------
(* reach_... : each adds to what is reached only what the krate still has *)

Existing(S) ==
    {x \in S : /\ x \in Funs \cup AssocImpls \cup Impls => x \in present
               /\ x \in Groups => x \in VisibleGroups
               /\ x \in Types => x \in present /\ (scope = "crate" \/ x \in krate.visible)}

(* What the visitors meet in x, a member of the krate. *)
Mentioned(x) ==
    IF x \notin present THEN {}
    ELSE krate.decl[x]
           \cup (IF x \in Funs \cup Types /\ HasBody(x) THEN krate.body[x] ELSE {})
           \cup (IF x \in Funs /\ HasBody(x) THEN krate.broadcast_use[x] ELSE {})
           \cup (IF x \in Funs \cup Types /\ scope = "crate" THEN krate.crate_only[x] ELSE {})

(* reach_function_via_reveal: may f be reached once r is? *)
Activated(f, r) ==
    f \in RevealedBroadcasts => \/ krate.triggers[f] = {}
                                \/ \E trig \in krate.triggers[f] : trig \subseteq r

(* The revealed broadcast functions of which x is part of a trigger. *)
TriggerBroadcasts(x) ==
    {f \in RevealedBroadcasts : \E trig \in krate.triggers[f] : x \in trig}

MethodDecls(f) == {m.method : m \in {m \in krate.methods : m.fun = f}}

(* reached_methods, for self types ts and functions fs: method_map holds   *)
(* the implementations that are in the krate.                              *)
MethodImpls(ts, fs) ==
    {m.fun : m \in {m \in krate.methods : m.self \in ts /\ m.method \in fs /\ m.fun \in present}}

TraitImpls(r) ==
    {i \in Impls : krate.trait[i] \in r /\ krate.trait_typ_args[i] \ {None} \subseteq r}

AssocTypeImpls(ts, ds) ==
    {a \in AssocImpls : krate.assoc_self[a] \in ts /\ krate.assoc_decl[a] \in ds}

(* Mutant: a function that was already reached is not marked. *)
ContinueMarksNew(x, S, calls) ==
    /\ reached' = reached \cup S
    /\ worklist' = (worklist \ {x}) \cup (S \ reached)
    /\ fully' = fully \cup (calls \ reached)
    /\ UNCHANGED <<krate, all, scope, pruning, present, revealed, only>>

(* The traversal goes on with S reached, the functions in calls by more    *)
(* than their being revealed.                                              *)
Continue(x, S, calls) ==
    /\ reached' = reached \cup S
    /\ worklist' = (worklist \ {x}) \cup (S \ reached)
    /\ fully' = fully \cup calls
    /\ UNCHANGED <<krate, all, scope, pruning, present, revealed, only>>

(* The worklists are emptied in this order: an item is popped only when    *)
(* all the earlier kinds have none.                                        *)
Kinds == <<Funs, Groups, Types, Traits, Impls, Decls, AssocImpls, Opaques>>

Popped(kind, x) ==
    /\ pruning = "yes"
    /\ x \in worklist \cap Kinds[kind]
    /\ \A j \in 1 .. kind - 1 : worklist \cap Kinds[j] = {}

(* Mutant: only the types this function mentions are looked at. *)
PopFunctionOwnTypes(f) ==
    /\ Popped(1, f)
    /\ LET decls == Existing(MethodDecls(f))
           broadcasts == {b \in TriggerBroadcasts(f) : Activated(b, reached \cup decls)}
           direct == Existing(Mentioned(f))
           impls == MethodImpls((direct \cap Types) \cup {None}, {f})
       IN Continue(f, decls \cup broadcasts \cup direct \cup impls,
                   (MethodDecls(f) \cup Mentioned(f) \cup impls) \cap (Funs \cup Groups))

PopFunction(f) ==
    /\ Popped(1, f)
    /\ LET decls == Existing(MethodDecls(f))
           broadcasts == {b \in TriggerBroadcasts(f) : Activated(b, reached \cup decls)}
           direct == Existing(Mentioned(f))
           impls == MethodImpls(((reached \cup direct) \cap Types) \cup {None}, {f})
       IN Continue(f, decls \cup broadcasts \cup direct \cup impls,
                   (MethodDecls(f) \cup Mentioned(f) \cup impls) \cap (Funs \cup Groups))

(* reach_reveal_group *)
PopGroup(g) ==
    /\ Popped(2, g)
    /\ LET members == {m \in krate.members[g] : Activated(m, reached)}
       IN Continue(g, Existing(members), members \ RevealedBroadcasts)

PopType(t) ==
    /\ Popped(3, t)
    /\ LET broadcasts == {b \in TriggerBroadcasts(t) : Activated(b, reached)}
           direct == Existing(Mentioned(t))
           r == reached \cup broadcasts \cup direct
           imps == Existing({i \in TraitImpls(r) : t \in krate.trait_typ_args[i]})
           impls == MethodImpls({t}, r \cap Funs)
           assocs == Existing(AssocTypeImpls({t}, r \cap Decls))
       IN Continue(t, broadcasts \cup direct \cup imps \cup impls \cup assocs,
                   (Mentioned(t) \cup impls) \cap Funs)

PopTrait(b) ==
    /\ Popped(4, b)
    /\ LET imps == Existing({i \in TraitImpls(reached) : krate.trait[i] = b})
       IN Continue(b, imps \cup Existing(Mentioned(b)), Mentioned(b) \cap Funs)

(* A trait implementation, an associated type implementation or an opaque  *)
(* type leads to what it mentions.                                         *)
PopOther(x) ==
    /\ Popped(5, x) \/ Popped(7, x) \/ Popped(8, x)
    /\ Continue(x, Existing(Mentioned(x)), Mentioned(x) \cap Funs)

(* The trait of a declaration is reached, in the krate or not. *)
PopDecl(a) ==
    /\ Popped(6, a)
    /\ Continue(a, Existing(AssocTypeImpls((reached \cap Types) \cup {None}, {a}))
                     \cup {krate.decl_trait[a]}, {})

-----------------------------------------------------------------------------
PruneInit ==
    /\ krate \in Krates
    /\ scope = "crate"
    /\ pruning = "yes"
    /\ all = krate.items
    /\ present = krate.items
    /\ revealed = RevealedWithMembers
    /\ reached = Roots
    /\ worklist = Roots
    /\ fully = {}
    /\ only = {}

(* The krate that is returned: what was reached, with set_broadcast_only. *)
Finish ==
    /\ pruning = "yes"
    /\ worklist = {}
    /\ pruning' = "no"
    /\ present' = present \cap reached
    /\ only' = only \cup ((krate.broadcast_forall \cap present \cap reached) \ fully)
    /\ UNCHANGED <<krate, all, scope, revealed, reached, worklist, fully>>

-----------------------------------------------------------------------------
(* Between the two prunings *)

(* Is there a method in Q that implements what the copy m would? *)
Overridden(m, Q) ==
    \E o \in krate.methods : o.impl = m.impl /\ o.method = m.method /\ o.fun \in Q

(* Mutant: the default method is copied whether it is overridden or not. *)
MadeRegardless ==
    {x \in Funs \cup Impls \cup AssocImpls : \E S \in krate.made_for[x] : S \subseteq present}

(* inherit_default_bodies copies a default method into an implementation   *)
(* of its trait that has none of its own.  simplify_krate makes            *)
(* implementations of the closure traits for closures and for functions    *)
(* used as values, and of Tuple, Clone and Copy for tuples.                *)
Made ==
    {x \in Funs \cup Impls \cup AssocImpls :
        /\ \E S \in krate.made_for[x] : S \subseteq present
        /\ ~\E m \in krate.copies : m.fun = x /\ Overridden(m, present)}

(* The types that need no declaration, or get one once they are mentioned: *)
(* integers, tuples, the types of functions and closures.                  *)
Introduced ==
    {t \in krate.fresh : \E x \in (present \cup Made) \ (Groups \cup Decls) : t \in Simple(krate, x)}

(* demote_external_traits: the method of a trait nobody declared is not    *)
(* one, as far as the merged crates, not what is left of them, declare it. *)
MethodsDeclared == {m \in krate.methods : m.method \in krate.items}

(* Without the crate's pruning the same would be made, and default methods *)
(* be copied into all the implementations of what is left; but an item it  *)
(* dropped because no one had mentioned a type that only the conversions   *)
(* mention is not expected back.                                           *)
Awaits(x) ==
    (IF x \in Impls THEN krate.trait_typ_args[x] ELSE {})
      \cup (IF x \in AssocImpls THEN {krate.assoc_self[x]} ELSE {})
      \cup (IF x \in Funs THEN UNION krate.triggers[x] ELSE {})
      \cup {m.self : m \in {m \in krate.methods : m.fun = x}}
Late == {x \in all \ present : Awaits(x) \cap (Introduced \ present) # {}}
Copies == {m.fun : m \in krate.copies}
CopiesDue ==
    {m.fun : m \in {m \in krate.copies :
        /\ m.method \in present
        /\ krate.trait_typ_args[m.impl] \ {None} \subseteq present
        /\ ~Overridden(m, all)}}

(* What is left is converted: by _compute_merged_crate, after the pruning, *)
(* and by simplify_krate.                                                  *)
Convert ==
    /\ pruning = "no"
    /\ scope = "crate"
    /\ pruning' = "converted"
    /\ krate' = [krate EXCEPT !.decl = krate.simple_decl, !.body = krate.simple_body,
                              !.methods = MethodsDeclared \cup krate.copies]
    /\ present' = present \cup Made \cup Introduced
    /\ all' = (all \ Late) \cup CopiesDue \cup (Made \ Copies) \cup Introduced
    /\ UNCHANGED <<scope, revealed, reached, worklist, fully, only>>

(* verify_bucket_outer: prune what is left for one bucket. *)
PruneForBucket ==
    /\ pruning = "converted"
    /\ scope = "crate"
    /\ UNCHANGED <<krate, all, present, only>>
    /\ pruning' = "yes"
    /\ scope' = "bucket"
    /\ revealed' = RevealedWithMembers'
    /\ reached' = Roots'
    /\ worklist' = Roots'
    /\ fully' = {}

Traverse ==
    \/ \E f \in Funs : PopFunction(f)
    \/ \E g \in Groups : PopGroup(g)
    \/ \E t \in Types : PopType(t)
    \/ \E b \in Traits : PopTrait(b)
    \/ \E a \in Decls : PopDecl(a)
    \/ \E x \in Impls \cup AssocImpls \cup Opaques : PopOther(x)

PruneNext == Traverse \/ Finish \/ Convert \/ PruneForBucket

PruneSpec == PruneInit /\ [][PruneNext]_pruneVars

-----------------------------------------------------------------------------
(* Properties *)

(* What has to be kept along with P, said without an order: R holds what   *)
(* the items of P mention, the methods they declare or implement, and the  *)
(* implementations and the lemmas for which they are all that is needed.   *)
MentionsKept(P, R) ==
    \A x \in P \ (Groups \cup Decls) : Existing(Mentioned(x)) \subseteq R
MethodsKept(P, R) ==
    \A m \in krate.methods :
        /\ m.fun \in P => Existing({m.method}) \subseteq R
        /\ m.method \in P /\ m.self \in P \cup {None} => Existing({m.fun}) \subseteq R
TraitImplsKept(P, R) ==
    \A i \in Impls \cap present :
        krate.trait[i] \in P /\ krate.trait_typ_args[i] \ {None} \subseteq P => i \in R
AssocTypesKept(P, R) ==
    /\ \A a \in AssocImpls \cap present :
          krate.assoc_decl[a] \in P /\ krate.assoc_self[a] \in P \cup {None} => a \in R
    /\ \A d \in Decls \cap P : krate.decl_trait[d] \in R
LemmasKept(P, R) ==
    \A f \in RevealedBroadcasts :
        (\E trig \in krate.triggers[f] : trig \subseteq P) => f \in R
MembersKept(P, R) ==
    \A g \in Groups \cap P : \A m \in Existing(krate.members[g]) :
        m \notin RevealedBroadcasts \/ krate.triggers[m] = {} => m \in R

Needed(P, R) ==
    /\ MentionsKept(P, R)
    /\ MethodsKept(P, R)
    /\ TraitImplsKept(P, R)
    /\ AssocTypesKept(P, R)
    /\ LemmasKept(P, R)
    /\ MembersKept(P, R)

Closed(S) == Needed(S, S)

(* R holds the roots and all they need, and no part of it would do. *)
ExactlyNeeded(R) ==
    /\ Roots \subseteq R
    /\ Closed(R)
    /\ \A S \in SUBSET (R \ Roots) : Closed(Roots \cup S) => Roots \cup S = R

(* Whatever the order of the traversal, it ends with exactly what is       *)
(* needed: a method implementation, a trait implementation or a broadcast  *)
(* lemma is kept if and only if all it depends on is, whichever of these   *)
(* was reached last.                                                       *)
KeptExactly == pruning = "yes" /\ worklist = {} => ExactlyNeeded(reached)

(* The requires and ensures of a function marked broadcast_forall_only are *)
(* not declared to the solver, so nothing that is kept may mention it,     *)
(* whichever way and whenever it was reached, for the crate or the bucket. *)
BroadcastOnlyNeverCalled ==
    pruning = "no" => \A f \in only \cap present, x \in (present \cap reached) \ (Groups \cup Decls) :
                    f \notin Mentioned(x)

(* The inductive invariant behind the theorems of CrateProofs.  While the  *)
(* traversal runs, the items it is done with have all they need among the  *)
(* reached ones, and what is reached lies in every closed set.             *)
TypesOK ==
    /\ WellFormedKrate(krate)
    /\ scope = "crate" /\ pruning # "converted" => krate \in Krates /\ present \subseteq krate.items
    /\ scope \in {"crate", "bucket"}
    /\ pruning \in {"yes", "no", "converted"}
    /\ scope = "bucket" => pruning # "converted"
    /\ reached \subseteq Items
    /\ worklist \subseteq reached
    /\ only \subseteq Funs
Processed == reached \ worklist
NoneMissing == pruning = "yes" => Roots \subseteq reached /\ Needed(Processed, reached)
NoneTooMuch ==
    pruning = "yes" => \A S \in SUBSET Items : Roots \subseteq S /\ Closed(S) => reached \subseteq S

(* The functions mentioned by what is done with are marked as reached by a *)
(* call, and what the first pruning marked nothing mentions in any scope.  *)
CallsMarked ==
    pruning = "yes" =>
        \A x \in Processed \ (Groups \cup Decls) : Mentioned(x) \cap Funs \subseteq fully
EverMentioned(x) == MentionedBy(krate, x)
OnlyBroadcast ==
    IF pruning = "yes" /\ scope = "crate" THEN only = {}
    ELSE pruning = "yes" \/ scope = "crate" =>
            \A f \in only, x \in present \ (Groups \cup Decls) : f \notin EverMentioned(x)

PruneInv ==
    /\ TypesOK
    /\ NoneMissing
    /\ NoneTooMuch
    /\ CallsMarked
    /\ OnlyBroadcast
    /\ BroadcastOnlyNeverCalled
=============================================================================
